---------------------------- MODULE MCLifecycle -----------------------------
(* The first process finds no file, one that an earlier process saved, or    *)
(* one that was saved with a larger max_size.                                *)
EXTENDS Lifecycle

MCSavedBefore == {<<>>, <<3>>, <<1, 2, 3>>}
=============================================================================
