----------------------------- MODULE MCOnChange -----------------------------
(* OnChange in polling mode and in on_change mode with each kind of        *)
(* deadband.                                                               *)
EXTENDS OnChange

MCModes ==
  {[mode |-> "polling", deadband |-> 0, deadband_type |-> "absolute"],
   [mode |-> "on_change", deadband |-> 0, deadband_type |-> "absolute"],
   [mode |-> "on_change", deadband |-> 1, deadband_type |-> "absolute"],
   [mode |-> "on_change", deadband |-> 60, deadband_type |-> "percent"]}

\* Tag 1 drifts from zero, where the others are read with it, and may be
\* missing from a reading; and a collection that failed.
MCReadings ==
  {[t \in Tags |-> IF t = 1 THEN v ELSE Absent] : v \in Values \ {0}}
  \cup {[t \in Tags |-> IF t = 1 THEN v ELSE 0] : v \in {0, Absent}}
  \cup {[t \in Tags |-> None]}
=============================================================================
