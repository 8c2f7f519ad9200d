----------------------------- MODULE MCEventBus -----------------------------
(* EventBus with events of two types, which alternate.                     *)
EXTENDS EventBus

MCTypeOf == [e \in 1 .. MaxEvents |-> IF e % 2 = 1 THEN "collected" ELSE "connected"]
=============================================================================
