-------------------------------- MODULE Feed --------------------------------
(***************************************************************************)
(* What a buffer and its publisher promise together, whatever retries,     *)
(* puts back, reconnects and flushes: a feed from the processor to the     *)
(* broker that delivers every item at least once and in order.  An item it *)
(* has accepted waits until the broker has it.  It can lose one before     *)
(* that in two ways only: more items wait than it has room for, or it is   *)
(* being stopped.                                                          *)
(*                                                                         *)
(* Publisher implements it; that is checked as a refinement there.         *)
(***************************************************************************)
EXTENDS Integers, Sequences, FiniteSets, SequencesExt

CONSTANTS
  Items,     \* the items of the feed, numbered in the order they are stored
  Capacity   \* what may wait without a loss

VARIABLES
  running,   \* nobody has stopped the feed
  waiting,   \* the items it still has to deliver, or to be sure of
  delivered  \* what the broker was given, in that order

vars == <<running, waiting, delivered>>

-----------------------------------------------------------------------------
\* The sequences (there is one) that list the items in S in their order.
InOrder(S) ==
  {s \in [1 .. Cardinality(S) -> S] : \A i, j \in 1 .. Cardinality(S) : i < j => s[i] < s[j]}

\* The k items that have waited longest.
Oldest(k) == {x \in waiting : Cardinality({y \in waiting : y < x}) < k}

\* How many of the items in S there is no room for.
Overflow(S) == IF Cardinality(S) > Capacity THEN Cardinality(S) - Capacity ELSE 0

Start == ~running /\ running' = TRUE /\ UNCHANGED <<waiting, delivered>>

\* New items come, or items come back; those without room are lost.
Accept(S, lost) ==
  /\ \A x \in S : \A y \in waiting \cup ToSet(delivered) : y < x
  /\ lost \subseteq waiting \cup S
  /\ Cardinality(lost) <= Overflow(waiting \cup S)
  /\ waiting' = (waiting \cup S) \ lost
  /\ UNCHANGED <<running, delivered>>

\* The broker has the oldest items, which the feed does not know yet.
Deliver(k) ==
  /\ delivered' \in {delivered \o s : s \in InOrder(Oldest(k))}
  /\ UNCHANGED <<running, waiting>>

Confirm(k) ==
  /\ Oldest(k) \subseteq ToSet(delivered)
  /\ waiting' = waiting \ Oldest(k)
  /\ UNCHANGED <<running, delivered>>

\* A stop gives up what is being delivered, which may arrive all the same.
Abandon(k) ==
  /\ running' = FALSE
  /\ waiting' = waiting \ Oldest(k)
  /\ delivered' = delivered \/ delivered' \in {delivered \o s : s \in InOrder(Oldest(k))}

Init == running = FALSE /\ waiting = {} /\ delivered = <<>>

Next ==
  \/ Start
  \/ \E S \in SUBSET Items : \E lost \in SUBSET (waiting \cup S) : Accept(S, lost)
  \/ \E k \in 0 .. Cardinality(waiting) : Deliver(k) \/ Confirm(k) \/ Abandon(k)

Spec == Init /\ [][Next]_vars
=============================================================================
