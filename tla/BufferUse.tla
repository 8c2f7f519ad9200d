----------------------------- MODULE BufferUse ------------------------------
(***************************************************************************)
(* A DataBuffer and the way its two clients use it: a processor puts fresh *)
(* items, one publisher takes a batch and either confirms it or puts it    *)
(* back in front.  clear() and get_all() may be called at any time.        *)
(***************************************************************************)
EXTENDS DataBuffer

CONSTANTS
  MaxItems,       (* bound: how many items the producer makes              *)
  MaxReturns      (* bound: how many items the consumer may put back       *)

ASSUME BufferUseAssumption == MaxItems \in Nat /\ MaxReturns \in Nat

VARIABLES
  produced,           (* the last item the producer made                   *)
  taken,              (* the batch the consumer holds, <<>> if none        *)
  accepted,           (* every item a put has accepted                     *)
  gone,               (* items the consumer confirmed or clear() erased    *)
  returned,           (* how many items put_front has taken back           *)
  erased              (* how many items clear() has erased                 *)

clientVars == <<produced, taken, accepted, gone, returned, erased>>
vars == <<bufferVars, clientVars>>
-----------------------------------------------------------------------------
Init ==
  /\ BufferInit
  /\ produced = 0
  /\ taken = <<>>
  /\ accepted = {}
  /\ gone = {}
  /\ returned = 0
  /\ erased = 0

\* k fresh items, in the order in which they were made.
Fresh(k) == [i \in 1 .. k |-> produced + i]

\* The processor stores one item, or the items of one collection.
Produce(k) ==
  /\ produced + k <= MaxItems
  /\ PutMany(Fresh(k))
  /\ produced' = produced + k
  /\ accepted' = accepted \cup {produced + i : i \in 1 .. AcceptedCount(Fresh(k))}
  /\ UNCHANGED <<taken, gone, returned, erased>>

\* The publisher takes the next batch.
Take(size) ==
  /\ taken = <<>>
  /\ GetBatch(size)
  /\ taken' = Batch(size)
  /\ UNCHANGED <<produced, accepted, gone, returned, erased>>

TakeAll ==
  /\ taken = <<>>
  /\ GetAll
  /\ taken' = buffer
  /\ UNCHANGED <<produced, accepted, gone, returned, erased>>

\* The batch was published.
Confirm ==
  /\ taken # <<>>
  /\ gone' = gone \cup ToSet(taken)
  /\ taken' = <<>>
  /\ UNCHANGED <<bufferVars, produced, accepted, returned, erased>>

\* The batch was not published and goes back.
Return ==
  /\ taken # <<>>
  /\ returned + Len(taken) <= MaxReturns
  /\ PutFront(taken)
  /\ returned' = returned + FrontCount(taken)
  /\ taken' = <<>>
  /\ UNCHANGED <<produced, accepted, gone, erased>>

Erase ==
  /\ Clear
  /\ gone' = gone \cup ToSet(buffer)
  /\ erased' = erased + Len(buffer)
  /\ UNCHANGED <<produced, taken, accepted, returned>>

Next ==
  \/ \E k \in 1 .. MaxItems : Produce(k)
  \/ \E size \in 1 .. BatchSize : Take(size)
  \/ TakeAll
  \/ Confirm
  \/ Return
  \/ Erase

Spec == Init /\ [][Next]_vars
-----------------------------------------------------------------------------
(* Properties.                                                             *)

\* Every variable has its type.
TypeOK ==
  /\ BufferTypeOK
  /\ produced \in Nat
  /\ taken \in Seq(Nat)
  /\ accepted \in SUBSET Nat
  /\ gone \in SUBSET Nat
  /\ returned \in Nat
  /\ erased \in Nat

\* Whatever mixture of puts, failed batches put back and overflows happens,
\* the deque never outgrows max_size (buffer.py:223-230 and 250-263 each
\* make room before they add, and only on the side they add to).
SizeBound == Len(buffer) <= MaxSize

\* The statistics add up: what went in, from either end, is in the deque,
\* was handed out, was counted as overflow or was erased (buffer.py:226,
\* 253, 264, 319, 344, 371).
Accounting ==
  total_put + returned = Len(buffer) + total_get + total_overflow + erased

\* First in, first out, across a failed batch: the deque is in production
\* order and what the consumer holds is older than all of it, so a batch put
\* back lands before everything that arrived meanwhile (buffer.py:221-231).
FifoOrder ==
  /\ \A i, j \in 1 .. Len(buffer) : i < j => buffer[i] < buffer[j]
  /\ \A i, j \in 1 .. Len(taken) : i < j => taken[i] < taken[j]
  /\ \A i \in 1 .. Len(taken), j \in 1 .. Len(buffer) : taken[i] < buffer[j]

\* The threshold alarm is armed again as soon as the deque is below the
\* threshold: a set flag always means that it is not, whichever method
\* emptied it (buffer.py:322-324, 346, 372, 378-379).
AlarmArmed == threshold_notified => Len(buffer) >= ThresholdSize

\* What is nowhere any more although a put accepted it.
Missing == accepted \ (ToSet(buffer) \cup ToSet(taken) \cup gone)

\* No silent loss while drop_oldest is set: each item that disappeared is
\* one that total_overflow counts, from whichever end it was dropped
\* (buffer.py:223-228 and 250-260).
LossIsCounted == drop_oldest => Cardinality(Missing) = total_overflow
=============================================================================
