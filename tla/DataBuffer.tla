----------------------------- MODULE DataBuffer -----------------------------
(***************************************************************************)
(* The in-memory queue between a processor and a publisher                 *)
(* (src/core/buffer.py, class DataBuffer): its variables, and one operator *)
(* per method, an action on these variables alone.  The modules that       *)
(* contain a buffer extend this one and compose these actions with their   *)
(* own; BufferUse is the smallest of them.                                 *)
(*                                                                         *)
(* Every method runs under one asyncio.Lock and awaits nothing that        *)
(* suspends it while it changes the deque, so a method is one step.  Items *)
(* are the natural numbers in the order in which they are produced: what   *)
(* an item holds is of no consequence to the buffer.                       *)
(***************************************************************************)
EXTENDS Integers, FiniteSets, SequencesExt

CONSTANTS
  MaxSize,        (* max_size: the buffer's capacity                       *)
  BatchSize,      (* batch_size: what get_batch takes by default           *)
  ThresholdSize,  (* int(max_size * threshold_ratio)                       *)
  Policies        (* the values of drop_oldest that are considered         *)

ASSUME DataBufferAssumption ==
  /\ MaxSize \in Nat \ {0}
  /\ BatchSize \in Nat \ {0}
  /\ ThresholdSize \in 0 .. MaxSize
  /\ Policies \subseteq BOOLEAN

VARIABLES
  drop_oldest,        (* _drop_oldest: what a put on a full buffer does    *)
  buffer,             (* _buffer, oldest item first                        *)
  total_put,          (* _stats                                            *)
  total_get,
  total_overflow,
  max_size_reached,
  threshold_notified  (* _threshold_notified                               *)

stats == <<total_put, total_get, total_overflow, max_size_reached>>
bufferVars == <<drop_oldest, buffer, stats, threshold_notified>>
-----------------------------------------------------------------------------
\* A mistake: the full test is `>` for `>=`.
ExcessOffByOne(n, k) ==
  IF n > MaxSize THEN k
  ELSE IF n + k > MaxSize + 1 THEN n + k - MaxSize - 1 ELSE 0

\* How many of k items do not fit into a deque that holds n.
Excess(n, k) ==
  IF n >= MaxSize THEN k
  ELSE IF n + k > MaxSize THEN n + k - MaxSize ELSE 0

\* The deque after k appends: a full buffer drops its oldest item for each
\* append, or refuses the append.
AfterPut(items) ==
  LET excess == Excess(Len(buffer), Len(items))
      all == buffer \o items
  IN  IF drop_oldest THEN SubSeq(all, excess + 1, Len(all))
      ELSE SubSeq(all, 1, Len(all) - excess)

\* What put_many returns, and what total_put grows by.
AcceptedCount(items) ==
  IF drop_oldest THEN Len(items)
  ELSE Len(items) - Excess(Len(buffer), Len(items))

\* put and put_many: _put_internal for each item, in order.
PutMany(items) ==
  /\ buffer' = AfterPut(items)
  /\ total_put' = total_put + AcceptedCount(items)
  /\ total_overflow' = total_overflow
       + (IF drop_oldest THEN Excess(Len(buffer), Len(items)) ELSE 0)
  /\ max_size_reached' =
       IF AcceptedCount(items) > 0 /\ Len(AfterPut(items)) > max_size_reached
       THEN Len(AfterPut(items)) ELSE max_size_reached
  /\ threshold_notified' =
       (threshold_notified
        \/ (AcceptedCount(items) > 0 /\ Len(AfterPut(items)) >= ThresholdSize))
  /\ UNCHANGED <<drop_oldest, total_get>>

\* A mistake: a failed batch goes behind what arrived in the meantime.
AfterPutFrontAtBack(items) == AfterPut(items)

\* The deque after put_front: each item of the batch, last one first, goes
\* to the left; a full buffer loses its newest item for it, or takes no more.
AfterPutFront(items) ==
  LET excess == Excess(Len(buffer), Len(items))
      all == items \o buffer
  IN  IF drop_oldest THEN SubSeq(all, 1, Len(all) - excess)
      ELSE SubSeq(all, excess + 1, Len(all))

\* What put_front returns.
FrontCount(items) ==
  IF drop_oldest THEN Len(items)
  ELSE Len(items) - Excess(Len(buffer), Len(items))

\* A mistake: put_front drops an item without counting it.
PutFrontUncounted(items) ==
  /\ buffer' = AfterPutFront(items)
  /\ UNCHANGED <<drop_oldest, stats, threshold_notified>>

PutFront(items) ==
  /\ buffer' = AfterPutFront(items)
  /\ total_overflow' = total_overflow
       + (IF drop_oldest THEN Excess(Len(buffer), Len(items)) ELSE 0)
  /\ UNCHANGED <<drop_oldest, total_put, total_get, max_size_reached,
                 threshold_notified>>

\* How many items get_batch(size) takes, and which.
BatchLen(size) == IF size < Len(buffer) THEN size ELSE Len(buffer)
Batch(size) == SubSeq(buffer, 1, BatchLen(size))

\* get_batch once _wait_for_data has seen an item.  A timeout changes nothing.
GetBatch(size) ==
  /\ buffer # <<>>
  /\ buffer' = SubSeq(buffer, BatchLen(size) + 1, Len(buffer))
  /\ total_get' = total_get + BatchLen(size)
  /\ threshold_notified' =
       (threshold_notified /\ Len(buffer) - BatchLen(size) >= ThresholdSize)
  /\ UNCHANGED <<drop_oldest, total_put, total_overflow, max_size_reached>>

\* A mistake: get_all leaves the flag of the threshold alarm set.
GetAllKeepsFlag ==
  /\ buffer' = <<>>
  /\ total_get' = total_get + Len(buffer)
  /\ UNCHANGED <<drop_oldest, total_put, total_overflow, max_size_reached,
                 threshold_notified>>

GetAll ==
  /\ buffer' = <<>>
  /\ total_get' = total_get + Len(buffer)
  /\ threshold_notified' = FALSE
  /\ UNCHANGED <<drop_oldest, total_put, total_overflow, max_size_reached>>

Clear ==
  /\ buffer' = <<>>
  /\ threshold_notified' = FALSE
  /\ UNCHANGED <<drop_oldest, stats>>

\* __init__ without a persisted file.
BufferInit ==
  /\ drop_oldest \in Policies
  /\ buffer = <<>>
  /\ total_put = 0 /\ total_get = 0 /\ total_overflow = 0
  /\ max_size_reached = 0
  /\ threshold_notified = FALSE

BufferTypeOK ==
  /\ drop_oldest \in BOOLEAN
  /\ buffer \in Seq(Nat)
  /\ total_put \in Nat /\ total_get \in Nat /\ total_overflow \in Nat
  /\ max_size_reached \in 0 .. MaxSize
  /\ threshold_notified \in BOOLEAN
=============================================================================
