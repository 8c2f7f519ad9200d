--------------------------- MODULE PublisherProofs --------------------------
(***************************************************************************)
(* Proofs about Publisher, for every capacity, batch size, number of       *)
(* retries and bound: the types, TasksEndBeforeFlush, NoSilentLoss and     *)
(* ResentOnlyAfterFailure.                                                 *)
(*                                                                         *)
(* None of the three is inductive.  Control says which of the three        *)
(* coroutines may be where at the same time; without it the flush could    *)
(* overwrite a batch of the loop.  Apart and Reported say that an item     *)
(* waits in one place only and that one the broker has waits only after a  *)
(* failure, so that a new attempt repeats no other; LossCounted needs      *)
(* Arrived, that a confirmed batch is at the broker.                       *)
(*                                                                         *)
(* The last part is the refinement: each action is of one of ten kinds     *)
(* (Rests, Starts, Stops, Takes, GivesUp, Sends, Confirms, Drops, PutsBack,*)
(* Stores), and each kind is a step of Feed or leaves Feed's state alone.  *)
(* What Feed says of an order of delivery follows from Ordered.            *)
(***************************************************************************)
EXTENDS Publisher, QueueLemmas, FiniteSetTheorems

Item == 1 .. MaxItems

\* Types, as the steps need them.
Typed ==
  /\ drop_oldest \in BOOLEAN /\ threshold_notified \in BOOLEAN
  /\ total_put \in Nat /\ total_get \in Nat /\ total_overflow \in Nat
  /\ buffer \in Seq(Item) /\ Len(buffer) <= MaxSize /\ max_size_reached \in 0 .. MaxSize
  /\ batch \in Seq(Item) /\ received \in Seq(Item)
  /\ is_running \in BOOLEAN /\ is_connected \in BOOLEAN /\ exchange \in BOOLEAN
  /\ link \in BOOLEAN /\ broker_up \in BOOLEAN
  /\ flush_size \in 0 .. FlushBatch /\ flush_left \in 0 .. 3
  /\ produced \in 0 .. MaxItems /\ faults \in Nat /\ starts \in Nat
  /\ accepted \subseteq Item /\ failed \subseteq Item /\ abandoned \subseteq Item

\* Where the three coroutines may be at the same time, and what a message, a batch
\* and the number of the attempt say of it.
Control ==
  /\ publish_task \in {"none", "sleep", "get", "publish", "retry", "done"}
  /\ reconnect_task \in {"none", "sleep", "connect", "done"}
  /\ caller \in {"idle", "starting", "running", "stop_reconnect", "stop_publish",
                 "flush_get", "flush_publish", "disconnecting"}
  /\ message \in {"none", "sent", "arrived", "broken"}
  /\ caller \notin {"running", "stop_reconnect", "stop_publish"} =>
       publish_task \in {"none", "done"}
  /\ caller # "running" => reconnect_task \in {"none", "done"}
  /\ is_running <=> caller \in {"starting", "running"}
  /\ message # "none" <=> publish_task = "publish" \/ caller = "flush_publish"
  /\ batch # <<>> => publish_task \in {"publish", "retry"} \/ caller = "flush_publish"
  /\ attempt \in 0 .. MaxRetries
  /\ publish_task = "retry" => attempt < MaxRetries
  /\ starts = 0 => caller = "idle"

\* An item waits in one place, and every item has been produced.
Apart ==
  /\ Distinct(buffer) /\ Distinct(batch)
  /\ ToSet(batch) \cap ToSet(buffer) = {}
  /\ ToSet(buffer) \cup ToSet(batch) \cup ToSet(received) \subseteq 1 .. produced

\* What the broker has and what still waits, or what it has twice, has failed.
Reported ==
  /\ ToSet(received) \cap ToSet(buffer) \subseteq failed
  /\ message \in {"none", "sent"} => ToSet(received) \cap ToSet(batch) \subseteq failed
  /\ \A i, j \in 1 .. Len(received) :
       received[i] = received[j] /\ i # j => received[i] \in failed

Arrived == message = "arrived" => ToSet(batch) \subseteq ToSet(received)

LossCounted ==
  drop_oldest => IsFiniteSet(Missing) /\ Cardinality(Missing) <= total_overflow

\* Nothing is given up before the first stop().
Kept == starts = 0 \/ (starts = 1 /\ is_running) => abandoned = {}

IInv ==
  /\ Typed
  /\ Control
  /\ Apart
  /\ Reported
  /\ Arrived
  /\ LossCounted
  /\ Kept
-----------------------------------------------------------------------------
(* The deque's operations.                                                 *)

LEMMA ExcessFacts ==
  ASSUME NEW n \in Nat, NEW k \in Nat
  PROVE  /\ Excess(n, k) \in 0 .. k
         /\ n <= MaxSize => n + k - Excess(n, k) <= MaxSize
<1>1. MaxSize \in Nat
  BY DataBufferAssumption
<1> QED
  BY <1>1 DEF Excess

\* put_many and put_front: no more items are lost than the buffer has no room for.
LEMMA PutFacts ==
  ASSUME buffer \in Seq(Item), Len(buffer) <= MaxSize, NEW items \in Seq(Item),
         NEW r, r = AfterPut(items) \/ r = AfterPutFront(items)
  PROVE  LET both == ToSet(buffer) \cup ToSet(items)
             excess == Excess(Len(buffer), Len(items))
         IN  /\ r \in Seq(Item) /\ Len(r) <= MaxSize
             /\ ToSet(r) \subseteq both
             /\ Distinct(buffer) /\ Distinct(items) /\ ToSet(buffer) \cap ToSet(items) = {}
                  => Distinct(r)
             /\ excess \in Nat
             /\ IsFiniteSet(both \ ToSet(r)) /\ Cardinality(both \ ToSet(r)) <= excess
<1> DEFINE both == ToSet(buffer) \cup ToSet(items)
           e == Excess(Len(buffer), Len(items))
           back == buffer \o items
           front == items \o buffer
           n == Len(buffer) + Len(items)
<1>1. Len(buffer) \in Nat /\ Len(items) \in Nat
  BY LenProperties
<1>2. e \in 0 .. Len(items) /\ n - e <= MaxSize
  BY <1>1, ExcessFacts
<1>3. /\ back \in Seq(Item) /\ Len(back) = Len(buffer) + Len(items) /\ ToSet(back) = both
      /\ Distinct(buffer) /\ Distinct(items) /\ ToSet(buffer) \cap ToSet(items) = {}
           => Distinct(back)
  BY MembersOfBoth
<1>4. /\ front \in Seq(Item) /\ Len(front) = Len(items) + Len(buffer) /\ ToSet(front) = both
      /\ Distinct(buffer) /\ Distinct(items) /\ ToSet(buffer) \cap ToSet(items) = {}
           => Distinct(front)
  BY MembersOfBoth
<1>5. /\ \/ AfterPut(items) = SubSeq(back, e + 1, Len(back))
         \/ AfterPut(items) = SubSeq(back, 1, Len(back) - e)
      /\ \/ AfterPutFront(items) = SubSeq(front, e + 1, Len(front))
         \/ AfterPutFront(items) = SubSeq(front, 1, Len(front) - e)
  BY DEF AfterPut, AfterPutFront
<1> HIDE DEF both, e, back, front
<1>6. PICK all \in {back, front} :
        r = SubSeq(all, e + 1, Len(all)) \/ r = SubSeq(all, 1, Len(all) - e)
  BY <1>5
<1>7. /\ all \in Seq(Item) /\ Len(all) = n /\ ToSet(all) = both
      /\ Distinct(buffer) /\ Distinct(items) /\ ToSet(buffer) \cap ToSet(items) = {}
           => Distinct(all)
  BY <1>1, <1>3, <1>4, <1>6
<1>8. e \in 0 .. Len(all)
  BY <1>1, <1>2, <1>7
<1>9. /\ r \in Seq(Item) /\ Len(r) = Len(all) - e
      /\ ToSet(r) \subseteq ToSet(all)
      /\ Distinct(all) => Distinct(r)
      /\ IsFiniteSet(ToSet(all) \ ToSet(r)) /\ Cardinality(ToSet(all) \ ToSet(r)) <= e
  BY <1>6, <1>7, <1>8, TrimmedQueue
<1> QED
  BY <1>1, <1>2, <1>7, <1>9 DEF both, e

\* get_batch divides the deque.
LEMMA TakeFacts ==
  ASSUME buffer \in Seq(Item), NEW size \in Nat, GetBatch(size)
  PROVE  /\ Batch(size) \in Seq(Item) /\ buffer' \in Seq(Item)
         /\ Len(buffer') <= Len(buffer)
         /\ ToSet(buffer) = ToSet(Batch(size)) \cup ToSet(buffer')
         /\ Distinct(buffer) => /\ Distinct(Batch(size)) /\ Distinct(buffer')
                                /\ ToSet(Batch(size)) \cap ToSet(buffer') = {}
<1> DEFINE m == BatchLen(size)
           b == Batch(size)
<1>1. Len(buffer) \in Nat
  BY LenProperties
<1>2. m \in 0 .. Len(buffer)
  BY <1>1 DEF BatchLen
<1>3. b = SubSeq(buffer, 1, m) /\ buffer' = SubSeq(buffer, m + 1, Len(buffer))
  BY DEF Batch, GetBatch
<1> HIDE DEF m, b
<1>4. /\ b \in Seq(Item) /\ Len(b) = m
      /\ buffer' \in Seq(Item) /\ Len(buffer') = Len(buffer) - m
      /\ ToSet(buffer) = ToSet(b) \cup ToSet(buffer')
      /\ Distinct(buffer) => /\ Distinct(b) /\ Distinct(buffer')
                             /\ ToSet(b) \cap ToSet(buffer') = {}
  BY <1>2, <1>3, MembersOfParts
<1> QED
  BY <1>1, <1>2, <1>4 DEF b

\* The items of one collection are new.
LEMMA FreshFacts ==
  ASSUME produced \in 0 .. MaxItems, NEW k \in Nat, produced + k <= MaxItems
  PROVE  LET items == [i \in 1 .. k |-> produced + i]
         IN  /\ items \in Seq(Item) /\ Len(items) = k /\ Distinct(items)
             /\ ToSet(items) \subseteq 1 .. produced + k
             /\ ToSet(items) \cap (1 .. produced) = {}
             /\ \A n \in 0 .. k : {items[i] : i \in 1 .. n} \subseteq ToSet(items)
             /\ {items[i] : i \in 1 .. k} = ToSet(items)
<1> DEFINE items == [i \in 1 .. k |-> produced + i]
<1>1. MaxItems \in Nat
  BY PublisherAssumption
<1>2. \A i \in 1 .. k : produced + i \in Item
  BY <1>1 DEF Item
<1>3. items \in Seq(Item)
  BY <1>2
<1>4. Len(items) = k /\ DOMAIN items = 1 .. k /\ \A i \in 1 .. k : items[i] = produced + i
  BY <1>3, LenProperties
<1> HIDE DEF items
<1>5. Distinct(items)
  BY <1>4 DEF Distinct
<1>6. ToSet(items) = {items[i] : i \in 1 .. k}
  BY <1>4 DEF ToSet
<1>7. \A x \in ToSet(items) : x \in 1 .. produced + k /\ x \notin 1 .. produced
  BY <1>4, <1>6
<1>8. \A n \in 0 .. k : {items[i] : i \in 1 .. n} \subseteq ToSet(items)
  BY <1>6
<1> QED
  BY <1>3, <1>4, <1>5, <1>6, <1>7, <1>8 DEF items

\* What is lost in a step adds to what was lost before.
LEMMA LossAdds ==
  ASSUME NEW A, NEW B, NEW C, NEW n \in Nat, NEW k \in Nat,
         IsFiniteSet(A), Cardinality(A) <= n, IsFiniteSet(B), Cardinality(B) <= k,
         C \subseteq A \cup B
  PROVE  IsFiniteSet(C) /\ Cardinality(C) <= n + k
<1>1. /\ IsFiniteSet(A \cup B)
      /\ Cardinality(A \cup B) = Cardinality(A) + Cardinality(B) - Cardinality(A \cap B)
  BY FS_Union
<1>2. IsFiniteSet(A \cap B)
  BY FS_Subset
<1>3. /\ Cardinality(A) \in Nat /\ Cardinality(B) \in Nat
      /\ Cardinality(A \cap B) \in Nat
  BY <1>2, FS_CardinalityType
<1>4. Cardinality(A \cup B) <= n + k
  BY <1>1, <1>3
<1>5. IsFiniteSet(C) /\ Cardinality(C) <= Cardinality(A \cup B)
  BY <1>1, FS_Subset
<1>6. Cardinality(C) \in Nat /\ Cardinality(A \cup B) \in Nat
  BY <1>1, <1>5, FS_CardinalityType
<1> QED
  BY <1>4, <1>5, <1>6
-----------------------------------------------------------------------------
(* Each step preserves the invariant.                                      *)

LEMMA LoopHeads ==
  \A running, connected : LoopHead(running, connected) \in {"done", "get", "sleep"}
BY DEF LoopHead

\* Where every item is, and how it was counted.
places == <<drop_oldest, buffer, total_overflow, batch, received, produced, accepted,
            failed, abandoned>>

\* A step that moves no item; it may break a message.
LEMMA PlacesKept ==
  ASSUME IInv, UNCHANGED places,
         message' = message \/ message' = "broken",
         starts' = 0 \/ (starts' = 1 /\ is_running') => starts = 0 \/ (starts = 1 /\ is_running)
  PROVE  Apart' /\ Reported' /\ Arrived' /\ LossCounted' /\ Kept'
<1>1. UNCHANGED <<drop_oldest, buffer, total_overflow, batch, received, produced, accepted,
                  failed, abandoned>>
  BY DEF places
<1>2. Apart'
  BY <1>1 DEF IInv, Apart
<1>3. Reported' /\ Arrived'
  BY <1>1 DEF IInv, Reported, Arrived
<1>4. LossCounted'
  BY <1>1 DEF IInv, LossCounted, Missing
<1>5. Kept'
  BY <1>1 DEF IInv, Kept
<1> QED
  BY <1>2, <1>3, <1>4, <1>5

\* The steps of the three coroutines and of the broker that move no item.
LEMMA QuietInvariant ==
  ASSUME IInv,
         \/ LoopWakes \/ ReconnectWakes \/ Reconnects
         \/ StartBegins \/ StartEnds \/ StopBegins
         \/ FlushBegins \/ FlushEnds \/ StopEnds
         \/ LinkBreaks \/ BrokerReturns \/ LinkReturns
  PROVE  IInv'
<1>1. UNCHANGED <<drop_oldest, buffer, total_put, total_get, total_overflow, max_size_reached,
                  threshold_notified, batch, attempt, received, produced, accepted, failed,
                  abandoned>>
  BY DEF LoopWakes, ReconnectWakes, Reconnects, StartBegins, StartEnds, StopBegins,
         FlushBegins, FlushEnds, StopEnds, LinkBreaks, BrokerReturns, LinkReturns,
         bufferVars, stats, network, history
<1>2. /\ is_running \in BOOLEAN /\ is_connected \in BOOLEAN /\ exchange \in BOOLEAN
      /\ link \in BOOLEAN /\ broker_up \in BOOLEAN
      /\ flush_size \in 0 .. FlushBatch /\ flush_left \in 0 .. 3
      /\ faults \in Nat /\ starts \in Nat /\ Len(buffer) \in Nat
  BY LenProperties DEF IInv, Typed
<1>3. /\ publish_task \in {"none", "sleep", "get", "publish", "retry", "done"}
      /\ reconnect_task \in {"none", "sleep", "connect", "done"}
      /\ caller \in {"idle", "starting", "running", "stop_reconnect", "stop_publish",
                     "flush_get", "flush_publish", "disconnecting"}
      /\ message \in {"none", "sent", "arrived", "broken"}
  BY DEF IInv, Control
<1>4. /\ caller \notin {"running", "stop_reconnect", "stop_publish"} =>
           publish_task \in {"none", "done"}
      /\ caller # "running" => reconnect_task \in {"none", "done"}
      /\ is_running <=> caller \in {"starting", "running"}
      /\ message # "none" <=> publish_task = "publish" \/ caller = "flush_publish"
      /\ batch # <<>> => publish_task \in {"publish", "retry"} \/ caller = "flush_publish"
      /\ publish_task = "retry" => attempt < MaxRetries
      /\ starts = 0 => caller = "idle"
  BY DEF IInv, Control
<1> DEFINE Kind ==
      /\ is_running' \in BOOLEAN /\ is_connected' \in BOOLEAN /\ exchange' \in BOOLEAN
      /\ link' \in BOOLEAN /\ broker_up' \in BOOLEAN
      /\ flush_size' \in 0 .. FlushBatch /\ flush_left' \in 0 .. 3
      /\ faults' \in Nat /\ starts' \in Nat
    Places ==
      /\ publish_task' \in {"none", "sleep", "get", "publish", "retry", "done"}
      /\ reconnect_task' \in {"none", "sleep", "connect", "done"}
      /\ caller' \in {"idle", "starting", "running", "stop_reconnect", "stop_publish",
                      "flush_get", "flush_publish", "disconnecting"}
      /\ message' \in {"none", "sent", "arrived", "broken"}
    Rules ==
      /\ caller' \notin {"running", "stop_reconnect", "stop_publish"} =>
           publish_task' \in {"none", "done"}
      /\ caller' # "running" => reconnect_task' \in {"none", "done"}
      /\ is_running' <=> caller' \in {"starting", "running"}
      /\ message' # "none" <=> publish_task' = "publish" \/ caller' = "flush_publish"
      /\ batch' # <<>> => publish_task' \in {"publish", "retry"} \/ caller' = "flush_publish"
      /\ publish_task' = "retry" => publish_task = "retry"
      /\ starts' = 0 => caller' = "idle"
    Little ==
      /\ message' = message \/ message' = "broken"
      /\ starts' = 0 \/ (starts' = 1 /\ is_running') => starts = 0 \/ (starts = 1 /\ is_running)
<1>5. ASSUME LoopWakes  PROVE Kind /\ Places /\ Rules /\ Little
  <2>1. UNCHANGED <<is_running, is_connected, exchange, link, broker_up, flush_size, flush_left,
                    faults, starts, reconnect_task, caller, message>>
    BY <1>5 DEF LoopWakes, flush, network
  <2>2. publish_task \in {"sleep", "get"} /\ publish_task' \in {"done", "get", "sleep"}
    BY <1>5, LoopHeads DEF LoopWakes
  <2> QED
    BY <2>1, <2>2, <1>1, <1>2, <1>3, <1>4
<1>6. ASSUME ReconnectWakes  PROVE Kind /\ Places /\ Rules /\ Little
  <2>1. UNCHANGED <<is_running, is_connected, exchange, link, broker_up, flush_size, flush_left,
                    faults, starts, publish_task, caller, message>>
    BY <1>6 DEF ReconnectWakes, flush, network
  <2>2. reconnect_task = "sleep" /\ reconnect_task' \in {"done", "connect", "sleep"}
    BY <1>6 DEF ReconnectWakes
  <2> QED
    BY <2>1, <2>2, <1>1, <1>2, <1>3, <1>4
<1>7. ASSUME Reconnects  PROVE Kind /\ Places /\ Rules /\ Little
  <2>1. /\ UNCHANGED <<is_running, broker_up, flush_size, flush_left, faults, starts,
                       publish_task, caller, message>>
        /\ is_connected' \in BOOLEAN /\ exchange' \in BOOLEAN /\ link' \in BOOLEAN
    BY <1>7 DEF Reconnects, ConnectSucceeds, ConnectFails, flush
  <2>2. reconnect_task = "connect" /\ reconnect_task' = "sleep"
    BY <1>7 DEF Reconnects
  <2> QED
    BY <2>1, <2>2, <1>1, <1>2, <1>3, <1>4
<1>8. ASSUME StartBegins  PROVE Kind /\ Places /\ Rules /\ Little
  <2>1. /\ UNCHANGED <<is_connected, exchange, link, broker_up, flush_size, flush_left,
                       faults, publish_task, reconnect_task, message>>
        /\ is_running' = TRUE /\ caller = "idle" /\ caller' = "starting"
        /\ starts' = starts + 1
    BY <1>8 DEF StartBegins, flush, network
  <2> QED
    BY <2>1, <1>1, <1>2, <1>3, <1>4
<1>9. ASSUME StartEnds  PROVE Kind /\ Places /\ Rules /\ Little
  <2>1. /\ UNCHANGED <<is_running, broker_up, flush_size, flush_left, faults, starts, message>>
        /\ is_connected' \in BOOLEAN /\ exchange' \in BOOLEAN /\ link' \in BOOLEAN
        /\ caller = "starting" /\ caller' = "running"
        /\ reconnect_task' \in {reconnect_task, "sleep"}
    BY <1>9 DEF StartEnds, ConnectSucceeds, ConnectFails, flush
  <2>2. publish_task' \in {"done", "get", "sleep"}
    BY <1>9, LoopHeads DEF StartEnds
  <2> QED
    BY <2>1, <2>2, <1>1, <1>2, <1>3, <1>4
<1>10. ASSUME StopBegins  PROVE Kind /\ Places /\ Rules /\ Little
  <2>1. /\ UNCHANGED <<is_connected, exchange, link, broker_up, flush_size, flush_left,
                       faults, starts, publish_task, message>>
        /\ is_running' = FALSE /\ caller = "running" /\ caller' = "stop_reconnect"
        /\ reconnect_task' = "done"
    BY <1>10 DEF StopBegins, flush, network
  <2> QED
    BY <2>1, <1>1, <1>2, <1>3, <1>4
<1>11. ASSUME FlushBegins  PROVE Kind /\ Places /\ Rules /\ Little
  <2>1. /\ UNCHANGED <<is_running, is_connected, exchange, link, broker_up,
                       faults, starts, publish_task, reconnect_task, message>>
        /\ caller = "stop_publish" /\ publish_task = "done"
        /\ caller' \in {"flush_get", "disconnecting"}
        /\ flush_size' = BatchLen(FlushBatch) /\ flush_left' = 3
    BY <1>11 DEF FlushBegins, network
  <2>2. flush_size' \in 0 .. FlushBatch
    BY <2>1, <1>2, PublisherAssumption DEF BatchLen
  <2> QED
    BY <2>1, <2>2, <1>1, <1>2, <1>3, <1>4
<1>12. ASSUME FlushEnds  PROVE Kind /\ Places /\ Rules /\ Little
  <2>1. /\ UNCHANGED <<is_running, is_connected, exchange, link, broker_up, flush_size,
                       flush_left, faults, starts, publish_task, reconnect_task, message>>
        /\ caller = "flush_get" /\ caller' = "disconnecting"
    BY <1>12 DEF FlushEnds, flush, network
  <2> QED
    BY <2>1, <1>1, <1>2, <1>3, <1>4
<1>13. ASSUME StopEnds  PROVE Kind /\ Places /\ Rules /\ Little
  <2>1. /\ UNCHANGED <<is_running, broker_up, flush_size,
                       flush_left, faults, starts, publish_task, reconnect_task, message>>
        /\ is_connected' = FALSE /\ exchange' = FALSE /\ link' = FALSE
        /\ caller = "disconnecting" /\ caller' = "idle"
    BY <1>13 DEF StopEnds, flush
  <2> QED
    BY <2>1, <1>1, <1>2, <1>3, <1>4
<1>14. ASSUME LinkBreaks  PROVE Kind /\ Places /\ Rules /\ Little
  <2>1. /\ UNCHANGED <<is_running, is_connected, exchange, flush_size, flush_left, starts,
                       publish_task, reconnect_task, caller>>
        /\ link' \in BOOLEAN /\ broker_up' \in BOOLEAN /\ faults' = faults + 1
        /\ message' = IF message = "none" THEN "none" ELSE "broken"
    BY <1>14 DEF LinkBreaks, flush, tasks
  <2> QED
    BY <2>1, <1>1, <1>2, <1>3, <1>4
<1>15. ASSUME BrokerReturns \/ LinkReturns  PROVE Kind /\ Places /\ Rules /\ Little
  <2>1. /\ UNCHANGED <<is_running, is_connected, exchange, flush_size, flush_left, starts,
                       publish_task, reconnect_task, caller, faults, message>>
        /\ link' \in BOOLEAN /\ broker_up' \in BOOLEAN
    BY <1>15, <1>2 DEF BrokerReturns, LinkReturns, flush, tasks
  <2> QED
    BY <2>1, <1>1, <1>2, <1>3, <1>4
<1>16. Kind /\ Places /\ Rules /\ Little
  BY <1>5, <1>6, <1>7, <1>8, <1>9, <1>10, <1>11, <1>12, <1>13, <1>14, <1>15
<1>17. Typed'
  BY <1>1, <1>16 DEF IInv, Typed
<1>18. Control'
  BY <1>1, <1>16 DEF IInv, Control
<1>19. Apart' /\ Reported' /\ Arrived' /\ LossCounted' /\ Kept'
  BY <1>1, <1>16, PlacesKept DEF places
<1> QED
  BY <1>17, <1>18, <1>19 DEF IInv

\* A failed batch that is put back into the buffer.
LEMMA PutBackEffect ==
  ASSUME IInv, PutFront(batch), batch' = <<>>,
         UNCHANGED <<received, produced, accepted, abandoned>>,
         failed \subseteq failed', ToSet(received) \cap ToSet(batch) \subseteq failed',
         message' = "none"
  PROVE  /\ buffer' \in Seq(Item) /\ Len(buffer') <= MaxSize /\ total_overflow' \in Nat
         /\ Apart' /\ Reported' /\ Arrived' /\ LossCounted'
<1> DEFINE both == ToSet(buffer) \cup ToSet(batch)
           excess == Excess(Len(buffer), Len(batch))
<1>1. /\ buffer \in Seq(Item) /\ Len(buffer) <= MaxSize /\ batch \in Seq(Item)
      /\ received \in Seq(Item) /\ total_overflow \in Nat
  BY DEF IInv, Typed
<1>2. /\ Distinct(buffer) /\ Distinct(batch)
      /\ ToSet(batch) \cap ToSet(buffer) = {}
      /\ ToSet(buffer) \cup ToSet(batch) \cup ToSet(received) \subseteq 1 .. produced
  BY DEF IInv, Apart
<1>3. /\ buffer' = AfterPutFront(batch) /\ drop_oldest' = drop_oldest
      /\ total_overflow' = total_overflow + (IF drop_oldest THEN excess ELSE 0)
  BY DEF PutFront
<1>4. /\ buffer' \in Seq(Item) /\ Len(buffer') <= MaxSize
      /\ ToSet(buffer') \subseteq both
      /\ Distinct(buffer')
      /\ excess \in Nat
      /\ IsFiniteSet(both \ ToSet(buffer')) /\ Cardinality(both \ ToSet(buffer')) <= excess
  <2>1. ToSet(buffer) \cap ToSet(batch) = {}
    BY <1>2
  <2> QED
    BY <2>1, <1>1, <1>2, <1>3, PutFacts
<1> HIDE DEF excess
<1>5. total_overflow' \in Nat
  BY <1>1, <1>3, <1>4
<1>6. ToSet(batch') = {} /\ Distinct(batch')
  BY NoMembers
<1>7. Apart'
  BY <1>2, <1>4, <1>6 DEF Apart
<1>8. Reported' /\ Arrived'
  BY <1>4, <1>6 DEF IInv, Reported, Arrived
<1>9. LossCounted'
  <2> SUFFICES ASSUME drop_oldest  PROVE IsFiniteSet(Missing') /\ Cardinality(Missing') <= total_overflow'
    BY <1>3 DEF LossCounted
  <2>1. IsFiniteSet(Missing) /\ Cardinality(Missing) <= total_overflow
    BY DEF IInv, LossCounted
  <2>2. Missing' \subseteq Missing \cup (both \ ToSet(buffer'))
    BY <1>6 DEF Missing
  <2>3. IsFiniteSet(Missing') /\ Cardinality(Missing') <= total_overflow + excess
    BY <2>1, <2>2, <1>1, <1>4, LossAdds
  <2> QED
    BY <2>3, <1>3
<1> QED
  BY <1>4, <1>5, <1>7, <1>8, <1>9

\* What the loop does with a batch after a failed attempt.
LEMMA AfterFailure ==
  ASSUME IInv, publish_task \in {"publish", "retry"},
         NEW n \in 0 .. MaxRetries, LoopAfterFailure(n),
         UNCHANGED <<is_running, caller, reconnect_task, received, starts, produced, accepted,
                     abandoned>>,
         failed \subseteq failed', ToSet(received) \cap ToSet(batch) \subseteq failed',
         message' = "none"
  PROVE  /\ drop_oldest' \in BOOLEAN /\ threshold_notified' \in BOOLEAN
         /\ total_put' \in Nat /\ total_get' \in Nat /\ total_overflow' \in Nat
         /\ buffer' \in Seq(Item) /\ Len(buffer') <= MaxSize
         /\ max_size_reached' \in 0 .. MaxSize
         /\ batch' \in Seq(Item)
         /\ Control' /\ Apart' /\ Reported' /\ Arrived' /\ LossCounted' /\ Kept'
<1>1. /\ drop_oldest \in BOOLEAN /\ threshold_notified \in BOOLEAN
      /\ total_put \in Nat /\ total_get \in Nat /\ total_overflow \in Nat
      /\ buffer \in Seq(Item) /\ Len(buffer) <= MaxSize /\ max_size_reached \in 0 .. MaxSize
      /\ batch \in Seq(Item)
  BY DEF IInv, Typed
<1>2. /\ reconnect_task \in {"none", "sleep", "connect", "done"}
      /\ caller \in {"running", "stop_reconnect", "stop_publish"}
      /\ caller # "running" => reconnect_task \in {"none", "done"}
      /\ is_running <=> caller \in {"starting", "running"}
      /\ starts = 0 => caller = "idle"
  BY DEF IInv, Control
<1>3. Kept'
  BY DEF IInv, Kept
<1>4. CASE n < MaxRetries
  <2>1. /\ publish_task' = "retry" /\ attempt' = n
        /\ UNCHANGED <<batch, drop_oldest, buffer, total_put, total_get, total_overflow,
                       max_size_reached, threshold_notified>>
    BY <1>4 DEF LoopAfterFailure, bufferVars, stats
  <2>2. Control'
    BY <2>1, <1>2, <1>4 DEF Control
  <2>3. Apart'
    BY <2>1 DEF IInv, Apart
  <2>4. Reported' /\ Arrived'
    BY <2>1 DEF IInv, Reported, Arrived
  <2>5. LossCounted'
    BY <2>1 DEF IInv, LossCounted, Missing
  <2> QED
    BY <2>1, <2>2, <2>3, <2>4, <2>5, <1>1, <1>3
<1>5. CASE ~(n < MaxRetries)
  <2>1. /\ publish_task' \in {"done", "get", "sleep"} /\ attempt' = 0
        /\ batch' = <<>> /\ PutFront(batch)
    BY <1>5, LoopHeads DEF LoopAfterFailure
  <2>2. UNCHANGED <<drop_oldest, total_put, total_get, max_size_reached, threshold_notified>>
    BY <2>1 DEF PutFront
  <2>3. /\ buffer' \in Seq(Item) /\ Len(buffer') <= MaxSize /\ total_overflow' \in Nat
        /\ Apart' /\ Reported' /\ Arrived' /\ LossCounted'
    BY <2>1, PutBackEffect
  <2>4. Control'
    BY <2>1, <1>2, PublisherAssumption DEF Control
  <2>5. batch' \in Seq(Item)
    BY <2>1, NoMembers
  <2> QED
    BY <2>2, <2>3, <2>4, <2>5, <1>1, <1>3
<1> QED
  BY <1>4, <1>5

\* An attempt failed, or there was no connection to try it on.
LEMMA LoopFailsInvariant ==
  ASSUME IInv, LoopFailed \/ LoopRetryRefused
  PROVE  IInv'
<1>1. /\ batch \in Seq(Item) /\ received \in Seq(Item) /\ failed \subseteq Item
      /\ is_connected \in BOOLEAN /\ faults \in Nat
  BY DEF IInv, Typed
<1>2. attempt \in 0 .. MaxRetries /\ MaxRetries \in Nat
  BY PublisherAssumption DEF IInv, Control
<1>3. UNCHANGED <<is_running, exchange, caller, reconnect_task, flush_size, flush_left, link,
                  broker_up, received, starts, produced, accepted, abandoned>>
  BY DEF LoopFailed, LoopRetryRefused, flush, network, history
<1>4. PICK n \in 0 .. MaxRetries :
        /\ LoopAfterFailure(n)
        /\ publish_task \in {"publish", "retry"}
        /\ message' = "none" /\ is_connected' \in BOOLEAN /\ faults' \in Nat
        /\ failed \subseteq failed' /\ failed' \subseteq Item
        /\ ToSet(received) \cap ToSet(batch) \subseteq failed'
  <2>1. CASE LoopFailed
    <3>1. /\ LoopAfterFailure(attempt) /\ publish_task = "publish"
          /\ message' = "none" /\ is_connected' = FALSE /\ faults' \in {faults, faults + 1}
          /\ failed' = failed \cup ToSet(batch)
      BY <2>1 DEF LoopFailed, CountFailure
    <3>2. ToSet(batch) \subseteq Item
      BY <1>1, Members
    <3>3. is_connected' \in BOOLEAN /\ faults' \in Nat
      <4>1. faults' = faults \/ faults' = faults + 1
        BY <3>1
      <4>2. faults' \in Nat
        BY <4>1, <1>1
      <4>3. is_connected' \in BOOLEAN
        BY <3>1
      <4> QED
        BY <4>2, <4>3
    <3>4. /\ failed \subseteq failed' /\ failed' \subseteq Item
          /\ ToSet(received) \cap ToSet(batch) \subseteq failed'
      BY <3>1, <3>2, <1>1
    <3> QED
      BY <3>1, <3>3, <3>4, <1>2
  <2>2. CASE LoopRetryRefused
    <3>1. /\ LoopAfterFailure(attempt + 1) /\ publish_task = "retry"
          /\ UNCHANGED <<message, is_connected, faults, failed>>
      BY <2>2 DEF LoopRetryRefused, network, history
    <3>2. message = "none" /\ attempt + 1 \in 0 .. MaxRetries
      BY <3>1, <1>2 DEF IInv, Control
    <3>3. ToSet(received) \cap ToSet(batch) \subseteq failed
      BY <3>2 DEF IInv, Reported
    <3> QED
      BY <3>1, <3>2, <3>3, <1>1
  <2> QED
    BY <2>1, <2>2
<1>5. /\ drop_oldest' \in BOOLEAN /\ threshold_notified' \in BOOLEAN
      /\ total_put' \in Nat /\ total_get' \in Nat /\ total_overflow' \in Nat
      /\ buffer' \in Seq(Item) /\ Len(buffer') <= MaxSize
      /\ max_size_reached' \in 0 .. MaxSize
      /\ batch' \in Seq(Item)
      /\ Control' /\ Apart' /\ Reported' /\ Arrived' /\ LossCounted' /\ Kept'
  BY <1>3, <1>4, AfterFailure
<1>6. Typed'
  BY <1>3, <1>4, <1>5 DEF IInv, Typed
<1> QED
  BY <1>5, <1>6 DEF IInv

\* A batch that is sent arrives behind what the broker has.
LEMMA Arrival ==
  ASSUME IInv, message = "sent", NEW r, r = received \o batch
  PROVE  /\ r \in Seq(Item)
         /\ ToSet(r) = ToSet(received) \cup ToSet(batch)
         /\ \A i, j \in 1 .. Len(r) : r[i] = r[j] /\ i # j => r[i] \in failed
<1>1. received \in Seq(Item) /\ batch \in Seq(Item)
  BY DEF IInv, Typed
<1>2. /\ r \in Seq(Item) /\ Len(r) = Len(received) + Len(batch)
      /\ ToSet(r) = ToSet(received) \cup ToSet(batch)
  BY <1>1, MembersOfBoth
<1>3. Len(received) \in Nat /\ Len(batch) \in Nat
  BY <1>1, LenProperties
<1>4. /\ \A i \in 1 .. Len(received) : r[i] = received[i] /\ Queued(received, r[i])
      /\ \A i \in 1 .. Len(r) : i > Len(received) =>
           /\ i - Len(received) \in 1 .. Len(batch) /\ r[i] = batch[i - Len(received)]
           /\ Queued(batch, r[i])
  <2>1. \A i \in 1 .. Len(received) + Len(batch) :
          r[i] = IF i <= Len(received) THEN received[i] ELSE batch[i - Len(received)]
    BY <1>1, ConcatProperties
  <2>2. \A i \in 1 .. Len(received) : r[i] = received[i]
    BY <2>1, <1>3
  <2>3. \A i \in 1 .. Len(r) : i > Len(received) =>
          i - Len(received) \in 1 .. Len(batch) /\ r[i] = batch[i - Len(received)]
    BY <2>1, <1>2, <1>3
  <2> QED
    BY <2>2, <2>3 DEF Queued
<1>5. ASSUME NEW i \in 1 .. Len(r), NEW j \in 1 .. Len(r), i < j, r[i] = r[j]
      PROVE  r[i] \in failed
  <2>1. CASE j <= Len(received)
    <3>1. /\ i \in 1 .. Len(received) /\ j \in 1 .. Len(received) /\ i # j
          /\ received[i] = received[j] /\ r[i] = received[i]
      BY <1>2, <1>3, <1>4, <1>5, <2>1
    <3> QED
      BY <3>1 DEF IInv, Reported
  <2>2. CASE j > Len(received) /\ i <= Len(received)
    <3>1. i \in 1 .. Len(received)
      BY <1>2, <1>3, <2>2
    <3>2. Queued(received, r[i]) /\ Queued(batch, r[j])
      BY <3>1, <1>4, <2>2
    <3>3. r[i] \in ToSet(received) \cap ToSet(batch)
      BY <3>2, <1>1, <1>5, Members
    <3> QED
      BY <3>3 DEF IInv, Reported
  <2>3. CASE j > Len(received) /\ i > Len(received)
    <3>1. /\ i - Len(received) \in 1 .. Len(batch) /\ r[i] = batch[i - Len(received)]
          /\ j - Len(received) \in 1 .. Len(batch) /\ r[j] = batch[j - Len(received)]
      BY <1>4, <2>3
    <3>2. i - Len(received) = j - Len(received)
      BY <3>1, <1>5 DEF IInv, Apart, Distinct
    <3> QED
      BY <3>2, <1>2, <1>3, <1>5
  <2> QED
    BY <2>1, <2>2, <2>3, <1>2, <1>3
<1>6. \A i, j \in 1 .. Len(r) : r[i] = r[j] /\ i # j => r[i] \in failed
  <2> SUFFICES ASSUME NEW i \in 1 .. Len(r), NEW j \in 1 .. Len(r), r[i] = r[j], i # j
               PROVE  r[i] \in failed
    OBVIOUS
  <2>1. i < j \/ j < i
    BY <1>2, <1>3
  <2> QED
    BY <2>1, <1>5
<1> QED
  BY <1>2, <1>6

\* A batch is taken from the buffer to be sent.
LEMMA BatchTaken ==
  ASSUME IInv, batch = <<>>, NEW size \in Nat, GetBatch(size),
         batch' = Batch(size), message' = "sent",
         UNCHANGED <<received, produced, accepted, failed, abandoned>>
  PROVE  batch' \in Seq(Item) /\ Apart' /\ Reported' /\ Arrived' /\ LossCounted'
<1>1. buffer \in Seq(Item)
  BY DEF IInv, Typed
<1>2. Distinct(buffer) /\ ToSet(buffer) \cup ToSet(received) \subseteq 1 .. produced
  BY DEF IInv, Apart
<1>3. /\ batch' \in Seq(Item)
      /\ ToSet(buffer) = ToSet(batch') \cup ToSet(buffer')
      /\ Distinct(batch') /\ Distinct(buffer')
      /\ ToSet(batch') \cap ToSet(buffer') = {}
  BY <1>1, <1>2, TakeFacts
<1>4. drop_oldest' = drop_oldest /\ total_overflow' = total_overflow
  BY DEF GetBatch
<1>5. Apart'
  BY <1>2, <1>3 DEF Apart
<1>6. Reported' /\ Arrived'
  <2>1. ToSet(received) \cap ToSet(buffer) \subseteq failed
    BY DEF IInv, Reported
  <2> QED
    BY <2>1, <1>3 DEF IInv, Reported, Arrived
<1>7. LossCounted'
  <2>1. Missing' = Missing
    <3>1. ToSet(batch) = {}
      BY NoMembers
    <3> QED
      BY <3>1, <1>3 DEF Missing
  <2> QED
    BY <2>1, <1>4 DEF IInv, LossCounted
<1> QED
  BY <1>3, <1>5, <1>6, <1>7

\* A batch is done with: the broker has it, or it is abandoned.
LEMMA BatchGone ==
  ASSUME IInv, UNCHANGED <<drop_oldest, buffer, total_overflow, produced, accepted>>,
         batch' = <<>>, message' = "none",
         received' = received \/ (message = "sent" /\ received' = received \o batch),
         failed \subseteq failed', abandoned \subseteq abandoned',
         ToSet(batch) \subseteq ToSet(received') \cup abandoned'
  PROVE  received' \in Seq(Item) /\ Apart' /\ Reported' /\ Arrived' /\ LossCounted'
<1>1. received \in Seq(Item) /\ batch \in Seq(Item)
  BY DEF IInv, Typed
<1>2. /\ Distinct(buffer)
      /\ ToSet(batch) \cap ToSet(buffer) = {}
      /\ ToSet(buffer) \cup ToSet(batch) \cup ToSet(received) \subseteq 1 .. produced
  BY DEF IInv, Apart
<1>3. /\ ToSet(received) \cap ToSet(buffer) \subseteq failed
      /\ \A i, j \in 1 .. Len(received) :
           received[i] = received[j] /\ i # j => received[i] \in failed
  BY DEF IInv, Reported
<1>4. ToSet(batch') = {} /\ Distinct(batch')
  BY NoMembers
<1>5. /\ received' \in Seq(Item)
      /\ ToSet(received) \subseteq ToSet(received')
      /\ ToSet(received') \subseteq ToSet(received) \cup ToSet(batch)
      /\ \A i, j \in 1 .. Len(received') :
           received'[i] = received'[j] /\ i # j => received'[i] \in failed
  <2>1. CASE received' = received
    BY <2>1, <1>1, <1>3
  <2>2. CASE message = "sent" /\ received' = received \o batch
    BY <2>2, Arrival
  <2> QED
    BY <2>1, <2>2
<1>6. Apart'
  BY <1>2, <1>4, <1>5 DEF Apart
<1>7. Reported' /\ Arrived'
  BY <1>2, <1>3, <1>4, <1>5 DEF Reported, Arrived
<1>8. LossCounted'
  <2> SUFFICES ASSUME drop_oldest
               PROVE  IsFiniteSet(Missing') /\ Cardinality(Missing') <= total_overflow
    BY DEF LossCounted
  <2>1. IsFiniteSet(Missing) /\ Cardinality(Missing) <= total_overflow
    BY DEF IInv, LossCounted
  <2>2. Missing' \in SUBSET Missing
    BY <1>4, <1>5 DEF Missing
  <2>3. IsFiniteSet(Missing') /\ Cardinality(Missing') <= Cardinality(Missing)
    BY <2>1, <2>2, FS_Subset
  <2>4. Cardinality(Missing') \in Nat /\ Cardinality(Missing) \in Nat /\ total_overflow \in Nat
    BY <2>1, <2>3, FS_CardinalityType DEF IInv, Typed
  <2> QED
    BY <2>1, <2>3, <2>4
<1> QED
  BY <1>5, <1>6, <1>7, <1>8

\* What get_batch leaves of the buffer and its statistics.
LEMMA TakenTypes ==
  ASSUME IInv, NEW size \in Nat, GetBatch(size)
  PROVE  /\ drop_oldest' \in BOOLEAN /\ threshold_notified' \in BOOLEAN
         /\ total_put' \in Nat /\ total_get' \in Nat /\ total_overflow' \in Nat
         /\ buffer' \in Seq(Item) /\ Len(buffer') <= MaxSize
         /\ max_size_reached' \in 0 .. MaxSize
<1>1. /\ drop_oldest \in BOOLEAN /\ total_put \in Nat /\ total_get \in Nat
      /\ total_overflow \in Nat /\ max_size_reached \in 0 .. MaxSize
      /\ buffer \in Seq(Item) /\ Len(buffer) <= MaxSize
  BY DEF IInv, Typed
<1>2. /\ UNCHANGED <<drop_oldest, total_put, total_overflow, max_size_reached>>
      /\ total_get' = total_get + BatchLen(size)
      /\ threshold_notified' \in BOOLEAN
  BY DEF GetBatch
<1>3. Len(buffer) \in Nat /\ MaxSize \in Nat
  BY <1>1, LenProperties, DataBufferAssumption
<1>4. BatchLen(size) \in Nat
  BY <1>3 DEF BatchLen
<1>5. buffer' \in Seq(Item) /\ Len(buffer') <= Len(buffer)
  BY <1>1, TakeFacts
<1>6. Len(buffer') \in Nat
  BY <1>5, LenProperties
<1>7. Len(buffer') <= MaxSize
  BY <1>1, <1>3, <1>5, <1>6
<1> QED
  BY <1>1, <1>2, <1>4, <1>5, <1>7

\* The loop takes a batch.
LEMMA LoopTakesInvariant ==
  ASSUME IInv, LoopTakes
  PROVE  IInv'
<1>1. /\ publish_task = "get" /\ publish_task' = "publish" /\ message' = "sent" /\ attempt' = 0
      /\ GetBatch(BatchSize) /\ batch' = Batch(BatchSize)
      /\ UNCHANGED <<is_running, is_connected, exchange, reconnect_task, caller, flush_size,
                     flush_left, link, broker_up, received, faults, starts, produced, accepted,
                     failed, abandoned>>
  BY DEF LoopTakes, flush, GetBatch, history
<1>2. BatchSize \in Nat /\ MaxRetries \in Nat
  BY DataBufferAssumption, PublisherAssumption
<1>3. /\ caller \in {"running", "stop_reconnect", "stop_publish"}
      /\ batch = <<>>
  BY <1>1 DEF IInv, Control
<1>4. batch' \in Seq(Item) /\ Apart' /\ Reported' /\ Arrived' /\ LossCounted'
  BY <1>1, <1>2, <1>3, BatchTaken
<1>5. Typed'
  <2>1. /\ drop_oldest' \in BOOLEAN /\ threshold_notified' \in BOOLEAN
        /\ total_put' \in Nat /\ total_get' \in Nat /\ total_overflow' \in Nat
        /\ buffer' \in Seq(Item) /\ Len(buffer') <= MaxSize
        /\ max_size_reached' \in 0 .. MaxSize
    BY <1>1, <1>2, TakenTypes
  <2> QED
    BY <2>1, <1>1, <1>4 DEF IInv, Typed
<1>6. Control'
  BY <1>1, <1>2, <1>3 DEF IInv, Control
<1>7. Kept'
  BY <1>1 DEF IInv, Kept
<1> QED
  BY <1>4, <1>5, <1>6, <1>7 DEF IInv

\* A round of the flush takes a batch; without a connection it is abandoned at once.
LEMMA FlushTakesInvariant ==
  ASSUME IInv, FlushTakes
  PROVE  IInv'
<1>1. /\ caller = "flush_get" /\ GetBatch(flush_size)
      /\ flush_left > 0 /\ flush_left' = flush_left - 1
      /\ UNCHANGED <<is_running, is_connected, exchange, publish_task, reconnect_task, attempt,
                     flush_size, link, broker_up, received, faults, starts, produced, accepted,
                     failed>>
  BY DEF FlushTakes
<1>2. /\ flush_size \in 0 .. FlushBatch /\ flush_left \in 0 .. 3 /\ FlushBatch \in Nat
      /\ buffer \in Seq(Item) /\ abandoned \subseteq Item
  BY PublisherAssumption DEF IInv, Typed
<1>3. flush_size \in Nat /\ flush_left' \in 0 .. 3
  BY <1>1, <1>2
<1>4. /\ publish_task \in {"none", "done"} /\ reconnect_task \in {"none", "done"}
      /\ is_running <=> caller \in {"starting", "running"}
      /\ starts = 0 => caller = "idle"
      /\ batch = <<>> /\ message = "none"
  BY <1>1 DEF IInv, Control
<1>5. /\ drop_oldest' \in BOOLEAN /\ threshold_notified' \in BOOLEAN
      /\ total_put' \in Nat /\ total_get' \in Nat /\ total_overflow' \in Nat
      /\ buffer' \in Seq(Item) /\ Len(buffer') <= MaxSize
      /\ max_size_reached' \in 0 .. MaxSize
  BY <1>1, <1>3, TakenTypes
<1>6. Kept'
  BY <1>1, <1>4 DEF Kept
<1>7. CASE is_connected
  <2>1. /\ batch' = Batch(flush_size) /\ message' = "sent" /\ caller' = "flush_publish"
        /\ UNCHANGED abandoned
    BY <1>7 DEF FlushTakes
  <2>2. batch' \in Seq(Item) /\ Apart' /\ Reported' /\ Arrived' /\ LossCounted'
    BY <1>1, <1>3, <1>4, <2>1, BatchTaken
  <2>3. Typed'
    BY <1>1, <1>3, <1>5, <2>1, <2>2 DEF IInv, Typed
  <2>4. Control'
    BY <1>1, <1>4, <2>1 DEF IInv, Control
  <2> QED
    BY <2>2, <2>3, <2>4, <1>6 DEF IInv
<1>8. CASE ~is_connected
  <2>1. /\ abandoned' = abandoned \cup ToSet(Batch(flush_size))
        /\ UNCHANGED <<batch, message, caller>>
    BY <1>8 DEF FlushTakes
  <2>2. /\ Batch(flush_size) \in Seq(Item)
        /\ ToSet(buffer) = ToSet(Batch(flush_size)) \cup ToSet(buffer')
        /\ Distinct(buffer) => Distinct(buffer')
    BY <1>1, <1>2, <1>3, TakeFacts
  <2>3. ToSet(Batch(flush_size)) \subseteq Item
    BY <2>2, Members
  <2>4. Typed'
    BY <1>1, <1>2, <1>3, <1>5, <2>1, <2>3 DEF IInv, Typed
  <2>5. Control'
    BY <1>1, <1>4, <2>1 DEF IInv, Control
  <2>6. Apart' /\ Reported' /\ Arrived'
    BY <1>1, <2>1, <2>2 DEF IInv, Apart, Reported, Arrived
  <2>7. LossCounted'
    <3>1. Missing' = Missing
      BY <1>1, <2>1, <2>2 DEF Missing
    <3>2. drop_oldest' = drop_oldest /\ total_overflow' = total_overflow
      BY <1>1 DEF GetBatch
    <3> QED
      BY <3>1, <3>2 DEF IInv, LossCounted
  <2> QED
    BY <2>4, <2>5, <2>6, <2>7, <1>6 DEF IInv
<1> QED
  BY <1>7, <1>8

\* A batch is confirmed, or the flush gives it up.
LEMMA BatchEndsInvariant ==
  ASSUME IInv, LoopConfirmed \/ FlushConfirmed \/ FlushFailed
  PROVE  IInv'
<1>1. /\ message' = "none" /\ batch' = <<>>
      /\ UNCHANGED <<drop_oldest, buffer, total_put, total_get, total_overflow,
                     max_size_reached, threshold_notified, is_running, exchange, reconnect_task,
                     flush_size, flush_left, link, broker_up, received, starts, produced,
                     accepted>>
  BY DEF LoopConfirmed, FlushConfirmed, FlushFailed, CountSuccess, CountFailure, bufferVars,
         stats, flush, history
<1>2. /\ batch \in Seq(Item) /\ is_connected \in BOOLEAN /\ faults \in Nat
      /\ failed \subseteq Item /\ abandoned \subseteq Item
  BY DEF IInv, Typed
<1>3. ToSet(batch) \subseteq Item /\ batch' \in Seq(Item)
  BY <1>1, <1>2, Members, NoMembers
<1>4. attempt \in 0 .. MaxRetries /\ MaxRetries \in Nat
  BY PublisherAssumption DEF IInv, Control
<1>5. /\ failed \subseteq failed' /\ failed' \subseteq Item
      /\ abandoned \subseteq abandoned' /\ abandoned' \subseteq Item
      /\ ToSet(batch) \subseteq ToSet(received') \cup abandoned'
      /\ is_connected' \in BOOLEAN /\ faults' \in Nat
  <2>1. CASE LoopConfirmed \/ FlushConfirmed
    <3>1. message = "arrived" /\ UNCHANGED <<is_connected, faults, failed, abandoned>>
      BY <2>1 DEF LoopConfirmed, FlushConfirmed, CountSuccess, history
    <3>2. ToSet(batch) \subseteq ToSet(received)
      BY <3>1 DEF IInv, Arrived
    <3> QED
      BY <3>1, <3>2, <1>1, <1>2
  <2>2. CASE FlushFailed
    <3>1. /\ abandoned' = abandoned \cup ToSet(batch) /\ failed' = failed \cup ToSet(batch)
          /\ is_connected' = FALSE
      BY <2>2 DEF FlushFailed, CountFailure
    <3>2. faults' = faults \/ faults' = faults + 1
      BY <2>2 DEF FlushFailed, CountFailure
    <3>3. faults' \in Nat
      BY <3>2, <1>2
    <3>4. is_connected' \in BOOLEAN
      BY <3>1
    <3> QED
      BY <3>1, <3>3, <3>4, <1>2, <1>3
  <2> QED
    BY <2>1, <2>2
<1>6. received' \in Seq(Item) /\ Apart' /\ Reported' /\ Arrived' /\ LossCounted'
  BY <1>1, <1>5, BatchGone
<1>7. Typed'
  BY <1>1, <1>3, <1>5, <1>6 DEF IInv, Typed
<1>8. Control'
  <2>1. CASE LoopConfirmed
    <3>1. /\ publish_task = "publish" /\ publish_task' \in {"done", "get", "sleep"}
          /\ attempt' = 0 /\ caller' = caller
      BY <2>1, LoopHeads DEF LoopConfirmed
    <3> QED
      BY <3>1, <1>1, <1>4 DEF IInv, Control
  <2>2. CASE FlushConfirmed \/ FlushFailed
    <3>1. /\ caller = "flush_publish" /\ caller' = "flush_get"
          /\ UNCHANGED <<publish_task, attempt>>
      BY <2>2 DEF FlushConfirmed, FlushFailed
    <3> QED
      BY <3>1, <1>1, <1>4 DEF IInv, Control
  <2> QED
    BY <2>1, <2>2
<1>9. Kept'
  <2>1. CASE LoopConfirmed \/ FlushConfirmed
    <3>1. UNCHANGED abandoned
      BY <2>1 DEF LoopConfirmed, FlushConfirmed, history
    <3> QED
      BY <3>1, <1>1 DEF IInv, Kept
  <2>2. CASE FlushFailed
    <3>1. ~is_running /\ starts # 0
      BY <2>2 DEF FlushFailed, IInv, Control
    <3> QED
      BY <3>1, <1>1 DEF Kept
  <2> QED
    BY <2>1, <2>2
<1> QED
  BY <1>6, <1>7, <1>8, <1>9 DEF IInv

\* The loop sends its batch once more; what the broker has of it has failed before.
LEMMA LoopRetriesInvariant ==
  ASSUME IInv, LoopRetries
  PROVE  IInv'
<1>1. /\ publish_task = "retry" /\ publish_task' = "publish" /\ message' = "sent"
      /\ attempt' = attempt + 1
      /\ UNCHANGED <<drop_oldest, buffer, total_put, total_get, total_overflow,
                     max_size_reached, threshold_notified, is_running, is_connected, exchange,
                     reconnect_task, caller, batch, flush_size, flush_left, link, broker_up,
                     received, faults, starts, produced, accepted, failed, abandoned>>
  BY DEF LoopRetries, bufferVars, stats, flush, history
<1>2. /\ message = "none" /\ attempt' \in 0 .. MaxRetries
      /\ caller \in {"running", "stop_reconnect", "stop_publish"}
  BY <1>1, PublisherAssumption DEF IInv, Control
<1>3. Typed'
  BY <1>1 DEF IInv, Typed
<1>4. Control'
  BY <1>1, <1>2 DEF IInv, Control
<1>5. Apart' /\ Arrived'
  BY <1>1 DEF IInv, Apart, Arrived
<1>6. Reported'
  BY <1>1, <1>2 DEF IInv, Reported
<1>7. LossCounted' /\ Kept'
  BY <1>1 DEF IInv, LossCounted, Missing, Kept
<1> QED
  BY <1>3, <1>4, <1>5, <1>6, <1>7 DEF IInv

\* The broker gets the batch.
LEMMA MessageArrivesInvariant ==
  ASSUME IInv, MessageArrives
  PROVE  IInv'
<1>1. /\ message = "sent" /\ message' = "arrived" /\ received' = received \o batch
      /\ UNCHANGED <<drop_oldest, buffer, total_put, total_get, total_overflow,
                     max_size_reached, threshold_notified, is_running, is_connected, exchange,
                     publish_task, reconnect_task, caller, batch, attempt, flush_size,
                     flush_left, link, broker_up, faults, starts, produced, accepted, failed,
                     abandoned>>
  BY DEF MessageArrives, bufferVars, stats, tasks, flush, history
<1>2. /\ received' \in Seq(Item)
      /\ ToSet(received') = ToSet(received) \cup ToSet(batch)
      /\ \A i, j \in 1 .. Len(received') :
           received'[i] = received'[j] /\ i # j => received'[i] \in failed
  BY <1>1, Arrival
<1>3. Typed'
  BY <1>1, <1>2 DEF IInv, Typed
<1>4. Control'
  BY <1>1 DEF IInv, Control
<1>5. Apart' /\ Arrived'
  BY <1>1, <1>2 DEF IInv, Apart, Arrived
<1>6. Reported'
  BY <1>1, <1>2 DEF IInv, Reported, Apart
<1>7. LossCounted' /\ Kept'
  <2>1. Missing' = Missing
    BY <1>1, <1>2 DEF Missing
  <2> QED
    BY <2>1, <1>1 DEF IInv, LossCounted, Kept
<1> QED
  BY <1>3, <1>4, <1>5, <1>6, <1>7 DEF IInv

\* stop() cancels the publish task, which loses its batch or, at the one await where the
\* cancellation is lost, goes on.
LEMMA StopCancelsInvariant ==
  ASSUME IInv, StopCancels
  PROVE  IInv'
<1>1. /\ is_running' = FALSE /\ caller' = "stop_publish"
      /\ UNCHANGED <<drop_oldest, buffer, total_put, total_get, total_overflow,
                     max_size_reached, threshold_notified, is_connected, exchange,
                     reconnect_task, flush_size, flush_left, link, broker_up, faults, starts,
                     produced, accepted, failed>>
  BY DEF StopCancels, bufferVars, stats, flush
<1>2. /\ caller \in {"running", "stop_reconnect"}
      /\ reconnect_task \in {"none", "done"}
      /\ starts # 0
  <2>1. caller = "stop_reconnect" \/ (caller = "running" /\ reconnect_task = "none")
    BY DEF StopCancels
  <2> QED
    BY <2>1 DEF IInv, Control
<1>3. Kept'
  BY <1>1, <1>2 DEF Kept
<1>4. CASE CancelPublishTask
  <2>1. /\ publish_task' = "done" /\ attempt' = 0 /\ message' = "none" /\ batch' = <<>>
        /\ abandoned' = abandoned \cup ToSet(batch)
        /\ received' = received \/ (message = "sent" /\ received' = received \o batch)
    BY <1>4 DEF CancelPublishTask
  <2>2. received' \in Seq(Item) /\ Apart' /\ Reported' /\ Arrived' /\ LossCounted'
    BY <2>1, <1>1, BatchGone
  <2>3. batch' \in Seq(Item) /\ abandoned' \subseteq Item
    <3>1. batch \in Seq(Item) /\ abandoned \subseteq Item
      BY DEF IInv, Typed
    <3> QED
      BY <3>1, <2>1, Members, NoMembers
  <2>4. Typed'
    BY <1>1, <2>2, <2>3 DEF IInv, Typed
  <2>5. Control'
    BY <1>1, <1>2, <2>1, PublisherAssumption DEF IInv, Control
  <2> QED
    BY <2>2, <2>4, <2>5, <1>3 DEF IInv
<1>5. CASE CancellationSwallowed
  <2>1. UNCHANGED <<publish_task, abandoned, batch, attempt, message, received>>
    BY <1>5 DEF CancellationSwallowed
  <2>2. Typed'
    BY <1>1, <2>1 DEF IInv, Typed
  <2>3. Control'
    BY <1>1, <1>2, <2>1 DEF IInv, Control
  <2>4. Apart' /\ Reported' /\ Arrived' /\ LossCounted'
    BY <1>1, <1>2, <2>1, PlacesKept DEF places
  <2> QED
    BY <2>2, <2>3, <2>4, <1>3 DEF IInv
<1> QED
  BY <1>4, <1>5 DEF StopCancels

\* The processor stores the items of one collection.
LEMMA ProduceInvariant ==
  ASSUME IInv, NEW k \in 1 .. BatchSize, Produce(k)
  PROVE  IInv'
<1> DEFINE items == [i \in 1 .. k |-> produced + i]
           both == ToSet(buffer) \cup ToSet(items)
           excess == Excess(Len(buffer), Len(items))
<1>1. /\ buffer \in Seq(Item) /\ Len(buffer) <= MaxSize /\ batch \in Seq(Item)
      /\ received \in Seq(Item) /\ drop_oldest \in BOOLEAN /\ total_overflow \in Nat
      /\ total_put \in Nat /\ max_size_reached \in 0 .. MaxSize
      /\ produced \in 0 .. MaxItems /\ accepted \subseteq Item
  BY DEF IInv, Typed
<1>2. /\ Distinct(buffer)
      /\ ToSet(batch) \cap ToSet(buffer) = {}
      /\ ToSet(buffer) \cup ToSet(batch) \cup ToSet(received) \subseteq 1 .. produced
  BY DEF IInv, Apart
<1>3. k \in Nat /\ produced + k <= MaxItems /\ MaxItems \in Nat /\ MaxSize \in Nat
  BY DataBufferAssumption, PublisherAssumption DEF Produce
<1>4. /\ items \in Seq(Item) /\ Len(items) = k /\ Distinct(items)
      /\ ToSet(items) \subseteq 1 .. produced + k
      /\ ToSet(items) \cap (1 .. produced) = {}
      /\ \A n \in 0 .. k : {items[i] : i \in 1 .. n} \subseteq ToSet(items)
      /\ {items[i] : i \in 1 .. k} = ToSet(items)
  BY <1>1, <1>3, FreshFacts
<1>5. /\ PutMany(items)
      /\ accepted' = accepted \cup {items[i] : i \in 1 .. AcceptedCount(items)}
      /\ produced' = produced + k
  BY DEF Produce
<1>6. UNCHANGED <<is_running, is_connected, exchange, publish_task, reconnect_task, caller,
                  batch, attempt, flush_size, flush_left, link, broker_up, message, received,
                  faults, starts, failed, abandoned>>
  BY DEF Produce, tasks, flush, network
<1> HIDE DEF items
<1>7. /\ buffer' = AfterPut(items)
      /\ total_put' = total_put + AcceptedCount(items)
      /\ total_overflow' = total_overflow + (IF drop_oldest THEN excess ELSE 0)
      /\ max_size_reached' =
           IF AcceptedCount(items) > 0 /\ Len(AfterPut(items)) > max_size_reached
           THEN Len(AfterPut(items)) ELSE max_size_reached
      /\ threshold_notified' \in BOOLEAN
      /\ UNCHANGED <<drop_oldest, total_get>>
  BY <1>5 DEF PutMany
<1>8. /\ buffer' \in Seq(Item) /\ Len(buffer') <= MaxSize
      /\ ToSet(buffer') \subseteq both
      /\ Distinct(buffer')
      /\ excess \in Nat
      /\ IsFiniteSet(both \ ToSet(buffer')) /\ Cardinality(both \ ToSet(buffer')) <= excess
  <2>1. ToSet(buffer) \cap ToSet(items) = {}
    BY <1>2, <1>4
  <2> QED
    BY <2>1, <1>1, <1>2, <1>4, <1>7, PutFacts
<1>9. AcceptedCount(items) \in 0 .. k /\ (drop_oldest => AcceptedCount(items) = k)
  <2>1. Len(buffer) \in Nat
    BY <1>1, LenProperties
  <2>2. Excess(Len(buffer), k) \in 0 .. k
    BY <2>1, <1>3, ExcessFacts
  <2> QED
    BY <2>2, <1>3, <1>4 DEF AcceptedCount
<1> HIDE DEF excess
<1>10. /\ total_put' \in Nat /\ total_overflow' \in Nat /\ produced' \in 0 .. MaxItems
       /\ produced' >= produced
  BY <1>1, <1>3, <1>5, <1>7, <1>8, <1>9
<1>11. max_size_reached' \in 0 .. MaxSize
  <2>1. Len(buffer') \in Nat
    BY <1>8, LenProperties
  <2>2. max_size_reached' = max_size_reached \/ max_size_reached' = Len(buffer')
    BY <1>7
  <2> QED
    BY <2>1, <2>2, <1>1, <1>3, <1>8
<1>12. ToSet(items) \subseteq Item /\ accepted' \subseteq accepted \cup ToSet(items)
  BY <1>4, <1>5, <1>9, Members
<1>13. Typed'
  BY <1>1, <1>6, <1>7, <1>8, <1>10, <1>11, <1>12 DEF IInv, Typed
<1>14. Control'
  BY <1>6 DEF IInv, Control
<1>15. Apart'
  <2>1. \A x \in 1 .. produced : x \in 1 .. produced + k
    BY <1>1, <1>3
  <2>2. ToSet(batch) \cap ToSet(buffer') = {}
    BY <1>2, <1>4, <1>8
  <2>3. ToSet(buffer') \cup ToSet(batch) \cup ToSet(received) \subseteq 1 .. produced + k
    BY <2>1, <1>2, <1>4, <1>8
  <2> QED
    BY <2>2, <2>3, <1>5, <1>6, <1>8 DEF IInv, Apart
<1>16. Reported' /\ Arrived'
  <2>1. ToSet(received) \cap ToSet(buffer') \subseteq failed
    BY <1>2, <1>4, <1>8 DEF IInv, Reported
  <2> QED
    BY <2>1, <1>6 DEF IInv, Reported, Arrived
<1>17. LossCounted'
  <2> SUFFICES ASSUME drop_oldest
               PROVE  IsFiniteSet(Missing') /\ Cardinality(Missing') <= total_overflow'
    BY <1>7 DEF LossCounted
  <2>1. IsFiniteSet(Missing) /\ Cardinality(Missing) <= total_overflow
    BY DEF IInv, LossCounted
  <2>2. Missing' \subseteq Missing \cup (both \ ToSet(buffer'))
    BY <1>6, <1>12 DEF Missing
  <2>3. IsFiniteSet(Missing') /\ Cardinality(Missing') <= total_overflow + excess
    BY <2>1, <2>2, <1>1, <1>8, LossAdds
  <2> QED
    BY <2>3, <1>7
<1>18. Kept'
  BY <1>6 DEF IInv, Kept
<1> QED
  BY <1>13, <1>14, <1>15, <1>16, <1>17, <1>18 DEF IInv

LEMMA StutterInvariant ==
  ASSUME IInv, UNCHANGED vars
  PROVE  IInv'
<1>1. UNCHANGED <<drop_oldest, buffer, total_put, total_get, total_overflow, max_size_reached,
                  threshold_notified, is_running, is_connected, exchange, publish_task,
                  reconnect_task, caller, batch, attempt, flush_size, flush_left, link,
                  broker_up, message, received, produced, faults, starts, accepted, failed,
                  abandoned>>
  BY DEF vars, bufferVars, stats, tasks, flush, network, history
<1>2. Typed' /\ Control'
  BY <1>1 DEF IInv, Typed, Control
<1>3. Apart' /\ Reported' /\ Arrived' /\ LossCounted' /\ Kept'
  BY <1>1, PlacesKept DEF places
<1> QED
  BY <1>2, <1>3 DEF IInv

LEMMA InitInvariant == Init => IInv
<1> SUFFICES ASSUME Init  PROVE IInv
  OBVIOUS
<1>1. /\ <<>> \in Seq(Item) /\ ToSet(<<>>) = {} /\ Distinct(<<>>) /\ Len(<<>>) = 0
  BY NoMembers
<1>2. /\ MaxItems \in Nat /\ MaxSize \in Nat /\ MaxRetries \in Nat /\ FlushBatch \in Nat
      /\ Policies \subseteq BOOLEAN
  BY DataBufferAssumption, PublisherAssumption
<1>3. /\ drop_oldest \in Policies /\ buffer = <<>> /\ total_put = 0 /\ total_get = 0
      /\ total_overflow = 0 /\ max_size_reached = 0 /\ threshold_notified = FALSE
  BY DEF Init, BufferInit
<1>4. Typed
  <2>1. /\ drop_oldest \in BOOLEAN /\ threshold_notified \in BOOLEAN
        /\ total_put \in Nat /\ total_get \in Nat /\ total_overflow \in Nat
        /\ buffer \in Seq(Item) /\ Len(buffer) <= MaxSize /\ max_size_reached \in 0 .. MaxSize
    <3>1. drop_oldest \in BOOLEAN /\ threshold_notified \in BOOLEAN
      BY <1>2, <1>3
    <3>2. buffer \in Seq(Item) /\ Len(buffer) = 0
      BY <1>1, <1>3
    <3> QED
      BY <3>1, <3>2, <1>2, <1>3
  <2>2. /\ is_running \in BOOLEAN /\ is_connected \in BOOLEAN /\ exchange \in BOOLEAN
        /\ link \in BOOLEAN /\ broker_up \in BOOLEAN
    BY DEF Init
  <2>3. /\ batch \in Seq(Item) /\ received \in Seq(Item)
        /\ flush_size \in 0 .. FlushBatch /\ flush_left \in 0 .. 3
        /\ produced \in 0 .. MaxItems /\ faults \in Nat /\ starts \in Nat
        /\ accepted \subseteq Item /\ failed \subseteq Item /\ abandoned \subseteq Item
    BY <1>1, <1>2 DEF Init
  <2> QED
    BY <2>1, <2>2, <2>3 DEF Typed
<1>5. Control
  BY <1>2 DEF Init, Control
<1>6. Apart /\ Reported /\ Arrived /\ Kept
  BY <1>1, <1>3 DEF Init, Apart, Reported, Arrived, Kept
<1>7. LossCounted
  <2>1. Missing = {}
    BY DEF Init, Missing
  <2> QED
    BY <2>1, <1>3, FS_EmptySet DEF LossCounted
<1> QED
  BY <1>4, <1>5, <1>6, <1>7 DEF IInv

\* The invariant holds throughout.
THEOREM Invariance == Spec => []IInv
<1>1. IInv /\ [Next]_vars => IInv'
  <2> SUFFICES ASSUME IInv, [Next]_vars  PROVE IInv'
    OBVIOUS
  <2>1. CASE \/ LoopWakes \/ ReconnectWakes \/ Reconnects
             \/ StartBegins \/ StartEnds \/ StopBegins
             \/ FlushBegins \/ FlushEnds \/ StopEnds
             \/ LinkBreaks \/ BrokerReturns \/ LinkReturns
    BY <2>1, QuietInvariant
  <2>2. CASE LoopTakes
    BY <2>2, LoopTakesInvariant
  <2>3. CASE LoopFailed \/ LoopRetryRefused
    BY <2>3, LoopFailsInvariant
  <2>4. CASE LoopRetries
    BY <2>4, LoopRetriesInvariant
  <2>5. CASE StopCancels
    BY <2>5, StopCancelsInvariant
  <2>6. CASE FlushTakes
    BY <2>6, FlushTakesInvariant
  <2>7. CASE LoopConfirmed \/ FlushConfirmed \/ FlushFailed
    BY <2>7, BatchEndsInvariant
  <2>8. CASE \E k \in 1 .. BatchSize : Produce(k)
    BY <2>8, ProduceInvariant
  <2>9. CASE MessageArrives
    BY <2>9, MessageArrivesInvariant
  <2>10. CASE UNCHANGED vars
    BY <2>10, StutterInvariant
  <2> QED
    BY <2>1, <2>2, <2>3, <2>4, <2>5, <2>6, <2>7, <2>8, <2>9, <2>10
    DEF Next, PublishLoop, ReconnectLoop, Stop, Environment
<1> QED
  BY InitInvariant, <1>1, PTL DEF Spec

\* Every variable keeps its type; the retries and the rounds of the flush are bounded
\* (base.py:424-462, 464-500).
THEOREM TypeCorrect == Spec => []TypeOK
<1>1. IInv => TypeOK
  <2> SUFFICES ASSUME IInv  PROVE TypeOK
    OBVIOUS
  <2>1. Typed /\ Control
    BY DEF IInv
  <2>2. MaxItems \in Nat /\ MaxSize \in Nat
    BY DataBufferAssumption, PublisherAssumption
  <2>3. Item \subseteq Nat
    BY <2>2 DEF Item
  <2>4. buffer \in Seq(Nat) /\ batch \in Seq(Nat) /\ received \in Seq(Nat)
    <3>1. buffer \in Seq(Item) /\ batch \in Seq(Item) /\ received \in Seq(Item)
      BY <2>1 DEF Typed
    <3> QED
      BY <3>1, <2>3, SeqMonotonic, Zenon
  <2>5. /\ accepted \in SUBSET Nat /\ failed \in SUBSET Nat /\ abandoned \in SUBSET Nat
        /\ produced \in Nat
    BY <2>1, <2>2, <2>3 DEF Typed
  <2>6. BufferTypeOK
    BY <2>1, <2>4 DEF Typed, BufferTypeOK
  <2> QED
    BY <2>1, <2>4, <2>5, <2>6 DEF Typed, Control, TypeOK
<1> QED
  BY <1>1, Invariance, PTL

\* stop() flushes and disconnects only after both tasks have ended, and leaves none
\* behind (base.py:284-304).
THEOREM NothingRunsBesideTheFlush == Spec => []TasksEndBeforeFlush
<1>1. IInv => TasksEndBeforeFlush
  BY DEF IInv, Control, TasksEndBeforeFlush
<1> QED
  BY <1>1, Invariance, PTL

\* Through any sequence of failures, retries and reconnections nothing that was accepted
\* disappears but what total_overflow counts (base.py:313-376, buffer.py:221-263).
THEOREM FailedDataIsKept == Spec => []NoSilentLoss
<1>1. IInv => NoSilentLoss
  <2> SUFFICES ASSUME IInv  PROVE NoSilentLoss
    OBVIOUS
  <2>1. drop_oldest => Cardinality(Missing) <= total_overflow
    BY DEF IInv, LossCounted
  <2>2. is_running /\ starts = 1 => abandoned = {}
    BY DEF IInv, Kept
  <2> QED
    BY <2>1, <2>2 DEF NoSilentLoss
<1> QED
  BY <1>1, Invariance, PTL

\* An item arrives again only if an attempt that carried it was reported as failed
\* (base.py:205-217, 229-231).
THEOREM TwiceOnlyAfterFailure == Spec => []ResentOnlyAfterFailure
<1>1. IInv => ResentOnlyAfterFailure
  <2> SUFFICES ASSUME IInv, NEW x \in ToSet(received),
                      Cardinality({k \in DOMAIN received : received[k] = x}) > 1
               PROVE  x \in failed
    BY DEF ResentOnlyAfterFailure
  <2> DEFINE K == {k \in DOMAIN received : received[k] = x}
  <2>1. received \in Seq(Item) /\ DOMAIN received = 1 .. Len(received)
    BY LenProperties DEF IInv, Typed
  <2>2. PICK i \in K : TRUE
    BY DEF ToSet
  <2>3. K # {i}
    BY FS_Singleton
  <2>4. PICK j \in K : j # i
    BY <2>2, <2>3
  <2> QED
    BY <2>1, <2>2, <2>4 DEF IInv, Reported
<1> QED
  BY <1>1, Invariance, PTL
-----------------------------------------------------------------------------
(* Publisher implements Feed.                                              *)

\* The batch and the buffer behind it are in the order of production.
Ordered == Sorted(batch) /\ Sorted(buffer) /\ Below(ToSet(batch), ToSet(buffer))

LEMMA ItemsAreNumbers == Item \subseteq Int
BY DEF Item

\* What is left of a sorted deque after a put is sorted.
LEMMA SortedPut ==
  ASSUME buffer \in Seq(Item), NEW items \in Seq(Item),
         NEW r, \/ r = AfterPut(items) /\ Sorted(buffer \o items)
                \/ r = AfterPutFront(items) /\ Sorted(items \o buffer)
  PROVE  Sorted(r)
<1> DEFINE e == Excess(Len(buffer), Len(items))
           back == buffer \o items
           front == items \o buffer
<1>1. Len(buffer) \in Nat /\ Len(items) \in Nat
  BY LenProperties
<1>2. e \in 0 .. Len(items)
  BY <1>1, ExcessFacts
<1>3. /\ back \in Seq(Item) /\ Len(back) = Len(buffer) + Len(items)
      /\ front \in Seq(Item) /\ Len(front) = Len(items) + Len(buffer)
  BY ConcatProperties
<1>4. /\ \/ AfterPut(items) = SubSeq(back, e + 1, Len(back))
         \/ AfterPut(items) = SubSeq(back, 1, Len(back) - e)
      /\ \/ AfterPutFront(items) = SubSeq(front, e + 1, Len(front))
         \/ AfterPutFront(items) = SubSeq(front, 1, Len(front) - e)
  BY DEF AfterPut, AfterPutFront
<1> HIDE DEF e, back, front
<1>5. PICK all \in {back, front} :
        /\ Sorted(all)
        /\ r = SubSeq(all, e + 1, Len(all)) \/ r = SubSeq(all, 1, Len(all) - e)
  BY <1>4 DEF back, front
<1> DEFINE m == Len(all) - e
<1>6. all \in Seq(Item) /\ e \in 0 .. Len(all) /\ m \in 0 .. Len(all)
  BY <1>1, <1>2, <1>3, <1>5
<1>7. r = SubSeq(all, e + 1, Len(all)) \/ r = SubSeq(all, 1, m)
  BY <1>5
<1> HIDE DEF m
<1> QED
  BY <1>5, <1>6, <1>7, SortedParts, ItemsAreNumbers

\* get_batch takes the oldest items.
LEMMA SortedTake ==
  ASSUME buffer \in Seq(Item), Sorted(buffer), NEW size \in Nat, GetBatch(size)
  PROVE  /\ Sorted(Batch(size)) /\ Sorted(buffer')
         /\ Below(ToSet(Batch(size)), ToSet(buffer'))
<1> DEFINE m == BatchLen(size)
<1>1. Len(buffer) \in Nat
  BY LenProperties
<1>2. m \in 0 .. Len(buffer)
  BY <1>1 DEF BatchLen
<1>3. Batch(size) = SubSeq(buffer, 1, m) /\ buffer' = SubSeq(buffer, m + 1, Len(buffer))
  BY DEF Batch, GetBatch
<1> HIDE DEF m
<1> QED
  BY <1>2, <1>3, SortedParts, ItemsAreNumbers

(* What a step does to the items: the ten kinds there are.                 *)

Rests == UNCHANGED <<batch, buffer, received, is_running>>
Starts == ~is_running /\ is_running' = TRUE /\ UNCHANGED <<batch, buffer, received>>
Stops == is_running' = FALSE /\ UNCHANGED <<batch, buffer, received>>
Takes ==
  /\ batch = <<>>
  /\ \E size \in Nat : GetBatch(size) /\ batch' = Batch(size)
  /\ UNCHANGED <<received, is_running>>
GivesUp ==
  /\ batch = <<>> /\ batch' = <<>> /\ is_running' = FALSE
  /\ \E size \in Nat : GetBatch(size)
  /\ UNCHANGED received
Sends == received' = received \o batch /\ UNCHANGED <<batch, buffer, is_running>>
Confirms ==
  /\ ToSet(batch) \subseteq ToSet(received) /\ batch' = <<>>
  /\ UNCHANGED <<buffer, received, is_running>>
Drops ==
  /\ is_running' = FALSE /\ batch' = <<>> /\ UNCHANGED buffer
  /\ received' = received \/ received' = received \o batch
PutsBack == PutFront(batch) /\ batch' = <<>> /\ UNCHANGED <<received, is_running>>
Stores ==
  /\ \E k \in 1 .. BatchSize : Produce(k)
  /\ UNCHANGED <<batch, received, is_running>>

LEMMA StepKinds ==
  ASSUME IInv, [Next]_vars
  PROVE  \/ Rests \/ Starts \/ Stops \/ Takes \/ GivesUp
         \/ Sends \/ Confirms \/ Drops \/ PutsBack \/ Stores
<1>1. CASE LoopWakes \/ ReconnectWakes \/ Reconnects \/ StartEnds \/ FlushBegins \/ FlushEnds
           \/ StopEnds \/ LinkBreaks \/ BrokerReturns \/ LinkReturns \/ LoopRetries
  <2>1. Rests
    BY <1>1 DEF LoopWakes, ReconnectWakes, Reconnects, StartEnds, FlushBegins, FlushEnds,
       StopEnds, LinkBreaks, BrokerReturns, LinkReturns, LoopRetries, bufferVars, network, Rests
  <2> QED
    BY <2>1
<1>2. CASE StartBegins
  <2>1. ~is_running
    BY <1>2 DEF StartBegins, IInv, Control
  <2>2. Starts
    BY <1>2, <2>1 DEF StartBegins, bufferVars, network, Starts
  <2> QED
    BY <2>2
<1>3. CASE StopBegins
  <2>1. Stops
    BY <1>3 DEF StopBegins, bufferVars, network, Stops
  <2> QED
    BY <2>1
<1>4. CASE LoopTakes
  <2>1. batch = <<>>
    BY <1>4 DEF LoopTakes, IInv, Control
  <2>2. BatchSize \in Nat
    BY DataBufferAssumption
  <2>3. Takes
    BY <1>4, <2>1, <2>2 DEF LoopTakes, Takes
  <2> QED
    BY <2>3
<1>5. CASE LoopFailed \/ LoopRetryRefused
  <2>1. UNCHANGED <<received, is_running>>
    BY <1>5 DEF LoopFailed, LoopRetryRefused, network
  <2>2. PICK n \in {attempt, attempt + 1} : LoopAfterFailure(n)
    BY <1>5 DEF LoopFailed, LoopRetryRefused
  <2>3. CASE n < MaxRetries
    <3>1. Rests
      BY <2>1, <2>2, <2>3 DEF LoopAfterFailure, bufferVars, Rests
    <3> QED
      BY <3>1
  <2>4. CASE ~(n < MaxRetries)
    <3>1. PutsBack
      BY <2>1, <2>2, <2>4 DEF LoopAfterFailure, PutsBack
    <3> QED
      BY <3>1
  <2> QED
    BY <2>3, <2>4
<1>6. CASE LoopConfirmed \/ FlushConfirmed
  <2>1. message = "arrived"
    BY <1>6 DEF LoopConfirmed, FlushConfirmed, CountSuccess
  <2>2. ToSet(batch) \subseteq ToSet(received)
    BY <2>1 DEF IInv, Arrived
  <2>3. Confirms
    BY <1>6, <2>2 DEF LoopConfirmed, FlushConfirmed, bufferVars, Confirms
  <2> QED
    BY <2>3
<1>7. CASE StopCancels
  <2>1. is_running' = FALSE /\ UNCHANGED buffer
    BY <1>7 DEF StopCancels, bufferVars
  <2>2. CASE CancelPublishTask
    <3>1. Drops
      BY <2>1, <2>2 DEF CancelPublishTask, Drops
    <3> QED
      BY <3>1
  <2>3. CASE CancellationSwallowed
    <3>1. Stops
      BY <2>1, <2>3 DEF CancellationSwallowed, Stops
    <3> QED
      BY <3>1
  <2> QED
    BY <1>7, <2>2, <2>3 DEF StopCancels
<1>8. CASE FlushFailed
  <2>1. ~is_running /\ is_running \in BOOLEAN
    BY <1>8 DEF FlushFailed, IInv, Control, Typed
  <2>2. Drops
    BY <1>8, <2>1 DEF FlushFailed, bufferVars, Drops
  <2> QED
    BY <2>2
<1>9. CASE FlushTakes
  <2>1. /\ ~is_running /\ is_running \in BOOLEAN
        /\ batch = <<>>
    BY <1>9 DEF FlushTakes, IInv, Control, Typed
  <2>2. /\ flush_size \in Nat /\ GetBatch(flush_size)
        /\ UNCHANGED <<received, is_running>>
    <3>1. flush_size \in 0 .. FlushBatch /\ FlushBatch \in Nat
      BY PublisherAssumption DEF IInv, Typed
    <3> QED
      BY <3>1, <1>9 DEF FlushTakes
  <2>3. CASE is_connected
    <3>1. Takes
      BY <1>9, <2>1, <2>2, <2>3 DEF FlushTakes, Takes
    <3> QED
      BY <3>1
  <2>4. CASE ~is_connected
    <3>1. GivesUp
      BY <1>9, <2>1, <2>2, <2>4 DEF FlushTakes, GivesUp
    <3> QED
      BY <3>1
  <2> QED
    BY <2>3, <2>4
<1>10. CASE MessageArrives
  <2>1. Sends
    BY <1>10 DEF MessageArrives, bufferVars, Sends
  <2> QED
    BY <2>1
<1>11. CASE \E k \in 1 .. BatchSize : Produce(k)
  <2>1. UNCHANGED <<batch, received, is_running>>
    BY <1>11 DEF Produce, network
  <2>2. Stores
    BY <1>11, <2>1 DEF Stores
  <2> QED
    BY <2>2
<1>12. CASE UNCHANGED vars
  <2>1. Rests
    BY <1>12 DEF vars, bufferVars, network, Rests
  <2> QED
    BY <2>1
<1> QED
  BY <1>1, <1>2, <1>3, <1>4, <1>5, <1>6, <1>7, <1>8, <1>9, <1>10, <1>11, <1>12
  DEF Next, PublishLoop, ReconnectLoop, Stop, Environment

\* The items of one collection are sorted and come after those before.
LEMMA FreshSorted ==
  ASSUME produced \in 0 .. MaxItems, NEW k \in Nat, produced + k <= MaxItems
  PROVE  LET items == [i \in 1 .. k |-> produced + i]
         IN  Sorted(items) /\ Below(1 .. produced, ToSet(items))
<1> DEFINE items == [i \in 1 .. k |-> produced + i]
<1>1. /\ items \in Seq(Item) /\ Len(items) = k
      /\ ToSet(items) = {items[i] : i \in 1 .. k}
  BY FreshFacts
<1>2. \A i \in 1 .. k : items[i] = produced + i
  OBVIOUS
<1> HIDE DEF items
<1>3. Sorted(items)
  BY <1>1, <1>2 DEF Sorted
<1>4. Below(1 .. produced, ToSet(items))
  BY <1>1, <1>2 DEF Below
<1> QED
  BY <1>3, <1>4 DEF items

LEMMA OrderKept ==
  ASSUME IInv, Ordered, [Next]_vars
  PROVE  Ordered'
<1>1. /\ batch \in Seq(Item) /\ buffer \in Seq(Item) /\ received \in Seq(Item)
      /\ produced \in 0 .. MaxItems
  BY DEF IInv, Typed
<1>2. ToSet(buffer) \cup ToSet(batch) \cup ToSet(received) \subseteq 1 .. produced
  BY DEF IInv, Apart
<1>3. CASE Rests \/ Starts \/ Stops \/ Sends
  <2>1. batch' = batch /\ buffer' = buffer
    BY <1>3 DEF Rests, Starts, Stops, Sends
  <2> QED
    BY <2>1 DEF Ordered
<1>4. CASE Confirms \/ Drops
  <2>1. batch' = <<>> /\ buffer' = buffer
    BY <1>4 DEF Confirms, Drops
  <2> QED
    BY <2>1, <1>1, NothingBefore DEF Ordered
<1>5. CASE Takes
  <2>1. PICK size \in Nat : GetBatch(size) /\ batch' = Batch(size)
    BY <1>5 DEF Takes
  <2> QED
    BY <2>1, <1>1, SortedTake DEF Ordered
<1>6. CASE GivesUp
  <2>1. PICK size \in Nat : GetBatch(size) /\ batch' = <<>>
    BY <1>6 DEF GivesUp
  <2>2. buffer' \in Seq(Item) /\ Sorted(buffer')
    BY <2>1, <1>1, SortedTake, TakeFacts DEF Ordered
  <2> QED
    BY <2>1, <2>2, NothingBefore DEF Ordered
<1>7. CASE PutsBack
  <2>1. buffer' = AfterPutFront(batch) /\ batch' = <<>>
    BY <1>7 DEF PutsBack, PutFront
  <2>2. Sorted(batch \o buffer)
    BY <1>1, SortedBoth, ItemsAreNumbers DEF Ordered
  <2>3. Sorted(buffer')
    BY <2>1, <2>2, <1>1, SortedPut
  <2>4. buffer' \in Seq(Item)
    BY <2>1, <1>1, PutFacts DEF IInv, Typed
  <2> QED
    BY <2>1, <2>3, <2>4, NothingBefore DEF Ordered
<1>8. CASE Stores
  <2>1. PICK k \in 1 .. BatchSize : Produce(k)
    BY <1>8 DEF Stores
  <2> DEFINE items == [i \in 1 .. k |-> produced + i]
  <2>2. k \in Nat /\ produced + k <= MaxItems
    BY <2>1 DEF Produce
  <2>3. items \in Seq(Item) /\ Sorted(items) /\ Below(1 .. produced, ToSet(items))
    BY <1>1, <2>2, FreshFacts, FreshSorted
  <2>4. buffer' = AfterPut(items) /\ batch' = batch
    BY <1>8, <2>1 DEF Produce, PutMany, Stores
  <2> HIDE DEF items
  <2>5. Sorted(buffer \o items)
    <3>1. Below(ToSet(buffer), ToSet(items))
      BY <1>2, <2>3 DEF Below
    <3> QED
      BY <3>1, <1>1, <2>3, SortedBoth, ItemsAreNumbers DEF Ordered
  <2>6. Sorted(buffer')
    BY <2>4, <2>5, <1>1, <2>3, SortedPut
  <2>7. ToSet(buffer') \subseteq ToSet(buffer) \cup ToSet(items)
    BY <2>3, <2>4, <1>1, PutFacts DEF IInv, Typed
  <2>8. Below(ToSet(batch), ToSet(buffer'))
    BY <2>3, <2>7, <1>2 DEF Ordered, Below
  <2> QED
    BY <2>4, <2>6, <2>8 DEF Ordered
<1> QED
  BY StepKinds, <1>3, <1>4, <1>5, <1>6, <1>7, <1>8

(* Each kind of step is one of Feed's, or none.                            *)

\* Feed brings its own copies of the library's operators.
LEMMA SameOperators ==
  /\ \A S : Promise!Cardinality(S) = Cardinality(S)
  /\ \A s : Promise!ToSet(s) = ToSet(s)
BY DEF Promise!Cardinality, Cardinality, Promise!ToSet, ToSet

\* What Feed's definitions say of Publisher's variables.
LEMMA FeedForms ==
  LET W == ToSet(buffer) \cup ToSet(batch)
  IN  /\ \A n : Promise!Oldest(n) = {x \in W : Cardinality({y \in W : y < x}) < n}
      /\ \A S : Promise!InOrder(S) =
           {s \in [1 .. Cardinality(S) -> S] :
              \A i, j \in 1 .. Cardinality(S) : i < j => s[i] < s[j]}
      /\ \A S : Promise!Overflow(S) =
           IF Cardinality(S) > MaxSize THEN Cardinality(S) - MaxSize ELSE 0
      /\ \A n \in 0 .. Cardinality(W) :
           Promise!Deliver(n) \/ Promise!Confirm(n) \/ Promise!Abandon(n) => Promise!Next
<1> DEFINE W == ToSet(buffer) \cup ToSet(batch)
<1>1. \A n : Promise!Oldest(n) = {x \in W : Cardinality({y \in W : y < x}) < n}
  BY SameOperators DEF Promise!Oldest
<1>2. \A S : Promise!InOrder(S) =
        {s \in [1 .. Cardinality(S) -> S] :
           \A i, j \in 1 .. Cardinality(S) : i < j => s[i] < s[j]}
  BY SameOperators DEF Promise!InOrder
<1>3. \A S : Promise!Overflow(S) =
        IF Cardinality(S) > MaxSize THEN Cardinality(S) - MaxSize ELSE 0
  BY SameOperators DEF Promise!Overflow
<1>4. \A n \in 0 .. Cardinality(W) :
        Promise!Deliver(n) \/ Promise!Confirm(n) \/ Promise!Abandon(n) => Promise!Next
  BY SameOperators DEF Promise!Next
<1> QED
  BY <1>1, <1>2, <1>3, <1>4

\* In a sorted queue the oldest ones are those in front.
LEMMA OldestInFront ==
  ASSUME NEW s \in Seq(Item), NEW t \in Seq(Item), Sorted(s), Below(ToSet(s), ToSet(t)),
         NEW W, W = ToSet(t) \cup ToSet(s)
  PROVE  /\ {x \in W : Cardinality({y \in W : y < x}) < Len(s)} = ToSet(s)
         /\ Len(s) \in 0 .. Cardinality(W)
         /\ s \in Promise!InOrder(ToSet(s))
<1>1. Len(s) \in Nat /\ MaxItems \in Nat
  BY LenProperties, PublisherAssumption
<1>2. ToSet(s) \subseteq Item /\ ToSet(t) \subseteq Item
  BY Members
<1>3. \A x \in W : x \in Nat
  BY <1>1, <1>2 DEF Item
<1>4. Distinct(s)
  BY SortedIsDistinct, ItemsAreNumbers
<1>5. /\ IsFiniteSet(ToSet(s)) /\ Cardinality(ToSet(s)) = Len(s)
      /\ IsFiniteSet(ToSet(t))
  BY <1>4, MemberCount
<1>6. IsFiniteSet(W)
  BY <1>5, FS_Union
<1>7. ASSUME NEW x \in ToSet(t)
      PROVE  ~(Cardinality({y \in W : y < x}) < Len(s))
  <2> DEFINE B == {y \in W : y < x}
  <2>1. IsFiniteSet(B)
    BY <1>6, FS_Subset
  <2>2. ToSet(s) \in SUBSET B
    BY <1>7 DEF Below
  <2>3. Cardinality(ToSet(s)) <= Cardinality(B) /\ Cardinality(B) \in Nat
    BY <2>1, <2>2, FS_Subset, FS_CardinalityType
  <2> QED
    BY <2>3, <1>1, <1>5
<1>8. ASSUME NEW x \in ToSet(s)
      PROVE  Cardinality({y \in W : y < x}) < Len(s)
  <2> DEFINE B == {y \in W : y < x}
  <2>1. ASSUME NEW y \in B  PROVE y \in ToSet(s)
    <3>1. CASE y \in ToSet(t)
      <4>1. x < y /\ y < x
        BY <3>1, <1>8 DEF Below
      <4> QED
        BY <4>1, <1>3
    <3> QED
      BY <3>1
  <2>2. B \in SUBSET ToSet(s)
    BY <2>1
  <2>3. x \notin B
    BY <1>3
  <2>4. IsFiniteSet(B) /\ Cardinality(B) <= Cardinality(ToSet(s))
        /\ (Cardinality(ToSet(s)) = Cardinality(B) => ToSet(s) = B)
    BY <2>2, <1>5, FS_Subset
  <2>5. Cardinality(B) \in Nat
    BY <2>4, FS_CardinalityType
  <2> QED
    BY <2>3, <2>4, <2>5, <1>1, <1>5, <1>8
<1>9. {x \in W : Cardinality({y \in W : y < x}) < Len(s)} = ToSet(s)
  BY <1>7, <1>8
<1>10. Len(s) \in 0 .. Cardinality(W)
  <2>1. ToSet(s) \in SUBSET W
    OBVIOUS
  <2>2. Cardinality(ToSet(s)) <= Cardinality(W) /\ Cardinality(W) \in Nat
    BY <2>1, <1>6, FS_Subset, FS_CardinalityType
  <2> QED
    BY <2>2, <1>1, <1>5
<1>11. s \in Promise!InOrder(ToSet(s))
  <2>1. s \in [1 .. Len(s) -> ToSet(s)]
    <3>1. s \in [1 .. Len(s) -> Item]
      BY LenProperties
    <3>2. \A i \in 1 .. Len(s) : s[i] \in ToSet(s)
      BY Members DEF Queued
    <3> QED
      BY <3>1, <3>2
  <2> QED
    BY <2>1, <1>5, FeedForms DEF Sorted
<1> QED
  BY <1>9, <1>10, <1>11

\* The batch is what Feed delivers, confirms or abandons next.
LEMMA BatchIsOldest ==
  ASSUME IInv, Ordered
  PROVE  /\ Promise!Oldest(Len(batch)) = ToSet(batch)
         /\ Len(batch) \in 0 .. Cardinality(ToSet(buffer) \cup ToSet(batch))
         /\ batch \in Promise!InOrder(ToSet(batch))
         /\ (ToSet(buffer) \cup ToSet(batch)) \ ToSet(batch) = ToSet(buffer)
<1>1. batch \in Seq(Item) /\ buffer \in Seq(Item)
  BY DEF IInv, Typed
<1>2. ToSet(batch) \cap ToSet(buffer) = {}
  BY DEF IInv, Apart
<1> DEFINE W == ToSet(buffer) \cup ToSet(batch)
<1>3. /\ {x \in W : Cardinality({y \in W : y < x}) < Len(batch)} = ToSet(batch)
      /\ Len(batch) \in 0 .. Cardinality(W)
      /\ batch \in Promise!InOrder(ToSet(batch))
  BY <1>1, OldestInFront DEF Ordered
<1>4. Promise!Oldest(Len(batch)) = {x \in W : Cardinality({y \in W : y < x}) < Len(batch)}
  BY FeedForms
<1> QED
  BY <1>2, <1>3, <1>4

\* What does not fit into the buffer does not fit into the feed.
LEMMA NoRoom ==
  ASSUME IInv, NEW items \in Seq(Item), Distinct(items), ToSet(items) \cap ToSet(buffer) = {},
         NEW W, IsFiniteSet(W), ToSet(buffer) \cup ToSet(items) \subseteq W,
         NEW L, Cardinality(L) \in Nat, Cardinality(L) <= Excess(Len(buffer), Len(items))
  PROVE  Cardinality(L) <= Promise!Overflow(W)
<1>1. /\ buffer \in Seq(Item) /\ Len(buffer) <= MaxSize /\ Distinct(buffer)
  BY DEF IInv, Typed, Apart
<1>2. Len(buffer) \in Nat /\ Len(items) \in Nat /\ MaxSize \in Nat
  BY <1>1, LenProperties, DataBufferAssumption
<1> DEFINE all == buffer \o items
<1>3. /\ all \in Seq(Item) /\ Len(all) = Len(buffer) + Len(items) /\ Distinct(all)
      /\ ToSet(all) = ToSet(buffer) \cup ToSet(items)
  BY <1>1, MembersOfBoth
<1> HIDE DEF all
<1>4. Cardinality(ToSet(all)) = Len(buffer) + Len(items)
  BY <1>3, MemberCount
<1>5. Cardinality(ToSet(all)) <= Cardinality(W) /\ Cardinality(W) \in Nat
  <2>1. ToSet(all) \in SUBSET W
    BY <1>3
  <2> QED
    BY <2>1, FS_Subset, FS_CardinalityType
<1> DEFINE n == Len(buffer)
           k == Len(items)
<1>6. /\ n + k > MaxSize => Excess(n, k) = n + k - MaxSize
      /\ ~(n + k > MaxSize) => Excess(n, k) = 0
  BY <1>1, <1>2 DEF Excess
<1>7. Promise!Overflow(W) = IF Cardinality(W) > MaxSize THEN Cardinality(W) - MaxSize ELSE 0
  BY FeedForms
<1> QED
  BY <1>2, <1>4, <1>5, <1>6, <1>7

\* The steps that are none of Feed's, and its simpler ones.
LEMMA StepsOfBatch ==
  ASSUME IInv, Ordered, Rests \/ Starts \/ Stops \/ Takes \/ Sends \/ Confirms \/ Drops
  PROVE  [Promise!Next]_(Promise!vars)
<1> DEFINE W == ToSet(buffer) \cup ToSet(batch)
           k == Len(batch)
<1>1. /\ Promise!Oldest(k) = ToSet(batch)
      /\ k \in 0 .. Cardinality(W)
      /\ batch \in Promise!InOrder(Promise!Oldest(k))
      /\ W \ Promise!Oldest(k) = ToSet(buffer)
  BY BatchIsOldest
<1>2. batch \in Seq(Item) /\ buffer \in Seq(Item) /\ received \in Seq(Item)
  BY DEF IInv, Typed
<1>3. CASE Rests
  <2>1. UNCHANGED Promise!vars
    BY <1>3 DEF Rests, Promise!vars
  <2> QED
    BY <2>1
<1>4. CASE Starts
  <2>1. Promise!Start
    BY <1>4 DEF Starts, Promise!Start
  <2> QED
    BY <2>1 DEF Promise!Next
<1>5. CASE Stops
  <2>1. Promise!Oldest(0) = {}
    <3>1. IsFiniteSet(W)
      BY <1>2, MemberCount, FS_Union
    <3>2. ASSUME NEW x \in W  PROVE ~(Cardinality({y \in W : y < x}) < 0)
      <4>1. IsFiniteSet({y \in W : y < x})
        BY <3>1, FS_Subset
      <4> QED
        BY <4>1, FS_CardinalityType
    <3>3. Promise!Oldest(0) = {x \in W : Cardinality({y \in W : y < x}) < 0}
      BY FeedForms
    <3> QED
      BY <3>2, <3>3
  <2>2. Promise!Abandon(0)
    BY <2>1, <1>5 DEF Stops, Promise!Abandon
  <2>3. 0 \in 0 .. Cardinality(W)
    <3>1. IsFiniteSet(W)
      BY <1>2, MemberCount, FS_Union
    <3> QED
      BY <3>1, FS_CardinalityType
  <2> QED
    BY <2>2, <2>3, FeedForms
<1>6. CASE Takes
  <2>1. PICK size \in Nat : GetBatch(size) /\ batch' = Batch(size)
    BY <1>6 DEF Takes
  <2>2. ToSet(buffer) = ToSet(batch') \cup ToSet(buffer') /\ ToSet(batch) = {}
    BY <2>1, <1>2, <1>6, TakeFacts, NoMembers DEF Takes
  <2>3. UNCHANGED Promise!vars
    BY <2>2, <1>6 DEF Takes, Promise!vars
  <2> QED
    BY <2>3
<1>7. CASE Sends
  <2>1. Promise!Deliver(k)
    BY <1>1, <1>7 DEF Sends, Promise!Deliver
  <2> QED
    BY <2>1, <1>1, FeedForms
<1>8. CASE Confirms
  <2>1. ToSet(batch') = {} /\ ToSet(buffer') = ToSet(buffer)
    BY <1>8, NoMembers DEF Confirms
  <2>2. Promise!Confirm(k)
    BY <2>1, <1>1, <1>8, SameOperators DEF Confirms, Promise!Confirm
  <2> QED
    BY <2>2, <1>1, FeedForms
<1>9. CASE Drops
  <2>1. ToSet(batch') = {} /\ ToSet(buffer') = ToSet(buffer)
    BY <1>9, NoMembers DEF Drops
  <2>2. Promise!Abandon(k)
    BY <2>1, <1>1, <1>9 DEF Drops, Promise!Abandon
  <2> QED
    BY <2>2, <1>1, FeedForms
<1> QED
  BY <1>3, <1>4, <1>5, <1>6, <1>7, <1>8, <1>9

\* What Feed asks of a step that accepts S and loses L.
LEMMA AcceptForm ==
  ASSUME NEW S, NEW L, S \subseteq Item,
         L \subseteq ToSet(buffer) \cup ToSet(batch) \cup S,
         \A x \in S : \A y \in ToSet(buffer) \cup ToSet(batch) \cup ToSet(received) : y < x,
         Cardinality(L) <= Promise!Overflow(ToSet(buffer) \cup ToSet(batch) \cup S),
         ToSet(buffer') \cup ToSet(batch') = (ToSet(buffer) \cup ToSet(batch) \cup S) \ L,
         UNCHANGED <<is_running, received>>
  PROVE  Promise!Next
<1>1. Promise!Accept(S, L)
  BY SameOperators DEF Promise!Accept
<1>2. S \in SUBSET (1 .. MaxItems) /\ L \in SUBSET (ToSet(buffer) \cup ToSet(batch) \cup S)
  BY DEF Item
<1> QED
  BY <1>1, <1>2 DEF Promise!Next

\* The steps that give up, put back or store items.
LEMMA StepsOfBuffer ==
  ASSUME IInv, Ordered, GivesUp \/ PutsBack \/ Stores
  PROVE  Promise!Next
<1> DEFINE W == ToSet(buffer) \cup ToSet(batch)
<1>1. /\ batch \in Seq(Item) /\ buffer \in Seq(Item) /\ received \in Seq(Item)
      /\ Len(buffer) <= MaxSize /\ produced \in 0 .. MaxItems
  BY DEF IInv, Typed
<1>2. /\ Distinct(buffer) /\ Distinct(batch)
      /\ ToSet(batch) \cap ToSet(buffer) = {}
      /\ ToSet(buffer) \cup ToSet(batch) \cup ToSet(received) \subseteq 1 .. produced
  BY DEF IInv, Apart
<1>3. IsFiniteSet(W)
  BY <1>1, MemberCount, FS_Union
<1>4. CASE GivesUp
  <2>1. PICK size \in Nat : GetBatch(size)
    BY <1>4 DEF GivesUp
  <2> DEFINE front == Batch(size)
  <2>2. /\ front \in Seq(Item) /\ buffer' \in Seq(Item)
        /\ ToSet(buffer) = ToSet(front) \cup ToSet(buffer')
        /\ ToSet(front) \cap ToSet(buffer') = {}
        /\ Sorted(front) /\ Below(ToSet(front), ToSet(buffer'))
    BY <2>1, <1>1, <1>2, TakeFacts, SortedTake DEF Ordered
  <2> HIDE DEF front
  <2>3. ToSet(batch) = {} /\ ToSet(batch') = {}
    BY <1>4, NoMembers DEF GivesUp
  <2>4. W = ToSet(buffer') \cup ToSet(front)
    BY <2>2, <2>3
  <2> HIDE DEF W
  <2>5. /\ {x \in W : Cardinality({y \in W : y < x}) < Len(front)} = ToSet(front)
        /\ Len(front) \in 0 .. Cardinality(W)
    BY <2>2, <2>4, OldestInFront
  <2>6. Promise!Oldest(Len(front)) = ToSet(front)
    BY <2>5, FeedForms DEF W
  <2>7. ToSet(buffer') \cup ToSet(batch') = W \ ToSet(front)
    BY <2>2, <2>3, <2>4
  <2>8. Promise!Abandon(Len(front))
    BY <2>6, <2>7, <1>4 DEF GivesUp, Promise!Abandon, W
  <2> QED
    BY <2>5, <2>8, FeedForms DEF W
<1>5. CASE PutsBack
  <2>1. /\ buffer' = AfterPutFront(batch) /\ batch' = <<>>
        /\ UNCHANGED <<is_running, received>>
    BY <1>5 DEF PutsBack, PutFront
  <2> DEFINE L == W \ ToSet(buffer')
  <2>2. /\ ToSet(buffer') \subseteq W
        /\ IsFiniteSet(L) /\ Cardinality(L) <= Excess(Len(buffer), Len(batch))
    BY <2>1, <1>1, PutFacts
  <2>3. Cardinality(L) \in Nat
    BY <2>2, FS_CardinalityType
  <2>4. Cardinality(L) <= Promise!Overflow(W)
    BY <2>2, <2>3, <1>1, <1>2, <1>3, NoRoom
  <2>5. ToSet(batch') = {}
    BY <2>1, NoMembers
  <2>6. W \cup {} = W
    OBVIOUS
  <2> QED
    BY <2>1, <2>2, <2>4, <2>5, <2>6, AcceptForm
<1>6. CASE Stores
  <2>1. PICK k \in 1 .. BatchSize : Produce(k)
    BY <1>6 DEF Stores
  <2> DEFINE items == [i \in 1 .. k |-> produced + i]
             S == ToSet(items)
             both == ToSet(buffer) \cup S
             L == both \ ToSet(buffer')
  <2>2. k \in Nat /\ produced + k <= MaxItems
    BY <2>1 DEF Produce
  <2>3. /\ items \in Seq(Item) /\ Distinct(items)
        /\ S \cap (1 .. produced) = {}
        /\ Below(1 .. produced, S)
    BY <1>1, <2>2, FreshFacts, FreshSorted
  <2>4. /\ buffer' = AfterPut(items) /\ batch' = batch
        /\ UNCHANGED <<is_running, received>>
    BY <1>6, <2>1 DEF Produce, PutMany, Stores
  <2> HIDE DEF items
  <2>5. /\ ToSet(buffer') \subseteq both
        /\ IsFiniteSet(L) /\ Cardinality(L) <= Excess(Len(buffer), Len(items))
    BY <2>3, <2>4, <1>1, PutFacts
  <2>6. Cardinality(L) \in Nat
    BY <2>5, FS_CardinalityType
  <2>7. S \cap ToSet(buffer) = {} /\ S \cap ToSet(batch) = {} /\ S \subseteq Item
    BY <1>2, <2>3, Members
  <2>8. IsFiniteSet(W \cup S)
    BY <1>3, <2>3, MemberCount, FS_Union
  <2>9. both \subseteq W \cup S
    OBVIOUS
  <2>10. Cardinality(L) <= Promise!Overflow(W \cup S)
    BY <2>3, <2>5, <2>6, <2>7, <2>8, <2>9, NoRoom
  <2>11. \A x \in S : \A y \in W \cup ToSet(received) : y < x
    BY <1>2, <2>3 DEF Below
  <2>12. ToSet(buffer') \cup ToSet(batch') = (W \cup S) \ L
    BY <1>2, <2>4, <2>5, <2>7
  <2>13. L \subseteq W \cup S
    BY <2>9
  <2> HIDE DEF S, L
  <2> QED
    BY <2>4, <2>7, <2>10, <2>11, <2>12, <2>13, AcceptForm
<1> QED
  BY <1>4, <1>5, <1>6

\* At the start nothing waits and nothing is delivered.
LEMMA FeedBegins == Init => Promise!Init /\ Ordered
<1> SUFFICES ASSUME Init  PROVE Promise!Init /\ Ordered
  OBVIOUS
<1>1. buffer = <<>> /\ batch = <<>> /\ received = <<>> /\ is_running = FALSE
  BY DEF Init, BufferInit
<1>2. ToSet(buffer) = {} /\ ToSet(batch) = {} /\ <<>> \in Seq(Item)
  BY <1>1, NoMembers
<1>3. Promise!Init
  BY <1>1, <1>2 DEF Promise!Init
<1>4. Ordered
  BY <1>1, <1>2, NothingBefore DEF Ordered
<1> QED
  BY <1>3, <1>4

\* The batch and the buffer stay in the order of production, however often a batch comes back.
THEOREM AlwaysOrdered == Spec => []Ordered
<1>1. Init => Ordered
  BY FeedBegins
<1>2. IInv /\ Ordered /\ [Next]_vars => Ordered'
  BY OrderKept
<1> QED
  BY <1>1, <1>2, Invariance, PTL DEF Spec

\* Publisher implements Feed: with its retries, its puts back, its reconnections, its stop
\* and its flush, every step is one of Feed's or changes nothing that Feed sees
\* (base.py:313-376, 424-462; project_overview.md:246).
THEOREM PublisherKeepsPromise == Spec => KeepsPromise
<1>1. Init => Promise!Init
  BY FeedBegins
<1>2. IInv /\ Ordered /\ [Next]_vars => [Promise!Next]_(Promise!vars)
  <2> SUFFICES ASSUME IInv, Ordered, [Next]_vars  PROVE [Promise!Next]_(Promise!vars)
    OBVIOUS
  <2>1. CASE Rests \/ Starts \/ Stops \/ Takes \/ Sends \/ Confirms \/ Drops
    BY <2>1, StepsOfBatch
  <2>2. CASE GivesUp \/ PutsBack \/ Stores
    BY <2>2, StepsOfBuffer
  <2> QED
    BY <2>1, <2>2, StepKinds
<1> QED
  BY <1>1, <1>2, Invariance, AlwaysOrdered, PTL DEF Spec, KeepsPromise, Promise!Spec
=============================================================================
