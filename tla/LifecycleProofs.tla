--------------------------- MODULE LifecycleProofs --------------------------
(***************************************************************************)
(* Proofs about Lifecycle, for any capacity, batch size, initial file and  *)
(* bounds: the types, Accounted, TwiceForAReason and RoomForLoaded.        *)
(*                                                                         *)
(* Accounted is not inductive: what a kill or a save may lose depends on   *)
(* where main() is.  Held says that up to the save the process itself has  *)
(* everything, the items of the file included, so that the file may be     *)
(* truncated; Kept, that outside the save everything is safe but what was  *)
(* accepted since.  TwiceForAReason needs to know that an item waits once. *)
(***************************************************************************)
EXTENDS Lifecycle, QueueLemmas

Item == 1 .. MaxItems

\* Types, as the steps need them.
Typed ==
  /\ drop_oldest \in BOOLEAN /\ shutdown \in BOOLEAN
  /\ collecting \in BOOLEAN /\ subscribed \in BOOLEAN /\ publishing \in BOOLEAN
  /\ buffer \in Seq(Item) /\ batch \in Seq(Item)
  /\ queue \in Seq(Item) /\ received \in Seq(Item)
  /\ main \in {"down", "publisher", "collector", "waiting", "stopping", "unpublishing",
               "flushing", "shutdown", "saving", "closing"}
  /\ loaded \in Nat /\ collected \in OldItems .. MaxItems
  /\ fresh \subseteq accepted /\ dropped \subseteq accepted /\ lost \subseteq accepted

\* A file that can be read holds accepted items, each once.
Readable ==
  file # Torn =>
    file \in Seq(Item) /\ Distinct(file) /\ ToSet(file) \subseteq accepted

\* Which parts are at work, and what is where, in each stage of main().
Control ==
  /\ publishing => main \in {"collector", "waiting", "stopping", "unpublishing"}
  /\ subscribed => main \in {"publisher", "collector", "waiting", "stopping"}
  /\ main \in {"down", "publisher", "shutdown", "saving", "closing"} => batch = <<>>
  /\ main = "saving" => file = Torn

\* Readings are numbered as they come; those in the bus are not accepted yet.
Numbered ==
  /\ accepted \subseteq 1 .. collected
  /\ Distinct(queue) /\ ToSet(queue) \subseteq 1 .. collected
  /\ ToSet(queue) \cap accepted = {}
  /\ Memory \cup ToSet(received) \subseteq accepted

\* Until it saves, a process has in its hands what nobody else has: the file's items, too.
Held ==
  main \notin {"down", "closing"} =>
    accepted \subseteq ToSet(received) \cup Memory \cup dropped \cup lost

\* What a kill cannot touch, and what it can.
Kept ==
  main # "saving" =>
    accepted \subseteq ToSet(received) \cup ToSet(file) \cup dropped \cup lost
                       \cup (IF main \in {"down", "closing"} THEN {} ELSE fresh)

\* An item waits in one place only, and none that is at the broker unless it is suspect.
Once ==
  /\ Distinct(buffer) /\ Distinct(batch)
  /\ ToSet(batch) \cap ToSet(buffer) = {}
  /\ ToSet(received) \cap Memory \subseteq suspect

IInv ==
  /\ Typed
  /\ Readable
  /\ Control
  /\ Numbered
  /\ Held
  /\ Kept
  /\ Once
  /\ TwiceForAReason
  /\ RoomForLoaded
-----------------------------------------------------------------------------
(* The deque's operations.                                                 *)

\* The deque with a new item behind it.
LEMMA DequeAndOne ==
  ASSUME buffer \in Seq(Item), Distinct(buffer), NEW one \in Seq(Item), Distinct(one),
         ToSet(buffer) \cap ToSet(one) = {}
  PROVE  /\ buffer \o one \in Seq(Item) /\ Len(buffer \o one) = Len(buffer) + Len(one)
         /\ ToSet(buffer \o one) = ToSet(buffer) \cup ToSet(one)
         /\ Distinct(buffer \o one)
BY MembersOfBoth

\* put of one item: in, or refused by a full buffer that keeps its oldest; a full
\* buffer does not grow.
LEMMA PutFacts ==
  ASSUME drop_oldest \in BOOLEAN, buffer \in Seq(Item), Distinct(buffer),
         NEW x \in Item, x \notin ToSet(buffer),
         NEW one \in Seq(Item), Len(one) = 1, one[1] = x, ToSet(one) = {x}, Distinct(one),
         NEW r, r = Deque!AfterPut(one), NEW n, n = Deque!AcceptedCount(one)
  PROVE  /\ r \in Seq(Item) /\ Distinct(r)
         /\ \/ n = 1 /\ x \in ToSet(r) /\ ToSet(r) \subseteq ToSet(buffer) \cup {x}
            \/ n = 0 /\ r = buffer
         /\ Len(r) <= MaxSize \/ Len(r) <= Len(buffer)
<1> DEFINE all == buffer \o one
           k == Len(buffer)
           e == Deque!Excess(k, 1)
<1>1. k \in Nat /\ MaxSize \in Nat \ {0}
  BY LenProperties, LifecycleAssumption
<1>2. /\ r = IF drop_oldest THEN SubSeq(all, e + 1, Len(all)) ELSE SubSeq(all, 1, Len(all) - e)
      /\ n = IF drop_oldest THEN 1 ELSE 1 - e
  BY DEF Deque!AfterPut, Deque!AcceptedCount
<1>3. e \in 0 .. 1 /\ (e = 1 <=> k >= MaxSize)
  BY <1>1 DEF Deque!Excess
<1> HIDE DEF e
<1>4. /\ all \in Seq(Item) /\ Len(all) = k + 1
      /\ ToSet(all) = ToSet(buffer) \cup {x} /\ Distinct(all)
  <2>1. ToSet(buffer) \cap ToSet(one) = {}
    OBVIOUS
  <2>2. /\ all \in Seq(Item) /\ Len(all) = Len(buffer) + Len(one)
        /\ ToSet(all) = ToSet(buffer) \cup ToSet(one)
        /\ Distinct(all)
    BY <2>1, DequeAndOne
  <2> QED
    BY <2>2
<1>5. all[k + 1] = x /\ \A i \in 1 .. k : all[i] = buffer[i]
  BY <1>1, ConcatProperties
<1> HIDE DEF all, k
<1> DEFINE d == Len(all) - e
<1>6. e \in 0 .. Len(all) /\ d \in 0 .. Len(all)
  BY <1>1, <1>3, <1>4
<1> HIDE DEF d
<1>7. CASE drop_oldest
  <2>1. r = SubSeq(all, e + 1, Len(all)) /\ n = 1
    BY <1>2, <1>7
  <2>2. /\ r \in Seq(Item) /\ Len(r) = Len(all) - e /\ Distinct(r)
        /\ ToSet(r) \subseteq ToSet(all)
    BY <2>1, <1>4, <1>6, MembersOfParts
  <2>3. x \in ToSet(r)
    <3>1. k + 1 - e \in 1 .. Len(all) - e /\ e + (k + 1 - e) = k + 1
      BY <1>1, <1>3, <1>4
    <3>2. r[k + 1 - e] = all[e + (k + 1 - e)]
      BY <2>1, <3>1, <1>4, <1>6, CutQueue
    <3>3. k + 1 - e \in DOMAIN r
      BY <2>2, <3>1, <1>4, LenProperties
    <3> QED
      BY <3>1, <3>2, <3>3, <1>5 DEF ToSet
  <2>4. Len(r) <= MaxSize \/ Len(r) <= k
    BY <2>2, <1>1, <1>3, <1>4
  <2> QED
    BY <2>1, <2>2, <2>3, <2>4, <1>4 DEF k
<1>8. CASE ~drop_oldest
  <2>1. r = SubSeq(all, 1, d) /\ n = 1 - e
    BY <1>2, <1>8 DEF d
  <2>2. /\ r \in Seq(Item) /\ Len(r) = Len(all) - e /\ Distinct(r)
        /\ \A i \in 1 .. Len(all) - e : r[i] = all[i]
    <3>1. /\ r \in Seq(Item) /\ Len(r) = d /\ Distinct(r)
      BY <2>1, <1>4, <1>6, MembersOfParts
    <3>2. \A i \in 1 .. d : r[i] = all[i]
      BY <2>1, <1>4, <1>6, CutQueue
    <3> QED
      BY <3>1, <3>2 DEF d
  <2>3. CASE e = 0
    <3>1. n = 1 /\ Len(r) = Len(all) /\ \A i \in 1 .. Len(all) : r[i] = all[i]
      BY <2>1, <2>2, <2>3, <1>1, <1>4
    <3>2. r = all
      BY <2>2, <3>1, <1>4, SeqEqual
    <3>3. Len(r) <= MaxSize
      BY <3>1, <2>3, <1>1, <1>3, <1>4
    <3> QED
      BY <2>2, <3>1, <3>2, <3>3, <1>4
  <2>4. CASE e = 1
    <3>1. n = 0 /\ Len(r) = k /\ \A i \in 1 .. k : r[i] = buffer[i]
      BY <2>1, <2>2, <2>4, <1>1, <1>4, <1>5
    <3>2. r = buffer
      BY <2>2, <3>1, SeqEqual DEF k
    <3>3. Len(r) <= k
      BY <3>1, <1>1
    <3> QED
      BY <2>2, <3>1, <3>2, <3>3 DEF k
  <2> QED
    BY <2>3, <2>4, <1>3
<1> QED
  BY <1>7, <1>8

\* A failed batch that is put back: the deque has a part of the batch and of itself,
\* and only grows up to its capacity.
LEMMA PutBackFacts ==
  ASSUME drop_oldest \in BOOLEAN, buffer \in Seq(Item), batch \in Seq(Item),
         Distinct(buffer), Distinct(batch), ToSet(batch) \cap ToSet(buffer) = {},
         NEW r, r = Deque!AfterPutFront(batch)
  PROVE  /\ r \in Seq(Item) /\ Distinct(r)
         /\ ToSet(r) \subseteq Memory
         /\ Len(r) <= MaxSize \/ Len(r) <= Len(buffer)
<1> DEFINE all == batch \o buffer
           k == Len(buffer)
           m == Len(batch)
           e == Deque!Excess(k, m)
<1>1. k \in Nat /\ m \in Nat /\ MaxSize \in Nat \ {0}
  BY LenProperties, LifecycleAssumption
<1>2. /\ all \in Seq(Item) /\ Len(all) = m + k
      /\ ToSet(all) = Memory /\ Distinct(all)
  BY MembersOfBoth DEF Memory
<1>3. r = IF drop_oldest THEN SubSeq(all, 1, Len(all) - e) ELSE SubSeq(all, e + 1, Len(all))
  BY DEF Deque!AfterPutFront
<1>4. /\ e \in 0 .. m
      /\ k >= MaxSize => m + k - e = k
      /\ ~(k >= MaxSize) => m + k - e <= MaxSize
  BY <1>1 DEF Deque!Excess
<1> HIDE DEF all, e, k, m
<1>5. e \in 0 .. Len(all) /\ Len(all) - e \in 0 .. Len(all)
  BY <1>1, <1>2, <1>4
<1>6. /\ r \in Seq(Item) /\ Distinct(r) /\ ToSet(r) \subseteq ToSet(all)
      /\ Len(r) = m + k - e
  <2>1. CASE drop_oldest
    <3>1. r = SubSeq(all, 1, Len(all) - e)
      BY <2>1, <1>3
    <3>2. /\ r \in Seq(Item) /\ Distinct(r) /\ ToSet(r) \subseteq ToSet(all)
          /\ Len(r) = Len(all) - e
      BY <3>1, <1>2, <1>5, MembersOfParts
    <3> QED
      BY <3>2, <1>1, <1>2, <1>4
  <2>2. CASE ~drop_oldest
    <3>1. r = SubSeq(all, e + 1, Len(all))
      BY <2>2, <1>3
    <3>2. /\ r \in Seq(Item) /\ Distinct(r) /\ ToSet(r) \subseteq ToSet(all)
          /\ Len(r) = Len(all) - e
      BY <3>1, <1>2, <1>5, MembersOfParts
    <3> QED
      BY <3>2, <1>1, <1>2, <1>4
  <2> QED
    BY <2>1, <2>2
<1> QED
  BY <1>1, <1>2, <1>4, <1>6 DEF k

\* get_batch divides the deque.
LEMMA TakeFacts ==
  ASSUME buffer \in Seq(Item), NEW size \in Nat, Take(size)
  PROVE  /\ batch' \in Seq(Item) /\ buffer' \in Seq(Item)
         /\ ToSet(buffer) = ToSet(batch') \cup ToSet(buffer')
         /\ Len(buffer') <= Len(buffer)
         /\ drop_oldest' = drop_oldest
         /\ Distinct(buffer) => /\ Distinct(batch') /\ Distinct(buffer')
                                /\ ToSet(batch') \cap ToSet(buffer') = {}
<1> DEFINE m == Deque!BatchLen(size)
<1>1. Len(buffer) \in Nat
  BY LenProperties
<1>2. m \in 0 .. Len(buffer)
  BY <1>1 DEF Deque!BatchLen
<1>3. batch' = SubSeq(buffer, 1, m) /\ drop_oldest' = drop_oldest
  BY DEF Take, Deque!Batch
<1>4. buffer' = SubSeq(buffer, Len(batch') + 1, Len(buffer))
  BY DEF Take
<1> HIDE DEF m
<1>5. Len(batch') = m
  BY <1>2, <1>3, CutQueue
<1>6. buffer' = SubSeq(buffer, m + 1, Len(buffer))
  BY <1>4, <1>5
<1> QED
  BY <1>1, <1>2, <1>3, <1>6, MembersOfParts
-----------------------------------------------------------------------------
(* Each step preserves the invariant.                                      *)

\* The broker gets the batch or not: what it then has twice is suspect.
LEMMA Arrival ==
  ASSUME IInv, NEW r \in {received, received \o batch}
  PROVE  /\ r \in Seq(Item)
         /\ ToSet(received) \subseteq ToSet(r)
         /\ ToSet(r) \subseteq ToSet(received) \cup ToSet(batch)
         /\ r = received \o batch => ToSet(batch) \subseteq ToSet(r)
         /\ \A i, j \in DOMAIN r : i # j /\ r[i] = r[j] => r[i] \in suspect
<1>1. received \in Seq(Item) /\ batch \in Seq(Item)
  BY DEF IInv, Typed
<1>2. CASE r = received /\ r # received \o batch
  BY <1>1, <1>2 DEF IInv, TwiceForAReason
<1>3. CASE r = received \o batch
  <2>1. /\ r \in Seq(Item) /\ Len(r) = Len(received) + Len(batch)
        /\ ToSet(r) = ToSet(received) \cup ToSet(batch)
    BY <1>1, <1>3, MembersOfBoth
  <2>2. Len(received) \in Nat /\ Len(batch) \in Nat
    BY <1>1, LenProperties
  <2>3. /\ \A i \in 1 .. Len(received) : r[i] = received[i]
        /\ \A i \in 1 .. Len(r) : i > Len(received) =>
             i - Len(received) \in 1 .. Len(batch) /\ r[i] = batch[i - Len(received)]
    <3>1. \A i \in 1 .. Len(received) + Len(batch) :
            r[i] = IF i <= Len(received) THEN received[i] ELSE batch[i - Len(received)]
      BY <1>1, <1>3, ConcatProperties
    <3> QED
      BY <3>1, <2>1, <2>2
  <2>4. ASSUME NEW i \in 1 .. Len(r), NEW j \in 1 .. Len(r), i < j, r[i] = r[j]
        PROVE  r[i] \in suspect
    <3>1. CASE j <= Len(received)
      <4>1. /\ i \in DOMAIN received /\ j \in DOMAIN received /\ i # j
            /\ received[i] = received[j] /\ r[i] = received[i]
        BY <2>2, <2>3, <2>4, <3>1, <1>1, LenProperties
      <4> QED
        BY <4>1 DEF IInv, TwiceForAReason
    <3>2. CASE j > Len(received) /\ i <= Len(received)
      <4>1. /\ i \in 1 .. Len(received) /\ r[i] = received[i]
            /\ j - Len(received) \in 1 .. Len(batch) /\ r[j] = batch[j - Len(received)]
        BY <2>2, <2>3, <3>2
      <4>2. r[i] \in ToSet(received) /\ r[j] \in ToSet(batch)
        BY <4>1, <1>1, Members DEF Queued
      <4> QED
        BY <4>2, <2>4 DEF IInv, Once, Memory
    <3>3. CASE j > Len(received) /\ i > Len(received)
      <4>1. /\ i - Len(received) \in 1 .. Len(batch) /\ r[i] = batch[i - Len(received)]
            /\ j - Len(received) \in 1 .. Len(batch) /\ r[j] = batch[j - Len(received)]
        BY <2>3, <3>3
      <4>2. i - Len(received) = j - Len(received)
        BY <4>1, <2>4 DEF IInv, Once, Distinct
      <4> QED
        BY <4>2, <2>1, <2>2, <2>4
    <3> QED
      BY <3>1, <3>2, <3>3, <2>1, <2>2
  <2>5. \A i, j \in DOMAIN r : i # j /\ r[i] = r[j] => r[i] \in suspect
    <3> SUFFICES ASSUME NEW i \in DOMAIN r, NEW j \in DOMAIN r, i # j, r[i] = r[j]
                 PROVE  r[i] \in suspect
      OBVIOUS
    <3>1. i \in 1 .. Len(r) /\ j \in 1 .. Len(r) /\ Len(r) \in Nat
      BY <2>1, LenProperties
    <3>2. i < j \/ j < i
      BY <3>1
    <3> QED
      BY <3>1, <3>2, <2>4
  <2> QED
    BY <2>1, <2>5
<1> QED
  BY <1>2, <1>3

\* The steps of main() that move no data.
LEMMA OrderInvariant ==
  ASSUME IInv,
         \/ StartPublisher \/ StartCollector \/ Signal \/ StopBegins \/ StopCollector
         \/ NothingToSave
  PROVE  IInv'
<1>1. UNCHANGED <<drop_oldest, buffer, queue, batch, file, received, collected, accepted, fresh,
                  dropped, lost, loaded, suspect>>
  BY DEF StartPublisher, StartCollector, Signal, StopBegins, StopCollector, NothingToSave,
         bufferVars, parts, bounds, history
<1>2. /\ shutdown' \in BOOLEAN /\ collecting' \in BOOLEAN
      /\ subscribed' \in BOOLEAN /\ publishing' \in BOOLEAN
      /\ main' \in {"down", "publisher", "collector", "waiting", "stopping", "unpublishing",
                    "flushing", "shutdown", "saving", "closing"}
      /\ publishing' => main' \in {"collector", "waiting", "stopping", "unpublishing"}
      /\ subscribed' => main' \in {"publisher", "collector", "waiting", "stopping"}
      /\ main' \in {"down", "publisher", "shutdown", "saving", "closing"} =>
           main \in {"down", "publisher", "shutdown", "saving", "closing"}
      /\ main' = "saving" => main = "saving"
      /\ main' \notin {"down", "closing"} => main \notin {"down", "closing"}
      /\ main' = "closing" => main = "closing" \/ (main = "shutdown" /\ buffer = <<>>)
      /\ main' = "down" => main = "down"
      /\ main' # "saving" => main # "saving"
  <2>1. /\ shutdown \in BOOLEAN /\ collecting \in BOOLEAN
        /\ subscribed \in BOOLEAN /\ publishing \in BOOLEAN
        /\ main \in {"down", "publisher", "collector", "waiting", "stopping", "unpublishing",
                     "flushing", "shutdown", "saving", "closing"}
        /\ publishing => main \in {"collector", "waiting", "stopping", "unpublishing"}
        /\ subscribed => main \in {"publisher", "collector", "waiting", "stopping"}
    BY DEF IInv, Typed, Control
  <2>2. CASE StartPublisher
    BY <2>1, <2>2 DEF StartPublisher
  <2>3. CASE StartCollector
    BY <2>1, <2>3 DEF StartCollector
  <2>4. CASE Signal
    BY <2>1, <2>4 DEF Signal, parts
  <2>5. CASE StopBegins
    BY <2>1, <2>5 DEF StopBegins, parts
  <2>6. CASE StopCollector
    BY <2>1, <2>6 DEF StopCollector
  <2>7. CASE NothingToSave
    BY <2>1, <2>7 DEF NothingToSave, parts
  <2> QED
    BY <2>2, <2>3, <2>4, <2>5, <2>6, <2>7
<1>3. Memory' = Memory
  BY <1>1 DEF Memory
<1>4. Typed' /\ Readable'
  BY <1>1, <1>2 DEF IInv, Typed, Readable
<1>5. Control'
  BY <1>1, <1>2 DEF IInv, Control
<1>6. Numbered' /\ Once' /\ TwiceForAReason' /\ RoomForLoaded'
  BY <1>1, <1>3 DEF IInv, Numbered, Once, TwiceForAReason, RoomForLoaded
<1>7. Held'
  BY <1>1, <1>2, <1>3 DEF IInv, Held
<1>8. Kept'
  <2>1. CASE main = "shutdown" /\ buffer = <<>>
    <3>1. batch = <<>>
      BY <2>1 DEF IInv, Control
    <3>2. Memory = {}
      BY <2>1, <3>1, NoMembers DEF Memory
    <3>3. accepted \subseteq ToSet(received) \cup dropped \cup lost
      BY <2>1, <3>2 DEF IInv, Held
    <3> QED
      BY <1>1, <3>3 DEF Kept
  <2>2. CASE main' = "closing" => main = "closing"
    <3>1. main' \in {"down", "closing"} => main \in {"down", "closing"}
      BY <1>2, <2>2
    <3> QED
      BY <1>1, <1>2, <3>1 DEF IInv, Kept
  <2> QED
    BY <1>2, <2>1, <2>2
<1> QED
  BY <1>4, <1>5, <1>6, <1>7, <1>8 DEF IInv

LEMMA BootInvariant ==
  ASSUME IInv, Boot
  PROVE  IInv'
<1> DEFINE r == Restored
<1>1. /\ main = "down" /\ main' = "publisher" /\ shutdown' = FALSE /\ subscribed' = TRUE
      /\ buffer' = r /\ loaded' = Len(r) /\ fresh' = {}
      /\ suspect' = suspect \cup (ToSet(r) \cap ToSet(received))
      /\ UNCHANGED <<drop_oldest, collecting, publishing, queue, batch, received, collected,
                     accepted, dropped, lost, file>>
  BY DEF Boot, Load
<1>2. /\ r \in Seq(Item) /\ Distinct(r) /\ ToSet(r) \subseteq accepted
      /\ ToSet(file) \cap accepted \subseteq ToSet(r)
  <2>1. CASE file = Torn
    <3>1. ToSet(file) = {0}
      BY <2>1, OneMember DEF Torn
    <3>2. 0 \notin accepted
      BY DEF IInv, Numbered
    <3> QED
      BY <2>1, <3>1, <3>2, NoMembers DEF Restored
  <2>2. CASE file # Torn
    BY <2>2 DEF Restored, IInv, Readable
  <2> QED
    BY <2>1, <2>2
<1> HIDE DEF r
<1>3. batch = <<>> /\ ToSet(batch) = {} /\ Memory' = ToSet(r)
  BY <1>1, NoMembers DEF IInv, Control, Memory
<1>4. Len(r) \in Nat
  BY <1>2, LenProperties
<1>5. Typed'
  BY <1>1, <1>2, <1>4 DEF IInv, Typed
<1>6. Readable'
  BY <1>1 DEF IInv, Readable
<1>7. Control'
  BY <1>1, <1>3 DEF IInv, Control
<1>8. Numbered'
  BY <1>1, <1>2, <1>3 DEF IInv, Numbered
<1>9. accepted \subseteq ToSet(received) \cup ToSet(file) \cup dropped \cup lost
  BY <1>1 DEF IInv, Kept
<1>10. Held'
  BY <1>1, <1>2, <1>3, <1>9 DEF Held
<1>11. Kept'
  BY <1>1, <1>9 DEF Kept
<1>12. Once'
  BY <1>1, <1>2, <1>3 DEF IInv, Once
<1>13. TwiceForAReason'
  BY <1>1 DEF IInv, TwiceForAReason
<1>14. RoomForLoaded'
  BY <1>1, <1>4 DEF RoomForLoaded
<1> QED
  BY <1>5, <1>6, <1>7, <1>8, <1>10, <1>11, <1>12, <1>13, <1>14 DEF IInv

\* A process that is gone has nothing in memory: what it leaves is safe, or is lost.
LEMMA EndsInvariant ==
  ASSUME IInv, Crash \/ StopBus
  PROVE  IInv'
<1>1. /\ main' = "down" /\ buffer' = <<>> /\ queue' = <<>> /\ batch' = <<>>
      /\ collecting' = FALSE /\ subscribed' = FALSE /\ publishing' = FALSE
      /\ fresh' = {} /\ loaded' = 0
      /\ UNCHANGED <<drop_oldest, shutdown, file, accepted, dropped, collected>>
  BY DEF Crash, StopBus, Ends, Fault, bounds
<1>2. /\ received' \in {received, received \o batch}
      /\ lost \subseteq lost' /\ suspect \subseteq suspect'
      /\ lost' \subseteq lost \cup fresh \cup ToSet(buffer)
      /\ main # "closing" => fresh \subseteq lost'
      /\ main = "saving" => ToSet(buffer) \subseteq lost'
  BY DEF Crash, StopBus, ArrivesOrNot, history
<1>3. /\ received' \in Seq(Item) /\ ToSet(received) \subseteq ToSet(received')
      /\ ToSet(received') \subseteq ToSet(received) \cup ToSet(batch)
      /\ \A i, j \in DOMAIN received' :
           i # j /\ received'[i] = received'[j] => received'[i] \in suspect
  BY <1>2, Arrival
<1>4. ToSet(buffer') = {} /\ ToSet(batch') = {} /\ ToSet(queue') = {} /\ Memory' = {}
  BY <1>1, NoMembers DEF Memory
<1>5. main # "down" \/ batch = <<>>
  BY DEF IInv, Control
<1>6. Typed'
  <2>1. lost' \subseteq accepted
    BY <1>2 DEF IInv, Typed, Numbered, Memory
  <2> QED
    BY <1>1, <1>3, <2>1, NoMembers DEF IInv, Typed
<1>7. Readable'
  BY <1>1 DEF IInv, Readable
<1>8. Control'
  BY <1>1 DEF Control
<1>9. Numbered'
  <2>1. ToSet(received') \subseteq accepted
    BY <1>3 DEF IInv, Numbered, Memory
  <2> QED
    BY <1>1, <1>4, <2>1, NoMembers DEF IInv, Numbered
<1>10. Held'
  BY <1>1 DEF Held
<1>11. Kept'
  <2>1. CASE main = "saving"
    <3>1. batch = <<>> /\ ToSet(batch) = {}
      BY <2>1, NoMembers DEF IInv, Control
    <3>2. accepted \subseteq ToSet(received) \cup ToSet(buffer) \cup dropped \cup lost
      BY <2>1, <3>1 DEF IInv, Held, Memory
    <3> QED
      BY <1>1, <1>2, <1>3, <2>1, <3>2 DEF Kept
  <2>2. CASE main # "saving"
    <3>1. accepted \subseteq ToSet(received) \cup ToSet(file) \cup dropped \cup lost
                               \cup (IF main \in {"down", "closing"} THEN {} ELSE fresh)
      BY <2>2 DEF IInv, Kept
    <3>2. (IF main \in {"down", "closing"} THEN {} ELSE fresh) \subseteq lost'
      BY <1>2
    <3> QED
      BY <1>1, <1>2, <1>3, <3>1, <3>2 DEF Kept
  <2> QED
    BY <2>1, <2>2
<1>12. Once'
  BY <1>1, <1>4, NoMembers DEF Once
<1>13. TwiceForAReason'
  BY <1>2, <1>3 DEF TwiceForAReason
<1>14. RoomForLoaded'
  BY <1>1, NoMembers DEF RoomForLoaded
<1> QED
  BY <1>6, <1>7, <1>8, <1>9, <1>10, <1>11, <1>12, <1>13, <1>14 DEF IInv

LEMMA StopPublisherInvariant ==
  ASSUME IInv, StopPublisher
  PROVE  IInv'
<1>1. /\ main = "unpublishing" /\ publishing' = FALSE
      /\ lost' = lost \cup ToSet(batch) /\ suspect' = suspect \cup ToSet(batch)
      /\ UNCHANGED <<shutdown, collecting, subscribed, queue, file, collected, accepted, fresh,
                     dropped, loaded>>
  BY DEF StopPublisher, bounds
<1>2. /\ received' \in Seq(Item) /\ ToSet(received) \subseteq ToSet(received')
      /\ ToSet(received') \subseteq ToSet(received) \cup ToSet(batch)
      /\ \A i, j \in DOMAIN received' :
           i # j /\ received'[i] = received'[j] => received'[i] \in suspect
  BY Arrival DEF StopPublisher, ArrivesOrNot
<1>3. /\ drop_oldest' = drop_oldest
      /\ batch' \in Seq(Item) /\ buffer' \in Seq(Item)
      /\ Memory' = ToSet(buffer)
      /\ Len(buffer') <= Len(buffer)
      /\ Distinct(batch') /\ Distinct(buffer') /\ ToSet(batch') \cap ToSet(buffer') = {}
      /\ main' = "flushing" \/ (main' = "shutdown" /\ batch' = <<>>)
  <2>1. FlushBatch \in Nat /\ buffer \in Seq(Item) /\ Distinct(buffer) /\ Len(buffer) \in Nat
    BY LifecycleAssumption, LenProperties DEF IInv, Typed, Once
  <2>2. CASE Take(FlushBatch) /\ main' = "flushing"
    BY <2>1, <2>2, TakeFacts DEF Memory
  <2>3. CASE UNCHANGED bufferVars /\ batch' = <<>> /\ main' = "shutdown"
    BY <2>1, <2>3, NoMembers DEF bufferVars, Memory
  <2> QED
    BY <2>2, <2>3 DEF StopPublisher
<1>4. /\ ToSet(batch) \subseteq accepted /\ ToSet(buffer) \subseteq accepted
      /\ ToSet(received) \subseteq accepted
  BY DEF IInv, Numbered, Memory
<1>5. Typed'
  <2>1. lost' \subseteq accepted
    BY <1>1, <1>4 DEF IInv, Typed
  <2> QED
    BY <1>1, <1>2, <1>3, <2>1 DEF IInv, Typed
<1>6. Readable'
  BY <1>1 DEF IInv, Readable
<1>7. Control'
  BY <1>1, <1>3 DEF IInv, Control
<1>8. Numbered'
  BY <1>1, <1>2, <1>3, <1>4 DEF IInv, Numbered
<1>9. Held'
  BY <1>1, <1>2, <1>3 DEF IInv, Held, Memory
<1>10. Kept'
  BY <1>1, <1>2, <1>3 DEF IInv, Kept
<1>11. Once'
  <2>1. ToSet(received') \cap ToSet(buffer) \subseteq suspect'
    BY <1>1, <1>2 DEF IInv, Once, Memory
  <2> QED
    BY <1>3, <2>1 DEF Once
<1>12. TwiceForAReason'
  BY <1>1, <1>2 DEF TwiceForAReason
<1>13. RoomForLoaded'
  <2>1. Len(buffer) \in Nat /\ Len(buffer') \in Nat /\ loaded \in Nat /\ MaxSize \in Nat
    BY <1>3, LenProperties, LifecycleAssumption DEF IInv, Typed
  <2> QED
    BY <1>1, <1>3, <2>1 DEF IInv, RoomForLoaded
<1> QED
  BY <1>5, <1>6, <1>7, <1>8, <1>9, <1>10, <1>11, <1>12, <1>13 DEF IInv

\* The batch leaves: it is at the broker, or lost.
LEMMA DeliveryInvariant ==
  ASSUME IInv, Flushes \/ Confirm
  PROVE  IInv'
<1>1. /\ batch' = <<>>
      /\ main' = main \/ (main = "flushing" /\ main' = "shutdown")
      /\ UNCHANGED <<drop_oldest, buffer, shutdown, collecting, subscribed, publishing, queue,
                     file, collected, accepted, fresh, dropped, loaded>>
  BY DEF Flushes, Confirm, Fault, bufferVars, parts, bounds, history
<1>2. /\ received' \in {received, received \o batch}
      /\ lost \subseteq lost' /\ suspect \subseteq suspect'
      /\ lost' \subseteq lost \cup ToSet(batch)
      /\ received' = received \o batch \/ ToSet(batch) \subseteq lost'
      /\ received' = received \o batch \/ ToSet(batch) \subseteq suspect'
  BY DEF Flushes, Confirm, ArrivesOrNot, history
<1>3. /\ received' \in Seq(Item) /\ ToSet(received) \subseteq ToSet(received')
      /\ ToSet(received') \subseteq ToSet(received) \cup ToSet(batch)
      /\ received' = received \o batch => ToSet(batch) \subseteq ToSet(received')
      /\ \A i, j \in DOMAIN received' :
           i # j /\ received'[i] = received'[j] => received'[i] \in suspect
  BY <1>2, Arrival
<1>4. ToSet(batch') = {} /\ Memory' = ToSet(buffer) /\ batch' \in Seq(Item)
      /\ Distinct(batch')
  BY <1>1, NoMembers DEF Memory
<1>5. /\ ToSet(batch) \subseteq accepted /\ ToSet(buffer) \subseteq accepted
      /\ ToSet(received) \subseteq accepted
  BY DEF IInv, Numbered, Memory
<1>6. Typed'
  <2>1. lost' \subseteq accepted
    BY <1>2, <1>5 DEF IInv, Typed
  <2> QED
    BY <1>1, <1>3, <1>4, <2>1 DEF IInv, Typed
<1>7. Readable'
  BY <1>1 DEF IInv, Readable
<1>8. Control'
  BY <1>1 DEF IInv, Control
<1>9. Numbered'
  BY <1>1, <1>3, <1>4, <1>5 DEF IInv, Numbered
<1>10. Held'
  BY <1>1, <1>2, <1>3, <1>4 DEF IInv, Held, Memory
<1>11. Kept'
  BY <1>1, <1>2, <1>3 DEF IInv, Kept
<1>12. Once'
  <2>1. ToSet(received') \cap ToSet(buffer) \subseteq suspect'
    BY <1>2, <1>3 DEF IInv, Once, Memory
  <2> QED
    BY <1>1, <1>4, <2>1 DEF IInv, Once
<1>13. TwiceForAReason'
  BY <1>2, <1>3 DEF TwiceForAReason
<1>14. RoomForLoaded'
  BY <1>1 DEF IInv, RoomForLoaded
<1> QED
  BY <1>6, <1>7, <1>8, <1>9, <1>10, <1>11, <1>12, <1>13, <1>14 DEF IInv

\* The file is truncated, and then it has the buffer, or the buffer is lost.
LEMMA SaveInvariant ==
  ASSUME IInv, SaveBegins \/ Saves
  PROVE  IInv'
<1>1. UNCHANGED <<drop_oldest, buffer, shutdown, collecting, subscribed, publishing, queue,
                  batch, received, collected, accepted, dropped, loaded, suspect>>
  BY DEF SaveBegins, Saves, Fault, bufferVars, parts, bounds, history
<1>2. \/ /\ main = "shutdown" /\ main' = "saving" /\ file' = Torn
         /\ fresh' = fresh /\ lost' = lost
      \/ /\ main = "saving" /\ main' = "closing" /\ fresh' = {}
         /\ \/ file' = buffer /\ lost' = lost
            \/ file' = file /\ lost' = lost \cup ToSet(buffer)
  BY DEF SaveBegins, Saves, history
<1>3. /\ batch = <<>> /\ ToSet(batch) = {} /\ Memory' = Memory /\ Memory = ToSet(buffer)
      /\ ~publishing /\ ~subscribed
      /\ main = "saving" => file = Torn
  BY <1>1, <1>2, NoMembers DEF IInv, Control, Memory
<1>4. accepted \subseteq ToSet(received) \cup ToSet(buffer) \cup dropped \cup lost
  BY <1>2, <1>3 DEF IInv, Held
<1>5. Typed'
  <2>1. lost' \subseteq accepted /\ fresh' \subseteq accepted
    BY <1>2, <1>3 DEF IInv, Typed, Numbered
  <2> QED
    BY <1>1, <1>2, <2>1 DEF IInv, Typed
<1>6. Readable'
  <2>1. file' = Torn \/ file' = buffer
    BY <1>2, <1>3
  <2>2. buffer \in Seq(Item) /\ Distinct(buffer) /\ ToSet(buffer) \subseteq accepted
    BY <1>3 DEF IInv, Typed, Once, Numbered
  <2> QED
    BY <1>1, <2>1, <2>2 DEF Readable, Item
<1>7. Control'
  BY <1>1, <1>2, <1>3 DEF Control
<1>8. Numbered' /\ Once' /\ TwiceForAReason' /\ RoomForLoaded'
  BY <1>1, <1>3 DEF IInv, Numbered, Once, TwiceForAReason, RoomForLoaded
<1>9. Held'
  BY <1>1, <1>2, <1>3, <1>4 DEF Held
<1>10. Kept'
  BY <1>1, <1>2, <1>4 DEF Kept
<1> QED
  BY <1>5, <1>6, <1>7, <1>8, <1>9, <1>10 DEF IInv

LEMMA CollectInvariant ==
  ASSUME IInv, Collect
  PROVE  IInv'
<1>1. /\ collected < MaxItems /\ collected' = collected + 1
      /\ queue' = Append(queue, collected + 1)
      /\ UNCHANGED <<drop_oldest, buffer, main, shutdown, collecting, subscribed, publishing,
                     batch, file, received, accepted, fresh, dropped, lost, loaded, suspect>>
  BY DEF Collect, bufferVars, history
<1>2. /\ collected \in Nat /\ collected \in OldItems .. MaxItems /\ queue \in Seq(Item)
      /\ OldItems \in Nat /\ MaxItems \in Nat /\ collected + 1 \in Item
      /\ collected + 1 \in OldItems .. MaxItems
  BY <1>1, LifecycleAssumption DEF IInv, Typed, Item
<1>3. /\ collected + 1 \notin accepted /\ collected + 1 \notin ToSet(queue)
      /\ ToSet(queue) \subseteq 1 .. collected + 1
      /\ accepted \subseteq 1 .. collected + 1
  BY <1>2 DEF IInv, Numbered
<1>4. /\ queue' \in Seq(Item) /\ Distinct(queue')
      /\ ToSet(queue') = ToSet(queue) \cup {collected + 1}
  <2>1. ~Queued(queue, collected + 1) /\ Distinct(queue)
    BY <1>2, <1>3, Members DEF IInv, Numbered
  <2>2. /\ queue' \in Seq(Item) /\ Distinct(queue')
        /\ \A y : Queued(queue', y) <=> Queued(queue, y) \/ y = collected + 1
    BY <1>1, <1>2, <2>1, AppendQueue
  <2>3. \A y : /\ y \in ToSet(queue) <=> Queued(queue, y)
               /\ y \in ToSet(queue') <=> Queued(queue', y)
    BY <1>2, <2>2, Members
  <2> QED
    BY <2>2, <2>3
<1>5. Typed'
  BY <1>1, <1>2, <1>4 DEF IInv, Typed
<1>6. Numbered'
  <2>1. ToSet(queue') \subseteq 1 .. collected + 1 /\ ToSet(queue') \cap accepted = {}
    BY <1>2, <1>3, <1>4 DEF IInv, Numbered
  <2>2. Memory' = Memory
    BY <1>1 DEF Memory
  <2> QED
    BY <1>1, <1>3, <1>4, <2>1, <2>2 DEF IInv, Numbered
<1>7. Held' /\ Once'
  <2>1. Memory' = Memory
    BY <1>1 DEF Memory
  <2> QED
    BY <1>1, <2>1 DEF IInv, Held, Once
<1>8. Readable' /\ Control' /\ Kept' /\ TwiceForAReason' /\ RoomForLoaded'
  BY <1>1 DEF IInv, Readable, Control, Kept, TwiceForAReason, RoomForLoaded
<1> QED
  BY <1>5, <1>6, <1>7, <1>8 DEF IInv

\* The first n of a sequence, for n of 0 and 1.
LEMMA FirstMembers ==
  ASSUME NEW S, NEW s \in Seq(S), s # <<>>, NEW n \in 0 .. 1
  PROVE  ToSet(SubSeq(s, 1, n)) = IF n = 1 THEN {Head(s)} ELSE {}
<1> DEFINE a == SubSeq(s, 1, n)
<1>1. Len(s) \in Nat \ {0} /\ Head(s) = s[1]
  BY EmptySeq, LenProperties
<1>2. n \in 0 .. Len(s)
  BY <1>1
<1>3. a \in Seq(S) /\ Len(a) = n /\ \A i \in 1 .. n : a[i] = s[i]
  BY <1>2, CutQueue
<1> HIDE DEF a
<1>4. \A x : x \in ToSet(a) <=> \E i \in 1 .. n : s[i] = x
  BY <1>3, Members DEF Queued
<1>5. CASE n = 0
  BY <1>4, <1>5 DEF a
<1>6. CASE n = 1
  BY <1>1, <1>4, <1>6 DEF a
<1> QED
  BY <1>5, <1>6

LEMMA StoreInvariant ==
  ASSUME IInv, Store
  PROVE  IInv'
<1> DEFINE x == Head(queue)
           one == <<x>>
           n == Deque!AcceptedCount(one)
<1>1. /\ queue # <<>> /\ main \notin {"saving", "closing"} /\ queue' = Tail(queue)
      /\ UNCHANGED <<drop_oldest, main, shutdown, collecting, subscribed, publishing, batch,
                     file, received, collected, lost, loaded, suspect>>
  BY DEF Store, bounds
<1>2. \/ /\ subscribed /\ buffer' = Deque!AfterPut(one)
         /\ accepted' = accepted \cup ToSet(SubSeq(queue, 1, n))
         /\ fresh' = fresh \cup (accepted' \ accepted)
         /\ dropped' = dropped \cup (ToSet(buffer) \ ToSet(buffer'))
      \/ UNCHANGED <<buffer, accepted, fresh, dropped>>
  BY DEF Store
<1>3. /\ queue \in Seq(Item) /\ x \in Item /\ Tail(queue) \in Seq(Item)
      /\ Distinct(Tail(queue)) /\ x \in ToSet(queue)
      /\ ToSet(Tail(queue)) \subseteq ToSet(queue) /\ x \notin ToSet(Tail(queue))
  <2>1. queue \in Seq(Item) /\ Distinct(queue)
    BY DEF IInv, Typed, Numbered
  <2>2. /\ Tail(queue) \in Seq(Item) /\ x \in Item /\ x = queue[1]
        /\ Queued(queue, queue[1]) /\ Distinct(Tail(queue))
        /\ \A y : Queued(Tail(queue), y) <=> Queued(queue, y) /\ y # queue[1]
    BY <1>1, <2>1, TailQueue
  <2>3. \A y : /\ y \in ToSet(queue) <=> Queued(queue, y)
               /\ y \in ToSet(Tail(queue)) <=> Queued(Tail(queue), y)
    BY <2>1, <2>2, Members
  <2> QED
    BY <2>1, <2>2, <2>3
<1>4. /\ one \in Seq(Item) /\ Len(one) = 1 /\ one[1] = x /\ ToSet(one) = {x} /\ Distinct(one)
  BY <1>3, OneMember
<1> HIDE DEF x, one, n
<1>5. /\ x \notin accepted /\ x \in 1 .. collected
      /\ x \notin ToSet(buffer) /\ x \notin ToSet(batch) /\ x \notin ToSet(received)
      /\ ToSet(Tail(queue)) \cap accepted = {} /\ ToSet(Tail(queue)) \subseteq 1 .. collected
  BY <1>3 DEF IInv, Numbered, Memory
<1>6. CASE UNCHANGED <<buffer, accepted, fresh, dropped>>
  <2>1. Memory' = Memory
    BY <1>1, <1>6 DEF Memory
  <2>2. Typed'
    BY <1>1, <1>3, <1>6 DEF IInv, Typed
  <2>3. Numbered'
    BY <1>1, <1>3, <1>5, <1>6, <2>1 DEF IInv, Numbered
  <2>4. Held' /\ Once'
    BY <1>1, <1>6, <2>1 DEF IInv, Held, Once
  <2>5. Readable' /\ Control' /\ Kept' /\ TwiceForAReason' /\ RoomForLoaded'
    BY <1>1, <1>6 DEF IInv, Readable, Control, Kept, TwiceForAReason, RoomForLoaded
  <2> QED
    BY <2>2, <2>3, <2>4, <2>5 DEF IInv
<1>7. CASE /\ subscribed /\ buffer' = Deque!AfterPut(one)
           /\ accepted' = accepted \cup ToSet(SubSeq(queue, 1, n))
           /\ fresh' = fresh \cup (accepted' \ accepted)
           /\ dropped' = dropped \cup (ToSet(buffer) \ ToSet(buffer'))
  <2>1. /\ buffer' \in Seq(Item) /\ Distinct(buffer')
        /\ \/ n = 1 /\ x \in ToSet(buffer') /\ ToSet(buffer') \subseteq ToSet(buffer) \cup {x}
           \/ n = 0 /\ buffer' = buffer
        /\ Len(buffer') <= MaxSize \/ Len(buffer') <= Len(buffer)
    <3>1. drop_oldest \in BOOLEAN /\ buffer \in Seq(Item) /\ Distinct(buffer)
      BY DEF IInv, Typed, Once
    <3> QED
      BY <1>3, <1>4, <1>5, <1>7, <3>1, PutFacts DEF n
  <2>2. \/ n = 1 /\ accepted' = accepted \cup {x}
        \/ n = 0 /\ accepted' = accepted
    <3>1. n \in 0 .. 1
      BY <2>1
    <3>2. ToSet(SubSeq(queue, 1, n)) = IF n = 1 THEN {x} ELSE {}
      BY <1>1, <1>3, <3>1, FirstMembers DEF x
    <3> QED
      BY <1>7, <2>1, <3>2
  <2>3. /\ accepted \subseteq accepted' /\ accepted' \subseteq accepted \cup {x}
        /\ accepted' \subseteq accepted \cup ToSet(buffer')
        /\ ToSet(buffer') \subseteq ToSet(buffer) \cup {x}
        /\ ToSet(buffer') \subseteq ToSet(buffer) \cup (accepted' \ accepted)
    BY <1>5, <2>1, <2>2
  <2>4. Memory \subseteq accepted /\ ToSet(received) \subseteq accepted
    BY DEF IInv, Numbered
  <2>5. Typed'
    <3>1. fresh' \subseteq accepted' /\ dropped' \subseteq accepted' /\ lost \subseteq accepted'
      BY <1>7, <2>3, <2>4 DEF IInv, Typed, Memory
    <3> QED
      BY <1>1, <1>3, <2>1, <3>1 DEF IInv, Typed
  <2>6. Readable'
    BY <1>1, <2>3 DEF IInv, Readable
  <2>7. Control'
    BY <1>1 DEF IInv, Control
  <2>8. Numbered'
    <3>1. accepted' \subseteq 1 .. collected
      BY <1>5, <2>3 DEF IInv, Numbered
    <3>2. ToSet(Tail(queue)) \cap accepted' = {}
      BY <1>3, <1>5, <2>3
    <3>3. Memory' \cup ToSet(received) \subseteq accepted'
      BY <1>1, <2>3, <2>4 DEF Memory
    <3> QED
      BY <1>1, <1>3, <1>5, <3>1, <3>2, <3>3 DEF Numbered
  <2>9. Held'
    <3>1. main # "down"
      BY <1>7 DEF IInv, Control
    <3>2. accepted \subseteq ToSet(received) \cup Memory \cup dropped \cup lost
      BY <1>1, <3>1 DEF IInv, Held
    <3> QED
      BY <1>1, <1>7, <2>3, <3>2 DEF Held, Memory
  <2>10. Kept'
    <3>1. main \notin {"down", "closing"}
      BY <1>1, <1>7 DEF IInv, Control
    <3>2. accepted \subseteq ToSet(received) \cup ToSet(file) \cup dropped \cup lost \cup fresh
      BY <1>1, <3>1 DEF IInv, Kept
    <3> QED
      BY <1>1, <1>7, <3>1, <3>2 DEF Kept
  <2>11. Once'
    <3>1. ToSet(batch) \cap ToSet(buffer') = {}
      BY <1>5, <2>3 DEF IInv, Once
    <3>2. ToSet(received) \cap Memory' \subseteq suspect
      BY <1>1, <1>5, <2>3 DEF IInv, Once, Memory
    <3> QED
      BY <1>1, <2>1, <3>1, <3>2 DEF IInv, Once
  <2>12. TwiceForAReason'
    BY <1>1 DEF IInv, TwiceForAReason
  <2>13. RoomForLoaded'
    <3>1. Len(buffer) \in Nat /\ Len(buffer') \in Nat /\ loaded \in Nat /\ MaxSize \in Nat
      BY <2>1, LenProperties, LifecycleAssumption DEF IInv, Typed
    <3> QED
      BY <1>1, <2>1, <3>1 DEF IInv, RoomForLoaded
  <2> QED
    BY <2>5, <2>6, <2>7, <2>8, <2>9, <2>10, <2>11, <2>12, <2>13 DEF IInv
<1> QED
  BY <1>2, <1>6, <1>7

LEMMA PublishInvariant ==
  ASSUME IInv, Publish
  PROVE  IInv'
<1>1. /\ publishing /\ batch = <<>> /\ Take(BatchSize)
      /\ UNCHANGED <<main, shutdown, collecting, subscribed, publishing, queue, file, received,
                     collected, accepted, fresh, dropped, lost, loaded, suspect>>
  BY DEF Publish, parts, bounds, history
<1>2. BatchSize \in Nat /\ buffer \in Seq(Item) /\ Distinct(buffer)
  BY LifecycleAssumption DEF IInv, Typed, Once
<1>3. /\ drop_oldest' = drop_oldest
      /\ batch' \in Seq(Item) /\ buffer' \in Seq(Item)
      /\ Len(buffer') <= Len(buffer)
      /\ Distinct(batch') /\ Distinct(buffer') /\ ToSet(batch') \cap ToSet(buffer') = {}
      /\ ToSet(buffer) = ToSet(batch') \cup ToSet(buffer')
  BY <1>1, <1>2, TakeFacts
<1>4. Memory' = Memory
  BY <1>1, <1>3, NoMembers DEF Memory
<1>5. Typed'
  BY <1>1, <1>3 DEF IInv, Typed
<1>6. Control'
  BY <1>1 DEF IInv, Control
<1>7. Numbered' /\ Held' /\ Once'
  BY <1>1, <1>3, <1>4 DEF IInv, Numbered, Held, Once
<1>8. Readable' /\ Kept' /\ TwiceForAReason'
  BY <1>1 DEF IInv, Readable, Kept, TwiceForAReason
<1>9. RoomForLoaded'
  <2>1. Len(buffer) \in Nat /\ Len(buffer') \in Nat /\ loaded \in Nat /\ MaxSize \in Nat
    BY <1>2, <1>3, LenProperties, LifecycleAssumption DEF IInv, Typed
  <2> QED
    BY <1>1, <1>3, <2>1 DEF IInv, RoomForLoaded
<1> QED
  BY <1>5, <1>6, <1>7, <1>8, <1>9 DEF IInv

LEMMA PutBackInvariant ==
  ASSUME IInv, PutBack
  PROVE  IInv'
<1>1. /\ publishing /\ batch' = <<>> /\ buffer' = Deque!AfterPutFront(batch)
      /\ dropped' = dropped \cup (Memory \ ToSet(buffer'))
      /\ suspect' = suspect \cup ToSet(batch)
      /\ UNCHANGED <<drop_oldest, main, shutdown, collecting, subscribed, publishing, queue,
                     file, collected, accepted, fresh, lost, loaded>>
  BY DEF PutBack, Fault
<1>2. /\ received' \in Seq(Item) /\ ToSet(received) \subseteq ToSet(received')
      /\ ToSet(received') \subseteq ToSet(received) \cup ToSet(batch)
      /\ \A i, j \in DOMAIN received' :
           i # j /\ received'[i] = received'[j] => received'[i] \in suspect
  BY Arrival DEF PutBack, ArrivesOrNot
<1>3. /\ drop_oldest \in BOOLEAN /\ buffer \in Seq(Item) /\ batch \in Seq(Item)
      /\ Distinct(buffer) /\ Distinct(batch) /\ ToSet(batch) \cap ToSet(buffer) = {}
  BY DEF IInv, Typed, Once
<1>4. /\ buffer' \in Seq(Item) /\ Distinct(buffer') /\ ToSet(buffer') \subseteq Memory
      /\ Len(buffer') <= MaxSize \/ Len(buffer') <= Len(buffer)
  BY <1>1, <1>3, PutBackFacts
<1>5. batch' \in Seq(Item) /\ Distinct(batch') /\ ToSet(batch') = {}
  BY <1>1, NoMembers
<1>6. Memory' = ToSet(buffer') /\ Memory \subseteq accepted /\ ToSet(received) \subseteq accepted
  BY <1>5 DEF Memory, IInv, Numbered
<1>7. Typed'
  <2>1. dropped' \subseteq accepted
    BY <1>1, <1>6 DEF IInv, Typed
  <2> QED
    BY <1>1, <1>2, <1>4, <1>5, <2>1 DEF IInv, Typed
<1>8. Readable'
  BY <1>1 DEF IInv, Readable
<1>9. Control'
  BY <1>1 DEF IInv, Control
<1>10. Numbered'
  <2>1. Memory' \cup ToSet(received') \subseteq accepted
    BY <1>2, <1>4, <1>6 DEF Memory
  <2> QED
    BY <1>1, <2>1 DEF IInv, Numbered
<1>11. Held'
  BY <1>1, <1>2, <1>6 DEF IInv, Held
<1>12. Kept'
  BY <1>1, <1>2 DEF IInv, Kept
<1>13. Once'
  <2>1. ToSet(received') \cap Memory' \subseteq suspect'
    BY <1>1, <1>2, <1>4, <1>6 DEF IInv, Once
  <2> QED
    BY <1>4, <1>5, <2>1 DEF Once
<1>14. TwiceForAReason'
  BY <1>1, <1>2 DEF TwiceForAReason
<1>15. RoomForLoaded'
  <2>1. Len(buffer) \in Nat /\ Len(buffer') \in Nat /\ loaded \in Nat /\ MaxSize \in Nat
    BY <1>3, <1>4, LenProperties, LifecycleAssumption DEF IInv, Typed
  <2> QED
    BY <1>1, <1>4, <2>1 DEF IInv, RoomForLoaded
<1> QED
  BY <1>7, <1>8, <1>9, <1>10, <1>11, <1>12, <1>13, <1>14, <1>15 DEF IInv

LEMMA StutterInvariant ==
  ASSUME IInv, UNCHANGED vars
  PROVE  IInv'
<1>1. UNCHANGED <<drop_oldest, buffer, main, shutdown, collecting, subscribed, publishing, queue,
                  batch, file, received, collected, accepted, fresh, dropped, lost, loaded,
                  suspect>>
  BY DEF vars, bufferVars, parts, bounds, history
<1>2. Memory' = Memory
  BY <1>1 DEF Memory
<1>3. Typed' /\ Readable' /\ Control'
  BY <1>1 DEF IInv, Typed, Readable, Control
<1>4. Numbered' /\ Held' /\ Kept' /\ Once'
  BY <1>1, <1>2 DEF IInv, Numbered, Held, Kept, Once
<1>5. TwiceForAReason' /\ RoomForLoaded'
  BY <1>1 DEF IInv, TwiceForAReason, RoomForLoaded
<1> QED
  BY <1>3, <1>4, <1>5 DEF IInv
-----------------------------------------------------------------------------
\* At the start all that was accepted is in the file.
LEMMA InitInvariant ==
  ASSUME Init
  PROVE  IInv
<1>1. /\ <<>> \in Seq(Item) /\ ToSet(<<>>) = {} /\ Distinct(<<>>) /\ Len(<<>>) = 0
      /\ Memory = {} /\ ToSet(received) = {} /\ ToSet(queue) = {}
  BY NoMembers DEF Init, Memory
<1>2. /\ OldItems \in Nat /\ MaxItems \in Nat /\ OldItems <= MaxItems /\ MaxSize \in Nat
      /\ drop_oldest \in BOOLEAN
  BY LifecycleAssumption DEF Init
<1>3. /\ file \in Seq(1 .. OldItems)
      /\ \A i, j \in DOMAIN file : file[i] = file[j] => i = j
  BY LifecycleAssumption DEF Init
<1>4. /\ ToSet(file) \subseteq 1 .. OldItems /\ Distinct(file) /\ file \in Seq(Item)
  <2>1. /\ ToSet(file) \subseteq 1 .. OldItems /\ DOMAIN file = 1 .. Len(file)
        /\ \A i \in 1 .. Len(file) : file[i] \in 1 .. OldItems
    BY <1>3, Members, LenProperties, ElementOfSeq
  <2>2. Distinct(file)
    BY <1>3, <2>1 DEF Distinct
  <2>3. \A i \in 1 .. Len(file) : file[i] \in Item
    BY <1>2, <2>1 DEF Item
  <2>4. file \in Seq(Item)
    BY <1>3, <2>3, SeqDef
  <2> QED
    BY <2>1, <2>2, <2>4
<1>5. Typed
  <2>1. /\ buffer \in Seq(Item) /\ batch \in Seq(Item)
        /\ queue \in Seq(Item) /\ received \in Seq(Item)
    BY <1>1 DEF Init
  <2>2. collected \in OldItems .. MaxItems /\ loaded \in Nat
    BY <1>2 DEF Init
  <2>3. fresh \subseteq accepted /\ dropped \subseteq accepted /\ lost \subseteq accepted
    BY DEF Init
  <2>4. /\ shutdown \in BOOLEAN /\ collecting \in BOOLEAN
        /\ subscribed \in BOOLEAN /\ publishing \in BOOLEAN /\ main = "down"
    BY DEF Init
  <2> QED
    BY <1>2, <2>1, <2>2, <2>3, <2>4 DEF Typed
<1>6. Readable /\ Control
  BY <1>1, <1>4 DEF Init, Readable, Control
<1>7. Numbered /\ Held /\ Kept /\ Once
  BY <1>1, <1>4 DEF Init, Numbered, Held, Kept, Once
<1>8. TwiceForAReason /\ RoomForLoaded
  BY <1>1, <1>2, EmptySeq DEF Init, TwiceForAReason, RoomForLoaded
<1> QED
  BY <1>5, <1>6, <1>7, <1>8 DEF IInv

\* The invariant holds throughout.
THEOREM Invariance == Spec => []IInv
<1>1. Init => IInv
  BY InitInvariant
<1>2. IInv /\ [Next]_vars => IInv'
  <2> SUFFICES ASSUME IInv, [Next]_vars  PROVE IInv'
    OBVIOUS
  <2>1. CASE \/ StartPublisher \/ StartCollector \/ Signal \/ StopBegins \/ StopCollector
             \/ NothingToSave
    BY <2>1, OrderInvariant
  <2>2. CASE Boot
    BY <2>2, BootInvariant
  <2>3. CASE Crash \/ StopBus
    BY <2>3, EndsInvariant
  <2>4. CASE StopPublisher
    BY <2>4, StopPublisherInvariant
  <2>5. CASE Flushes \/ Confirm
    BY <2>5, DeliveryInvariant
  <2>6. CASE SaveBegins \/ Saves
    BY <2>6, SaveInvariant
  <2>7. CASE Collect
    BY <2>7, CollectInvariant
  <2>8. CASE Store
    BY <2>8, StoreInvariant
  <2>9. CASE Publish
    BY <2>9, PublishInvariant
  <2>10. CASE PutBack
    BY <2>10, PutBackInvariant
  <2>11. CASE UNCHANGED vars
    BY <2>11, StutterInvariant
  <2> QED
    BY <2>1, <2>2, <2>3, <2>4, <2>5, <2>6, <2>7, <2>8, <2>9, <2>10, <2>11 DEF Next, Stop
<1> QED
  BY <1>1, <1>2, PTL DEF Spec

\* Every variable keeps its type, and nothing is dropped or lost that was not accepted.
THEOREM TypeCorrect == Spec => []TypeOK
<1>1. IInv => TypeOK
  <2> SUFFICES ASSUME IInv  PROVE TypeOK
    OBVIOUS
  <2>1. Typed /\ Readable
    BY DEF IInv
  <2>2. MaxItems \in Nat
    BY LifecycleAssumption
  <2>3. file \in Seq(0 .. MaxItems)
    <3>1. CASE file = Torn
      <4>1. 0 \in 0 .. MaxItems
        BY <2>2
      <4> QED
        BY <3>1, <4>1, OneMember DEF Torn
    <3>2. CASE file # Torn
      <4>1. file \in Seq(Item)
        BY <2>1, <3>2 DEF Readable, Item
      <4>2. Item \subseteq 0 .. MaxItems
        BY <2>2 DEF Item
      <4> QED
        BY <4>1, <4>2, SeqMonotonic, Zenon
    <3> QED
      BY <3>1, <3>2
  <2>4. {buffer, batch, queue} \subseteq Seq(1 .. MaxItems) /\ received \in Seq(1 .. MaxItems)
    <3>1. {buffer, batch, queue} \subseteq Seq(Item) /\ received \in Seq(Item)
      BY <2>1 DEF Typed
    <3> QED
      BY <3>1 DEF Item
  <2>5. {shutdown, collecting, subscribed, publishing} \subseteq BOOLEAN
    BY <2>1, Zenon DEF Typed
  <2>6. UNION {fresh, dropped, lost} \subseteq accepted
    BY <2>1 DEF Typed
  <2> QED
    BY <2>1, <2>3, <2>4, <2>5, <2>6 DEF Typed, TypeOK
<1> QED
  BY <1>1, Invariance, PTL

\* What the buffer has accepted is at the broker, in memory, in the file, dropped by a
\* full buffer or lost with a process, through any number of kills, stops and restarts
\* (buffer.py:393-430, manager.py:292-305).
THEOREM NothingVanishes == Spec => []Accounted
<1>1. IInv => Accounted
  BY DEF IInv, Held, Kept, Accounted
<1> QED
  BY <1>1, Invariance, PTL

\* An item is at the broker twice only if a publish of it failed or was cut off, or if it
\* was loaded from a file although it had been published (buffer.py:147-149, 408-430).
THEOREM TwiceOnlyForAReason == Spec => []TwiceForAReason
<1>1. IInv => TwiceForAReason
  BY DEF IInv
<1> QED
  BY <1>1, Invariance, PTL

\* A buffer outgrows max_size by loading a larger file only, and never grows from there
\* (buffer.py:221-231, 249-263, 417).
THEOREM NeverGrowsBeyondLoad == Spec => []RoomForLoaded
<1>1. IInv => RoomForLoaded
  BY DEF IInv
<1> QED
  BY <1>1, Invariance, PTL
=============================================================================
