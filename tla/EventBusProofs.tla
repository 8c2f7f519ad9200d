--------------------------- MODULE EventBusProofs ---------------------------
(***************************************************************************)
(* Proofs about EventBus, for any handlers, event types, history size and  *)
(* bounds: the types, InOrder, NobodySkipped and JoinCount.                *)
(*                                                                         *)
(* IInv adds to them that a handler is registered in one place only, that  *)
(* the events that are over, the one under way and those in the queue are  *)
(* numbered in this order, that a handler whose turn is still to come has  *)
(* not got the event under way, and that whoever is entitled to it has got *)
(* it or has its turn to come.                                             *)
(***************************************************************************)
EXTENDS EventBus, QueueLemmas, FiniteSetTheorems

Keys == Types \cup {Global}

\* A handler is registered once.
Registered ==
  /\ \A k \in Keys : Distinct(handlers[k])
  /\ \A k, l \in Keys : \A h \in Handlers :
       Queued(handlers[k], h) /\ Queued(handlers[l], h) => k = l

\* An event is under way exactly while a handler has it, and those in the
\* queue come after it.
UnderWay ==
  /\ emitted <= MaxEvents
  /\ event # 0 <=> processor_task = "handling"
  /\ event # 0 <=> remaining # <<>>
  /\ event <= emitted
  /\ Distinct(remaining)
  /\ Ascending(queue)
  /\ \A x \in Nat : Queued(queue, x) => event < x /\ x <= emitted

\* What is over came before.
Over ==
  \A x \in Nat : x \in cut \/ Queued(handled, x) =>
    /\ x <= emitted
    /\ event # 0 => x < event
    /\ \A y \in Nat : Queued(queue, y) => x < y

\* What the handlers have got came before, but for the event under way, which
\* those whose turn is still to come have not got.
Given ==
  \A h \in Handlers : \A x \in Nat : Queued(handed[h], x) =>
    /\ x <= emitted
    /\ event # 0 => x <= event
    /\ event # 0 /\ Queued(remaining, h) => x < event
    /\ \A y \in Nat : Queued(queue, y) => x < y

\* NobodySkipped for the event under way.
NobodyForgotten ==
  \A k \in Keys : \A h \in Handlers :
    event # 0 /\ Queued(handlers[k], h) /\ since[h] < event /\ k \in {TypeOf[event], Global} =>
      Queued(handed[h], event) \/ Queued(remaining, h)

\* NobodySkipped by what is in the sequences, not by where.
NobodyMissed ==
  \A k \in Keys : \A h \in Handlers : \A e \in Nat :
    Queued(handlers[k], h) /\ Queued(handled, e) /\ since[h] < e /\ k \in {TypeOf[e], Global}
      => Queued(handed[h], e)

\* A stopped bus has no task.
IdleMeansEnded == caller = "idle" => processor_task \in {"none", "done"}

IInv ==
  /\ TypeOK
  /\ IsFiniteSet(cut)
  /\ Registered
  /\ UnderWay
  /\ Over
  /\ Given
  /\ InOrder
  /\ NobodyForgotten
  /\ NobodyMissed
  /\ JoinCount
  /\ IdleMeansEnded
-----------------------------------------------------------------------------
(* Ascending sequences of events.                                          *)

\* An event that is newer than all in an ascending sequence can be appended.
LEMMA AscendingAppend ==
  ASSUME NEW s \in Seq(Nat), Ascending(s), NEW x \in Nat,
         \A y \in Nat : Queued(s, y) => y < x
  PROVE  Ascending(Append(s, x))
<1>1. /\ Append(s, x) \in Seq(Nat)
      /\ Len(Append(s, x)) = Len(s) + 1
      /\ \A i \in 1 .. Len(s) : Append(s, x)[i] = s[i]
      /\ Append(s, x)[Len(s) + 1] = x
  BY AppendProperties
<1>2. /\ Len(s) \in Nat /\ DOMAIN s = 1 .. Len(s)
      /\ DOMAIN Append(s, x) = 1 .. Len(s) + 1
  BY <1>1, LenProperties
<1>3. \A i \in 1 .. Len(s) : s[i] \in Nat /\ s[i] < x
  BY ElementOfSeq DEF Queued
<1> SUFFICES ASSUME NEW i \in 1 .. Len(s) + 1, NEW j \in 1 .. Len(s) + 1, i < j
             PROVE  Append(s, x)[i] < Append(s, x)[j]
  BY <1>2 DEF Ascending
<1>4. i \in 1 .. Len(s)
  BY <1>2
<1>5. CASE j = Len(s) + 1
  BY <1>1, <1>3, <1>4, <1>5
<1>6. CASE j \in 1 .. Len(s)
  BY <1>1, <1>2, <1>4, <1>6 DEF Ascending
<1> QED
  BY <1>5, <1>6, <1>2

\* The first of an ascending sequence is the oldest.
LEMMA AscendingTail ==
  ASSUME NEW s \in Seq(Nat), Ascending(s), s # <<>>
  PROVE  /\ Distinct(s) /\ Ascending(Tail(s)) /\ Tail(s) \in Seq(Nat)
         /\ Head(s) \in Nat /\ Queued(s, Head(s))
         /\ Len(Tail(s)) = Len(s) - 1
         /\ \A y \in Nat : Queued(Tail(s), y) => Queued(s, y) /\ Head(s) < y
<1>1. /\ Head(s) \in Nat
      /\ Tail(s) \in Seq(Nat)
      /\ Len(Tail(s)) = Len(s) - 1
      /\ \A i \in 1 .. Len(Tail(s)) : Tail(s)[i] = s[i + 1]
  BY HeadTailProperties
<1>2. /\ Len(s) \in Nat \ {0} /\ DOMAIN s = 1 .. Len(s)
      /\ DOMAIN Tail(s) = 1 .. Len(s) - 1
  BY <1>1, EmptySeq, LenProperties
<1>3. \A i \in 1 .. Len(s) : s[i] \in Nat
  BY ElementOfSeq
<1>4. Distinct(s)
  <2> SUFFICES ASSUME NEW i \in 1 .. Len(s), NEW j \in 1 .. Len(s), s[i] = s[j], i # j
               PROVE  FALSE
    BY DEF Distinct
  <2>1. i < j \/ j < i
    BY <1>2
  <2> QED
    BY <2>1, <1>2, <1>3 DEF Ascending
<1>5. Head(s) = s[1] /\ Queued(s, s[1])
  BY <1>4, TailQueue
<1>6. Ascending(Tail(s))
  <2> SUFFICES ASSUME NEW i \in 1 .. Len(s) - 1, NEW j \in 1 .. Len(s) - 1, i < j
               PROVE  Tail(s)[i] < Tail(s)[j]
    BY <1>2 DEF Ascending
  <2>1. /\ i + 1 \in 1 .. Len(s) /\ j + 1 \in 1 .. Len(s) /\ i + 1 < j + 1
        /\ Tail(s)[i] = s[i + 1] /\ Tail(s)[j] = s[j + 1]
    BY <1>1, <1>2
  <2> QED
    BY <2>1, <1>2 DEF Ascending
<1>7. ASSUME NEW y \in Nat, Queued(Tail(s), y)  PROVE Queued(s, y) /\ Head(s) < y
  <2>1. PICK i \in 1 .. Len(s) - 1 : s[i + 1] = y
    BY <1>1, <1>7 DEF Queued
  <2>2. i + 1 \in 1 .. Len(s) /\ 1 \in 1 .. Len(s) /\ 1 < i + 1
    BY <1>2, <2>1
  <2> QED
    BY <2>1, <2>2, <1>2, <1>5 DEF Ascending, Queued
<1> QED
  BY <1>1, <1>4, <1>5, <1>6, <1>7

\* What is in a queue of handlers or events by position, and by content.
LEMMA ByContent ==
  ASSUME NEW S, NEW s \in Seq(S), NEW x
  PROVE  (\E i \in DOMAIN s : s[i] = x) <=> Queued(s, x)
BY LenProperties DEF Queued

\* NobodySkipped and its other form.
LEMMA SkippedForm ==
  ASSUME TypeOK
  PROVE  NobodyMissed => NobodySkipped
<1> SUFFICES ASSUME NobodyMissed,
                    NEW k \in Types \cup {Global}, NEW i \in DOMAIN handlers[k],
                    NEW n \in DOMAIN handled,
                    since[handlers[k][i]] < handled[n], k \in {TypeOf[handled[n]], Global}
             PROVE  \E m \in DOMAIN handed[handlers[k][i]] :
                      handed[handlers[k][i]][m] = handled[n]
  BY DEF NobodySkipped
<1>1. handlers[k] \in Seq(Handlers) /\ handled \in Seq(Nat)
  BY DEF TypeOK
<1>2. /\ handlers[k][i] \in Handlers /\ Queued(handlers[k], handlers[k][i])
      /\ handled[n] \in Nat /\ Queued(handled, handled[n])
  BY <1>1, ElementOfSeq, LenProperties DEF Queued
<1>3. Queued(handed[handlers[k][i]], handled[n])
  BY <1>2 DEF NobodyMissed, Keys
<1>4. handed[handlers[k][i]] \in Seq(Nat)
  BY <1>2 DEF TypeOK
<1> QED
  BY <1>3, <1>4, ByContent
-----------------------------------------------------------------------------
(* Each step preserves the invariant.                                      *)

\* What the keys and the types of the events are.
LEMMA KeyFacts ==
  /\ Global \in Keys /\ MaxEvents \in Nat /\ HistorySize \in Nat \ {0}
  /\ \A e \in 1 .. MaxEvents : TypeOf[e] \in Keys /\ TypeOf[e] # Global
BY EventBusAssumption, GlobalAssumption DEF Keys

LEMMA SubscribeInvariant ==
  ASSUME IInv, NEW h \in Handlers, NEW k \in Keys, Subscribe(h, k)
  PROVE  IInv'
<1>1. /\ ~Subscribed(h)
      /\ handlers' = [handlers EXCEPT ![k] = Append(@, h)]
      /\ subscriptions' = subscriptions + 1
      /\ since' = [since EXCEPT ![h] = emitted]
      /\ UNCHANGED <<queue, unfinished, is_running, processor_task, event, remaining, history,
                     caller, emitted, starts, handed, handled, cut, asked>>
  BY DEF Subscribe, task, log
<1>2. /\ TypeOK /\ handlers \in [Keys -> Seq(Handlers)] /\ since \in [Handlers -> Nat]
      /\ emitted \in Nat
  BY DEF IInv, TypeOK, Keys
<1>3. \A l \in Keys : ~Queued(handlers[l], h) /\ handlers[l] \in Seq(Handlers)
  BY <1>1, <1>2, ByContent DEF Subscribed, Keys
<1>4. /\ handlers'[k] \in Seq(Handlers) /\ Distinct(handlers'[k])
      /\ \A y : Queued(handlers'[k], y) <=> Queued(handlers[k], y) \/ y = h
      /\ \A l \in Keys \ {k} : handlers'[l] = handlers[l]
      /\ since'[h] = emitted /\ \A g \in Handlers \ {h} : since'[g] = since[g]
  <2>1. handlers'[k] = Append(handlers[k], h)
    BY <1>1, <1>2
  <2>2. Distinct(handlers[k]) /\ handlers[k] \in Seq(Handlers) /\ ~Queued(handlers[k], h)
    BY <1>3 DEF IInv, Registered
  <2>3. /\ handlers'[k] \in Seq(Handlers) /\ Distinct(handlers'[k])
        /\ \A y : Queued(handlers'[k], y) <=> Queued(handlers[k], y) \/ y = h
    BY <2>1, <2>2, AppendQueue
  <2> QED
    BY <1>1, <1>2, <2>3
<1>5. TypeOK'
  <2>1. handlers' \in [Types \cup {Global} -> Seq(Handlers)]
    BY <1>1, <1>2, <1>4 DEF Keys
  <2>2. since' \in [Handlers -> Nat] /\ subscriptions' \in Nat
    BY <1>1, <1>2 DEF TypeOK
  <2> QED
    BY <1>1, <1>2, <2>1, <2>2 DEF TypeOK
<1>6. Registered'
  <2>1. \A l \in Keys : Distinct(handlers'[l])
    BY <1>4 DEF IInv, Registered
  <2>2. ASSUME NEW l \in Keys, NEW m \in Keys, NEW g \in Handlers,
               Queued(handlers'[l], g), Queued(handlers'[m], g)
        PROVE  l = m
    BY <1>3, <1>4, <2>2 DEF IInv, Registered
  <2> QED
    BY <2>1, <2>2 DEF Registered
<1>7. /\ UnderWay' /\ Over' /\ Given' /\ InOrder' /\ JoinCount' /\ IdleMeansEnded'
      /\ IsFiniteSet(cut)'
  BY <1>1 DEF IInv, UnderWay, Over, Given, InOrder, JoinCount, IdleMeansEnded
<1>8. NobodyForgotten'
  <2> SUFFICES ASSUME NEW l \in Keys, NEW g \in Handlers, event # 0, Queued(handlers'[l], g),
                      since'[g] < event, l \in {TypeOf[event], Global}
               PROVE  Queued(handed[g], event) \/ Queued(remaining, g)
    BY <1>1 DEF NobodyForgotten
  <2>1. event <= emitted /\ event \in Nat
    BY <1>2 DEF IInv, UnderWay, TypeOK
  <2>2. g # h
    BY <1>2, <1>4, <2>1
  <2> QED
    BY <1>4, <2>2 DEF IInv, NobodyForgotten
<1>9. NobodyMissed'
  <2> SUFFICES ASSUME NEW l \in Keys, NEW g \in Handlers, NEW e \in Nat,
                      Queued(handlers'[l], g), Queued(handled, e),
                      since'[g] < e, l \in {TypeOf[e], Global}
               PROVE  Queued(handed[g], e)
    BY <1>1 DEF NobodyMissed
  <2>1. e <= emitted
    BY DEF IInv, Over
  <2>2. g # h
    BY <1>2, <1>4, <2>1
  <2> QED
    BY <1>4, <2>2 DEF IInv, NobodyMissed
<1> QED
  BY <1>5, <1>6, <1>7, <1>8, <1>9 DEF IInv

LEMMA UnsubscribeInvariant ==
  ASSUME IInv, NEW h \in Handlers, NEW k \in Keys, Unsubscribe(h, k)
  PROVE  IInv'
<1>1. /\ handlers' = [handlers EXCEPT ![k] = RemoveFirst(@, h)]
      /\ UNCHANGED <<subscriptions, since, queue, unfinished, is_running, processor_task, event,
                     remaining, history, caller, emitted, starts, handed, handled, cut, asked>>
  BY DEF Unsubscribe, task, log
<1>2. TypeOK /\ handlers \in [Keys -> Seq(Handlers)]
  BY DEF IInv, TypeOK, Keys
<1>3. /\ handlers'[k] \in Seq(Handlers) /\ Distinct(handlers'[k])
      /\ \A y : Queued(handlers'[k], y) => Queued(handlers[k], y)
      /\ \A l \in Keys \ {k} : handlers'[l] = handlers[l]
  <2>1. Distinct(handlers[k]) /\ handlers[k] \in Seq(Handlers)
    BY <1>2 DEF IInv, Registered
  <2>2. handlers'[k] = RemoveFirst(handlers[k], h)
    BY <1>1, <1>2
  <2>3. /\ handlers'[k] \in Seq(Handlers) /\ Distinct(handlers'[k])
        /\ \A y : Queued(handlers'[k], y) <=> Queued(handlers[k], y) /\ y # h
    BY <2>1, <2>2, RemoveQueue
  <2> QED
    BY <1>1, <1>2, <2>3
<1>4. \A l \in Keys : \A y : Queued(handlers'[l], y) => Queued(handlers[l], y)
  BY <1>3
<1>5. TypeOK'
  <2>1. handlers' \in [Types \cup {Global} -> Seq(Handlers)]
    BY <1>1, <1>2, <1>3 DEF Keys
  <2> QED
    BY <1>1, <1>2, <2>1 DEF TypeOK
<1>6. Registered'
  <2>1. \A l \in Keys : Distinct(handlers'[l])
    BY <1>3 DEF IInv, Registered
  <2> QED
    BY <1>4, <2>1 DEF IInv, Registered
<1>7. /\ UnderWay' /\ Over' /\ Given' /\ InOrder' /\ JoinCount' /\ IdleMeansEnded'
      /\ IsFiniteSet(cut)'
  BY <1>1 DEF IInv, UnderWay, Over, Given, InOrder, JoinCount, IdleMeansEnded
<1>8. NobodyForgotten' /\ NobodyMissed'
  BY <1>1, <1>4 DEF IInv, NobodyForgotten, NobodyMissed
<1> QED
  BY <1>5, <1>6, <1>7, <1>8 DEF IInv

LEMMA EmitInvariant ==
  ASSUME IInv, Emit
  PROVE  IInv'
<1>1. /\ emitted < MaxEvents /\ emitted' = emitted + 1
      /\ queue' = Append(queue, emitted + 1)
      /\ unfinished' = unfinished + 1
      /\ UNCHANGED <<handlers, subscriptions, since, is_running, processor_task, event,
                     remaining, history, caller, starts, handed, handled, cut, asked>>
  BY DEF Emit, registry, task, log
<1>2. TypeOK /\ emitted \in Nat /\ queue \in Seq(Nat) /\ event \in Nat /\ unfinished \in Nat
  BY DEF IInv, TypeOK
<1>3. \A x \in Nat : Queued(queue, x) => x < emitted + 1
  BY <1>2 DEF IInv, UnderWay
<1>4. /\ queue' \in Seq(Nat) /\ Ascending(queue') /\ Len(queue') = Len(queue) + 1
      /\ \A y : Queued(queue', y) <=> Queued(queue, y) \/ y = emitted + 1
  <2>1. Ascending(queue) /\ emitted + 1 \in Nat
    BY <1>2 DEF IInv, UnderWay
  <2>2. Ascending(queue')
    BY <1>1, <1>2, <1>3, <2>1, AscendingAppend
  <2> QED
    BY <1>1, <1>2, <2>1, <2>2, AppendElements, AppendProperties
<1>5. TypeOK'
  BY <1>1, <1>2, <1>4 DEF TypeOK
<1>6. UnderWay'
  <2>1. event <= emitted' /\ emitted' <= MaxEvents
    BY <1>1, <1>2, KeyFacts DEF IInv, UnderWay
  <2>2. \A x \in Nat : Queued(queue', x) => event < x /\ x <= emitted'
    BY <1>1, <1>2, <1>4 DEF IInv, UnderWay
  <2> QED
    BY <1>1, <1>4, <2>1, <2>2 DEF IInv, UnderWay
<1>7. Over'
  BY <1>1, <1>2, <1>4 DEF IInv, Over
<1>8. Given'
  BY <1>1, <1>2, <1>4 DEF IInv, Given
<1>9. JoinCount'
  <2>1. IsFiniteSet(cut) /\ Cardinality(cut) \in Nat
    BY FS_CardinalityType DEF IInv
  <2>2. Len(queue) \in Nat
    BY <1>2, LenProperties
  <2>3. unfinished = Len(queue) + (IF event = 0 THEN 0 ELSE 1) + Cardinality(cut)
    BY DEF IInv, JoinCount
  <2>4. unfinished' = Len(queue') + (IF event = 0 THEN 0 ELSE 1) + Cardinality(cut)
    <3>1. /\ unfinished' = unfinished + 1 /\ Len(queue') = Len(queue) + 1
      BY <1>1, <1>4
    <3>2. CASE event = 0
      BY <3>1, <3>2, <2>1, <2>2, <2>3
    <3>3. CASE event # 0
      BY <3>1, <3>3, <2>1, <2>2, <2>3
    <3> QED
      BY <3>2, <3>3
  <2> QED
    BY <1>1, <2>4 DEF JoinCount
<1>10. /\ Registered' /\ InOrder' /\ NobodyForgotten' /\ NobodyMissed' /\ IdleMeansEnded'
       /\ IsFiniteSet(cut)'
  BY <1>1 DEF IInv, Registered, InOrder, NobodyForgotten, NobodyMissed, IdleMeansEnded
<1> QED
  BY <1>5, <1>6, <1>7, <1>8, <1>9, <1>10 DEF IInv

\* What a step that takes the head of the queue knows.
LEMMA HeadFacts ==
  ASSUME IInv, queue # <<>>, event = 0
  PROVE  /\ Head(queue) \in 1 .. MaxEvents /\ Head(queue) <= emitted /\ Queued(queue, Head(queue))
         /\ Tail(queue) \in Seq(Nat) /\ Ascending(Tail(queue))
         /\ Len(Tail(queue)) = Len(queue) - 1
         /\ \A y \in Nat : Queued(Tail(queue), y) => Queued(queue, y) /\ Head(queue) < y
         /\ TypeOf[Head(queue)] \in Keys /\ TypeOf[Head(queue)] # Global
<1>1. TypeOK /\ queue \in Seq(Nat) /\ Ascending(queue) /\ emitted \in Nat /\ emitted <= MaxEvents
  BY DEF IInv, TypeOK, UnderWay
<1>2. /\ Head(queue) \in Nat /\ Queued(queue, Head(queue))
      /\ Tail(queue) \in Seq(Nat) /\ Ascending(Tail(queue))
      /\ Len(Tail(queue)) = Len(queue) - 1
      /\ \A y \in Nat : Queued(Tail(queue), y) => Queued(queue, y) /\ Head(queue) < y
  BY <1>1, AscendingTail
<1>3. event < Head(queue) /\ Head(queue) <= emitted
  BY <1>2 DEF IInv, UnderWay
<1>4. Head(queue) \in 1 .. MaxEvents
  BY <1>1, <1>2, <1>3, KeyFacts
<1> QED
  BY <1>2, <1>3, <1>4, KeyFacts

\* The handlers an event is handed to: those of its type and the global ones.
LEMMA AllHandlers ==
  ASSUME TypeOK, Registered, NEW k \in Keys, k # Global
  PROVE  /\ handlers[k] \o handlers[Global] \in Seq(Handlers)
         /\ Distinct(handlers[k] \o handlers[Global])
         /\ \A y : Queued(handlers[k] \o handlers[Global], y)
                     <=> Queued(handlers[k], y) \/ Queued(handlers[Global], y)
<1>1. /\ handlers[k] \in Seq(Handlers) /\ handlers[Global] \in Seq(Handlers)
      /\ Distinct(handlers[k]) /\ Distinct(handlers[Global])
  BY KeyFacts DEF TypeOK, Registered, Keys
<1>2. \A x \in Handlers : ~(Queued(handlers[k], x) /\ Queued(handlers[Global], x))
  BY KeyFacts DEF Registered
<1> QED
  BY <1>1, <1>2, ConcatQueue

\* The history keeps its type.
LEMMA TrimType ==
  ASSUME NEW s \in Seq(Nat)
  PROVE  Trim(s) \in Seq(Nat)
<1>1. Len(s) \in Nat /\ \A i \in 1 .. Len(s) : s[i] \in Nat
  BY LenProperties, ElementOfSeq
<1>2. CASE Len(s) > HistorySize
  <2>1. \A i \in Len(s) - HistorySize + 1 .. Len(s) : s[i] \in Nat
    BY <1>1, <1>2, KeyFacts
  <2>2. Len(s) - HistorySize + 1 \in Int /\ Len(s) \in Int
    BY <1>1, KeyFacts
  <2>3. SubSeq(s, Len(s) - HistorySize + 1, Len(s)) \in Seq(Nat)
    BY <2>1, <2>2, SubSeqProperties
  <2> QED
    BY <1>2, <2>3 DEF Trim
<1>3. CASE ~(Len(s) > HistorySize)
  BY <1>3 DEF Trim
<1> QED
  BY <1>2, <1>3

LEMMA ProcessorGetsInvariant ==
  ASSUME IInv, ProcessorGets
  PROVE  IInv'
<1> DEFINE e == Head(queue)
           all == handlers[TypeOf[e]] \o handlers[Global]
<1>1. /\ processor_task = "get" /\ queue # <<>> /\ queue' = Tail(queue)
      /\ history' = Trim(Append(history, e))
      /\ UNCHANGED <<handlers, subscriptions, since, is_running, caller, emitted, starts,
                     handed, cut, asked>>
  BY DEF ProcessorGets, registry
<1>2. \/ /\ all = <<>>
         /\ unfinished' = unfinished - 1 /\ handled' = Append(handled, e)
         /\ event' = 0 /\ remaining' = <<>> /\ processor_task' \in {"get", "done"}
      \/ /\ all # <<>>
         /\ event' = e /\ remaining' = all /\ processor_task' = "handling"
         /\ unfinished' = unfinished /\ handled' = handled
  BY DEF ProcessorGets, Finish, LoopHead
<1>3. TypeOK /\ event = 0
  BY <1>1 DEF IInv, UnderWay
<1>4. /\ e \in 1 .. MaxEvents /\ e \in Nat \ {0} /\ e <= emitted /\ Queued(queue, e)
      /\ Tail(queue) \in Seq(Nat) /\ Ascending(Tail(queue))
      /\ Len(Tail(queue)) = Len(queue) - 1
      /\ \A y \in Nat : Queued(Tail(queue), y) => Queued(queue, y) /\ e < y
      /\ TypeOf[e] \in Keys /\ TypeOf[e] # Global
  BY <1>1, <1>3, HeadFacts
<1>5. /\ all \in Seq(Handlers) /\ Distinct(all)
      /\ \A y : Queued(all, y) <=> Queued(handlers[TypeOf[e]], y) \/ Queued(handlers[Global], y)
  BY <1>3, <1>4, AllHandlers DEF IInv
<1> HIDE DEF e, all
<1>6. history' \in Seq(Nat)
  BY <1>1, <1>3, <1>4, AppendProperties, TrimType DEF TypeOK
<1>7. /\ handled \in Seq(Nat) /\ Append(handled, e) \in Seq(Nat)
      /\ \A y : Queued(Append(handled, e), y) <=> Queued(handled, y) \/ y = e
  <2>1. handled \in Seq(Nat) /\ e \in Nat
    BY <1>3, <1>4 DEF TypeOK
  <2> QED
    BY <2>1, AppendElements
<1>8. Queued(queue, e) /\ \A x \in Nat : x \in cut \/ Queued(handled, x) => x < e
  BY <1>4 DEF IInv, Over
<1>9. \A h \in Handlers : \A x \in Nat : Queued(handed[h], x) => x < e
  BY <1>4 DEF IInv, Given
<1>10. /\ unfinished' = Len(queue') + (IF event' = 0 THEN 0 ELSE 1) + Cardinality(cut)
       /\ unfinished' \in Nat
  <2>1. IsFiniteSet(cut) /\ Cardinality(cut) \in Nat
    BY FS_CardinalityType DEF IInv
  <2>2. Len(queue) \in Nat /\ Len(queue') = Len(queue) - 1 /\ Len(queue') \in Nat
    BY <1>1, <1>3, <1>4, LenProperties DEF TypeOK
  <2>3. unfinished = Len(queue) + Cardinality(cut)
    BY <1>3, <2>1, <2>2 DEF IInv, JoinCount
  <2> QED
    BY <1>2, <1>4, <2>1, <2>2, <2>3
<1>11. TypeOK'
  <2>1. /\ processor_task' \in {"none", "get", "handling", "done"}
        /\ event' \in Nat /\ remaining' \in Seq(Handlers) /\ handled' \in Seq(Nat)
    <3>1. event \in Nat /\ remaining \in Seq(Handlers) /\ <<>> \in Seq(Handlers)
      BY <1>3, EmptySeq DEF TypeOK
    <3>2. CASE all = <<>>
      BY <3>1, <3>2, <1>2, <1>7
    <3>3. CASE all # <<>>
      BY <3>3, <1>2, <1>4, <1>5, <1>7
    <3> QED
      BY <3>2, <3>3
  <2> QED
    BY <1>1, <1>3, <1>4, <1>6, <1>10, <2>1 DEF TypeOK
<1>12. UnderWay'
  <2>1. /\ event' # 0 <=> processor_task' = "handling"
        /\ event' # 0 <=> remaining' # <<>>
        /\ Distinct(remaining')
        /\ event' <= emitted /\ (event' = 0 \/ event' = e)
    BY <1>2, <1>3, <1>4, <1>5, EmptyQueue DEF IInv, UnderWay
  <2>2. \A x \in Nat : Queued(queue', x) => event' < x /\ x <= emitted
    <3> SUFFICES ASSUME NEW x \in Nat, Queued(queue', x)  PROVE event' < x /\ x <= emitted
      OBVIOUS
    <3>1. Queued(queue, x) /\ e < x
      BY <1>1, <1>4
    <3>2. event < x /\ x <= emitted
      BY <3>1 DEF IInv, UnderWay
    <3> QED
      BY <1>3, <2>1, <3>1, <3>2
  <2> QED
    BY <1>1, <1>4, <2>1, <2>2 DEF IInv, UnderWay
<1>13. Over'
  <2> SUFFICES ASSUME NEW x \in Nat, x \in cut \/ Queued(handled', x)
               PROVE  /\ x <= emitted
                      /\ event' # 0 => x < event'
                      /\ \A y \in Nat : Queued(queue', y) => x < y
    BY <1>1 DEF Over
  <2>1. CASE x = e /\ event' = 0
    BY <1>1, <1>4, <2>1
  <2>2. CASE x \in cut \/ Queued(handled, x)
    <3>1. x <= emitted /\ x < e
      BY <1>8, <2>2 DEF IInv, Over
    <3>2. \A y \in Nat : Queued(queue', y) => x < y
      BY <1>1, <1>4, <2>2 DEF IInv, Over
    <3> QED
      BY <1>2, <3>1, <3>2
  <2> QED
    BY <1>2, <1>7, <2>1, <2>2
<1>14. Given'
  <2> SUFFICES ASSUME NEW h \in Handlers, NEW x \in Nat, Queued(handed[h], x)
               PROVE  /\ x <= emitted
                      /\ event' # 0 => x <= event'
                      /\ event' # 0 /\ Queued(remaining', h) => x < event'
                      /\ \A y \in Nat : Queued(queue', y) => x < y
    BY <1>1 DEF Given
  <2>1. x <= emitted /\ x < e
    BY <1>9 DEF IInv, Given
  <2>2. \A y \in Nat : Queued(queue', y) => x < y
    BY <1>1, <1>4 DEF IInv, Given
  <2> QED
    BY <1>2, <1>4, <2>1, <2>2
<1>15. NobodyForgotten'
  BY <1>1, <1>2, <1>5 DEF NobodyForgotten
<1>16. NobodyMissed'
  <2>1. CASE handled' = handled
    BY <1>1, <2>1 DEF IInv, NobodyMissed
  <2>2. CASE all = <<>> /\ handled' = Append(handled, e)
    <3> SUFFICES ASSUME NEW k \in Keys, NEW h \in Handlers, NEW d \in Nat,
                        Queued(handlers[k], h), Queued(handled', d), since[h] < d,
                        k \in {TypeOf[d], Global}
                 PROVE  Queued(handed[h], d)
      BY <1>1 DEF NobodyMissed
    <3>1. ~Queued(all, h)
      BY <2>2, EmptyQueue
    <3>2. d # e
      BY <1>5, <3>1
    <3>3. Queued(handled, d)
      BY <1>7, <2>2, <3>2
    <3> QED
      BY <3>3 DEF IInv, NobodyMissed
  <2> QED
    BY <1>2, <2>1, <2>2
<1>17. JoinCount'
  BY <1>1, <1>10 DEF JoinCount
<1>18. /\ Registered' /\ InOrder' /\ IsFiniteSet(cut)'
  BY <1>1 DEF IInv, Registered, InOrder
<1>19. IdleMeansEnded'
  BY <1>1 DEF IInv, IdleMeansEnded
<1> QED
  BY <1>11, <1>12, <1>13, <1>14, <1>15, <1>16, <1>17, <1>18, <1>19 DEF IInv

LEMMA HandlerReturnsInvariant ==
  ASSUME IInv, HandlerReturns
  PROVE  IInv'
<1> DEFINE g == Head(remaining)
<1>1. /\ processor_task = "handling"
      /\ handed' = [handed EXCEPT ![g] = Append(@, event)]
      /\ UNCHANGED <<handlers, subscriptions, since, queue, is_running, history, caller, emitted,
                     starts, cut, asked>>
  BY DEF HandlerReturns, registry
<1>2. \/ /\ Len(remaining) = 1
         /\ unfinished' = unfinished - 1 /\ handled' = Append(handled, event)
         /\ event' = 0 /\ remaining' = <<>> /\ processor_task' \in {"get", "done"}
      \/ /\ Len(remaining) # 1
         /\ remaining' = Tail(remaining)
         /\ unfinished' = unfinished /\ handled' = handled
         /\ event' = event /\ processor_task' = processor_task
  BY DEF HandlerReturns, Finish, LoopHead
<1>3. /\ TypeOK /\ event # 0 /\ remaining # <<>> /\ event \in Nat /\ event <= emitted
      /\ remaining \in Seq(Handlers) /\ Distinct(remaining)
  BY <1>1 DEF IInv, UnderWay, TypeOK
<1>4. /\ g \in Handlers /\ Queued(remaining, g)
      /\ Tail(remaining) \in Seq(Handlers) /\ Distinct(Tail(remaining))
      /\ \A y : Queued(Tail(remaining), y) <=> Queued(remaining, y) /\ y # g
      /\ Len(Tail(remaining)) = Len(remaining) - 1
      /\ Len(remaining) \in Nat
  BY <1>3, TailQueue, HeadTailProperties, LenProperties
<1>5. Len(remaining) = 1 => \A y : Queued(remaining, y) => y = g
  <2> SUFFICES ASSUME Len(remaining) = 1, NEW y, Queued(remaining, y)  PROVE y = g
    OBVIOUS
  <2>1. ~Queued(Tail(remaining), y)
    BY <1>4 DEF Queued
  <2> QED
    BY <1>4, <2>1
<1>6. Len(remaining) # 1 => Tail(remaining) # <<>>
  <2> SUFFICES ASSUME Tail(remaining) = <<>>  PROVE Len(remaining) = 1
    OBVIOUS
  <2>1. Len(Tail(remaining)) = 0
    BY EmptySeq
  <2> QED
    BY <1>4, <2>1
<1> HIDE DEF g
<1>7. /\ handed \in [Handlers -> Seq(Nat)] /\ handed[g] \in Seq(Nat)
      /\ Ascending(handed[g])
      /\ \A x \in Nat : Queued(handed[g], x) => x < event
  BY <1>3, <1>4 DEF IInv, Given, InOrder, TypeOK
<1>8. /\ handed'[g] \in Seq(Nat) /\ Ascending(handed'[g])
      /\ \A y : Queued(handed'[g], y) <=> Queued(handed[g], y) \/ y = event
      /\ \A h \in Handlers \ {g} : handed'[h] = handed[h]
  <2>1. handed'[g] = Append(handed[g], event)
    BY <1>1, <1>4, <1>7
  <2>2. Ascending(handed'[g])
    BY <2>1, <1>3, <1>7, AscendingAppend
  <2>3. /\ handed'[g] \in Seq(Nat)
        /\ \A y : Queued(handed'[g], y) <=> Queued(handed[g], y) \/ y = event
    <3>1. /\ Append(handed[g], event) \in Seq(Nat)
          /\ \A y : Queued(Append(handed[g], event), y) <=> Queued(handed[g], y) \/ y = event
      BY <1>3, <1>7, AppendElements
    <3> QED
      BY <2>1, <3>1
  <2> QED
    BY <1>1, <1>7, <2>2, <2>3
<1>9. \A h \in Handlers : \A y : Queued(handed[h], y) => Queued(handed'[h], y)
  <2> SUFFICES ASSUME NEW h \in Handlers, NEW y, Queued(handed[h], y)  PROVE Queued(handed'[h], y)
    OBVIOUS
  <2>1. CASE h = g
    BY <1>8, <2>1
  <2>2. CASE h # g
    BY <1>8, <2>2
  <2> QED
    BY <2>1, <2>2
<1>10. /\ handled \in Seq(Nat) /\ Append(handled, event) \in Seq(Nat)
       /\ \A y : Queued(Append(handled, event), y) <=> Queued(handled, y) \/ y = event
  <2>1. handled \in Seq(Nat) /\ event \in Nat
    BY <1>3 DEF TypeOK
  <2> QED
    BY <2>1, AppendElements
<1>11. /\ unfinished' = Len(queue') + (IF event' = 0 THEN 0 ELSE 1) + Cardinality(cut)
       /\ unfinished' \in Nat
  <2>1. IsFiniteSet(cut) /\ Cardinality(cut) \in Nat
    BY FS_CardinalityType DEF IInv
  <2>2. Len(queue) \in Nat /\ Len(queue') = Len(queue)
    BY <1>1, <1>3, LenProperties DEF TypeOK
  <2>3. unfinished = Len(queue) + 1 + Cardinality(cut)
    BY <1>3, <2>1, <2>2 DEF IInv, JoinCount
  <2> QED
    BY <1>2, <1>3, <2>1, <2>2, <2>3
<1>12. TypeOK'
  <2>1. handed' \in [Handlers -> Seq(Nat)]
    BY <1>1, <1>7, <1>8
  <2>2. /\ processor_task' \in {"none", "get", "handling", "done"}
        /\ event' \in Nat /\ remaining' \in Seq(Handlers) /\ handled' \in Seq(Nat)
    <3>1. <<>> \in Seq(Handlers)
      BY EmptySeq
    <3>2. CASE Len(remaining) = 1
      BY <3>1, <3>2, <1>2, <1>10
    <3>3. CASE Len(remaining) # 1
      BY <3>3, <1>1, <1>2, <1>3, <1>4, <1>10
    <3> QED
      BY <3>2, <3>3
  <2> QED
    BY <1>1, <1>3, <1>11, <2>1, <2>2 DEF TypeOK
<1>13. UnderWay'
  <2>1. /\ event' # 0 <=> processor_task' = "handling"
        /\ event' # 0 <=> remaining' # <<>>
        /\ Distinct(remaining')
        /\ event' <= emitted /\ (event' = 0 \/ event' = event)
    <3>1. Distinct(<<>>) /\ emitted \in Nat
      BY <1>3, EmptyQueue DEF TypeOK
    <3>2. CASE Len(remaining) = 1
      BY <3>1, <3>2, <1>2
    <3>3. CASE Len(remaining) # 1
      BY <3>3, <1>1, <1>2, <1>3, <1>4, <1>6
    <3> QED
      BY <3>2, <3>3
  <2>2. \A x \in Nat : Queued(queue', x) => event' < x /\ x <= emitted
    BY <1>1, <1>3, <2>1 DEF IInv, UnderWay
  <2> QED
    BY <1>1, <2>1, <2>2 DEF IInv, UnderWay
<1>14. Over'
  <2> SUFFICES ASSUME NEW x \in Nat, x \in cut \/ Queued(handled', x)
               PROVE  /\ x <= emitted
                      /\ event' # 0 => x < event'
                      /\ \A y \in Nat : Queued(queue, y) => x < y
    BY <1>1 DEF Over
  <2>1. CASE x = event /\ event' = 0
    BY <1>3, <2>1 DEF IInv, UnderWay
  <2>2. CASE x \in cut \/ Queued(handled, x)
    BY <1>2, <1>3, <2>2 DEF IInv, Over
  <2> QED
    BY <1>2, <1>10, <2>1, <2>2
<1>15. Given'
  <2> SUFFICES ASSUME NEW h \in Handlers, NEW x \in Nat, Queued(handed'[h], x)
               PROVE  /\ x <= emitted
                      /\ event' # 0 => x <= event'
                      /\ event' # 0 /\ Queued(remaining', h) => x < event'
                      /\ \A y \in Nat : Queued(queue, y) => x < y
    BY <1>1 DEF Given
  <2>1. CASE h # g
    <3>1. Queued(handed[h], x)
      BY <1>8, <2>1
    <3>2. event' # 0 => event' = event /\ (Queued(remaining', h) => Queued(remaining, h))
      BY <1>2, <1>4
    <3> QED
      BY <1>3, <3>1, <3>2 DEF IInv, Given
  <2>2. CASE h = g
    <3>1. x <= event
      BY <1>3, <1>7, <1>8, <2>2
    <3>2. event' # 0 => event' = event /\ ~Queued(remaining', h)
      BY <1>2, <1>4, <2>2
    <3>3. x <= emitted /\ emitted \in Nat
      BY <1>3, <3>1 DEF TypeOK
    <3>4. \A y \in Nat : Queued(queue, y) => x < y
      BY <1>3, <3>1 DEF IInv, UnderWay
    <3> QED
      BY <3>1, <3>2, <3>3, <3>4
  <2> QED
    BY <2>1, <2>2
<1>16. NobodyForgotten'
  <2> SUFFICES ASSUME NEW k \in Keys, NEW h \in Handlers,
                      event' # 0, Queued(handlers[k], h), since[h] < event',
                      k \in {TypeOf[event'], Global}
               PROVE  Queued(handed'[h], event') \/ Queued(remaining', h)
    BY <1>1 DEF NobodyForgotten
  <2>1. event' = event /\ remaining' = Tail(remaining)
    BY <1>2
  <2>2. Queued(handed[h], event) \/ Queued(remaining, h)
    BY <1>3, <2>1 DEF IInv, NobodyForgotten
  <2> QED
    BY <1>4, <1>8, <1>9, <2>1, <2>2
<1>17. NobodyMissed'
  <2> SUFFICES ASSUME NEW k \in Keys, NEW h \in Handlers, NEW d \in Nat,
                      Queued(handlers[k], h), Queued(handled', d), since[h] < d,
                      k \in {TypeOf[d], Global}
               PROVE  Queued(handed'[h], d)
    BY <1>1 DEF NobodyMissed
  <2>1. CASE Queued(handled, d)
    BY <1>9, <2>1 DEF IInv, NobodyMissed
  <2>2. CASE d = event /\ Len(remaining) = 1
    <3>1. Queued(handed[h], event) \/ Queued(remaining, h)
      BY <1>3, <2>2 DEF IInv, NobodyForgotten
    <3> QED
      BY <1>5, <1>8, <1>9, <2>2, <3>1
  <2> QED
    BY <1>2, <1>10, <2>1, <2>2
<1>18. InOrder'
  <2> SUFFICES ASSUME NEW h \in Handlers  PROVE Ascending(handed'[h])
    BY DEF InOrder
  <2>1. CASE h = g
    BY <1>8, <2>1
  <2>2. CASE h # g
    BY <1>8, <2>2 DEF IInv, InOrder
  <2> QED
    BY <2>1, <2>2
<1>19. JoinCount'
  BY <1>1, <1>11 DEF JoinCount
<1>20. Registered' /\ IsFiniteSet(cut)'
  BY <1>1 DEF IInv, Registered
<1>21. IdleMeansEnded'
  BY <1>1 DEF IInv, IdleMeansEnded
<1> QED
  BY <1>12, <1>13, <1>14, <1>15, <1>16, <1>17, <1>18, <1>19, <1>20, <1>21 DEF IInv

LEMMA GetTimesOutInvariant ==
  ASSUME IInv, GetTimesOut
  PROVE  IInv'
<1>1. /\ processor_task = "get" /\ processor_task' \in {"get", "done"}
      /\ UNCHANGED <<handlers, subscriptions, since, queue, unfinished, is_running, event,
                     remaining, history, caller, emitted, starts, handed, handled, cut, asked>>
  BY DEF GetTimesOut, LoopHead, registry, log
<1>2. TypeOK'
  BY <1>1 DEF IInv, TypeOK
<1>3. UnderWay'
  BY <1>1 DEF IInv, UnderWay
<1>4. IdleMeansEnded'
  BY <1>1 DEF IInv, IdleMeansEnded
<1>5. /\ Registered' /\ Over' /\ Given' /\ InOrder' /\ NobodyForgotten' /\ NobodyMissed'
      /\ JoinCount' /\ IsFiniteSet(cut)'
  BY <1>1 DEF IInv, Registered, Over, Given, InOrder, NobodyForgotten, NobodyMissed, JoinCount
<1> QED
  BY <1>2, <1>3, <1>4, <1>5 DEF IInv

\* start(), and the steps of stop() that leave the processor alone.
LEMMA OwnerInvariant ==
  ASSUME IInv, Start \/ StopBegins \/ StopEnds
  PROVE  IInv'
<1>1. UNCHANGED <<handlers, subscriptions, since, queue, unfinished, event, remaining, history,
                  emitted, handed, handled, cut>>
  BY DEF Start, StopBegins, StopEnds, registry, log, task
<1>2. /\ starts' \in Nat /\ is_running' \in BOOLEAN /\ asked' \in Nat
      /\ caller' \in {"idle", "running", "joining", "cancelling"}
      /\ processor_task' \in {"none", "get", "handling", "done"}
      /\ event # 0 <=> processor_task' = "handling"
      /\ caller' = "idle" => processor_task' \in {"none", "done"}
  <2>1. /\ starts \in Nat /\ is_running \in BOOLEAN /\ asked \in Nat /\ emitted \in Nat
        /\ caller \in {"idle", "running", "joining", "cancelling"}
        /\ processor_task \in {"none", "get", "handling", "done"}
        /\ event # 0 <=> processor_task = "handling"
        /\ caller = "idle" => processor_task \in {"none", "done"}
    BY DEF IInv, TypeOK, UnderWay, IdleMeansEnded
  <2>2. CASE Start
    BY <2>1, <2>2 DEF Start, log
  <2>3. CASE StopBegins
    BY <2>1, <2>3 DEF StopBegins, task
  <2>4. CASE StopEnds
    BY <2>1, <2>4 DEF StopEnds, log, task
  <2> QED
    BY <2>2, <2>3, <2>4
<1>3. TypeOK'
  BY <1>1, <1>2 DEF IInv, TypeOK
<1>4. UnderWay'
  BY <1>1, <1>2 DEF IInv, UnderWay
<1>5. IdleMeansEnded'
  BY <1>2 DEF IdleMeansEnded
<1>6. /\ Registered' /\ Over' /\ Given' /\ InOrder' /\ NobodyForgotten' /\ NobodyMissed'
      /\ JoinCount' /\ IsFiniteSet(cut)'
  BY <1>1 DEF IInv, Registered, Over, Given, InOrder, NobodyForgotten, NobodyMissed, JoinCount
<1> QED
  BY <1>3, <1>4, <1>5, <1>6 DEF IInv

LEMMA StopCancelsInvariant ==
  ASSUME IInv, StopCancels
  PROVE  IInv'
<1>1. /\ caller' = "cancelling"
      /\ UNCHANGED <<handlers, subscriptions, since, queue, is_running, history, emitted, starts,
                     handed, handled, asked, unfinished>>
  BY DEF StopCancels, registry, Cancel, CancellationSwallowed
<1>2. \/ UNCHANGED <<processor_task, event, remaining, cut>>
      \/ /\ processor_task' \in {"none", "done"}
         /\ cut' = cut \cup (IF processor_task = "handling" THEN {event} ELSE {})
         /\ event' = 0 /\ remaining' = <<>>
  BY DEF StopCancels, Cancel, CancellationSwallowed, task
<1>3. TypeOK /\ IsFiniteSet(cut) /\ event \in Nat /\ emitted \in Nat
  BY DEF IInv, TypeOK
<1>4. /\ IdleMeansEnded' /\ Registered' /\ InOrder' /\ NobodyMissed'
  BY <1>1 DEF IInv, IdleMeansEnded, Registered, InOrder, NobodyMissed
<1>5. CASE UNCHANGED <<processor_task, event, remaining, cut>>
  <2>1. TypeOK' /\ IsFiniteSet(cut)'
    BY <1>1, <1>5, <1>3 DEF TypeOK
  <2>2. UnderWay' /\ Over' /\ Given' /\ NobodyForgotten' /\ JoinCount'
    BY <1>1, <1>5 DEF IInv, UnderWay, Over, Given, NobodyForgotten, JoinCount
  <2> QED
    BY <1>4, <2>1, <2>2 DEF IInv
<1>6. CASE /\ processor_task' \in {"none", "done"}
           /\ cut' = cut \cup (IF processor_task = "handling" THEN {event} ELSE {})
           /\ event' = 0 /\ remaining' = <<>>
  <2>1. /\ event = 0 => cut' = cut
        /\ event # 0 => cut' = cut \cup {event} /\ event \notin cut
    BY <1>3, <1>6 DEF IInv, UnderWay, Over
  <2>2. IsFiniteSet(cut') /\ Cardinality(cut) \in Nat
        /\ Cardinality(cut') = Cardinality(cut) + (IF event = 0 THEN 0 ELSE 1)
    BY <1>3, <2>1, FS_AddElement, FS_CardinalityType
  <2>3. TypeOK'
    <3>1. cut' \in SUBSET Nat
      BY <1>3, <2>1 DEF TypeOK
    <3>2. remaining' \in Seq(Handlers)
      BY <1>6, EmptySeq
    <3> QED
      BY <1>1, <1>3, <1>6, <3>1, <3>2 DEF TypeOK
  <2>4. UnderWay'
    <3>1. Distinct(remaining')
      BY <1>6, EmptyQueue
    <3>2. \A x \in Nat : Queued(queue, x) => 0 < x /\ x <= emitted
      BY <1>3 DEF IInv, UnderWay
    <3> QED
      BY <1>1, <1>3, <1>6, <3>1, <3>2 DEF IInv, UnderWay
  <2>5. Over'
    <3> SUFFICES ASSUME NEW x \in Nat, x \in cut' \/ Queued(handled, x)
                 PROVE  x <= emitted /\ \A y \in Nat : Queued(queue, y) => x < y
      BY <1>1, <1>6 DEF Over
    <3>1. CASE x = event
      BY <3>1, <1>3 DEF IInv, UnderWay
    <3>2. CASE x \in cut \/ Queued(handled, x)
      BY <3>2 DEF IInv, Over
    <3> QED
      BY <2>1, <3>1, <3>2
  <2>6. Given'
    BY <1>1, <1>6 DEF IInv, Given
  <2>7. NobodyForgotten'
    BY <1>6 DEF NobodyForgotten
  <2>8. JoinCount'
    <3>1. Len(queue) \in Nat
      BY <1>3, LenProperties DEF TypeOK
    <3>2. unfinished = Len(queue) + (IF event = 0 THEN 0 ELSE 1) + Cardinality(cut)
      BY DEF IInv, JoinCount
    <3>3. unfinished = Len(queue) + 0 + Cardinality(cut')
      BY <2>2, <3>1, <3>2
    <3> QED
      BY <1>1, <1>6, <3>3 DEF JoinCount
  <2> QED
    BY <1>4, <2>2, <2>3, <2>4, <2>5, <2>6, <2>7, <2>8 DEF IInv
<1> QED
  BY <1>2, <1>5, <1>6
-----------------------------------------------------------------------------
LEMMA StutterInvariant ==
  ASSUME IInv, UNCHANGED vars
  PROVE  IInv'
<1>1. TypeOK' /\ IsFiniteSet(cut)'
  BY DEF IInv, vars, registry, task, log, TypeOK
<1>2. Registered' /\ UnderWay' /\ Over' /\ Given' /\ InOrder'
  BY DEF IInv, vars, registry, task, log, Registered, UnderWay, Over, Given, InOrder
<1>3. NobodyForgotten' /\ NobodyMissed' /\ JoinCount' /\ IdleMeansEnded'
  BY DEF IInv, vars, registry, task, log, NobodyForgotten, NobodyMissed, JoinCount,
         IdleMeansEnded
<1> QED
  BY <1>1, <1>2, <1>3 DEF IInv

\* The invariant holds at the start: nothing is registered, queued or handed out.
LEMMA InitInvariant ==
  ASSUME Init
  PROVE  IInv
<1>1. <<>> \in Seq(Handlers) /\ <<>> \in Seq(Nat) /\ Len(<<>>) = 0 /\ DOMAIN <<>> = {}
  BY EmptySeq
<1>2. TypeOK
  BY <1>1 DEF Init, TypeOK
<1>3. Registered /\ UnderWay
  BY <1>1, EmptyQueue, KeyFacts DEF Init, Registered, UnderWay, Keys, Ascending
<1>4. Over /\ Given /\ InOrder
  BY <1>1, EmptyQueue DEF Init, Over, Given, InOrder, Ascending
<1>5. NobodyForgotten /\ NobodyMissed /\ IdleMeansEnded
  BY EmptyQueue DEF Init, NobodyForgotten, NobodyMissed, IdleMeansEnded
<1>6. IsFiniteSet(cut) /\ JoinCount
  BY <1>1, FS_EmptySet DEF Init, JoinCount
<1> QED
  BY <1>2, <1>3, <1>4, <1>5, <1>6 DEF IInv

\* The invariant holds throughout.
THEOREM Invariance == Spec => []IInv
<1>1. Init => IInv
  BY InitInvariant
<1>2. IInv /\ [Next]_vars => IInv'
  <2> SUFFICES ASSUME IInv, [Next]_vars  PROVE IInv'
    OBVIOUS
  <2>1. CASE \E h \in Handlers, k \in Types \cup {Global} : Subscribe(h, k)
    BY <2>1, SubscribeInvariant DEF Keys
  <2>2. CASE \E h \in Handlers, k \in Types \cup {Global} : Unsubscribe(h, k)
    BY <2>2, UnsubscribeInvariant DEF Keys
  <2>3. CASE Emit
    BY <2>3, EmitInvariant
  <2>4. CASE Start \/ StopBegins \/ StopEnds
    BY <2>4, OwnerInvariant
  <2>5. CASE ProcessorGets
    BY <2>5, ProcessorGetsInvariant
  <2>6. CASE HandlerReturns
    BY <2>6, HandlerReturnsInvariant
  <2>7. CASE GetTimesOut
    BY <2>7, GetTimesOutInvariant
  <2>8. CASE StopCancels
    BY <2>8, StopCancelsInvariant
  <2>9. CASE UNCHANGED vars
    BY <2>9, StutterInvariant
  <2> QED
    BY <2>1, <2>2, <2>3, <2>4, <2>5, <2>6, <2>7, <2>8, <2>9 DEF Next, Processor, Stop, Clients
<1> QED
  BY <1>1, <1>2, PTL DEF Spec

\* Every variable keeps its type, so that _event_queue's count of unfinished
\* events, too, never falls below zero, where task_done() raises.
THEOREM TypeCorrect == Spec => []TypeOK
<1>1. IInv => TypeOK
  BY DEF IInv
<1> QED
  BY <1>1, Invariance, PTL

\* Each handler gets the events in the order of their emission and none twice
\* (events.py:321-340, 342-379).
THEOREM EventsInOrder == Spec => []InOrder
<1>1. IInv => InOrder
  BY DEF IInv
<1> QED
  BY <1>1, Invariance, PTL

\* Whoever subscribed before an event was emitted and still is subscribed when
\* the event is over has got it (events.py:299-310).
THEOREM NobodyIsSkipped == Spec => []NobodySkipped
<1>1. IInv => NobodySkipped
  BY SkippedForm DEF IInv
<1> QED
  BY <1>1, Invariance, PTL

\* What join() waits for is exactly what is queued, under way or was
\* interrupted (events.py:331-332, 361-365).
THEOREM JoinCountExact == Spec => []JoinCount
<1>1. IInv => JoinCount
  BY DEF IInv
<1> QED
  BY <1>1, Invariance, PTL
=============================================================================
