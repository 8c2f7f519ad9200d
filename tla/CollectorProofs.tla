-------------------------- MODULE CollectorProofs ---------------------------
(***************************************************************************)
(* Proofs about Collector, for any number of groups, any read groups of    *)
(* theirs, any limits and any bounds: the types (with the bound on the     *)
(* failures), FailuresBelowLimit and StopLeavesNothing.                    *)
(*                                                                         *)
(* None of them is inductive by itself.  IInv adds who is in the locks,    *)
(* and that a lock's holder stands first in it; what is left while start() *)
(* and stop() are under way; that a group which waits for an answer of an  *)
(* open connection is owed one; and that the failures and the groups under *)
(* way, each of which can add one, stay below the bound together.          *)
(***************************************************************************)
EXTENDS Collector, QueueLemmas, FiniteSetTheorems

Locations == {"none", "sleep", "connection_lock", "open", "request_lock", "answer",
              "delay", "done"}
AtConnection == {"connection_lock", "open"}
AtRequest == {"request_lock", "answer"}
Tasks == Groups \cup {Reconnector, Owner}

\* The groups that can still add a failure.
UnderWay == {g \in Groups : loop[g] \in AtConnection \cup AtRequest}

FailuresBounded ==
  /\ consecutive_failures \in Nat
  /\ consecutive_failures + Cardinality(UnderWay) < MaxFailures + Cardinality(Groups)

\* Who waits for _connection_lock or holds it, and who holds it and connects.
AtConnectionLock ==
  {g \in Groups : loop[g] \in AtConnection}
    \cup (IF reconnect_task \in AtConnection THEN {Reconnector} ELSE {})
    \cup (IF owner = "open" THEN {Owner} ELSE {})

Connecting ==
  {g \in Groups : loop[g] = "open"}
    \cup (IF reconnect_task = "open" THEN {Reconnector} ELSE {})
    \cup (IF owner = "open" THEN {Owner} ELSE {})

ConnectionLockHeld ==
  /\ Distinct(connection_lock)
  /\ \A x \in Tasks : Queued(connection_lock, x) <=> x \in AtConnectionLock
  /\ \A x \in Tasks : x \in Connecting => connection_lock[1] = x

RequestLockHeld ==
  /\ Distinct(request_lock)
  /\ \A g \in Groups : Queued(request_lock, g) <=> loop[g] \in AtRequest
  /\ \A g \in Groups : loop[g] = "answer" => request_lock[1] = g

AnswerOwed == \A g \in Groups : loop[g] = "answer" /\ writer = "open" => wire # <<>>

Control ==
  /\ owner \in {"idle", "open"} =>
       /\ \A g \in Groups : loop[g] \in {"none", "done"}
       /\ reconnect_task \in {"none", "done"}
  /\ owner = "idle" => writer = "none" /\ state = "DISCONNECTED"
  /\ owner # "stop_loop" => cancelled = 0
  /\ owner = "stop_loop" =>
       /\ cancelled \in Groups
       /\ reconnect_task \in {"none", "done"}
       /\ \A g \in Groups : g < cancelled => loop[g] = "done"

\* The types but for the bound on the failures, which is FailuresBounded.
Typed ==
  /\ is_running \in BOOLEAN
  /\ state \in {"DISCONNECTED", "CONNECTING", "CONNECTED", "RECONNECTING", "ERROR"}
  /\ loop \in [Groups -> Locations]
  /\ attempt \in [Groups -> 0 .. RetryCount]
  /\ index \in [Groups -> Nat] /\ failed \in [Groups -> Nat]
  /\ \A g \in Groups : index[g] \in 1 .. Len(Reads[g]) /\ failed[g] \in 0 .. index[g] - 1
  /\ reconnect_task \in {"none", "sleep", "connection_lock", "open", "done"}
  /\ owner \in {"idle", "open", "running", "stop_reconnect", "stop_loop"}
  /\ cancelled \in {0} \cup Groups
  /\ connection_lock \in Seq(Tasks)
  /\ request_lock \in Seq(Groups)
  /\ writer \in {"none", "open", "eof", "dead"} /\ wire \in Seq(Nat)
  /\ device_up \in BOOLEAN
  /\ misread \in BOOLEAN
  /\ own \in [Groups -> BOOLEAN]
  /\ faults \in 0 .. MaxFaults /\ starts \in 0 .. MaxStarts

IInv ==
  /\ Typed
  /\ FailuresBounded
  /\ FailuresBelowLimit
  /\ ConnectionLockHeld
  /\ RequestLockHeld
  /\ AnswerOwed
  /\ Control
-----------------------------------------------------------------------------
(* The constants and the counting of the groups under way.                 *)

\* What the groups are: neither the reconnect loop nor the owner is one.
LEMMA GroupFacts ==
  /\ NumGroups \in Nat \ {0} /\ MaxFailures \in Nat \ {0}
  /\ RetryCount \in Nat /\ MaxFaults \in Nat /\ MaxStarts \in Nat
  /\ Groups \subseteq Nat /\ 1 \in Groups
  /\ Reconnector \notin Groups /\ Owner \notin Groups /\ Reconnector # Owner
  /\ \A g \in Groups : Reads[g] \in Seq(Nat) /\ Len(Reads[g]) \in Nat \ {0}
  /\ IsFiniteSet(Groups)
  /\ Cardinality(Groups) \in Nat \ {0}
<1>1. /\ NumGroups \in Nat \ {0} /\ MaxFailures \in Nat \ {0}
      /\ RetryCount \in Nat /\ MaxFaults \in Nat /\ MaxStarts \in Nat
      /\ \A g \in Groups : Reads[g] \in Seq(Nat) /\ Reads[g] # <<>>
  BY CollectorAssumption
<1>2. /\ Groups \subseteq Nat /\ 1 \in Groups
      /\ Reconnector \notin Groups /\ Owner \notin Groups /\ Reconnector # Owner
  BY <1>1 DEF Groups, Reconnector, Owner
<1>3. \A g \in Groups : Len(Reads[g]) \in Nat \ {0}
  BY <1>1, EmptySeq
<1>4. IsFiniteSet(Groups) /\ Cardinality(Groups) = NumGroups
  <2>1. 1 \in Int /\ NumGroups \in Int
    BY <1>1
  <2>2. /\ IsFiniteSet(1 .. NumGroups)
        /\ Cardinality(1 .. NumGroups) = IF 1 > NumGroups THEN 0 ELSE NumGroups - 1 + 1
    BY <2>1, FS_Interval
  <2> QED
    BY <2>2, <1>1 DEF Groups
<1> QED
  BY <1>1, <1>2, <1>3, <1>4

\* A set of groups, and what one member more or less means for its size.
LEMMA CountGroups ==
  ASSUME NEW T \in SUBSET Groups
  PROVE  /\ Cardinality(T) \in Nat
         /\ Cardinality(T) <= Cardinality(Groups)
         /\ \A g \in T : Cardinality(T \ {g}) = Cardinality(T) - 1
<1>1. IsFiniteSet(T) /\ Cardinality(T) <= Cardinality(Groups)
  BY GroupFacts, FS_Subset
<1>2. Cardinality(T) \in Nat
  BY <1>1, FS_CardinalityType
<1>3. \A g \in T : Cardinality(T \ {g}) = Cardinality(T) - 1
  BY <1>1, FS_RemoveElement
<1> QED
  BY <1>1, <1>2, <1>3

\* The failures stay bounded: a group ends with at most one failure more,
\* others go on under way only from a connection whose failures are few.
LEMMA FailuresStayBounded ==
  ASSUME FailuresBounded, FailuresBelowLimit, consecutive_failures' \in Nat,
         \/ consecutive_failures' = 0
         \/ consecutive_failures' = consecutive_failures /\ UnderWay' \subseteq UnderWay
         \/ consecutive_failures' = consecutive_failures /\ state = "CONNECTED"
         \/ /\ consecutive_failures' = consecutive_failures + 1
            /\ \E g \in UnderWay : UnderWay' = UnderWay \ {g}
  PROVE  FailuresBounded'
<1>1. UnderWay \in SUBSET Groups /\ UnderWay' \in SUBSET Groups
  BY DEF UnderWay
<1>2. /\ Cardinality(UnderWay) \in Nat /\ Cardinality(UnderWay') \in Nat
      /\ Cardinality(UnderWay') <= Cardinality(Groups)
      /\ \A g \in UnderWay : Cardinality(UnderWay \ {g}) = Cardinality(UnderWay) - 1
      /\ MaxFailures \in Nat \ {0} /\ Cardinality(Groups) \in Nat \ {0}
  BY <1>1, CountGroups, GroupFacts
<1>3. Cardinality(UnderWay)' = Cardinality(UnderWay')
  OBVIOUS
<1>4. CASE consecutive_failures' = 0
  BY <1>2, <1>4 DEF FailuresBounded
<1>5. CASE consecutive_failures' = consecutive_failures /\ UnderWay' \subseteq UnderWay
  <2>1. Cardinality(UnderWay') <= Cardinality(UnderWay)
    BY <1>1, <1>5, GroupFacts, FS_Subset
  <2> QED
    BY <1>2, <1>5, <2>1 DEF FailuresBounded
<1>6. CASE consecutive_failures' = consecutive_failures /\ state = "CONNECTED"
  BY <1>2, <1>6 DEF FailuresBounded, FailuresBelowLimit
<1>7. CASE /\ consecutive_failures' = consecutive_failures + 1
           /\ \E g \in UnderWay : UnderWay' = UnderWay \ {g}
  BY <1>2, <1>7 DEF FailuresBounded
<1> QED
  BY <1>4, <1>5, <1>6, <1>7
-----------------------------------------------------------------------------
(* The locks.                                                              *)

\* What a group does to the request lock keeps it in order.
LEMMA RequestLockMoves ==
  ASSUME Typed, RequestLockHeld, NEW g \in Groups, NEW v \in Locations,
         loop' = [loop EXCEPT ![g] = v],
         \/ /\ request_lock' = request_lock
            /\ loop[g] \in AtRequest <=> v \in AtRequest
            /\ v = "answer" => request_lock[1] = g
         \/ /\ request_lock' = Append(request_lock, g)
            /\ loop[g] \notin AtRequest /\ v = "request_lock"
         \/ /\ request_lock' = Tail(request_lock)
            /\ request_lock[1] = g /\ loop[g] \in AtRequest /\ v \notin AtRequest
         \/ /\ request_lock' = Append(Tail(request_lock), g)
            /\ request_lock[1] = g /\ loop[g] \in AtRequest /\ v = "request_lock"
         \/ request_lock' = Leave(request_lock, g) /\ v \notin AtRequest
  PROVE  RequestLockHeld' /\ request_lock' \in Seq(Groups)
<1>1. /\ loop'[g] = v
      /\ \A h \in Groups \ {g} : loop'[h] = loop[h]
      /\ request_lock \in Seq(Groups)
  BY DEF Typed
<1> USE DEF AtRequest
<1>2. CASE /\ request_lock' = request_lock
           /\ loop[g] \in AtRequest <=> v \in AtRequest
           /\ v = "answer" => request_lock[1] = g
  BY <1>1, <1>2 DEF RequestLockHeld
<1>3. CASE /\ request_lock' = Append(request_lock, g)
           /\ loop[g] \notin AtRequest /\ v = "request_lock"
  <2>1. ~Queued(request_lock, g) /\ Distinct(request_lock)
    BY <1>3 DEF RequestLockHeld
  <2>2. /\ request_lock' \in Seq(Groups)
        /\ Distinct(request_lock')
        /\ \A y : Queued(request_lock', y) <=> Queued(request_lock, y) \/ y = g
        /\ request_lock # <<>> => request_lock'[1] = request_lock[1]
    BY <1>1, <1>3, <2>1, AppendQueue
  <2>3. \A h \in Groups : Queued(request_lock, h) => request_lock # <<>>
    BY EmptyQueue
  <2> QED
    BY <1>1, <1>3, <2>2, <2>3 DEF RequestLockHeld
<1>4. ASSUME request_lock[1] = g, loop[g] \in AtRequest
      PROVE  /\ request_lock # <<>> /\ Tail(request_lock) \in Seq(Groups)
             /\ Distinct(Tail(request_lock))
             /\ \A y : Queued(Tail(request_lock), y) <=> Queued(request_lock, y) /\ y # g
             /\ \A h \in Groups \ {g} : loop[h] # "answer"
  <2>1. request_lock # <<>> /\ Distinct(request_lock)
    BY <1>4, EmptyQueue DEF RequestLockHeld
  <2> QED
    BY <1>1, <1>4, <2>1, TailQueue DEF RequestLockHeld
<1>5. CASE /\ request_lock' = Tail(request_lock)
           /\ request_lock[1] = g /\ loop[g] \in AtRequest /\ v \notin AtRequest
  BY <1>1, <1>4, <1>5 DEF RequestLockHeld
<1>6. CASE /\ request_lock' = Append(Tail(request_lock), g)
           /\ request_lock[1] = g /\ loop[g] \in AtRequest /\ v = "request_lock"
  <2> DEFINE t == Tail(request_lock)
  <2>1. t \in Seq(Groups) /\ Distinct(t) /\ ~Queued(t, g)
    BY <1>4, <1>6
  <2>2. \A y : Queued(t, y) <=> Queued(request_lock, y) /\ y # g
    BY <1>4, <1>6
  <2>3. request_lock' = Append(t, g)
    BY <1>6
  <2> HIDE DEF t
  <2>4. /\ request_lock' \in Seq(Groups)
        /\ Distinct(request_lock')
        /\ \A y : Queued(request_lock', y) <=> Queued(t, y) \/ y = g
    BY <2>1, <2>3, AppendQueue
  <2> QED
    BY <1>1, <1>4, <1>6, <2>2, <2>4 DEF RequestLockHeld
<1>7. CASE request_lock' = Leave(request_lock, g) /\ v \notin AtRequest
  <2>1. /\ request_lock' \in Seq(Groups)
        /\ Distinct(request_lock')
        /\ \A y : Queued(request_lock', y) <=> Queued(request_lock, y) /\ y # g
        /\ request_lock # <<>> /\ g # request_lock[1] =>
             request_lock'[1] = request_lock[1]
    BY <1>1, <1>7, RemoveQueue DEF RequestLockHeld, Leave
  <2>2. \A h \in Groups : Queued(request_lock, h) => request_lock # <<>>
    BY EmptyQueue
  <2> QED
    BY <1>1, <1>7, <2>1, <2>2 DEF RequestLockHeld
<1> QED
  BY <1>2, <1>3, <1>5, <1>6, <1>7

\* The same for the connection lock, whoever of the tasks moves.
LEMMA ConnectionLockMoves ==
  ASSUME connection_lock \in Seq(Tasks), ConnectionLockHeld, NEW x \in Tasks,
         \A y \in Tasks \ {x} : /\ y \in AtConnectionLock' <=> y \in AtConnectionLock
                                /\ y \in Connecting' => y \in Connecting,
         \/ /\ connection_lock' = connection_lock
            /\ x \in AtConnectionLock' <=> x \in AtConnectionLock
            /\ x \in Connecting' => connection_lock[1] = x
         \/ /\ connection_lock' = Append(connection_lock, x)
            /\ x \notin AtConnectionLock /\ x \in AtConnectionLock' /\ x \notin Connecting'
         \/ /\ connection_lock' = Tail(connection_lock)
            /\ x \in Connecting /\ x \in AtConnectionLock
            /\ x \notin AtConnectionLock' /\ x \notin Connecting'
         \/ /\ connection_lock' = Leave(connection_lock, x)
            /\ x \notin AtConnectionLock' /\ x \notin Connecting'
  PROVE  ConnectionLockHeld' /\ connection_lock' \in Seq(Tasks)
<1>1. /\ Distinct(connection_lock)
      /\ \A y \in Tasks : Queued(connection_lock, y) <=> y \in AtConnectionLock
      /\ \A y \in Tasks : y \in Connecting => connection_lock[1] = y
  BY DEF ConnectionLockHeld
<1>2. \A y \in Tasks : y \in Connecting => y \in AtConnectionLock
  BY DEF Connecting, AtConnectionLock, AtConnection
<1>3. \A y \in Tasks : Queued(connection_lock, y) => connection_lock # <<>>
  BY EmptyQueue
<1>4. SUFFICES /\ connection_lock' \in Seq(Tasks)
               /\ Distinct(connection_lock')
               /\ \A y \in Tasks : Queued(connection_lock', y) <=> y \in AtConnectionLock'
               /\ \A y \in Tasks : y \in Connecting' => connection_lock'[1] = y
  BY DEF ConnectionLockHeld
<1>5. CASE /\ connection_lock' = connection_lock
           /\ x \in AtConnectionLock' <=> x \in AtConnectionLock
           /\ x \in Connecting' => connection_lock[1] = x
  BY <1>1, <1>5
<1>6. CASE /\ connection_lock' = Append(connection_lock, x)
           /\ x \notin AtConnectionLock /\ x \in AtConnectionLock' /\ x \notin Connecting'
  <2>1. /\ connection_lock' \in Seq(Tasks)
        /\ Distinct(connection_lock')
        /\ \A y : Queued(connection_lock', y) <=> Queued(connection_lock, y) \/ y = x
        /\ connection_lock # <<>> => connection_lock'[1] = connection_lock[1]
    BY <1>1, <1>6, AppendQueue
  <2> QED
    BY <1>1, <1>2, <1>3, <1>6, <2>1
<1>7. CASE /\ connection_lock' = Tail(connection_lock)
           /\ x \in Connecting /\ x \in AtConnectionLock
           /\ x \notin AtConnectionLock' /\ x \notin Connecting'
  <2>1. connection_lock # <<>> /\ connection_lock[1] = x
    BY <1>1, <1>3, <1>7
  <2>2. /\ connection_lock' \in Seq(Tasks)
        /\ Distinct(connection_lock')
        /\ \A y : Queued(connection_lock', y) <=> Queued(connection_lock, y) /\ y # x
    BY <1>1, <1>7, <2>1, TailQueue
  <2> QED
    BY <1>1, <1>7, <2>1, <2>2
<1>8. CASE /\ connection_lock' = Leave(connection_lock, x)
           /\ x \notin AtConnectionLock' /\ x \notin Connecting'
  <2>1. /\ connection_lock' \in Seq(Tasks)
        /\ Distinct(connection_lock')
        /\ \A y : Queued(connection_lock', y) <=> Queued(connection_lock, y) /\ y # x
        /\ connection_lock # <<>> /\ x # connection_lock[1] =>
             connection_lock'[1] = connection_lock[1]
    BY <1>1, <1>8, RemoveQueue DEF Leave
  <2> QED
    BY <1>1, <1>2, <1>3, <1>8, <2>1
<1> QED
  BY <1>5, <1>6, <1>7, <1>8
-----------------------------------------------------------------------------
(* What a group's step does to what belongs to the group.                  *)

CycleTyped ==
  /\ attempt \in [Groups -> 0 .. RetryCount]
  /\ index \in [Groups -> Nat] /\ failed \in [Groups -> Nat]
  /\ \A g \in Groups : index[g] \in 1 .. Len(Reads[g]) /\ failed[g] \in 0 .. index[g] - 1
  /\ own \in [Groups -> BOOLEAN]

\* The variables of a collection that ends are as at the beginning.
LEMMA ForgetTypes ==
  ASSUME CycleTyped, NEW g \in Groups, Forget(g), attempt' \in [Groups -> 0 .. RetryCount]
  PROVE  CycleTyped'
<1>1. /\ index' \in [Groups -> Nat] /\ failed' \in [Groups -> Nat]
      /\ own' \in [Groups -> BOOLEAN]
  BY DEF CycleTyped, Forget
<1>2. \A h \in Groups : index'[h] \in 1 .. Len(Reads[h]) /\ failed'[h] \in 0 .. index'[h] - 1
  <2> SUFFICES ASSUME NEW h \in Groups
               PROVE  index'[h] \in 1 .. Len(Reads[h]) /\ failed'[h] \in 0 .. index'[h] - 1
    OBVIOUS
  <2>1. Len(Reads[h]) \in Nat \ {0}
    BY GroupFacts
  <2>2. CASE h = g
    <3>1. index'[h] = 1 /\ failed'[h] = 0
      BY <2>2 DEF CycleTyped, Forget
    <3> QED
      BY <2>1, <3>1
  <2>3. CASE h # g
    <3>1. index'[h] = index[h] /\ failed'[h] = failed[h]
      BY <2>3 DEF CycleTyped, Forget
    <3> QED
      BY <3>1 DEF CycleTyped
  <2> QED
    BY <2>2, <2>3
<1> QED
  BY <1>1, <1>2 DEF CycleTyped

\* A failed attempt is followed by a delay or by the end of the cycle.
LEMMA AttemptFailsEffect ==
  ASSUME CycleTyped, NEW g \in Groups, AttemptFails(g)
  PROVE  /\ \E v \in {"delay", "sleep"} : loop' = [loop EXCEPT ![g] = v]
         /\ CycleTyped'
<1>1. CASE /\ attempt[g] < RetryCount
           /\ attempt' = [attempt EXCEPT ![g] = @ + 1]
           /\ loop' = [loop EXCEPT ![g] = "delay"]
           /\ Forget(g)
  <2>1. attempt' \in [Groups -> 0 .. RetryCount]
    BY <1>1, GroupFacts DEF CycleTyped
  <2> QED
    BY <1>1, <2>1, ForgetTypes
<1>2. CASE EndCycle(g)
  <2>1. attempt' \in [Groups -> 0 .. RetryCount]
    BY <1>2, GroupFacts DEF CycleTyped, EndCycle
  <2> QED
    BY <1>2, <2>1, ForgetTypes DEF EndCycle
<1> QED
  BY <1>1, <1>2 DEF AttemptFails

\* After a read the group queues for the next one or its attempt is over; a
\* failure is counted only in the second case, and looked at.
LEMMA EndReadEffect ==
  ASSUME Typed, consecutive_failures \in Nat, NEW g \in Groups, NEW data, EndRead(g, data)
  PROVE  /\ CycleTyped' /\ misread' \in BOOLEAN
         /\ \E v \in {"request_lock", "delay", "sleep"} :
              /\ loop' = [loop EXCEPT ![g] = v]
              /\ request_lock' = IF v = "request_lock" THEN Append(Tail(request_lock), g)
                                 ELSE Tail(request_lock)
              /\ \/ UNCHANGED <<consecutive_failures, state>>
                 \/ consecutive_failures' = 0 /\ UNCHANGED state
                 \/ /\ v # "request_lock"
                    /\ consecutive_failures' = consecutive_failures + 1
                    /\ state' = StateAfterMiss
<1> DEFINE misses == failed[g] + (IF data = "none" THEN 1 ELSE 0)
           all == Len(Reads[g])
           mine == own[g] /\ data # "foreign"
<1>1. CycleTyped
  BY DEF Typed, CycleTyped
<1>2. CASE /\ index[g] < all
           /\ index' = [index EXCEPT ![g] = @ + 1]
           /\ failed' = [failed EXCEPT ![g] = misses]
           /\ own' = [own EXCEPT ![g] = mine]
           /\ loop' = [loop EXCEPT ![g] = "request_lock"]
           /\ request_lock' = Append(Tail(request_lock), g)
           /\ UNCHANGED <<state, consecutive_failures, attempt, misread>>
  <2>1. own' \in [Groups -> BOOLEAN]
    BY <1>1, <1>2 DEF CycleTyped
  <2>2. misses \in 0 .. index[g]
    BY <1>1 DEF CycleTyped
  <2> HIDE DEF misses
  <2>3. /\ index' \in [Groups -> Nat] /\ failed' \in [Groups -> Nat]
        /\ attempt' \in [Groups -> 0 .. RetryCount]
    BY <1>1, <1>2, <2>2 DEF CycleTyped
  <2>4. \A h \in Groups : index'[h] \in 1 .. Len(Reads[h]) /\ failed'[h] \in 0 .. index'[h] - 1
    <3> SUFFICES ASSUME NEW h \in Groups
                 PROVE  index'[h] \in 1 .. Len(Reads[h]) /\ failed'[h] \in 0 .. index'[h] - 1
      OBVIOUS
    <3>1. /\ Len(Reads[h]) \in Nat \ {0}
          /\ index[h] \in 1 .. Len(Reads[h]) /\ failed[h] \in 0 .. index[h] - 1
      BY <1>1, GroupFacts DEF CycleTyped
    <3>2. CASE h = g
      <4>1. index'[h] = index[h] + 1 /\ failed'[h] = misses
        BY <1>1, <1>2, <3>2 DEF CycleTyped
      <4> QED
        BY <1>2, <2>2, <3>1, <3>2, <4>1
    <3>3. CASE h # g
      <4>1. index'[h] = index[h] /\ failed'[h] = failed[h]
        BY <1>1, <1>2, <3>3 DEF CycleTyped
      <4> QED
        BY <3>1, <4>1
    <3> QED
      BY <3>2, <3>3
  <2>5. misread' \in BOOLEAN
    BY <1>2 DEF Typed
  <2> QED
    BY <1>2, <2>1, <2>3, <2>4, <2>5 DEF CycleTyped
<1>3. CASE /\ request_lock' = Tail(request_lock)
           /\ consecutive_failures' = consecutive_failures + 1
           /\ state' = StateAfterMiss
           /\ AttemptFails(g)
           /\ UNCHANGED misread
  <2>1. CycleTyped' /\ \E v \in {"delay", "sleep"} : loop' = [loop EXCEPT ![g] = v]
    BY <1>1, <1>3, AttemptFailsEffect
  <2>2. misread' \in BOOLEAN
    BY <1>3 DEF Typed
  <2> QED
    BY <1>3, <2>1, <2>2
<1>4. CASE /\ request_lock' = Tail(request_lock)
           /\ consecutive_failures' = 0
           /\ misread' = (misread \/ ~mine)
           /\ EndCycle(g)
           /\ UNCHANGED state
  <2>1. attempt' \in [Groups -> 0 .. RetryCount] /\ Forget(g)
    BY <1>1, <1>4, GroupFacts DEF CycleTyped, EndCycle
  <2>2. CycleTyped' /\ loop' = [loop EXCEPT ![g] = "sleep"]
    BY <1>1, <1>4, <2>1, ForgetTypes DEF EndCycle
  <2>3. misread' \in BOOLEAN
    BY <1>4, Zenon
  <2> QED
    BY <1>4, <2>2, <2>3
<1> QED
  BY <1>2, <1>3, <1>4 DEF EndRead

\* A group's step concerns nobody else in _connection_lock.
LEMMA OthersAtConnection ==
  ASSUME Typed, NEW g \in Groups, NEW v \in Locations, loop' = [loop EXCEPT ![g] = v],
         UNCHANGED reconnect_task, owner' = "open" <=> owner = "open"
  PROVE  /\ g \in Tasks
         /\ \A y \in Tasks \ {g} : /\ y \in AtConnectionLock' <=> y \in AtConnectionLock
                                   /\ y \in Connecting' <=> y \in Connecting
         /\ g \in AtConnectionLock <=> loop[g] \in AtConnection
         /\ g \in AtConnectionLock' <=> v \in AtConnection
         /\ g \in Connecting <=> loop[g] = "open"
         /\ g \in Connecting' <=> v = "open"
<1>1. /\ loop'[g] = v
      /\ \A h \in Groups \ {g} : loop'[h] = loop[h]
  BY DEF Typed
<1>2. g # Reconnector /\ g # Owner
  BY GroupFacts
<1> QED
  BY <1>1, <1>2 DEF AtConnectionLock, Connecting, Tasks

\* It leaves alone what start() and stop() have done, since a group whose task
\* stop() has awaited takes no step.
LEMMA ControlKept ==
  ASSUME Typed, Control, NEW g \in Groups, NEW v \in Locations,
         loop' = [loop EXCEPT ![g] = v], loop[g] \notin {"none", "done"}, UNCHANGED tasks
  PROVE  Control'
<1>1. \A h \in Groups \ {g} : loop'[h] = loop[h]
  BY DEF Typed
<1>2. owner \notin {"idle", "open"}
  BY DEF Control
<1> QED
  BY <1>1, <1>2 DEF Control, tasks

\* Who is under way after a group's step.
LEMMA UnderWayMoves ==
  ASSUME Typed, NEW g \in Groups, NEW v \in Locations, loop' = [loop EXCEPT ![g] = v]
  PROVE  /\ g \in UnderWay <=> loop[g] \in AtConnection \cup AtRequest
         /\ v \in AtConnection \cup AtRequest => UnderWay' = UnderWay \cup {g}
         /\ v \notin AtConnection \cup AtRequest => UnderWay' = UnderWay \ {g}
<1>1. /\ loop'[g] = v
      /\ \A h \in Groups \ {g} : loop'[h] = loop[h]
  BY DEF Typed
<1> QED
  BY <1>1 DEF UnderWay
-----------------------------------------------------------------------------
(* Each step of a group preserves the invariant.                           *)

\* The end of a read, whatever it returned and whatever became of the wire.
LEMMA ReadEnds ==
  ASSUME IInv, NEW g \in Groups, NEW data,
         loop[g] \in AtRequest, request_lock[1] = g, EndRead(g, data),
         UNCHANGED <<is_running, tasks, connection_lock, device_up>>,
         writer' \in {"none", "open", "eof", "dead"}, wire' \in Seq(Nat),
         faults' \in 0 .. MaxFaults
  PROVE  IInv'
<1>1. PICK v \in {"request_lock", "delay", "sleep"} :
        /\ loop' = [loop EXCEPT ![g] = v]
        /\ request_lock' = IF v = "request_lock" THEN Append(Tail(request_lock), g)
                           ELSE Tail(request_lock)
        /\ \/ UNCHANGED <<consecutive_failures, state>>
           \/ consecutive_failures' = 0 /\ UNCHANGED state
           \/ /\ v # "request_lock"
              /\ consecutive_failures' = consecutive_failures + 1
              /\ state' = StateAfterMiss
  BY EndReadEffect DEF IInv, FailuresBounded
<1>2. CycleTyped' /\ misread' \in BOOLEAN
  BY EndReadEffect DEF IInv, FailuresBounded
<1>3. v \in Locations
  BY DEF Locations
<1>4. RequestLockHeld' /\ request_lock' \in Seq(Groups)
  <2>1. CASE v = "request_lock"
    BY <1>1, <1>3, <2>1, RequestLockMoves DEF IInv
  <2>2. CASE v # "request_lock"
    BY <1>1, <1>3, <2>2, RequestLockMoves DEF IInv, AtRequest
  <2> QED
    BY <2>1, <2>2
<1>5. ConnectionLockHeld' /\ connection_lock' \in Seq(Tasks)
  <2>1. UNCHANGED <<reconnect_task, owner, connection_lock>>
    BY DEF tasks
  <2>2. loop[g] \notin AtConnection /\ v \notin AtConnection
    BY DEF AtConnection, AtRequest
  <2>3. connection_lock \in Seq(Tasks)
    BY DEF IInv, Typed
  <2>4. loop[g] # "open" /\ v # "open"
    BY DEF AtRequest
  <2> QED
    BY <1>1, <1>3, <2>1, <2>2, <2>3, <2>4, OthersAtConnection, ConnectionLockMoves DEF IInv
<1>6. /\ loop' \in [Groups -> Locations]
      /\ \A h \in Groups : loop'[h] # "answer"
  <2>1. \A h \in Groups \ {g} : loop[h] # "answer"
    BY DEF IInv, RequestLockHeld
  <2> QED
    BY <1>1, <1>3, <2>1 DEF IInv, Typed
<1>7. state' \in {"DISCONNECTED", "CONNECTING", "CONNECTED", "RECONNECTING", "ERROR"}
  BY <1>1 DEF IInv, Typed, StateAfterMiss
<1>8. Typed'
  BY <1>2, <1>4, <1>5, <1>6, <1>7 DEF IInv, Typed, CycleTyped, tasks
<1>9. FailuresBelowLimit'
  BY <1>1, GroupFacts DEF IInv, FailuresBounded, FailuresBelowLimit, StateAfterMiss
<1>10. FailuresBounded'
  <2>1. consecutive_failures' \in Nat
    BY <1>1 DEF IInv, FailuresBounded
  <2>2. g \in UnderWay
    BY <1>1, <1>3, UnderWayMoves DEF IInv
  <2>3. UnderWay' \subseteq UnderWay
    BY <1>1, <1>3, <2>2, UnderWayMoves DEF IInv
  <2>4. v # "request_lock" => UnderWay' = UnderWay \ {g}
    BY <1>1, <1>3, UnderWayMoves DEF IInv, AtConnection, AtRequest
  <2> QED
    BY <1>1, <2>1, <2>2, <2>3, <2>4, FailuresStayBounded DEF IInv
<1>11. AnswerOwed'
  BY <1>6 DEF AnswerOwed
<1>12. Control'
  BY <1>1, <1>3, ControlKept DEF IInv, AtRequest
<1> QED
  BY <1>4, <1>5, <1>8, <1>9, <1>10, <1>11, <1>12 DEF IInv

\* A step of a group that neither reads nor reports: it queues, waits, sleeps
\* or ends, and answers are owed to nobody else.
LEMMA GroupStep ==
  ASSUME IInv, NEW g \in Groups, NEW v \in Locations,
         loop' = [loop EXCEPT ![g] = v], loop[g] \notin {"none", "done"},
         CycleTyped',
         state' \in {"DISCONNECTED", "CONNECTING", "CONNECTED", "RECONNECTING", "ERROR"},
         faults' \in 0 .. MaxFaults,
         UNCHANGED <<is_running, tasks, connection, device_up, misread>>,
         FailuresBounded', FailuresBelowLimit',
         RequestLockHeld', request_lock' \in Seq(Groups),
         ConnectionLockHeld', connection_lock' \in Seq(Tasks),
         v # "answer"
  PROVE  IInv'
<1>1. /\ loop' \in [Groups -> Locations]
      /\ \A h \in Groups : loop'[h] = "answer" => loop[h] = "answer"
  BY DEF IInv, Typed
<1>2. Typed'
  BY <1>1 DEF IInv, Typed, CycleTyped, tasks, connection
<1>3. AnswerOwed'
  BY <1>1 DEF IInv, AnswerOwed, connection
<1>4. Control'
  BY ControlKept DEF IInv
<1> QED
  BY <1>2, <1>3, <1>4 DEF IInv

\* A group that neither leaves a lock nor queues for one.
LEMMA LocksUntouched ==
  ASSUME IInv, NEW g \in Groups, NEW v \in Locations, loop' = [loop EXCEPT ![g] = v],
         loop[g] \notin AtConnection \cup AtRequest, v \notin AtConnection \cup AtRequest,
         UNCHANGED <<reconnect_task, owner, connection_lock, request_lock>>
  PROVE  /\ RequestLockHeld' /\ request_lock' \in Seq(Groups)
         /\ ConnectionLockHeld' /\ connection_lock' \in Seq(Tasks)
         /\ UnderWay' \subseteq UnderWay
<1>1. connection_lock \in Seq(Tasks) /\ Typed
  BY DEF IInv, Typed
<1>2. v # "answer" /\ v # "open"
  BY DEF AtConnection, AtRequest
<1>3. RequestLockHeld' /\ request_lock' \in Seq(Groups)
  BY <1>1, <1>2, RequestLockMoves DEF IInv
<1>4. ConnectionLockHeld' /\ connection_lock' \in Seq(Tasks)
  BY <1>1, <1>2, OthersAtConnection, ConnectionLockMoves DEF IInv
<1>5. UnderWay' \subseteq UnderWay
  BY <1>1, UnderWayMoves
<1> QED
  BY <1>3, <1>4, <1>5

\* A group that queues for neither lock and counts nothing.
LEMMA QuietStep ==
  ASSUME IInv, NEW g \in Groups, NEW v \in {"sleep", "delay", "done"},
         loop' = [loop EXCEPT ![g] = v], loop[g] \in {"sleep", "delay"}, CycleTyped',
         UNCHANGED <<is_running, state, consecutive_failures, tasks, connection_lock,
                     request_lock, connection, device_up, misread, faults>>
  PROVE  IInv'
<1>1. /\ v \in Locations /\ v \notin AtConnection \cup AtRequest /\ v # "answer"
      /\ loop[g] \notin AtConnection \cup AtRequest
  BY DEF Locations, AtConnection, AtRequest
<1>2. UNCHANGED <<reconnect_task, owner>>
  BY DEF tasks
<1>3. /\ RequestLockHeld' /\ request_lock' \in Seq(Groups)
      /\ ConnectionLockHeld' /\ connection_lock' \in Seq(Tasks)
      /\ UnderWay' \subseteq UnderWay
  BY <1>1, <1>2, LocksUntouched
<1>4. FailuresBounded' /\ FailuresBelowLimit'
  <2>1. consecutive_failures' \in Nat
    BY DEF IInv, FailuresBounded
  <2> QED
    BY <1>3, <2>1, FailuresStayBounded DEF IInv, FailuresBelowLimit
<1>5. /\ state' \in {"DISCONNECTED", "CONNECTING", "CONNECTED", "RECONNECTING", "ERROR"}
      /\ faults' \in 0 .. MaxFaults
  BY DEF IInv, Typed
<1> QED
  BY <1>1, <1>3, <1>4, <1>5, GroupStep

\* An attempt fails at once, queues for the request or for the connection.
LEMMA AttemptBegins ==
  ASSUME IInv, NEW g \in Groups, loop[g] \in {"sleep", "delay"}, BeginAttempt(g),
         UNCHANGED <<is_running, consecutive_failures, tasks, connection, device_up, misread,
                     faults>>
  PROVE  IInv'
<1>1. /\ CycleTyped /\ Typed /\ connection_lock \in Seq(Tasks)
      /\ consecutive_failures' \in Nat /\ faults' \in 0 .. MaxFaults
  BY DEF IInv, Typed, CycleTyped, FailuresBounded
<1>2. UNCHANGED <<reconnect_task, owner>>
  BY DEF tasks
<1>3. loop[g] \notin AtConnection /\ loop[g] \notin AtRequest /\ loop[g] # "open"
  BY DEF AtConnection, AtRequest
<1>4. CASE /\ AttemptFails(g)
           /\ UNCHANGED <<state, connection_lock, request_lock>>
  <2>1. CycleTyped' /\ \E v \in {"delay", "sleep"} : loop' = [loop EXCEPT ![g] = v]
    BY <1>1, <1>4, AttemptFailsEffect
  <2> QED
    BY <1>4, <2>1, QuietStep
<1>5. CASE /\ state = "CONNECTED"
           /\ loop' = [loop EXCEPT ![g] = "request_lock"]
           /\ request_lock' = Append(request_lock, g)
           /\ UNCHANGED <<state, cycle, connection_lock>>
  <2> DEFINE v == "request_lock"
  <2>1. v \in Locations /\ v \in AtRequest /\ v \notin AtConnection /\ v # "open"
    BY DEF Locations, AtRequest, AtConnection
  <2>2. RequestLockHeld' /\ request_lock' \in Seq(Groups)
    BY <1>1, <1>3, <1>5, <2>1, RequestLockMoves DEF IInv
  <2>3. ConnectionLockHeld' /\ connection_lock' \in Seq(Tasks)
    BY <1>1, <1>2, <1>3, <1>5, <2>1, OthersAtConnection, ConnectionLockMoves DEF IInv
  <2>4. FailuresBounded' /\ FailuresBelowLimit'
    BY <1>1, <1>5, FailuresStayBounded DEF IInv, FailuresBelowLimit
  <2>5. CycleTyped'
    BY <1>1, <1>5 DEF CycleTyped, cycle
  <2> QED
    BY <1>1, <1>5, <2>1, <2>2, <2>3, <2>4, <2>5, GroupStep DEF cycle
<1>6. CASE /\ state = "CONNECTED"
           /\ state' = "RECONNECTING"
           /\ loop' = [loop EXCEPT ![g] = "connection_lock"]
           /\ connection_lock' = Append(connection_lock, g)
           /\ UNCHANGED <<cycle, request_lock>>
  <2> DEFINE v == "connection_lock"
  <2>1. v \in Locations /\ v \notin AtRequest /\ v \in AtConnection /\ v # "open"
    BY DEF Locations, AtRequest, AtConnection
  <2>2. RequestLockHeld' /\ request_lock' \in Seq(Groups)
    BY <1>1, <1>3, <1>6, <2>1, RequestLockMoves DEF IInv
  <2>3. ConnectionLockHeld' /\ connection_lock' \in Seq(Tasks)
    BY <1>1, <1>2, <1>3, <1>6, <2>1, OthersAtConnection, ConnectionLockMoves DEF IInv
  <2>4. FailuresBounded' /\ FailuresBelowLimit'
    BY <1>1, <1>6, FailuresStayBounded DEF IInv, FailuresBelowLimit
  <2>5. CycleTyped'
    BY <1>1, <1>6 DEF CycleTyped, cycle
  <2> QED
    BY <1>1, <1>6, <2>1, <2>2, <2>3, <2>4, <2>5, GroupStep
<1> QED
  BY <1>4, <1>5, <1>6 DEF BeginAttempt

LEMMA CycleInvariant ==
  ASSUME IInv, NEW g \in Groups, Cycle(g)
  PROVE  IInv'
<1>1. /\ loop[g] = "sleep"
      /\ UNCHANGED <<is_running, consecutive_failures, tasks, connection, device_up, misread,
                     faults>>
  BY DEF Cycle
<1>2. CycleTyped
  BY DEF IInv, Typed, CycleTyped
<1>3. CASE /\ loop' = [loop EXCEPT ![g] = "done"]
           /\ UNCHANGED <<state, cycle, connection_lock, request_lock>>
  <2>1. CycleTyped'
    BY <1>2, <1>3 DEF CycleTyped, cycle
  <2> QED
    BY <1>1, <1>3, <2>1, QuietStep
<1>4. CASE BeginAttempt(g)
  BY <1>1, <1>4, AttemptBegins
<1>5. CASE EndCycle(g) /\ UNCHANGED <<state, connection_lock, request_lock>>
  <2>1. attempt' \in [Groups -> 0 .. RetryCount] /\ Forget(g)
    BY <1>2, <1>5, GroupFacts DEF CycleTyped, EndCycle
  <2>2. CycleTyped' /\ loop' = [loop EXCEPT ![g] = "sleep"]
    BY <1>2, <1>5, <2>1, ForgetTypes DEF EndCycle
  <2> QED
    BY <1>1, <1>5, <2>2, QuietStep
<1> QED
  BY <1>3, <1>4, <1>5 DEF Cycle

LEMMA RetryInvariant ==
  ASSUME IInv, NEW g \in Groups, Retry(g)
  PROVE  IInv'
BY AttemptBegins DEF Retry

\* Who waits for an answer holds the request lock, and nobody else waits.
LEMMA AnswerHolds ==
  ASSUME IInv, NEW g \in Groups, loop[g] \in AtRequest
  PROVE  /\ request_lock # <<>> /\ Head(request_lock) = request_lock[1]
         /\ loop[g] = "answer" => request_lock[1] = g
<1>1. Queued(request_lock, g) /\ Distinct(request_lock) /\ request_lock \in Seq(Groups)
  BY DEF IInv, RequestLockHeld, Typed
<1>2. request_lock # <<>>
  BY <1>1, EmptyQueue
<1> QED
  BY <1>1, <1>2, TailQueue DEF IInv, RequestLockHeld

LEMMA AskInvariant ==
  ASSUME IInv, NEW g \in Groups, Ask(g)
  PROVE  IInv'
<1>1. /\ loop[g] = "request_lock" /\ loop[g] \in AtRequest
      /\ UNCHANGED <<is_running, tasks, connection_lock, writer, device_up, faults>>
  BY DEF Ask, AtRequest
<1>2. request_lock[1] = g
  BY <1>1, AnswerHolds DEF Ask
<1>3. CASE /\ loop' = [loop EXCEPT ![g] = "answer"]
           /\ wire' = IF writer = "open" THEN Append(wire, Reads[g][index[g]]) ELSE wire
           /\ UNCHANGED <<state, consecutive_failures, cycle, request_lock, misread>>
  <2> DEFINE v == "answer"
  <2>1. v \in Locations /\ v \in AtRequest /\ v \notin AtConnection /\ v # "open"
    BY DEF Locations, AtRequest, AtConnection
  <2>2. Typed /\ UNCHANGED <<reconnect_task, owner>>
    BY <1>1 DEF IInv, tasks
  <2>3. RequestLockHeld' /\ request_lock' \in Seq(Groups)
    BY <1>1, <1>2, <1>3, <2>1, <2>2, RequestLockMoves DEF IInv
  <2>4. ConnectionLockHeld' /\ connection_lock' \in Seq(Tasks)
    <3>1. loop[g] \notin AtConnection /\ loop[g] # "open" /\ connection_lock \in Seq(Tasks)
      BY <1>1, <2>2 DEF AtConnection, Typed
    <3> QED
      BY <1>1, <1>3, <2>1, <2>2, <3>1, OthersAtConnection, ConnectionLockMoves DEF IInv
  <2>5. UnderWay' \subseteq UnderWay
    BY <1>1, <1>3, <2>1, <2>2, UnderWayMoves
  <2>6. FailuresBounded' /\ FailuresBelowLimit'
    <3>1. consecutive_failures' \in Nat
      BY <1>3 DEF IInv, FailuresBounded
    <3> QED
      BY <1>3, <2>5, <3>1, FailuresStayBounded DEF IInv, FailuresBelowLimit
  <2>7. wire' \in Seq(Nat) /\ (writer = "open" => wire' # <<>>)
    <3>1. wire \in Seq(Nat) /\ index[g] \in 1 .. Len(Reads[g]) /\ Reads[g] \in Seq(Nat)
      BY <2>2, GroupFacts DEF Typed
    <3>2. Reads[g][index[g]] \in Nat
      BY <3>1, ElementOfSeq
    <3>3. /\ Append(wire, Reads[g][index[g]]) \in Seq(Nat)
          /\ Append(wire, Reads[g][index[g]]) # <<>>
      BY <3>1, <3>2, AppendProperties
    <3> QED
      BY <1>3, <3>1, <3>3
  <2>8. /\ loop' \in [Groups -> Locations]
        /\ \A h \in Groups : loop'[h] = "answer" => h = g
    <3>1. \A h \in Groups \ {g} : loop[h] # "answer"
      BY <1>2 DEF IInv, RequestLockHeld
    <3> QED
      BY <1>3, <2>1, <2>2, <3>1 DEF Typed
  <2>9. Typed'
    BY <1>1, <1>3, <2>2, <2>3, <2>4, <2>7, <2>8 DEF Typed, cycle, tasks
  <2>10. AnswerOwed'
    BY <1>1, <2>7, <2>8 DEF AnswerOwed
  <2>11. Control'
    BY <1>1, <1>3, <2>1, <2>2, ControlKept DEF IInv
  <2> QED
    BY <2>3, <2>4, <2>6, <2>9, <2>10, <2>11 DEF IInv
<1>4. CASE EndRead(g, "none") /\ UNCHANGED wire
  <2>1. /\ writer' \in {"none", "open", "eof", "dead"} /\ wire' \in Seq(Nat)
        /\ faults' \in 0 .. MaxFaults
    BY <1>1, <1>4 DEF IInv, Typed
  <2> QED
    BY <1>1, <1>2, <1>4, <2>1, ReadEnds
<1> QED
  BY <1>3, <1>4 DEF Ask

LEMMA AnswerInvariant ==
  ASSUME IInv, NEW g \in Groups, Answer(g)
  PROVE  IInv'
<1>1. /\ loop[g] = "answer" /\ loop[g] \in AtRequest /\ writer = "open"
      /\ wire' = Tail(wire)
      /\ UNCHANGED <<is_running, tasks, connection_lock, writer, device_up>>
  BY DEF Answer, AtRequest
<1>2. request_lock[1] = g
  BY <1>1, AnswerHolds
<1>3. wire' \in Seq(Nat)
  <2>1. wire # <<>> /\ wire \in Seq(Nat)
    BY <1>1 DEF IInv, AnswerOwed, Typed
  <2> QED
    BY <1>1, <2>1, HeadTailProperties
<1>4. faults' \in 0 .. MaxFaults
  <2>1. faults' = faults \/ (faults < MaxFaults /\ faults' = faults + 1)
    BY DEF Answer
  <2> QED
    BY <2>1, GroupFacts DEF IInv, Typed
<1>5. writer' \in {"none", "open", "eof", "dead"}
  BY <1>1 DEF IInv, Typed
<1>6. \E data : EndRead(g, data)
  BY DEF Answer
<1> QED
  BY <1>1, <1>2, <1>3, <1>4, <1>5, <1>6, ReadEnds

\* A fault that is used up is within the bound.
LEMMA TimeoutCounts ==
  ASSUME Typed, TimeoutHappens
  PROVE  faults' \in 0 .. MaxFaults
BY GroupFacts DEF TimeoutHappens, Typed

LEMMA RequestTimesOutInvariant ==
  ASSUME IInv, NEW g \in Groups, RequestTimesOut(g)
  PROVE  IInv'
<1>1. /\ loop[g] = "answer" /\ loop[g] \in AtRequest /\ EndRead(g, "none")
      /\ UNCHANGED <<is_running, tasks, connection_lock, writer, wire, device_up>>
  BY DEF RequestTimesOut, AtRequest
<1>2. request_lock[1] = g
  BY <1>1, AnswerHolds
<1>3. /\ faults' \in 0 .. MaxFaults /\ wire' \in Seq(Nat)
      /\ writer' \in {"none", "open", "eof", "dead"}
  BY <1>1, TimeoutCounts DEF RequestTimesOut, IInv, Typed
<1> QED
  BY <1>1, <1>2, <1>3, ReadEnds

LEMMA ConnectionLostInvariant ==
  ASSUME IInv, NEW g \in Groups, ConnectionLost(g)
  PROVE  IInv'
<1>1. /\ loop[g] = "answer" /\ loop[g] \in AtRequest /\ EndRead(g, "none")
      /\ UNCHANGED <<is_running, tasks, connection_lock, device_up, faults>>
  BY DEF ConnectionLost, AtRequest
<1>2. request_lock[1] = g
  BY <1>1, AnswerHolds
<1>3. /\ faults' \in 0 .. MaxFaults
      /\ writer' \in {"none", "open", "eof", "dead"} /\ wire' \in Seq(Nat)
  BY <1>1 DEF ConnectionLost, Close, IInv, Typed
<1> QED
  BY <1>1, <1>2, <1>3, ReadEnds

\* The locks of a group that is cancelled while it waits anywhere.
LEMMA AbandonedLocks ==
  ASSUME IInv, NEW g \in Groups, NEW v \in Locations, loop' = [loop EXCEPT ![g] = v],
         v \notin AtConnection \cup AtRequest, Abandon(g), UNCHANGED reconnect_task,
         owner' = "open" <=> owner = "open"
  PROVE  /\ RequestLockHeld' /\ request_lock' \in Seq(Groups)
         /\ ConnectionLockHeld' /\ connection_lock' \in Seq(Tasks)
         /\ UnderWay' \subseteq UnderWay
<1>1. connection_lock \in Seq(Tasks) /\ Typed /\ v # "open"
  BY DEF IInv, Typed, AtConnection
<1>2. RequestLockHeld' /\ request_lock' \in Seq(Groups)
  BY <1>1, RequestLockMoves DEF IInv, Abandon
<1>3. ConnectionLockHeld' /\ connection_lock' \in Seq(Tasks)
  BY <1>1, OthersAtConnection, ConnectionLockMoves DEF IInv, Abandon
<1>4. UnderWay' \subseteq UnderWay
  BY <1>1, UnderWayMoves
<1> QED
  BY <1>2, <1>3, <1>4

LEMMA GroupTimesOutInvariant ==
  ASSUME IInv, NEW g \in Groups, GroupTimesOut(g)
  PROVE  IInv'
<1>1. /\ loop[g] \notin {"none", "done"} /\ TimeoutHappens /\ Abandon(g)
      /\ UNCHANGED <<is_running, state, consecutive_failures, tasks, writer, wire, device_up,
                     misread>>
  BY DEF GroupTimesOut
<1>2. CycleTyped /\ Typed
  BY DEF IInv, Typed, CycleTyped
<1>3. CycleTyped' /\ \E v \in {"delay", "sleep"} : loop' = [loop EXCEPT ![g] = v]
  BY <1>2, AttemptFailsEffect DEF GroupTimesOut
<1>4. PICK v \in {"delay", "sleep"} : loop' = [loop EXCEPT ![g] = v]
  BY <1>3
<1>5. v \in Locations /\ v \notin AtConnection \cup AtRequest /\ v # "answer"
  BY DEF Locations, AtConnection, AtRequest
<1>6. /\ RequestLockHeld' /\ request_lock' \in Seq(Groups)
      /\ ConnectionLockHeld' /\ connection_lock' \in Seq(Tasks)
      /\ UnderWay' \subseteq UnderWay
  BY <1>1, <1>4, <1>5, AbandonedLocks DEF tasks
<1>7. FailuresBounded' /\ FailuresBelowLimit'
  <2>1. consecutive_failures' \in Nat
    BY <1>1 DEF IInv, FailuresBounded
  <2> QED
    BY <1>1, <1>6, <2>1, FailuresStayBounded DEF IInv, FailuresBelowLimit
<1>8. /\ faults' \in 0 .. MaxFaults
      /\ state' \in {"DISCONNECTED", "CONNECTING", "CONNECTED", "RECONNECTING", "ERROR"}
  BY <1>1, <1>2, TimeoutCounts DEF Typed
<1> QED
  BY <1>1, <1>3, <1>4, <1>5, <1>6, <1>7, <1>8, GroupStep DEF connection

\* What a successful and a failed connect leave, whoever connects.
LEMMA OpenFacts ==
  ASSUME IInv, OpenSucceeds \/ OpenFails
  PROVE  /\ writer' \in {"none", "open", "eof", "dead"} /\ wire' \in Seq(Nat)
         /\ state' \in {"CONNECTED", "ERROR"}
         /\ connection_lock' = Tail(connection_lock)
         /\ \A g \in Groups : loop[g] = "answer" => wire' = wire /\ writer' = writer
         /\ state' = "CONNECTED" => consecutive_failures' = 0
BY DEF IInv, Typed, OpenSucceeds, OpenFails, connection

LEMMA EnsuredInvariant ==
  ASSUME IInv, NEW g \in Groups, Ensured(g)
  PROVE  IInv'
<1>1. /\ loop[g] = "open"
      /\ UNCHANGED <<is_running, tasks, device_up, misread, faults, reconnect_task, owner>>
      /\ OpenSucceeds \/ OpenFails
  BY DEF Ensured, tasks
<1>2. /\ loop[g] \in AtConnection /\ loop[g] \notin AtRequest
      /\ loop[g] \notin {"none", "done"}
  BY <1>1 DEF AtConnection, AtRequest
<1>3. CycleTyped /\ Typed /\ connection_lock \in Seq(Tasks) /\ consecutive_failures \in Nat
  BY DEF IInv, Typed, CycleTyped, FailuresBounded
<1>4. PICK v \in {"request_lock", "delay", "sleep"} :
        /\ loop' = [loop EXCEPT ![g] = v]
        /\ v = "request_lock" =>
             consecutive_failures' = 0 /\ request_lock' = Append(request_lock, g)
        /\ v # "request_lock" =>
             consecutive_failures' = consecutive_failures + 1 /\ UNCHANGED request_lock
  BY <1>3, AttemptFailsEffect DEF Ensured, OpenSucceeds
<1>5. CycleTyped'
  <2>1. CASE UNCHANGED cycle
    BY <1>3, <2>1 DEF CycleTyped, cycle
  <2>2. CASE AttemptFails(g)
    BY <1>3, <2>2, AttemptFailsEffect
  <2> QED
    BY <2>1, <2>2 DEF Ensured
<1>6. /\ v \in Locations /\ v \notin AtConnection /\ v # "open" /\ v # "answer"
      /\ v \in AtRequest <=> v = "request_lock"
  BY DEF Locations, AtConnection, AtRequest
<1>7. RequestLockHeld' /\ request_lock' \in Seq(Groups)
  BY <1>2, <1>3, <1>4, <1>6, RequestLockMoves DEF IInv
<1>8. ConnectionLockHeld' /\ connection_lock' \in Seq(Tasks)
  BY <1>1, <1>2, <1>3, <1>4, <1>6, OpenFacts, OthersAtConnection, ConnectionLockMoves
     DEF IInv
<1>9. FailuresBounded' /\ FailuresBelowLimit'
  <2>1. consecutive_failures' \in Nat
    BY <1>3, <1>4
  <2>2. g \in UnderWay /\ (v # "request_lock" => UnderWay' = UnderWay \ {g})
    BY <1>2, <1>3, <1>4, <1>6, UnderWayMoves
  <2>3. FailuresBounded'
    BY <1>4, <2>1, <2>2, FailuresStayBounded DEF IInv
  <2> QED
    BY <1>1, <2>3, OpenFacts, GroupFacts DEF FailuresBelowLimit
<1>10. /\ loop' \in [Groups -> Locations]
       /\ \A h \in Groups : loop'[h] = "answer" => loop[h] = "answer"
  BY <1>3, <1>4, <1>6 DEF Typed
<1>11. Typed'
  BY <1>1, <1>3, <1>5, <1>7, <1>8, <1>10, OpenFacts DEF Typed, CycleTyped, tasks
<1>12. AnswerOwed'
  BY <1>1, <1>10, OpenFacts DEF IInv, AnswerOwed
<1>13. Control'
  BY <1>1, <1>2, <1>3, <1>4, <1>6, ControlKept DEF IInv
<1> QED
  BY <1>7, <1>8, <1>9, <1>11, <1>12, <1>13 DEF IInv

LEMMA CollectionLoopInvariant ==
  ASSUME IInv, NEW g \in Groups, CollectionLoop(g)
  PROVE  IInv'
BY CycleInvariant, RetryInvariant, AskInvariant, AnswerInvariant, RequestTimesOutInvariant,
   ConnectionLostInvariant, GroupTimesOutInvariant, EnsuredInvariant DEF CollectionLoop
-----------------------------------------------------------------------------
(* The steps of the reconnect loop, of start() and stop(), of the device.  *)

\* Nothing changes for the request lock and the groups under way when no
\* group moves.
LEMMA NoGroupMoves ==
  ASSUME IInv, UNCHANGED <<loop, request_lock>>
  PROVE  /\ RequestLockHeld' /\ request_lock' \in Seq(Groups)
         /\ UnderWay' = UnderWay
         /\ loop' \in [Groups -> Locations]
BY DEF IInv, Typed, RequestLockHeld, UnderWay

\* The failures, when no group moves.
LEMMA FailuresKept ==
  ASSUME IInv, UnderWay' \subseteq UnderWay,
         \/ consecutive_failures' = 0
         \/ UNCHANGED consecutive_failures /\ state' \in {state, "CONNECTING", "ERROR", "DISCONNECTED"}
  PROVE  FailuresBounded' /\ FailuresBelowLimit'
<1>1. consecutive_failures' \in Nat
  BY DEF IInv, FailuresBounded
<1>2. FailuresBounded'
  BY <1>1, FailuresStayBounded DEF IInv
<1>3. FailuresBelowLimit'
  BY GroupFacts DEF IInv, FailuresBelowLimit
<1> QED
  BY <1>2, <1>3

\* A step of the reconnect loop concerns nobody else in _connection_lock.
LEMMA OthersThanReconnector ==
  ASSUME UNCHANGED loop, owner' = "open" <=> owner = "open"
  PROVE  /\ Reconnector \in Tasks
         /\ \A y \in Tasks \ {Reconnector} :
              /\ y \in AtConnectionLock' <=> y \in AtConnectionLock
              /\ y \in Connecting' <=> y \in Connecting
         /\ Reconnector \in AtConnectionLock <=> reconnect_task \in AtConnection
         /\ Reconnector \in AtConnectionLock' <=> reconnect_task' \in AtConnection
         /\ Reconnector \in Connecting <=> reconnect_task = "open"
         /\ Reconnector \in Connecting' <=> reconnect_task' = "open"
BY GroupFacts DEF AtConnectionLock, Connecting, Tasks

\* When nobody moves in the connection lock.
LEMMA ConnectionLockKept ==
  ASSUME IInv, UNCHANGED <<loop, reconnect_task, connection_lock>>,
         owner' = "open" <=> owner = "open"
  PROVE  ConnectionLockHeld' /\ connection_lock' \in Seq(Tasks)
BY DEF IInv, Typed, ConnectionLockHeld, AtConnectionLock, Connecting

LEMMA BeginOpenInvariant ==
  ASSUME IInv, BeginOpen
  PROVE  IInv'
<1>1. /\ Close /\ writer' = "none" /\ wire' = <<>>
      /\ UNCHANGED <<is_running, state, consecutive_failures, cycle, owner, cancelled, starts,
                     connection_lock, request_lock, device_up, misread, faults>>
      /\ connection_lock # <<>>
  BY DEF BeginOpen, Close
<1>2. Head(connection_lock) = connection_lock[1] /\ connection_lock \in Seq(Tasks) /\ Typed
  BY <1>1, TailQueue DEF IInv, Typed, ConnectionLockHeld
<1>3. wire' \in Seq(Nat)
  BY <1>1
<1>4. CASE \E g \in Groups :
             /\ Head(connection_lock) = g /\ loop[g] = "connection_lock"
             /\ loop' = [loop EXCEPT ![g] = "open"]
             /\ UNCHANGED reconnect_task
  <2>1. PICK g \in Groups :
             /\ Head(connection_lock) = g /\ loop[g] = "connection_lock"
             /\ loop' = [loop EXCEPT ![g] = "open"]
             /\ UNCHANGED reconnect_task
    BY <1>4
  <2> DEFINE v == "open"
  <2>2. /\ v \in Locations /\ v \notin AtRequest /\ v \in AtConnection /\ v # "answer"
        /\ loop[g] \in AtConnection /\ loop[g] \notin AtRequest
        /\ loop[g] \notin {"none", "done"}
    BY <2>1 DEF Locations, AtRequest, AtConnection
  <2>3. RequestLockHeld' /\ request_lock' \in Seq(Groups)
    BY <1>1, <1>2, <2>1, <2>2, RequestLockMoves DEF IInv
  <2>4. ConnectionLockHeld' /\ connection_lock' \in Seq(Tasks)
    BY <1>1, <1>2, <2>1, <2>2, OthersAtConnection, ConnectionLockMoves DEF IInv
  <2>5. UnderWay' \subseteq UnderWay
    BY <1>2, <2>1, <2>2, UnderWayMoves
  <2>6. FailuresBounded' /\ FailuresBelowLimit'
    BY <1>1, <2>5, FailuresKept
  <2>7. loop' \in [Groups -> Locations]
    BY <1>2, <2>1, <2>2 DEF Typed
  <2>8. Typed'
    BY <1>1, <1>2, <1>3, <2>1, <2>3, <2>4, <2>7 DEF Typed, cycle
  <2>9. AnswerOwed'
    BY <1>1 DEF AnswerOwed
  <2>10. Control'
    BY <1>1, <1>2, <2>1, <2>2, ControlKept DEF IInv, tasks
  <2> QED
    BY <2>3, <2>4, <2>6, <2>8, <2>9, <2>10 DEF IInv
<1>5. CASE /\ Head(connection_lock) = Reconnector
           /\ reconnect_task = "connection_lock"
           /\ reconnect_task' = "open"
           /\ UNCHANGED loop
  <2>1. /\ reconnect_task \in AtConnection /\ reconnect_task' \in AtConnection
        /\ reconnect_task # "open"
    BY <1>5 DEF AtConnection
  <2>2. /\ RequestLockHeld' /\ request_lock' \in Seq(Groups)
        /\ UnderWay' = UnderWay /\ loop' \in [Groups -> Locations]
    BY <1>1, <1>5, NoGroupMoves
  <2>3. ConnectionLockHeld' /\ connection_lock' \in Seq(Tasks)
    BY <1>1, <1>2, <1>5, <2>1, OthersThanReconnector, ConnectionLockMoves DEF IInv
  <2>4. FailuresBounded' /\ FailuresBelowLimit'
    BY <1>1, <2>2, FailuresKept
  <2>5. Typed'
    BY <1>1, <1>2, <1>3, <1>5, <2>2, <2>3 DEF Typed, cycle
  <2>6. AnswerOwed'
    BY <1>1 DEF AnswerOwed
  <2>7. Control'
    BY <1>1, <1>5 DEF IInv, Control
  <2> QED
    BY <2>2, <2>3, <2>4, <2>5, <2>6, <2>7 DEF IInv
<1> QED
  BY <1>4, <1>5 DEF BeginOpen

LEMMA ReconnectWakesInvariant ==
  ASSUME IInv, ReconnectWakes
  PROVE  IInv'
<1>1. /\ reconnect_task = "sleep"
      /\ UNCHANGED <<is_running, consecutive_failures, loop, cycle, owner, cancelled, starts,
                     request_lock, connection, device_up, misread, faults>>
  BY DEF ReconnectWakes
<1>2. \/ reconnect_task' = "done" /\ UNCHANGED <<state, connection_lock>>
      \/ /\ state' = "CONNECTING" /\ reconnect_task' = "connection_lock"
         /\ connection_lock' = Append(connection_lock, Reconnector)
      \/ UNCHANGED <<reconnect_task, state, connection_lock>>
  BY DEF ReconnectWakes
<1>3. Typed /\ connection_lock \in Seq(Tasks)
  BY DEF IInv, Typed
<1>4. ConnectionLockHeld' /\ connection_lock' \in Seq(Tasks)
  <2>1. reconnect_task \notin AtConnection /\ reconnect_task # "open"
    BY <1>1 DEF AtConnection
  <2>2. CASE reconnect_task' \in {"done", "sleep"} /\ UNCHANGED connection_lock
    <3>1. reconnect_task' \notin AtConnection /\ reconnect_task' # "open"
      BY <2>2 DEF AtConnection
    <3> QED
      BY <1>1, <1>3, <2>1, <2>2, <3>1, OthersThanReconnector, ConnectionLockMoves DEF IInv
  <2>3. CASE /\ reconnect_task' = "connection_lock"
             /\ connection_lock' = Append(connection_lock, Reconnector)
    <3>1. reconnect_task' \in AtConnection /\ reconnect_task' # "open"
      BY <2>3 DEF AtConnection
    <3> QED
      BY <1>1, <1>3, <2>1, <2>3, <3>1, OthersThanReconnector, ConnectionLockMoves DEF IInv
  <2> QED
    BY <1>1, <1>2, <2>2, <2>3
<1>5. /\ RequestLockHeld' /\ request_lock' \in Seq(Groups)
      /\ UnderWay' = UnderWay /\ loop' \in [Groups -> Locations]
  BY <1>1, NoGroupMoves
<1>6. FailuresBounded' /\ FailuresBelowLimit'
  BY <1>1, <1>2, <1>5, FailuresKept
<1>7. Typed'
  BY <1>1, <1>2, <1>3, <1>4, <1>5 DEF Typed, cycle, connection
<1>8. AnswerOwed'
  BY <1>1 DEF IInv, AnswerOwed, connection
<1>9. Control'
  BY <1>1, <1>2 DEF IInv, Control, connection
<1> QED
  BY <1>4, <1>5, <1>6, <1>7, <1>8, <1>9 DEF IInv

LEMMA ReconnectsInvariant ==
  ASSUME IInv, Reconnects
  PROVE  IInv'
<1>1. /\ reconnect_task = "open" /\ reconnect_task' = "sleep"
      /\ OpenSucceeds \/ OpenFails
      /\ UNCHANGED <<is_running, loop, cycle, owner, cancelled, starts, request_lock,
                     device_up, misread, faults>>
  BY DEF Reconnects
<1>2. \/ consecutive_failures' = 0
      \/ UNCHANGED consecutive_failures /\ state' = "ERROR"
  BY DEF Reconnects, OpenSucceeds, OpenFails
<1>3. Typed /\ connection_lock \in Seq(Tasks)
  BY DEF IInv, Typed
<1>4. ConnectionLockHeld' /\ connection_lock' \in Seq(Tasks)
  <2>1. /\ reconnect_task \in AtConnection /\ reconnect_task' \notin AtConnection
        /\ reconnect_task' # "open"
    BY <1>1 DEF AtConnection
  <2> QED
    BY <1>1, <1>3, <2>1, OpenFacts, OthersThanReconnector, ConnectionLockMoves DEF IInv
<1>5. /\ RequestLockHeld' /\ request_lock' \in Seq(Groups)
      /\ UnderWay' = UnderWay /\ loop' \in [Groups -> Locations]
  BY <1>1, NoGroupMoves
<1>6. FailuresBounded' /\ FailuresBelowLimit'
  BY <1>2, <1>5, FailuresKept
<1>7. Typed'
  BY <1>1, <1>3, <1>4, <1>5, OpenFacts DEF Typed, cycle
<1>8. AnswerOwed'
  BY <1>1, OpenFacts DEF IInv, AnswerOwed
<1>9. Control'
  BY <1>1 DEF IInv, Control
<1> QED
  BY <1>4, <1>5, <1>6, <1>7, <1>8, <1>9 DEF IInv

LEMMA StartInvariant ==
  ASSUME IInv, Start
  PROVE  IInv'
<1>1. /\ owner = "idle" /\ owner' = "open" /\ state' = "CONNECTING" /\ is_running' = TRUE
      /\ starts < MaxStarts /\ starts' = starts + 1
      /\ connection_lock' = <<Owner>> /\ writer' = "none" /\ wire' = <<>>
      /\ UNCHANGED <<consecutive_failures, loop, cycle, reconnect_task, cancelled, request_lock,
                     device_up, misread, faults>>
  BY DEF Start, Close
<1>2. Typed /\ \A g \in Groups : loop[g] \in {"none", "done"}
  BY <1>1 DEF IInv, Control
<1>3. reconnect_task \in {"none", "done"} /\ cancelled = 0
  BY <1>1 DEF IInv, Control
<1>4. ConnectionLockHeld' /\ connection_lock' \in Seq(Tasks)
  <2>1. /\ <<Owner>> \in Seq(Tasks)
        /\ Distinct(<<Owner>>)
        /\ \A y : Queued(<<Owner>>, y) <=> y = Owner
    BY DEF Tasks, Distinct, Queued
  <2>2. AtConnectionLock' = {Owner} /\ Connecting' = {Owner}
    BY <1>1, <1>2, <1>3 DEF AtConnectionLock, Connecting, AtConnection
  <2>3. connection_lock'[1] = Owner
    BY <1>1
  <2> QED
    BY <1>1, <2>1, <2>2, <2>3 DEF ConnectionLockHeld
<1>5. /\ RequestLockHeld' /\ request_lock' \in Seq(Groups)
      /\ UnderWay' = UnderWay /\ loop' \in [Groups -> Locations]
  BY <1>1, NoGroupMoves
<1>6. FailuresBounded' /\ FailuresBelowLimit'
  BY <1>1, <1>5, FailuresKept
<1>7. starts' \in 0 .. MaxStarts
  BY <1>1, <1>2, GroupFacts DEF Typed
<1>8. Typed'
  BY <1>1, <1>2, <1>4, <1>5, <1>7 DEF Typed, cycle
<1>9. AnswerOwed'
  BY <1>1 DEF AnswerOwed
<1>10. Control'
  BY <1>1, <1>2, <1>3 DEF Control
<1> QED
  BY <1>4, <1>5, <1>6, <1>8, <1>9, <1>10 DEF IInv

LEMMA StartEndsInvariant ==
  ASSUME IInv, StartEnds
  PROVE  IInv'
<1>1. /\ owner = "open" /\ owner' = "running" /\ loop' = [g \in Groups |-> "sleep"]
      /\ OpenSucceeds \/ OpenFails
      /\ reconnect_task' \in {reconnect_task, "sleep"}
      /\ UNCHANGED <<is_running, cycle, cancelled, starts, request_lock, device_up, misread,
                     faults>>
  BY DEF StartEnds
<1>2. \/ consecutive_failures' = 0
      \/ UNCHANGED consecutive_failures /\ state' = "ERROR"
  BY DEF StartEnds, OpenSucceeds, OpenFails
<1>3. Typed /\ \A g \in Groups : loop[g] \in {"none", "done"}
  BY <1>1 DEF IInv, Control
<1>4. reconnect_task \in {"none", "done"} /\ cancelled = 0
  BY <1>1 DEF IInv, Control
<1>5. ConnectionLockHeld' /\ connection_lock' \in Seq(Tasks)
  <2>1. AtConnectionLock = {Owner} /\ AtConnectionLock' = {} /\ Connecting' = {}
    BY <1>1, <1>3, <1>4 DEF AtConnectionLock, Connecting, AtConnection
  <2>2. /\ connection_lock \in Seq(Tasks) /\ Distinct(connection_lock)
        /\ \A x \in Tasks : Queued(connection_lock, x) <=> x = Owner
        /\ connection_lock[1] = Owner
    <3>1. Owner \in Tasks /\ Owner \in Connecting
      BY <1>1 DEF Tasks, Connecting
    <3> QED
      BY <2>1, <3>1 DEF IInv, Typed, ConnectionLockHeld
  <2>3. connection_lock # <<>>
    BY <2>2, EmptyQueue DEF Tasks
  <2>4. /\ Tail(connection_lock) \in Seq(Tasks) /\ Distinct(Tail(connection_lock))
        /\ \A y : Queued(Tail(connection_lock), y) <=>
                    Queued(connection_lock, y) /\ y # connection_lock[1]
    BY <2>2, <2>3, TailQueue
  <2>5. connection_lock' = Tail(connection_lock)
    BY <1>1, OpenFacts
  <2> QED
    BY <2>1, <2>2, <2>4, <2>5 DEF ConnectionLockHeld
<1>6. RequestLockHeld' /\ request_lock' \in Seq(Groups)
  BY <1>1, <1>3 DEF IInv, Typed, RequestLockHeld, AtRequest
<1>7. UnderWay' \subseteq UnderWay /\ loop' \in [Groups -> Locations]
  BY <1>1 DEF UnderWay, AtConnection, AtRequest, Locations
<1>8. FailuresBounded' /\ FailuresBelowLimit'
  BY <1>2, <1>7, FailuresKept
<1>9. Typed'
  BY <1>1, <1>3, <1>5, <1>6, <1>7, OpenFacts DEF Typed, cycle
<1>10. AnswerOwed'
  BY <1>1 DEF AnswerOwed
<1>11. Control'
  BY <1>1, <1>4 DEF Control
<1> QED
  BY <1>5, <1>6, <1>8, <1>9, <1>10, <1>11 DEF IInv

LEMMA StopBeginsInvariant ==
  ASSUME IInv, StopBegins
  PROVE  IInv'
<1>1. /\ owner = "running" /\ owner' = "stop_reconnect" /\ is_running' = FALSE
      /\ UNCHANGED <<state, consecutive_failures, loop, cycle, cancelled, starts,
                     request_lock, connection, device_up, misread, faults>>
  BY DEF StopBegins
<1>2. \/ UNCHANGED <<reconnect_task, connection_lock>>
      \/ /\ reconnect_task' = "done"
         /\ connection_lock' = Leave(connection_lock, Reconnector)
  BY DEF StopBegins
<1>3. Typed /\ connection_lock \in Seq(Tasks)
  BY DEF IInv, Typed
<1>4. ConnectionLockHeld' /\ connection_lock' \in Seq(Tasks)
  <2>1. CASE UNCHANGED <<reconnect_task, connection_lock>>
    BY <1>1, <2>1, ConnectionLockKept
  <2>2. CASE /\ reconnect_task' = "done"
             /\ connection_lock' = Leave(connection_lock, Reconnector)
    <3>1. reconnect_task' \notin AtConnection /\ reconnect_task' # "open"
      BY <2>2 DEF AtConnection
    <3>2. UNCHANGED loop /\ (owner' = "open" <=> owner = "open")
      BY <1>1
    <3> QED
      BY <1>3, <2>2, <3>1, <3>2, OthersThanReconnector, ConnectionLockMoves DEF IInv
  <2> QED
    BY <1>2, <2>1, <2>2
<1>5. /\ RequestLockHeld' /\ request_lock' \in Seq(Groups)
      /\ UnderWay' = UnderWay /\ loop' \in [Groups -> Locations]
  BY <1>1, NoGroupMoves
<1>6. FailuresBounded' /\ FailuresBelowLimit'
  BY <1>1, <1>5, FailuresKept
<1>7. Typed'
  BY <1>1, <1>2, <1>3, <1>4, <1>5 DEF Typed, cycle, connection
<1>8. AnswerOwed'
  BY <1>1 DEF IInv, AnswerOwed, connection
<1>9. Control'
  BY <1>1 DEF IInv, Control
<1> QED
  BY <1>4, <1>5, <1>6, <1>7, <1>8, <1>9 DEF IInv

LEMMA StopCancelsInvariant ==
  ASSUME IInv, StopCancels
  PROVE  IInv'
<1> DEFINE g == cancelled + 1
<1>1. /\ Awaited /\ g \in Groups /\ cancelled' = g /\ owner' = "stop_loop"
      /\ UNCHANGED <<is_running, state, consecutive_failures, reconnect_task, starts, writer,
                     wire, device_up, misread, faults>>
  BY DEF StopCancels
<1>2. Typed /\ CycleTyped
  BY DEF IInv, Typed, CycleTyped
<1>3. /\ owner # "open" /\ reconnect_task \in {"none", "done"}
      /\ \A h \in Groups : h < g => loop[h] = "done"
  <2>1. CASE owner = "stop_reconnect" /\ reconnect_task \in {"none", "done"}
    <3>1. cancelled = 0
      BY <2>1 DEF IInv, Control
    <3> QED
      BY <2>1, <3>1, GroupFacts DEF Groups
  <2>2. CASE owner = "stop_loop" /\ loop[cancelled] = "done"
    <3>1. /\ cancelled \in Groups /\ reconnect_task \in {"none", "done"}
          /\ \A h \in Groups : h < cancelled => loop[h] = "done"
      BY <2>2 DEF IInv, Control
    <3>2. \A h \in Groups : h < g => h < cancelled \/ h = cancelled
      BY <3>1, GroupFacts
    <3> QED
      BY <2>2, <3>1, <3>2
  <2> QED
    BY <1>1, <2>1, <2>2 DEF Awaited
<1> HIDE DEF g
<1>4. Control' /\ reconnect_task' \in {"none", "done"}
  <2>1. \A h \in Groups : h < g => loop'[h] = "done"
    <3>1. \A h \in Groups : h < g => h # g
      BY <1>1, GroupFacts
    <3>2. \A h \in Groups \ {g} : loop'[h] = loop[h]
      BY <1>1, <1>2 DEF StopCancels, Typed, g
    <3> QED
      BY <1>3, <3>1, <3>2
  <2> QED
    BY <1>1, <1>3, <2>1 DEF Control
<1>5. CASE /\ loop' = [loop EXCEPT ![g] = "done"]
           /\ attempt' = [attempt EXCEPT ![g] = 0]
           /\ Forget(g)
           /\ Abandon(g)
  <2> DEFINE v == "done"
  <2>1. v \in Locations /\ v \notin AtConnection \cup AtRequest
    BY DEF Locations, AtConnection, AtRequest
  <2>2. /\ RequestLockHeld' /\ request_lock' \in Seq(Groups)
        /\ ConnectionLockHeld' /\ connection_lock' \in Seq(Tasks)
        /\ UnderWay' \subseteq UnderWay
    BY <1>1, <1>3, <1>5, <2>1, AbandonedLocks
  <2>3. attempt' \in [Groups -> 0 .. RetryCount]
    <3>1. 0 \in 0 .. RetryCount
      BY GroupFacts
    <3> QED
      BY <1>2, <1>5, <3>1 DEF CycleTyped
  <2>4. CycleTyped'
    BY <1>1, <1>2, <1>5, <2>3, ForgetTypes
  <2>5. FailuresBounded' /\ FailuresBelowLimit'
    BY <1>1, <2>2, FailuresKept
  <2>6. /\ loop' \in [Groups -> Locations]
        /\ \A h \in Groups : loop'[h] = "answer" => loop[h] = "answer"
    BY <1>2, <1>5, <2>1 DEF Typed
  <2>7. Typed'
    BY <1>1, <1>2, <2>2, <2>4, <2>6 DEF Typed, CycleTyped
  <2>8. AnswerOwed'
    BY <1>1, <2>6 DEF IInv, AnswerOwed
  <2> QED
    BY <1>4, <2>2, <2>5, <2>7, <2>8 DEF IInv
<1>6. CASE UNCHANGED <<loop, cycle, connection_lock, request_lock>>
  <2>1. ConnectionLockHeld' /\ connection_lock' \in Seq(Tasks)
    BY <1>1, <1>3, <1>6, ConnectionLockKept
  <2>2. /\ RequestLockHeld' /\ request_lock' \in Seq(Groups)
        /\ UnderWay' = UnderWay /\ loop' \in [Groups -> Locations]
    BY <1>6, NoGroupMoves
  <2>3. FailuresBounded' /\ FailuresBelowLimit'
    BY <1>1, <2>2, FailuresKept
  <2>4. Typed'
    BY <1>1, <1>2, <1>6, <2>1, <2>2 DEF Typed, cycle
  <2>5. AnswerOwed'
    BY <1>1, <1>6 DEF IInv, AnswerOwed
  <2> QED
    BY <1>4, <2>1, <2>2, <2>3, <2>4, <2>5 DEF IInv
<1> QED
  BY <1>5, <1>6 DEF StopCancels, g

LEMMA StopEndsInvariant ==
  ASSUME IInv, StopEnds
  PROVE  IInv'
<1>1. /\ Awaited /\ cancelled + 1 \notin Groups
      /\ writer' = "none" /\ wire' = <<>>
      /\ state' = "DISCONNECTED" /\ owner' = "idle" /\ cancelled' = 0
      /\ UNCHANGED <<is_running, consecutive_failures, loop, cycle, reconnect_task, starts,
                     connection_lock, request_lock, device_up, misread, faults>>
  BY DEF StopEnds, Close
<1>2. Typed
  BY DEF IInv
<1>3. /\ owner = "stop_loop" /\ reconnect_task \in {"none", "done"}
      /\ \A h \in Groups : loop[h] = "done"
  <2>1. owner # "stop_reconnect"
    BY <1>1, GroupFacts DEF IInv, Control
  <2>2. /\ owner = "stop_loop" /\ loop[cancelled] = "done"
        /\ cancelled \in Groups /\ reconnect_task \in {"none", "done"}
        /\ \A h \in Groups : h < cancelled => loop[h] = "done"
    BY <1>1, <2>1 DEF Awaited, IInv, Control
  <2>3. \A h \in Groups : h < cancelled \/ h = cancelled
    BY <1>1, <2>2, GroupFacts DEF Groups
  <2> QED
    BY <2>2, <2>3
<1>4. ConnectionLockHeld' /\ connection_lock' \in Seq(Tasks)
  BY <1>1, <1>3, ConnectionLockKept
<1>5. /\ RequestLockHeld' /\ request_lock' \in Seq(Groups)
      /\ UnderWay' = UnderWay /\ loop' \in [Groups -> Locations]
  BY <1>1, NoGroupMoves
<1>6. FailuresBounded' /\ FailuresBelowLimit'
  BY <1>1, <1>5, FailuresKept
<1>7. Typed'
  BY <1>1, <1>2, <1>4, <1>5 DEF Typed, cycle
<1>8. AnswerOwed'
  BY <1>1 DEF AnswerOwed
<1>9. Control'
  BY <1>1, <1>3 DEF Control
<1> QED
  BY <1>4, <1>5, <1>6, <1>7, <1>8, <1>9 DEF IInv

\* What happens to the connection from outside: it ends, and owes nothing.
LEMMA LinkEnds ==
  ASSUME IInv, NEW kinds \in SUBSET {"none", "eof", "dead"}, Broken(kinds),
         faults' \in 0 .. MaxFaults, device_up' \in BOOLEAN,
         UNCHANGED <<is_running, state, consecutive_failures, loop, cycle, tasks,
                     connection_lock, request_lock, misread>>
  PROVE  IInv'
<1>1. /\ writer' \in {"none", "eof", "dead"} /\ wire' = <<>>
      /\ writer = "none" => writer' = "none"
  BY DEF Broken, IInv, Typed
<1>2. UNCHANGED <<reconnect_task, owner, cancelled, starts>>
  BY DEF tasks
<1>3. ConnectionLockHeld' /\ connection_lock' \in Seq(Tasks)
  BY <1>2, ConnectionLockKept
<1>4. /\ RequestLockHeld' /\ request_lock' \in Seq(Groups)
      /\ UnderWay' = UnderWay /\ loop' \in [Groups -> Locations]
  BY NoGroupMoves
<1>5. FailuresBounded' /\ FailuresBelowLimit'
  BY <1>4, FailuresKept
<1>6. Typed'
  BY <1>1, <1>2, <1>3, <1>4 DEF IInv, Typed, cycle
<1>7. AnswerOwed'
  BY <1>1 DEF AnswerOwed
<1>8. Control'
  BY <1>1, <1>2 DEF IInv, Control
<1> QED
  BY <1>3, <1>4, <1>5, <1>6, <1>7, <1>8 DEF IInv

LEMMA EnvironmentInvariant ==
  ASSUME IInv, Environment
  PROVE  IInv'
<1>1. faults \in 0 .. MaxFaults /\ device_up \in BOOLEAN
  BY DEF IInv, Typed
<1>2. CASE LinkBreaks
  <2>1. Broken({"none", "eof"}) /\ faults' \in 0 .. MaxFaults /\ device_up' \in BOOLEAN
    BY <1>1, <1>2, GroupFacts DEF LinkBreaks
  <2> QED
    BY <1>2, <2>1, LinkEnds DEF LinkBreaks
<1>3. CASE DeviceFails
  <2>1. Broken({"none", "eof", "dead"}) /\ faults' \in 0 .. MaxFaults /\ device_up' \in BOOLEAN
    <3>1. faults < MaxFaults /\ faults' = faults + 1 /\ device_up' = FALSE
      BY <1>3 DEF DeviceFails
    <3>2. faults' \in 0 .. MaxFaults
      <4>1. MaxFaults \in Nat
        BY GroupFacts
      <4> QED
        BY <1>1, <3>1, <4>1
    <3>3. device_up' \in BOOLEAN
      BY <3>1, Zenon
    <3> QED
      BY <1>3, <3>2, <3>3, Zenon DEF DeviceFails
  <2> QED
    BY <1>3, <2>1, LinkEnds DEF DeviceFails
<1>4. CASE DeviceReturns
  <2>1. /\ device_up' = TRUE
        /\ UNCHANGED <<is_running, state, consecutive_failures, loop, cycle, tasks,
                       connection_lock, request_lock, connection, misread, faults>>
    BY <1>4 DEF DeviceReturns
  <2>2. ConnectionLockHeld' /\ connection_lock' \in Seq(Tasks)
    BY <2>1, ConnectionLockKept DEF tasks
  <2>3. /\ RequestLockHeld' /\ request_lock' \in Seq(Groups)
        /\ UnderWay' = UnderWay /\ loop' \in [Groups -> Locations]
    BY <2>1, NoGroupMoves
  <2>4. FailuresBounded' /\ FailuresBelowLimit'
    BY <2>1, <2>3, FailuresKept
  <2>5. Typed'
    BY <2>1, <2>2, <2>3 DEF IInv, Typed, cycle, tasks, connection
  <2>6. AnswerOwed' /\ Control'
    BY <2>1 DEF IInv, AnswerOwed, Control, tasks, connection
  <2> QED
    BY <2>2, <2>3, <2>4, <2>5, <2>6 DEF IInv
<1> QED
  BY <1>2, <1>3, <1>4 DEF Environment

LEMMA StutterInvariant ==
  ASSUME IInv, UNCHANGED vars
  PROVE  IInv'
BY DEF vars, cycle, tasks, connection, IInv, Typed, FailuresBounded, FailuresBelowLimit, UnderWay,
   ConnectionLockHeld, AtConnectionLock, Connecting, RequestLockHeld, AnswerOwed, Control

LEMMA InitInvariant == Init => IInv
<1> SUFFICES ASSUME Init PROVE IInv
  OBVIOUS
<1>1. Typed
  <2>1. \A g \in Groups : Len(Reads[g]) \in Nat \ {0}
    BY GroupFacts
  <2>2. CycleTyped
    BY <2>1, GroupFacts DEF Init, CycleTyped
  <2>3. loop \in [Groups -> Locations]
    BY DEF Init, Locations
  <2>4. faults \in 0 .. MaxFaults /\ starts \in 0 .. MaxStarts
    BY GroupFacts DEF Init
  <2>5. connection_lock \in Seq(Tasks) /\ request_lock \in Seq(Groups) /\ wire \in Seq(Nat)
    BY EmptySeq DEF Init
  <2>6. /\ is_running \in BOOLEAN /\ device_up \in BOOLEAN /\ misread \in BOOLEAN
        /\ state \in {"DISCONNECTED", "CONNECTING", "CONNECTED", "RECONNECTING", "ERROR"}
        /\ reconnect_task \in {"none", "sleep", "connection_lock", "open", "done"}
        /\ owner \in {"idle", "open", "running", "stop_reconnect", "stop_loop"}
        /\ cancelled \in {0} \cup Groups
        /\ writer \in {"none", "open", "eof", "dead"}
    BY DEF Init
  <2> QED
    BY <2>2, <2>3, <2>4, <2>5, <2>6 DEF Typed, CycleTyped
<1>2. FailuresBounded
  <2>1. UnderWay = {}
    BY DEF Init, UnderWay, AtConnection, AtRequest
  <2>2. Cardinality(UnderWay) = 0
    BY <2>1, FS_EmptySet
  <2> QED
    BY <2>2, GroupFacts DEF Init, FailuresBounded
<1>3. FailuresBelowLimit
  BY DEF Init, FailuresBelowLimit
<1>4. ConnectionLockHeld
  <2>1. AtConnectionLock = {} /\ Connecting = {}
    BY DEF Init, AtConnectionLock, Connecting, AtConnection
  <2> QED
    BY <2>1, EmptyQueue DEF Init, ConnectionLockHeld
<1>5. RequestLockHeld
  BY EmptyQueue DEF Init, RequestLockHeld, AtRequest
<1>6. AnswerOwed
  BY DEF Init, AnswerOwed
<1>7. Control
  BY DEF Init, Control
<1> QED
  BY <1>1, <1>2, <1>3, <1>4, <1>5, <1>6, <1>7 DEF IInv

\* The invariant holds throughout.
THEOREM Invariance == Spec => []IInv
<1>1. ASSUME IInv, [Next]_vars  PROVE IInv'
  <2>1. CASE Next
    BY <1>1, <2>1, CollectionLoopInvariant, BeginOpenInvariant, ReconnectWakesInvariant,
       ReconnectsInvariant, StartInvariant, StartEndsInvariant, StopBeginsInvariant,
       StopCancelsInvariant, StopEndsInvariant, EnvironmentInvariant
       DEF Next, ReconnectLoop, Stop
  <2>2. CASE UNCHANGED vars
    BY <1>1, <2>2, StutterInvariant
  <2> QED
    BY <1>1, <2>1, <2>2
<1> QED
  BY <1>1, InitInvariant, PTL DEF Spec
-----------------------------------------------------------------------------
(* The properties that the runs check, for all constants.                  *)

\* Every variable has its type in every reachable state; in particular the
\* failures in a row are bounded by the limit and the number of groups.
THEOREM TypeCorrect == Spec => []TypeOK
<1>1. IInv => TypeOK
  <2> SUFFICES ASSUME IInv PROVE TypeOK
    OBVIOUS
  <2>1. consecutive_failures \in 0 .. MaxFailures + Cardinality(Groups)
    <3>1. UnderWay \in SUBSET Groups
      BY DEF UnderWay
    <3>2. Cardinality(UnderWay) \in Nat
      BY <3>1, CountGroups
    <3> QED
      BY <3>2, GroupFacts DEF IInv, FailuresBounded
  <2>2. connection_lock \in Seq(Groups \cup {Reconnector, Owner})
    BY DEF IInv, Typed, Tasks
  <2> QED
    BY <2>1, <2>2 DEF IInv, Typed, TypeOK, Locations
<1> QED
  BY <1>1, Invariance, PTL

\* A collector that is CONNECTED has fewer failures in a row than the limit,
\* however the groups, the reconnect loop and the device interleave.
THEOREM ConnectedMeansFewFailures == Spec => []FailuresBelowLimit
<1>1. IInv => FailuresBelowLimit
  BY DEF IInv
<1> QED
  BY <1>1, Invariance, PTL

\* Once stop() has returned no task is left, both locks are free and the
\* connection is closed, whatever each task was waiting for.
THEOREM StopIsComplete == Spec => []StopLeavesNothing
<1>1. IInv => StopLeavesNothing
  <2> SUFFICES ASSUME IInv, owner = "idle"
               PROVE  /\ \A g \in Groups : loop[g] \in {"none", "done"}
                      /\ reconnect_task \in {"none", "done"}
                      /\ connection_lock = <<>> /\ request_lock = <<>>
                      /\ writer = "none" /\ state = "DISCONNECTED"
    BY DEF StopLeavesNothing
  <2>1. /\ \A g \in Groups : loop[g] \in {"none", "done"}
        /\ reconnect_task \in {"none", "done"}
        /\ writer = "none" /\ state = "DISCONNECTED"
    BY DEF IInv, Control
  <2>2. connection_lock = <<>>
    <3>1. AtConnectionLock = {}
      BY <2>1 DEF AtConnectionLock, AtConnection
    <3>2. /\ connection_lock \in Seq(Tasks)
          /\ \A x \in Tasks : ~Queued(connection_lock, x)
      BY <3>1 DEF IInv, Typed, ConnectionLockHeld
    <3> QED
      BY <3>2, NobodyQueued
  <2>3. request_lock = <<>>
    <3>1. /\ request_lock \in Seq(Groups)
          /\ \A g \in Groups : ~Queued(request_lock, g)
      BY <2>1 DEF IInv, Typed, RequestLockHeld, AtRequest
    <3> QED
      BY <3>1, NobodyQueued
  <2> QED
    BY <2>1, <2>2, <2>3
<1> QED
  BY <1>1, Invariance, PTL
=============================================================================
