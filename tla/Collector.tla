----------------------------- MODULE Collector ------------------------------
(***************************************************************************)
(* A collector of a Modbus TCP device: the loops of BaseCollector          *)
(* (src/collectors/base.py), ModbusCollector's connection handling and     *)
(* reading, and ModbusTcpTransport with its two locks                      *)
(* (src/collectors/modbus/collector.py).                                   *)
(*                                                                         *)
(* The tasks are one collection loop per group, the reconnect loop and     *)
(* whoever calls start() and stop().  A step is what one of them does      *)
(* between two awaits; entering a lock is one of these.  The device is     *)
(* external: it answers the requests of a connection in their order, and   *)
(* only the function code of an answer is looked at.  It can be slow, fail *)
(* and return, and the connection can break (MaxFaults bounds how often).  *)
(* Addresses, registers and the parsing of an answer are left out.         *)
(***************************************************************************)
EXTENDS Integers, FiniteSets, SequencesExt

CONSTANTS
  NumGroups,     (* the collection groups, in the order of their creation    *)
  Reads,         (* the function codes of the read groups of each group      *)
  RetryCount,    (* retry_count of the groups                                *)
  MaxFailures,   (* _max_consecutive_failures                                *)
  MaxFaults,     (* bound: late or bad answers, broken connections, failures *)
  MaxStarts      (* bound: calls of start()                                  *)

Groups == 1 .. NumGroups

ASSUME CollectorAssumption ==
  /\ NumGroups \in Nat \ {0}
  /\ \A g \in Groups : Reads[g] \in Seq(Nat) /\ Reads[g] # <<>>
  /\ RetryCount \in Nat /\ MaxFailures \in Nat \ {0}
  /\ MaxFaults \in Nat /\ MaxStarts \in Nat

\* Who takes _connection_lock beside the groups: the reconnect loop, and who
\* calls start().
Reconnector == 0
Owner == NumGroups + 1

VARIABLES
  is_running,            (* _is_running                                      *)
  state,                 (* _state                                           *)
  consecutive_failures,  (* _consecutive_failures                            *)
  loop,                  (* where each group's _collection_loop waits        *)
  attempt,               (* its attempt in _collect_with_retry               *)
  index,                 (* the read group it is at, and how many of those   *)
  failed,                (* before it failed                                 *)
  reconnect_task,        (* where _reconnect_loop waits                      *)
  owner,                 (* where start() or stop() is                       *)
  cancelled,             (* how many of the groups' tasks stop() cancelled   *)
  connection_lock,       (* who holds _connection_lock, then who waits       *)
  request_lock,          (* the groups that hold and wait for _request_lock  *)
  writer,                (* the connection: none or closing, open, eof, dead *)
  wire,                  (* function codes of the answers it still owes      *)
  device_up,             (* external: the device is on                       *)
  misread,               (* history: a group reported an answer not its own  *)
  own,                   (* history: what it has read were its own answers   *)
  faults, starts

cycle == <<attempt, index, failed, own>>
tasks == <<reconnect_task, owner, cancelled, starts>>
connection == <<writer, wire>>
vars == <<is_running, state, consecutive_failures, loop, cycle, tasks,
          connection_lock, request_lock, connection, device_up, misread, faults>>

\* loop: none (no task), sleep (until the next cycle), connection_lock, open
\* (in open_connection), request_lock, answer, delay (retry_delay), done.
\* reconnect_task: none, sleep (backoff), connection_lock, open, done.
\* owner: idle, open (start() connects), running, stop_reconnect and stop_loop
\* (awaits the task it has cancelled last), disconnect.

IsConnected == writer # "none"

\* The connection is closed; whoever waits for an answer will see its end.
Close ==
  /\ writer' = "none"
  /\ wire' = <<>>
-----------------------------------------------------------------------------
(* A collection: the return from _do_collect and from one of its reads.    *)

\* A mistake: a cancelled task does not release the lock it holds.
LeaveUnlessHeld(queue, task) ==
  IF queue # <<>> /\ Head(queue) = task THEN queue ELSE RemoveFirst(queue, task)

\* asyncio.Lock: whoever is cancelled takes itself off the waiters, or releases
\* the lock to the first of them.
Leave(queue, task) == RemoveFirst(queue, task)

\* The variables of _do_collect end with it.
Forget(g) ==
  /\ index' = [index EXCEPT ![g] = 1]
  /\ failed' = [failed EXCEPT ![g] = 0]
  /\ own' = [own EXCEPT ![g] = TRUE]

\* A cycle's misread, of data or of the failure; the loop sleeps until the next.
EndCycle(g) ==
  /\ loop' = [loop EXCEPT ![g] = "sleep"]
  /\ attempt' = [attempt EXCEPT ![g] = 0]
  /\ Forget(g)

\* A mistake: one attempt too many.
AttemptFailsOnceMore(g) ==
  \/ /\ attempt[g] <= RetryCount
     /\ attempt' = [attempt EXCEPT ![g] = @ + 1]
     /\ loop' = [loop EXCEPT ![g] = "delay"]
     /\ Forget(g)
  \/ attempt[g] > RetryCount /\ EndCycle(g)

\* An attempt returned None or timed out: another one, or a failure report.
AttemptFails(g) ==
  \/ /\ attempt[g] < RetryCount
     /\ attempt' = [attempt EXCEPT ![g] = @ + 1]
     /\ loop' = [loop EXCEPT ![g] = "delay"]
     /\ Forget(g)
  \/ attempt[g] >= RetryCount /\ EndCycle(g)

\* collect() and _do_collect up to their first await.
BeginAttempt(g) ==
  \/ /\ state # "CONNECTED"
     /\ AttemptFails(g)
     /\ UNCHANGED <<state, connection_lock, request_lock>>
  \/ /\ state = "CONNECTED" /\ IsConnected
     /\ loop' = [loop EXCEPT ![g] = "request_lock"]
     /\ request_lock' = Append(request_lock, g)
     /\ UNCHANGED <<state, cycle, connection_lock>>
  \/ /\ state = "CONNECTED" /\ ~IsConnected
     /\ state' = "RECONNECTING"
     /\ loop' = [loop EXCEPT ![g] = "connection_lock"]
     /\ connection_lock' = Append(connection_lock, g)
     /\ UNCHANGED <<cycle, request_lock>>

\* A mistake: one failure too many is needed.
StateAfterMissLater ==
  IF consecutive_failures + 1 > MaxFailures THEN "ERROR" ELSE state

\* _state once a collection has failed with every read of it.
StateAfterMiss ==
  IF consecutive_failures + 1 >= MaxFailures THEN "ERROR" ELSE state

\* A read is over, with no data, its own or another request's: the next one,
\* which queues for the lock again, or the verdict on the whole collection.
EndRead(g, data) ==
  LET misses == failed[g] + (IF data = "none" THEN 1 ELSE 0)
      all == Len(Reads[g])
      mine == own[g] /\ data # "foreign"
  IN  \/ /\ index[g] < all
         /\ index' = [index EXCEPT ![g] = @ + 1]
         /\ failed' = [failed EXCEPT ![g] = misses]
         /\ own' = [own EXCEPT ![g] = mine]
         /\ loop' = [loop EXCEPT ![g] = "request_lock"]
         /\ request_lock' = Append(Tail(request_lock), g)
         /\ UNCHANGED <<state, consecutive_failures, attempt, misread>>
      \/ /\ index[g] = all /\ misses = all
         /\ request_lock' = Tail(request_lock)
         /\ consecutive_failures' = consecutive_failures + 1
         /\ state' = StateAfterMiss
         /\ AttemptFails(g)
         /\ UNCHANGED misread
      \/ /\ index[g] = all /\ misses < all
         /\ request_lock' = Tail(request_lock)
         /\ consecutive_failures' = 0
         /\ misread' = (misread \/ ~mine)
         /\ EndCycle(g)
         /\ UNCHANGED state
-----------------------------------------------------------------------------
(* The collection loop of a group.                                         *)

\* A mistake: the loop's head does not look at _is_running.
CycleForever(g) ==
  /\ loop[g] = "sleep"
  /\ \/ state = "CONNECTED" /\ BeginAttempt(g)
     \/ /\ state # "CONNECTED" /\ EndCycle(g)
        /\ UNCHANGED <<state, connection_lock, request_lock>>
  /\ UNCHANGED <<is_running, consecutive_failures, tasks, connection, device_up,
                 misread, faults>>

\* The head of the loop, after the sleep.
Cycle(g) ==
  /\ loop[g] = "sleep"
  /\ \/ /\ ~is_running
        /\ loop' = [loop EXCEPT ![g] = "done"]
        /\ UNCHANGED <<state, cycle, connection_lock, request_lock>>
     \/ is_running /\ state = "CONNECTED" /\ BeginAttempt(g)
     \/ /\ is_running /\ state # "CONNECTED"
        /\ EndCycle(g)
        /\ UNCHANGED <<state, connection_lock, request_lock>>
  /\ UNCHANGED <<is_running, consecutive_failures, tasks, connection, device_up,
                 misread, faults>>

Retry(g) ==
  /\ loop[g] = "delay"
  /\ BeginAttempt(g)
  /\ UNCHANGED <<is_running, consecutive_failures, tasks, connection, device_up,
                 misread, faults>>

\* Inside _request_lock: send_request writes, or finds no connection.
Ask(g) ==
  /\ loop[g] = "request_lock"
  /\ Head(request_lock) = g
  /\ \/ /\ IsConnected
        /\ loop' = [loop EXCEPT ![g] = "answer"]
        /\ wire' = IF writer = "open" THEN Append(wire, Reads[g][index[g]]) ELSE wire
        /\ UNCHANGED <<state, consecutive_failures, cycle, request_lock, misread>>
     \/ ~IsConnected /\ EndRead(g, "none") /\ UNCHANGED wire
  /\ UNCHANGED <<is_running, tasks, connection_lock, writer, device_up, faults>>

\* The first answer on the wire, whosever it is; a device may answer with an
\* exception.
Answer(g) ==
  /\ loop[g] = "answer"
  /\ writer = "open"
  /\ wire' = Tail(wire)
  /\ \/ /\ EndRead(g, IF Head(wire) # Reads[g][index[g]] THEN "none"
                       ELSE IF Len(wire) = 1 THEN "own" ELSE "foreign")
        /\ UNCHANGED faults
     \/ /\ faults < MaxFaults
        /\ faults' = faults + 1
        /\ EndRead(g, "none")
  /\ UNCHANGED <<is_running, tasks, connection_lock, writer, device_up>>

\* A timeout is a fault unless the device is off.
TimeoutHappens ==
  IF device_up THEN faults < MaxFaults /\ faults' = faults + 1 ELSE UNCHANGED faults

\* The transport's timeout: the request is given up, the connection stays.
RequestTimesOut(g) ==
  /\ loop[g] = "answer"
  /\ writer \in {"open", "dead"}
  /\ TimeoutHappens
  /\ EndRead(g, "none")
  /\ UNCHANGED <<is_running, tasks, connection_lock, writer, wire, device_up>>

\* The stream ends or is reset, also because somebody closed it.
ConnectionLost(g) ==
  /\ loop[g] = "answer"
  /\ writer \in {"eof", "none"} \/ (writer = "dead" /\ device_up)
  /\ Close
  /\ EndRead(g, "none")
  /\ UNCHANGED <<is_running, tasks, connection_lock, device_up, faults>>

\* Where the group's timeout, or stop(), cancels a collection: the locks are
\* left, a request under way is given up, and _state stays what it is.
Abandon(g) ==
  /\ connection_lock' = Leave(connection_lock, g)
  /\ request_lock' = Leave(request_lock, g)

GroupTimesOut(g) ==
  /\ loop[g] \in {"connection_lock", "open", "request_lock", "answer"}
  /\ TimeoutHappens
  /\ Abandon(g)
  /\ AttemptFails(g)
  /\ UNCHANGED <<is_running, state, consecutive_failures, tasks, writer, wire, device_up,
                 misread>>
-----------------------------------------------------------------------------
(* ModbusTcpTransport.connect.                                             *)

\* Inside _connection_lock: the old connection is closed first.
BeginOpen ==
  /\ connection_lock # <<>>
  /\ \/ /\ Head(connection_lock) \in Groups
        /\ loop[Head(connection_lock)] = "connection_lock"
        /\ loop' = [loop EXCEPT ![Head(connection_lock)] = "open"]
        /\ UNCHANGED reconnect_task
     \/ /\ Head(connection_lock) = Reconnector
        /\ reconnect_task = "connection_lock"
        /\ reconnect_task' = "open"
        /\ UNCHANGED loop
  /\ Close
  /\ UNCHANGED <<is_running, state, consecutive_failures, cycle, owner, cancelled, starts,
                 connection_lock, request_lock, device_up, misread, faults>>

\* open_connection returned and _do_connect resets the failures.  A request
\* on the connection that was closed for it has ended by then.
OpenSucceeds ==
  /\ device_up
  /\ \A g \in Groups : loop[g] # "answer"
  /\ writer' = "open"
  /\ consecutive_failures' = 0
  /\ state' = "CONNECTED"
  /\ connection_lock' = Tail(connection_lock)
  /\ UNCHANGED wire

OpenFails ==
  /\ ~device_up
  /\ state' = "ERROR"
  /\ connection_lock' = Tail(connection_lock)
  /\ UNCHANGED connection

\* _ensure_connection, and what _do_collect makes of it.
Ensured(g) ==
  /\ loop[g] = "open"
  /\ \/ /\ OpenSucceeds
        /\ loop' = [loop EXCEPT ![g] = "request_lock"]
        /\ request_lock' = Append(request_lock, g)
        /\ UNCHANGED cycle
     \/ /\ OpenFails
        /\ consecutive_failures' = consecutive_failures + 1
        /\ AttemptFails(g)
        /\ UNCHANGED request_lock
  /\ UNCHANGED <<is_running, tasks, device_up, misread, faults>>
-----------------------------------------------------------------------------
(* The reconnect loop.                                                     *)

\* A mistake: the loop reconnects only after an error.
ReconnectWakesOnError ==
  /\ reconnect_task = "sleep"
  /\ CASE ~is_running ->
            reconnect_task' = "done" /\ UNCHANGED <<state, connection_lock>>
       [] is_running /\ state = "ERROR" ->
            /\ state' = "CONNECTING"
            /\ reconnect_task' = "connection_lock"
            /\ connection_lock' = Append(connection_lock, Reconnector)
       [] OTHER -> UNCHANGED <<reconnect_task, state, connection_lock>>
  /\ UNCHANGED <<is_running, consecutive_failures, loop, cycle, owner, cancelled, starts,
                 request_lock, connection, device_up, misread, faults>>

ReconnectWakes ==
  /\ reconnect_task = "sleep"
  /\ CASE ~is_running ->
            reconnect_task' = "done" /\ UNCHANGED <<state, connection_lock>>
       [] is_running /\ state # "CONNECTED" ->
            /\ state' = "CONNECTING"
            /\ reconnect_task' = "connection_lock"
            /\ connection_lock' = Append(connection_lock, Reconnector)
       [] OTHER -> UNCHANGED <<reconnect_task, state, connection_lock>>
  /\ UNCHANGED <<is_running, consecutive_failures, loop, cycle, owner, cancelled, starts,
                 request_lock, connection, device_up, misread, faults>>

Reconnects ==
  /\ reconnect_task = "open"
  /\ OpenSucceeds \/ (OpenFails /\ UNCHANGED consecutive_failures)
  /\ reconnect_task' = "sleep"
  /\ UNCHANGED <<is_running, loop, cycle, owner, cancelled, starts, request_lock,
                 device_up, misread, faults>>
-----------------------------------------------------------------------------
(* start() and stop().                                                     *)

Start ==
  /\ owner = "idle"
  /\ starts < MaxStarts
  /\ starts' = starts + 1
  /\ is_running' = TRUE
  /\ state' = "CONNECTING"
  /\ owner' = "open"
  /\ connection_lock' = <<Owner>>
  /\ Close
  /\ UNCHANGED <<consecutive_failures, loop, cycle, reconnect_task, cancelled, request_lock,
                 device_up, misread, faults>>

\* The reconnect task is created only if this first connect fails.
StartEnds ==
  /\ owner = "open"
  /\ \/ OpenSucceeds /\ UNCHANGED reconnect_task
     \/ OpenFails /\ reconnect_task' = "sleep" /\ UNCHANGED consecutive_failures
  /\ loop' = [g \in Groups |-> "sleep"]
  /\ owner' = "running"
  /\ UNCHANGED <<is_running, cycle, cancelled, starts, request_lock, device_up, misread,
                 faults>>

\* stop() cancels the reconnect task, if there is one, and awaits it.  What
\* wait_for() has got already it returns (Python 3.10 and 3.11), and the
\* cancellation is lost: such a task ends at the head of its loop.
StopBegins ==
  /\ owner = "running"
  /\ is_running' = FALSE
  /\ owner' = "stop_reconnect"
  /\ \/ reconnect_task = "none" /\ UNCHANGED <<reconnect_task, connection_lock>>
     \/ /\ reconnect_task # "none"
        /\ reconnect_task' = "done"
        /\ connection_lock' = Leave(connection_lock, Reconnector)
     \/ reconnect_task = "open" /\ device_up /\ UNCHANGED <<reconnect_task, connection_lock>>
  /\ UNCHANGED <<state, consecutive_failures, loop, cycle, cancelled, starts,
                 request_lock, connection, device_up, misread, faults>>

\* A mistake: stop() does not await the groups' tasks.
AwaitedNot ==
  \/ owner = "stop_reconnect" /\ reconnect_task \in {"none", "done"}
  \/ owner = "stop_loop"

\* The task that stop() awaits has ended.
Awaited ==
  \/ owner = "stop_reconnect" /\ reconnect_task \in {"none", "done"}
  \/ owner = "stop_loop" /\ loop[cancelled] = "done"

\* The next group's task is cancelled and awaited.
StopCancels ==
  /\ Awaited
  /\ cancelled + 1 \in Groups
  /\ cancelled' = cancelled + 1
  /\ owner' = "stop_loop"
  /\ LET g == cancelled + 1
     IN  \/ /\ loop' = [loop EXCEPT ![g] = "done"]
            /\ attempt' = [attempt EXCEPT ![g] = 0]
            /\ Forget(g)
            /\ Abandon(g)
         \/ /\ \/ loop[g] = "answer" /\ writer = "open"
               \/ loop[g] = "open" /\ device_up
            /\ UNCHANGED <<loop, cycle, connection_lock, request_lock>>
  /\ UNCHANGED <<is_running, state, consecutive_failures, reconnect_task, starts, writer,
                 wire, device_up, misread, faults>>

StopEnds ==
  /\ Awaited
  /\ cancelled + 1 \notin Groups
  /\ Close
  /\ state' = "DISCONNECTED"
  /\ owner' = "idle"
  /\ cancelled' = 0
  /\ UNCHANGED <<is_running, consecutive_failures, loop, cycle, reconnect_task, starts,
                 connection_lock, request_lock, device_up, misread, faults>>
-----------------------------------------------------------------------------
(* The device and the network.                                             *)

Broken(kinds) ==
  /\ writer' \in IF writer = "open" THEN kinds ELSE {writer}
  /\ wire' = <<>>

LinkBreaks ==
  /\ faults < MaxFaults
  /\ faults' = faults + 1
  /\ writer = "open"
  /\ Broken({"none", "eof"})
  /\ UNCHANGED <<is_running, state, consecutive_failures, loop, cycle, tasks,
                 connection_lock, request_lock, device_up, misread>>

\* The device goes off, and its connection with it, noticed or not.
DeviceFails ==
  /\ faults < MaxFaults
  /\ faults' = faults + 1
  /\ device_up
  /\ device_up' = FALSE
  /\ Broken({"none", "eof", "dead"})
  /\ UNCHANGED <<is_running, state, consecutive_failures, loop, cycle, tasks,
                 connection_lock, request_lock, misread>>

DeviceReturns ==
  /\ ~device_up
  /\ device_up' = TRUE
  /\ UNCHANGED <<is_running, state, consecutive_failures, loop, cycle, tasks,
                 connection_lock, request_lock, connection, misread, faults>>
-----------------------------------------------------------------------------
Init ==
  /\ is_running = FALSE /\ state = "DISCONNECTED" /\ consecutive_failures = 0
  /\ loop = [g \in Groups |-> "none"]
  /\ attempt = [g \in Groups |-> 0]
  /\ index = [g \in Groups |-> 1]
  /\ failed = [g \in Groups |-> 0]
  /\ reconnect_task = "none" /\ owner = "idle" /\ cancelled = 0
  /\ connection_lock = <<>> /\ request_lock = <<>>
  /\ writer = "none" /\ wire = <<>>
  /\ device_up \in BOOLEAN
  /\ misread = FALSE
  /\ own = [g \in Groups |-> TRUE]
  /\ faults = 0 /\ starts = 0

CollectionLoop(g) ==
  \/ Cycle(g) \/ Retry(g) \/ Ask(g) \/ Answer(g) \/ RequestTimesOut(g)
  \/ ConnectionLost(g) \/ GroupTimesOut(g) \/ Ensured(g)
ReconnectLoop == ReconnectWakes \/ Reconnects
Stop == StopCancels \/ StopEnds
Environment == LinkBreaks \/ DeviceFails \/ DeviceReturns

Next ==
  \/ \E g \in Groups : CollectionLoop(g)
  \/ BeginOpen \/ ReconnectLoop
  \/ Start \/ StartEnds \/ StopBegins \/ Stop
  \/ Environment

\* The event loop runs every task that is ready, timeouts and sleeps end, a
\* device that is on answers and a device that is off comes back.  Nobody has
\* to start or to stop the collector.
Fairness ==
  /\ \A g \in Groups : WF_vars(CollectionLoop(g))
  /\ WF_vars(BeginOpen) /\ WF_vars(ReconnectLoop)
  /\ WF_vars(StartEnds) /\ WF_vars(Stop)
  /\ WF_vars(DeviceReturns)

Spec == Init /\ [][Next]_vars /\ Fairness
-----------------------------------------------------------------------------
(* Properties.                                                             *)

\* Every variable has its type; the failures are bounded although a group
\* that is under way may add one after _state has become ERROR.
TypeOK ==
  /\ is_running \in BOOLEAN
  /\ state \in {"DISCONNECTED", "CONNECTING", "CONNECTED", "RECONNECTING", "ERROR"}
  /\ consecutive_failures \in 0 .. MaxFailures + Cardinality(Groups)
  /\ loop \in [Groups -> {"none", "sleep", "connection_lock", "open", "request_lock",
                          "answer", "delay", "done"}]
  /\ attempt \in [Groups -> 0 .. RetryCount]
  /\ \A g \in Groups : index[g] \in 1 .. Len(Reads[g]) /\ failed[g] \in 0 .. index[g] - 1
  /\ reconnect_task \in {"none", "sleep", "connection_lock", "open", "done"}
  /\ owner \in {"idle", "open", "running", "stop_reconnect", "stop_loop"}
  /\ cancelled \in {0} \cup Groups
  /\ connection_lock \in Seq(Groups \cup {Reconnector, Owner})
  /\ request_lock \in Seq(Groups)
  /\ writer \in {"none", "open", "eof", "dead"} /\ wire \in Seq(Nat)
  /\ device_up \in BOOLEAN
  /\ misread \in BOOLEAN
  /\ own \in [Groups -> BOOLEAN]
  /\ faults \in 0 .. MaxFaults /\ starts \in 0 .. MaxStarts

\* Too many failures in a row and CONNECTED exclude each other, though groups
\* fail, reconnect and report one another's failures in any order
\* (modbus/collector.py:1092-1093, 1119-1125, 1170-1177).
FailuresBelowLimit == state = "CONNECTED" => consecutive_failures < MaxFailures

\* When stop() has returned, no task is left, nobody holds a lock and the
\* connection is closed, whatever the tasks were waiting for
\* (collectors/base.py:307-338).
StopLeavesNothing ==
  owner = "idle" =>
    /\ \A g \in Groups : loop[g] \in {"none", "done"}
    /\ reconnect_task \in {"none", "done"}
    /\ connection_lock = <<>> /\ request_lock = <<>>
    /\ writer = "none" /\ state = "DISCONNECTED"

\* Each cycle of a group comes to its end and is reported, whatever the other
\* groups, the locks and the device do (collectors/base.py:362-392).
CyclesEnd ==
  \A g \in Groups : loop[g] \notin {"none", "sleep", "done"} ~> loop[g] \in {"sleep", "done"}

\* While the reconnect loop lives, a collector that is not connected, for
\* whatever reason, is connected again (collectors/base.py:552-570).
ReconnectsWhileAlive ==
  (owner = "running" /\ reconnect_task \in {"sleep", "connection_lock", "open"}
     /\ state # "CONNECTED")
    ~> (state = "CONNECTED" \/ owner # "running")

\* stop() returns (collectors/base.py:307-338).
StopReturns == owner \in {"stop_reconnect", "stop_loop"} ~> owner = "idle"

\* "On a timeout the connection is reset" (modbus/collector.py:29): no group
\* reports the answer to a request that was given up before.
AnswersMatch == ~misread

\* "If the connection is lost, reconnection is attempted with exponential
\* backoff" (collectors/base.py:537, modbus/collector.py:30).
Recovers ==
  (owner = "running" /\ state # "CONNECTED") ~> (state = "CONNECTED" \/ owner # "running")
=============================================================================
