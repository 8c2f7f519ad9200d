------------------------------ MODULE EventBus ------------------------------
(***************************************************************************)
(* The event bus (src/core/events.py, class EventBus): an unbounded queue  *)
(* that anybody fills with emit(), one processor task that hands each      *)
(* event to its handlers, one handler after the other, and the calls that  *)
(* start and stop that task.                                               *)
(*                                                                         *)
(* Events are the natural numbers in the order in which they are emitted;  *)
(* event n has the type TypeOf[n].  A step is what one coroutine does      *)
(* between two awaits: a handler may suspend, so what it does up to its    *)
(* return is one step and everybody else runs in between.  emit_now(),     *)
(* which nothing in the repository calls, is left out.                     *)
(***************************************************************************)
EXTENDS Integers, FiniteSets, SequencesExt

CONSTANTS
  Handlers,      (* the handlers, each subscribed at most once at a time    *)
  Types,         (* the event types in use                                  *)
  TypeOf,        (* the type of each event                                  *)
  HistorySize,   (* history_size                                            *)
  Patient,       (* stop()'s timeout outlasts a processor that has work     *)
  MaxEvents,     (* bound: events emitted                                   *)
  MaxStarts,     (* bound: calls of start()                                 *)
  MaxSubscribed  (* bound: calls of subscribe() and subscribe_all()         *)

ASSUME EventBusAssumption ==
  /\ MaxEvents \in Nat /\ MaxStarts \in Nat /\ MaxSubscribed \in Nat
  /\ TypeOf \in [1 .. MaxEvents -> Types]
  /\ HistorySize \in Nat \ {0}
  /\ Patient \in BOOLEAN

Global == "global"   (* where subscribe_all() registers a handler           *)
ASSUME GlobalAssumption == Global \notin Types

VARIABLES
  handlers,        (* _handlers and, at Global, _global_handlers            *)
  queue,           (* _event_queue                                          *)
  unfinished,      (* _event_queue's count of task_done() still to come     *)
  is_running,      (* _is_running                                           *)
  processor_task,  (* where _event_processor waits                          *)
  event,           (* the event being processed, 0 if none                  *)
  remaining,       (* its handlers that have not returned                   *)
  history,         (* _history                                              *)
  caller,          (* where start() or stop() is                            *)
  emitted,         (* the last event emitted                                *)
  starts,          (* calls of start()                                      *)
  subscriptions,   (* calls of subscribe() and subscribe_all()              *)
  since,           (* what had been emitted when a handler subscribed       *)
  handed,          (* the events each handler has returned from, in order   *)
  handled,         (* every event whose processing is over, in order        *)
  cut,             (* events whose processing stop() interrupted            *)
  asked            (* what had been emitted when a running bus was stopped  *)

task == <<processor_task, event, remaining>>
registry == <<handlers, subscriptions, since>>
log == <<handed, handled, cut, asked>>
vars == <<registry, queue, unfinished, is_running, task, history, caller, emitted,
          starts, log>>

\* processor_task: none (no task yet), get (queue.get), handling (in the
\* first handler of remaining), done.
\* caller: idle, running, joining (queue.join), cancelling (awaits the task).

Subscribed(h) == \E k \in Types \cup {Global} : \E i \in DOMAIN handlers[k] : handlers[k][i] = h
-----------------------------------------------------------------------------
(* subscribe(), subscribe_all() and the functions they return.             *)

Subscribe(h, k) ==
  /\ subscriptions < MaxSubscribed
  /\ ~Subscribed(h)
  /\ handlers' = [handlers EXCEPT ![k] = Append(@, h)]
  /\ subscriptions' = subscriptions + 1
  /\ since' = [since EXCEPT ![h] = emitted]
  /\ UNCHANGED <<queue, unfinished, is_running, task, history, caller, emitted,
                 starts, log>>

Unsubscribe(h, k) ==
  /\ \E i \in DOMAIN handlers[k] : handlers[k][i] = h
  /\ handlers' = [handlers EXCEPT ![k] = RemoveFirst(@, h)]
  /\ UNCHANGED <<subscriptions, since, queue, unfinished, is_running, task, history,
                 caller, emitted, starts, log>>

\* A mistake: the newest event is queued first.
EmitFirst ==
  /\ emitted < MaxEvents
  /\ emitted' = emitted + 1
  /\ queue' = <<emitted + 1>> \o queue
  /\ unfinished' = unfinished + 1
  /\ UNCHANGED <<registry, is_running, task, history, caller, starts, log>>

\* emit(), by anybody, whether or not the bus runs: it never waits.
Emit ==
  /\ emitted < MaxEvents
  /\ emitted' = emitted + 1
  /\ queue' = Append(queue, emitted + 1)
  /\ unfinished' = unfinished + 1
  /\ UNCHANGED <<registry, is_running, task, history, caller, starts, log>>
-----------------------------------------------------------------------------
(* The processor.                                                          *)

LoopHead == IF is_running THEN "get" ELSE "done"

Trim(s) ==
  IF Len(s) > HistorySize THEN SubSeq(s, Len(s) - HistorySize + 1, Len(s)) ELSE s

\* A mistake: task_done() is called twice, as by a `finally` that repeats it.
FinishTwice(e) ==
  /\ unfinished' = unfinished - 2
  /\ handled' = Append(handled, e)
  /\ event' = 0
  /\ remaining' = <<>>
  /\ processor_task' = LoopHead

\* The event's processing is over: task_done() and the head of the loop.
Finish(e) ==
  /\ unfinished' = unfinished - 1
  /\ handled' = Append(handled, e)
  /\ event' = 0
  /\ remaining' = <<>>
  /\ processor_task' = LoopHead

\* _process_event records the event and copies the list of its handlers.
ProcessorGets ==
  /\ processor_task = "get"
  /\ queue # <<>>
  /\ queue' = Tail(queue)
  /\ history' = Trim(Append(history, Head(queue)))
  /\ LET all == handlers[TypeOf[Head(queue)]] \o handlers[Global]
     IN  IF all = <<>>
         THEN Finish(Head(queue))
         ELSE /\ event' = Head(queue)
              /\ remaining' = all
              /\ processor_task' = "handling"
              /\ UNCHANGED <<unfinished, handled>>
  /\ UNCHANGED <<registry, is_running, caller, emitted, starts, handed, cut, asked>>

\* A mistake: a handler that raises ends the processing of the event.
HandlerReturnsOrEnds ==
  /\ processor_task = "handling"
  /\ handed' = [handed EXCEPT ![Head(remaining)] = Append(@, event)]
  /\ \/ Finish(event)
     \/ /\ Len(remaining) > 1
        /\ remaining' = Tail(remaining)
        /\ UNCHANGED <<unfinished, handled, event, processor_task>>
  /\ UNCHANGED <<registry, queue, is_running, history, caller, emitted, starts, cut, asked>>

\* A handler returns or raises, which is only logged: the next one's turn.
HandlerReturns ==
  /\ processor_task = "handling"
  /\ handed' = [handed EXCEPT ![Head(remaining)] = Append(@, event)]
  /\ IF Len(remaining) = 1
     THEN Finish(event)
     ELSE /\ remaining' = Tail(remaining)
          /\ UNCHANGED <<unfinished, handled, event, processor_task>>
  /\ UNCHANGED <<registry, queue, is_running, history, caller, emitted, starts, cut, asked>>

\* A mistake: the loop ends when no event has come for a second.
GetTimesOutEnds ==
  /\ processor_task = "get"
  /\ queue = <<>>
  /\ processor_task' = "done"
  /\ UNCHANGED <<registry, queue, unfinished, is_running, event, remaining, history,
                 caller, emitted, starts, log>>

\* wait_for() gave up after a second: back to the head of the loop.
GetTimesOut ==
  /\ processor_task = "get"
  /\ queue = <<>>
  /\ processor_task' = LoopHead
  /\ UNCHANGED <<registry, queue, unfinished, is_running, event, remaining, history,
                 caller, emitted, starts, log>>
-----------------------------------------------------------------------------
(* start() and stop(), called by one owner, one call after the other.      *)

Start ==
  /\ caller = "idle"
  /\ starts < MaxStarts
  /\ starts' = starts + 1
  /\ is_running' = TRUE
  /\ processor_task' = "get"
  /\ caller' = "running"
  /\ UNCHANGED <<registry, queue, unfinished, event, remaining, history, emitted, log>>

\* stop(), also of a bus that has stopped or was never started.
StopBegins ==
  /\ caller \in {"idle", "running"}
  /\ is_running' = FALSE
  /\ caller' = "joining"
  /\ asked' = IF caller = "running" THEN emitted ELSE asked
  /\ UNCHANGED <<registry, queue, unfinished, task, history, emitted, starts, handed,
                 handled, cut>>

\* What the processor could do now if it had the time.
HasWork == processor_task = "handling" \/ (processor_task = "get" /\ queue # <<>>)

\* A mistake: the interrupted event counts as done.
CancelFinishes ==
  /\ processor_task' = IF processor_task = "none" THEN "none" ELSE "done"
  /\ cut' = cut \cup (IF processor_task = "handling" THEN {event} ELSE {})
  /\ unfinished' = unfinished - (IF processor_task = "handling" THEN 1 ELSE 0)
  /\ event' = 0
  /\ remaining' = <<>>

\* The CancelledError ends the task where it waits: the handler it is in and
\* those after it, and the event's task_done(), are skipped.
Cancel ==
  /\ processor_task' = IF processor_task = "none" THEN "none" ELSE "done"
  /\ cut' = cut \cup (IF processor_task = "handling" THEN {event} ELSE {})
  /\ event' = 0
  /\ remaining' = <<>>
  /\ UNCHANGED unfinished

\* wait_for(queue.get()) already has its event and (in Python 3.10 and 3.11)
\* returns it instead of raising.
CancellationSwallowed ==
  /\ processor_task = "get"
  /\ queue # <<>>
  /\ UNCHANGED <<task, cut, unfinished>>

\* A mistake: join() without a timeout.
StopCancelsWhenJoined ==
  /\ caller = "joining"
  /\ unfinished = 0
  /\ Cancel \/ CancellationSwallowed
  /\ caller' = "cancelling"
  /\ UNCHANGED <<registry, queue, is_running, history, emitted, starts, handed,
                 handled, asked>>

\* join() returned, or timed out.
StopCancels ==
  /\ caller = "joining"
  /\ unfinished > 0 => ~(Patient /\ HasWork)
  /\ Cancel \/ CancellationSwallowed
  /\ caller' = "cancelling"
  /\ UNCHANGED <<registry, queue, is_running, history, emitted, starts, handed,
                 handled, asked>>

StopEnds ==
  /\ caller = "cancelling"
  /\ processor_task \in {"none", "done"}
  /\ caller' = "idle"
  /\ UNCHANGED <<registry, queue, unfinished, is_running, task, history, emitted,
                 starts, log>>
-----------------------------------------------------------------------------
Init ==
  /\ handlers = [k \in Types \cup {Global} |-> <<>>]
  /\ queue = <<>> /\ unfinished = 0
  /\ is_running = FALSE /\ processor_task = "none" /\ event = 0 /\ remaining = <<>>
  /\ history = <<>>
  /\ caller = "idle"
  /\ emitted = 0 /\ starts = 0 /\ subscriptions = 0
  /\ since = [h \in Handlers |-> 0]
  /\ handed = [h \in Handlers |-> <<>>]
  /\ handled = <<>>
  /\ cut = {}
  /\ asked = 0

Processor == ProcessorGets \/ HandlerReturns \/ GetTimesOut
Stop == StopCancels \/ StopEnds
Clients ==
  \/ \E h \in Handlers, k \in Types \cup {Global} : Subscribe(h, k) \/ Unsubscribe(h, k)
  \/ Emit \/ Start \/ StopBegins

Next == Processor \/ Stop \/ Clients

\* The processor runs when it can, a handler returns, join() returns or times
\* out.  Nobody has to emit, to subscribe, to start or to stop.
Fairness == WF_vars(Processor) /\ WF_vars(Stop)

Spec == Init /\ [][Next]_vars /\ Fairness
-----------------------------------------------------------------------------
(* Properties.                                                             *)

\* Every variable has its type.
TypeOK ==
  /\ handlers \in [Types \cup {Global} -> Seq(Handlers)]
  /\ queue \in Seq(Nat) /\ unfinished \in Nat
  /\ is_running \in BOOLEAN
  /\ processor_task \in {"none", "get", "handling", "done"}
  /\ event \in Nat /\ remaining \in Seq(Handlers)
  /\ history \in Seq(Nat)
  /\ caller \in {"idle", "running", "joining", "cancelling"}
  /\ emitted \in Nat /\ starts \in Nat /\ subscriptions \in Nat
  /\ since \in [Handlers -> Nat]
  /\ handed \in [Handlers -> Seq(Nat)]
  /\ handled \in Seq(Nat)
  /\ cut \in SUBSET Nat
  /\ asked \in Nat

Ascending(s) == \A i, j \in DOMAIN s : i < j => s[i] < s[j]

\* Each handler gets the events in the order of their emission and none of
\* them twice, across stops, interrupted events and restarts with a queue
\* that was left behind (events.py:321-340, 342-379).
InOrder == \A h \in Handlers : Ascending(handed[h])

\* A handler that stays subscribed from before an event is emitted gets it
\* whatever handlers before it do, subscribe or unsubscribe (events.py:299-310).
NobodySkipped ==
  \A k \in Types \cup {Global} : \A i \in DOMAIN handlers[k] :
    \A n \in DOMAIN handled :
      LET h == handlers[k][i]
          e == handled[n]
      IN  since[h] < e /\ k \in {TypeOf[e], Global} =>
            \E m \in DOMAIN handed[h] : handed[h][m] = e

\* What join() waits for: each event that is queued or being processed, and
\* each one that an earlier stop() interrupted, which therefore makes every
\* later stop() run into its timeout (events.py:331-332, 361-365).
JoinCount ==
  unfinished = Len(queue) + (IF event = 0 THEN 0 ELSE 1) + Cardinality(cut)

\* An event is processed in the end unless the bus is stopped (events.py:321-340).
EventsAreHandled ==
  \A e \in 1 .. MaxEvents :
    (caller = "running" /\ \E i \in DOMAIN queue : queue[i] = e)
      ~> ((\E i \in DOMAIN handled : handled[i] = e) \/ caller # "running")

\* stop() returns, also when join() has nothing to wait for but an event
\* that was interrupted (events.py:351-377).
StopReturns == caller \in {"joining", "cancelling"} ~> caller \in {"idle", "running"}

\* "Process the pending events" (events.py:360, and :356 of the timeout): what
\* was in the queue when a running bus was stopped is not left behind.
StopHandlesPending ==
  caller = "idle" => \A i \in DOMAIN queue : queue[i] > asked
=============================================================================
