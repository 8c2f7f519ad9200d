----------------------------- MODULE Publisher ------------------------------
(***************************************************************************)
(* The publisher of a pipeline (src/publishers/base.py, BasePublisher, with*)
(* src/publishers/rabbitmq/publisher.py), the buffer it drains, the broker *)
(* it sends to and the processor that fills the buffer.                    *)
(*                                                                         *)
(* The publisher is three coroutines of one event loop: the publish loop,  *)
(* the reconnect loop and whoever calls start() and stop().  A step is what*)
(* one of them does between two awaits.  The broker and the aio_pika       *)
(* connection are external: a message reaches the broker some time before  *)
(* its confirmation, the connection breaks at any time (MaxFaults bounds   *)
(* how often), aio_pika's robust connection comes back by itself, and a    *)
(* broken publish raises whether or not the message has arrived.           *)
(***************************************************************************)
EXTENDS DataBuffer

CONSTANTS
  MaxRetries,   (* max_retries: attempts after the first one               *)
  FlushBatch,   (* the batch _flush_remaining takes at most (1000)         *)
  MaxItems,     (* bound: items the processor stores                       *)
  MaxFaults,    (* bound: broken connections and refused messages          *)
  MaxStarts     (* bound: calls of start()                                 *)

ASSUME PublisherAssumption ==
  /\ MaxRetries \in Nat /\ FlushBatch \in Nat \ {0}
  /\ MaxItems \in Nat /\ MaxFaults \in Nat /\ MaxStarts \in Nat

VARIABLES
  is_running,           (* _is_running                                     *)
  is_connected,         (* _is_connected                                   *)
  exchange,             (* _exchange is set                                *)
  publish_task,         (* where _publish_loop waits                       *)
  reconnect_task,       (* where _reconnect_loop waits                     *)
  caller,               (* where start() or stop() is                      *)
  batch,                (* the batch being published                       *)
  attempt,              (* the attempt of _publish_with_retry              *)
  flush_size,           (* what _flush_remaining takes per round           *)
  flush_left,           (* rounds _flush_remaining has left                *)
  link,                 (* external: the AMQP connection works             *)
  broker_up,            (* external: the broker answers                    *)
  message,              (* external: the fate of the message being sent    *)
  received,             (* external: items at the broker, in arrival order *)
  produced,             (* the last item stored, and how often things      *)
  faults, starts,       (* went wrong or were started                      *)
  accepted,             (* history: items the buffer accepted              *)
  failed,               (* history: items of an attempt that failed        *)
  abandoned             (* history: items dropped by stop()                *)

tasks == <<publish_task, reconnect_task, caller>>
flush == <<flush_size, flush_left>>
network == <<link, broker_up, message, received, faults>>
history == <<produced, accepted, failed, abandoned>>
vars == <<bufferVars, is_running, is_connected, exchange, tasks, batch, attempt,
          flush, network, starts, history>>

\* publish_task: none (no task yet), sleep (not connected), get (get_batch),
\* publish (awaits the confirmation), retry (retry_delay), done.
\* reconnect_task: none, sleep (backoff), connect, done.
\* caller: idle, starting, running, stop_reconnect and stop_publish (awaits
\* the cancelled task), flush_get, flush_publish, disconnecting.
\* message: none, sent, arrived, broken.
-----------------------------------------------------------------------------
(* The publish loop.                                                       *)

\* Where the loop goes from its head: the `while` and the `if` of the loop.
LoopHead(running, connected) ==
  IF ~running THEN "done" ELSE IF connected THEN "get" ELSE "sleep"

\* The sleep ended, or get_batch timed out.
LoopWakes ==
  /\ publish_task \in {"sleep", "get"}
  /\ publish_task' = LoopHead(is_running, is_connected)
  /\ UNCHANGED <<bufferVars, is_running, is_connected, exchange, reconnect_task,
                 caller, batch, attempt, flush, network, starts, history>>

\* get_batch returned items, publish() found a connection and an exchange
\* and _do_publish now awaits the confirmation.
LoopTakes ==
  /\ publish_task = "get"
  /\ is_connected
  /\ GetBatch(BatchSize)
  /\ batch' = Batch(BatchSize)
  /\ attempt' = 0
  /\ publish_task' = "publish"
  /\ message' = "sent"
  /\ UNCHANGED <<is_running, is_connected, exchange, reconnect_task, caller, flush,
                 link, broker_up, received, faults, starts, history>>

\* publish() succeeded; what it counts nothing reads.
CountSuccess ==
  /\ message = "arrived"
  /\ message' = "none"
  /\ UNCHANGED is_connected

\* _do_publish raised or was refused: RabbitMQPublisher clears _is_connected,
\* publish() counts the failure.  `faults` grows when nothing broke outside.
CountFailure ==
  /\ \/ message = "broken" /\ UNCHANGED faults
     \/ ~link /\ message = "sent" /\ UNCHANGED faults
     \/ message = "sent" /\ link /\ faults < MaxFaults /\ faults' = faults + 1
  /\ message' = "none"
  /\ is_connected' = FALSE
  /\ failed' = failed \cup ToSet(batch)

\* A mistake: after the last retry the batch is not put back.
LoopAfterFailureDrops(n) ==
  /\ IF n < MaxRetries
     THEN publish_task' = "retry" /\ attempt' = n /\ UNCHANGED batch
     ELSE publish_task' = LoopHead(is_running, FALSE) /\ attempt' = 0 /\ batch' = <<>>
  /\ UNCHANGED bufferVars

\* A mistake: the failed batch is put back with put_many, behind the others.
LoopAfterFailurePutsLast(n) ==
  /\ IF n < MaxRetries
     THEN publish_task' = "retry" /\ attempt' = n /\ UNCHANGED <<batch, bufferVars>>
     ELSE /\ publish_task' = LoopHead(is_running, FALSE)
          /\ PutMany(batch)
          /\ batch' = <<>>
          /\ attempt' = 0

\* A mistake: one attempt too many.
LoopAfterFailureOnceMore(n) ==
  /\ IF n <= MaxRetries
     THEN publish_task' = "retry" /\ attempt' = n /\ UNCHANGED <<batch, bufferVars>>
     ELSE /\ publish_task' = LoopHead(is_running, FALSE)
          /\ PutFront(batch)
          /\ batch' = <<>>
          /\ attempt' = 0

\* Attempt n failed (and left the publisher disconnected): retry after a
\* delay, or put the batch back and go to the head of the loop.
LoopAfterFailure(n) ==
  /\ IF n < MaxRetries
     THEN publish_task' = "retry" /\ attempt' = n /\ UNCHANGED <<batch, bufferVars>>
     ELSE /\ publish_task' = LoopHead(is_running, FALSE)
          /\ PutFront(batch)
          /\ batch' = <<>>
          /\ attempt' = 0

\* A mistake: the batch is put back although it was published.
LoopConfirmedPutsBack ==
  /\ publish_task = "publish"
  /\ CountSuccess
  /\ PutFront(batch)
  /\ batch' = <<>>
  /\ attempt' = 0
  /\ publish_task' = LoopHead(is_running, is_connected)
  /\ UNCHANGED <<is_running, exchange, reconnect_task, caller, flush,
                 link, broker_up, received, faults, starts, history>>

LoopConfirmed ==
  /\ publish_task = "publish"
  /\ CountSuccess
  /\ batch' = <<>>
  /\ attempt' = 0
  /\ publish_task' = LoopHead(is_running, is_connected)
  /\ UNCHANGED <<bufferVars, is_running, exchange, reconnect_task, caller, flush,
                 link, broker_up, received, faults, starts, history>>

LoopFailed ==
  /\ publish_task = "publish"
  /\ CountFailure
  /\ LoopAfterFailure(attempt)
  /\ UNCHANGED <<is_running, exchange, reconnect_task, caller, flush, link, broker_up,
                 received, starts, produced, accepted, abandoned>>

\* The retry delay ended: publish() again, which refuses at once while
\* nobody has reconnected.
LoopRetries ==
  /\ publish_task = "retry"
  /\ is_connected
  /\ attempt' = attempt + 1
  /\ publish_task' = "publish"
  /\ message' = "sent"
  /\ UNCHANGED <<bufferVars, is_running, is_connected, exchange, reconnect_task, caller,
                 batch, flush, link, broker_up, received, faults, starts,
                 history>>

LoopRetryRefused ==
  /\ publish_task = "retry"
  /\ ~is_connected
  /\ LoopAfterFailure(attempt + 1)
  /\ UNCHANGED <<is_running, is_connected, exchange, reconnect_task, caller, flush,
                 network, starts,
                 history>>
-----------------------------------------------------------------------------
(* connect(), called by start() and by the reconnect loop.                 *)

ConnectSucceeds ==
  /\ broker_up
  /\ is_connected' = TRUE
  /\ exchange' = TRUE
  /\ link' = TRUE

ConnectFails ==
  /\ ~broker_up
  /\ is_connected' = FALSE
  /\ exchange' = FALSE
  /\ link' = FALSE

ReconnectWakes ==
  /\ reconnect_task = "sleep"
  /\ reconnect_task' = IF ~is_running THEN "done"
                       ELSE IF is_connected THEN "sleep" ELSE "connect"
  /\ UNCHANGED <<bufferVars, is_running, is_connected, exchange, publish_task, caller,
                 batch, attempt, flush, network, starts, history>>

\* A mistake: the loop ends once it has reconnected.
ReconnectsOnce ==
  /\ reconnect_task = "connect"
  /\ \/ ConnectSucceeds /\ reconnect_task' = "done"
     \/ ConnectFails /\ reconnect_task' = "sleep"
  /\ UNCHANGED <<bufferVars, is_running, publish_task, caller, batch, attempt, flush,
                 broker_up, message,
                 received, faults, starts, history>>

Reconnects ==
  /\ reconnect_task = "connect"
  /\ ConnectSucceeds \/ ConnectFails
  /\ reconnect_task' = "sleep"
  /\ UNCHANGED <<bufferVars, is_running, publish_task, caller, batch, attempt, flush,
                 broker_up, message,
                 received, faults, starts, history>>
-----------------------------------------------------------------------------
(* start() and stop().                                                     *)

StartBegins ==
  /\ caller = "idle"
  /\ starts < MaxStarts
  /\ is_running' = TRUE
  /\ caller' = "starting"
  /\ starts' = starts + 1
  /\ UNCHANGED <<bufferVars, is_connected, exchange, publish_task, reconnect_task, batch,
                 attempt, flush, network, history>>

\* The reconnect task is created only if this first connect fails.
StartEnds ==
  /\ caller = "starting"
  /\ \/ ConnectSucceeds /\ UNCHANGED reconnect_task
     \/ ConnectFails /\ reconnect_task' = "sleep"
  /\ publish_task' = LoopHead(TRUE, is_connected')
  /\ caller' = "running"
  /\ UNCHANGED <<bufferVars, is_running, batch, attempt, flush, broker_up, message, received, faults,
                 starts, history>>

\* The publish task gets a CancelledError where it awaits.  A batch it holds
\* is lost to the buffer; its message may be on the wire already.
CancelPublishTask ==
  /\ publish_task' = "done"
  /\ abandoned' = abandoned \cup ToSet(batch)
  /\ batch' = <<>>
  /\ attempt' = 0
  /\ message' = "none"
  /\ \/ UNCHANGED received
     \/ message = "sent" /\ link /\ received' = received \o batch

\* The one await at which the cancellation is lost: get_batch's wait_for (of
\* Python 3.10 and 3.11) returns the result it already has.
CancellationSwallowed ==
  /\ publish_task = "get"
  /\ buffer # <<>>
  /\ UNCHANGED <<publish_task, abandoned, batch, attempt, message, received>>

\* stop() cancels the reconnect task and awaits it, if there is one...
StopBegins ==
  /\ caller = "running"
  /\ is_running' = FALSE
  /\ reconnect_task # "none"
  /\ reconnect_task' = "done"
  /\ caller' = "stop_reconnect"
  /\ UNCHANGED <<bufferVars, is_connected, exchange, publish_task, batch, attempt, flush,
                 network, starts, history>>

\* ... and then the publish task.
StopCancels ==
  /\ \/ caller = "stop_reconnect"
     \/ caller = "running" /\ reconnect_task = "none"
  /\ is_running' = FALSE
  /\ CancelPublishTask \/ CancellationSwallowed
  /\ caller' = "stop_publish"
  /\ UNCHANGED <<bufferVars, is_connected, exchange, reconnect_task, flush, 
                 link, broker_up, faults, starts, produced, accepted, failed>>

\* A mistake: stop() does not await the publish task it has cancelled.
FlushBeginsAtOnce ==
  /\ caller = "stop_publish"
  /\ caller' = IF is_connected /\ buffer # <<>> THEN "flush_get" ELSE "disconnecting"
  /\ flush_size' = BatchLen(FlushBatch)
  /\ flush_left' = 3
  /\ UNCHANGED <<bufferVars, is_running, is_connected, exchange, publish_task,
                 reconnect_task, batch, attempt, network, starts, history>>

\* _flush_remaining, up to its loop.
FlushBegins ==
  /\ caller = "stop_publish"
  /\ publish_task = "done"
  /\ caller' = IF is_connected /\ buffer # <<>> THEN "flush_get" ELSE "disconnecting"
  /\ flush_size' = BatchLen(FlushBatch)
  /\ flush_left' = 3
  /\ UNCHANGED <<bufferVars, is_running, is_connected, exchange, publish_task,
                 reconnect_task, batch, attempt, network, starts, history>>

\* A round: get_batch, then publish(), which refuses when an earlier round
\* has lost the connection.
FlushTakes ==
  /\ caller = "flush_get"
  /\ flush_left > 0
  /\ GetBatch(flush_size)
  /\ flush_left' = flush_left - 1
  /\ IF is_connected
     THEN /\ batch' = Batch(flush_size)
          /\ message' = "sent"
          /\ caller' = "flush_publish"
          /\ UNCHANGED abandoned
     ELSE /\ abandoned' = abandoned \cup ToSet(Batch(flush_size))
          /\ UNCHANGED <<batch, message, caller>>
  /\ UNCHANGED <<is_running, is_connected, exchange, publish_task, reconnect_task,
                 attempt, flush_size, link, broker_up, received, faults,
                 starts, produced, accepted, failed>>

FlushConfirmed ==
  /\ caller = "flush_publish"
  /\ CountSuccess
  /\ batch' = <<>>
  /\ caller' = "flush_get"
  /\ UNCHANGED <<bufferVars, is_running, exchange, publish_task, reconnect_task, attempt,
                 flush, link, broker_up, received, faults, starts, history>>

FlushFailed ==
  /\ caller = "flush_publish"
  /\ CountFailure
  /\ abandoned' = abandoned \cup ToSet(batch)
  /\ batch' = <<>>
  /\ caller' = "flush_get"
  /\ UNCHANGED <<bufferVars, is_running, exchange, publish_task, reconnect_task, attempt,
                 flush, link, broker_up, received, starts, produced,
                 accepted>>

\* A mistake: the last get_batch waits without a timeout.
FlushEndsAfterRounds ==
  /\ caller = "flush_get"
  /\ flush_left = 0
  /\ caller' = "disconnecting"
  /\ UNCHANGED <<bufferVars, is_running, is_connected, exchange, publish_task,
                 reconnect_task, batch, attempt, flush, network, starts,
                 history>>

\* The three rounds are over, or get_batch timed out on an empty buffer.
FlushEnds ==
  /\ caller = "flush_get"
  /\ flush_left = 0 \/ buffer = <<>>
  /\ caller' = "disconnecting"
  /\ UNCHANGED <<bufferVars, is_running, is_connected, exchange, publish_task,
                 reconnect_task, batch, attempt, flush, network, starts,
                 history>>

\* disconnect(); a pipeline may start the publisher again afterwards.
StopEnds ==
  /\ caller = "disconnecting"
  /\ is_connected' = FALSE
  /\ exchange' = FALSE
  /\ link' = FALSE
  /\ caller' = "idle"
  /\ UNCHANGED <<bufferVars, is_running, publish_task, reconnect_task, batch, attempt,
                 flush, broker_up, message, received, faults, starts, history>>
-----------------------------------------------------------------------------
(* What is around the publisher.                                           *)

\* The processor stores the items of one collection.
Produce(k) ==
  /\ produced + k <= MaxItems
  /\ LET items == [i \in 1 .. k |-> produced + i]
     IN  /\ PutMany(items)
         /\ accepted' = accepted \cup {items[i] : i \in 1 .. AcceptedCount(items)}
  /\ produced' = produced + k
  /\ UNCHANGED <<is_running, is_connected, exchange, tasks, batch, attempt, flush,
                 network, starts, failed, abandoned>>

MessageArrives ==
  /\ message = "sent"
  /\ link
  /\ message' = "arrived"
  /\ received' = received \o batch
  /\ UNCHANGED <<bufferVars, is_running, is_connected, exchange, tasks, batch, attempt,
                 flush, link, broker_up, faults, starts, history>>

\* The connection breaks, with or without the broker: a message on its way,
\* or whose confirmation is, will never be confirmed.
LinkBreaks ==
  /\ faults < MaxFaults
  /\ faults' = faults + 1
  /\ link' = FALSE
  /\ broker_up' \in BOOLEAN
  /\ message' = IF message = "none" THEN "none" ELSE "broken"
  /\ UNCHANGED <<bufferVars, is_running, is_connected, exchange, tasks, batch, attempt,
                 flush, received, starts, history>>

BrokerReturns ==
  /\ ~broker_up
  /\ broker_up' = TRUE
  /\ UNCHANGED <<bufferVars, is_running, is_connected, exchange, tasks, batch, attempt,
                 flush, link, message, received, faults, starts, history>>

\* aio_pika.connect_robust restores the connection it once made.
LinkReturns ==
  /\ ~link
  /\ broker_up
  /\ exchange
  /\ link' = TRUE
  /\ UNCHANGED <<bufferVars, is_running, is_connected, exchange, tasks, batch, attempt,
                 flush, broker_up, message, received, faults, starts, history>>
-----------------------------------------------------------------------------
Init ==
  /\ BufferInit
  /\ is_running = FALSE /\ is_connected = FALSE /\ exchange = FALSE
  /\ publish_task = "none" /\ reconnect_task = "none" /\ caller = "idle"
  /\ batch = <<>> /\ attempt = 0 /\ flush_size = 0 /\ flush_left = 0
  /\ link = FALSE /\ broker_up \in BOOLEAN /\ message = "none" /\ received = <<>>
  /\ produced = 0 /\ faults = 0 /\ starts = 0
  /\ accepted = {} /\ failed = {} /\ abandoned = {}

PublishLoop ==
  \/ LoopWakes \/ LoopTakes \/ LoopConfirmed \/ LoopFailed
  \/ LoopRetries \/ LoopRetryRefused
ReconnectLoop == ReconnectWakes \/ Reconnects
Stop == \/ StopCancels \/ FlushBegins \/ FlushTakes \/ FlushConfirmed \/ FlushFailed
        \/ FlushEnds \/ StopEnds
Environment ==
  \/ \E k \in 1 .. BatchSize : Produce(k)
  \/ MessageArrives \/ LinkBreaks \/ BrokerReturns \/ LinkReturns

Next == PublishLoop \/ ReconnectLoop \/ StartBegins \/ StartEnds \/ StopBegins \/ Stop
        \/ Environment

\* The event loop runs every task that is ready; a sleep or a timeout ends;
\* a broker that is down comes back and a connected broker takes what it is
\* sent.  Nobody has to start or to stop the publisher, or to store an item.
Fairness ==
  /\ WF_vars(PublishLoop) /\ WF_vars(ReconnectLoop)
  /\ WF_vars(StartEnds)
  /\ WF_vars(Stop /\ caller # "running")
  /\ WF_vars(MessageArrives) /\ WF_vars(BrokerReturns) /\ WF_vars(LinkReturns)

Spec == Init /\ [][Next]_vars /\ Fairness
-----------------------------------------------------------------------------
(* Properties.                                                             *)

\* Every variable has its type, and the retries and rounds their bounds.
TypeOK ==
  /\ BufferTypeOK
  /\ is_running \in BOOLEAN /\ is_connected \in BOOLEAN /\ exchange \in BOOLEAN
  /\ publish_task \in {"none", "sleep", "get", "publish", "retry", "done"}
  /\ reconnect_task \in {"none", "sleep", "connect", "done"}
  /\ caller \in {"idle", "starting", "running", "stop_reconnect", "stop_publish",
                 "flush_get", "flush_publish", "disconnecting"}
  /\ batch \in Seq(Nat)
  /\ attempt \in 0 .. MaxRetries
  /\ flush_size \in 0 .. FlushBatch /\ flush_left \in 0 .. 3
  /\ link \in BOOLEAN /\ broker_up \in BOOLEAN
  /\ message \in {"none", "sent", "arrived", "broken"}
  /\ received \in Seq(Nat)
  /\ produced \in Nat /\ faults \in Nat /\ starts \in Nat
  /\ accepted \in SUBSET Nat /\ failed \in SUBSET Nat /\ abandoned \in SUBSET Nat

\* Items that a put accepted and that are nowhere any more.
Missing ==
  accepted \ (ToSet(buffer) \cup ToSet(batch) \cup ToSet(received)
              \cup abandoned)

\* Failed data is kept (base.py:81): while drop_oldest is set, nothing that
\* was accepted disappears but what total_overflow counts, through any
\* sequence of failures, retries and reconnections; only stop() abandons.
NoSilentLoss ==
  /\ drop_oldest => Cardinality(Missing) <= total_overflow
  /\ is_running /\ starts = 1 => abandoned = {}

\* At least once, and twice only for a reason: an item arrives again only
\* if an attempt that carried it was reported as failed (base.py:205-217, 229-231).
ResentOnlyAfterFailure ==
  \A x \in ToSet(received) :
    Cardinality({k \in DOMAIN received : received[k] = x}) > 1 => x \in failed

\* stop() flushes and disconnects only after both tasks have ended, and
\* leaves none behind (base.py:284-304).
TasksEndBeforeFlush ==
  caller \in {"flush_get", "flush_publish", "disconnecting", "idle"} =>
    publish_task \in {"none", "done"} /\ reconnect_task \in {"none", "done"}

Promise == INSTANCE Feed WITH
  Items <- 1 .. MaxItems, Capacity <- MaxSize, running <- is_running,
  waiting <- ToSet(buffer) \cup ToSet(batch), delivered <- received

\* The publish loop with its retries, the puts back, the reconnections, stop and flush
\* keep the promise of Feed: an item waits in the buffer or in the batch until the broker
\* has it, the oldest are sent first, and nothing else ends its wait than a full buffer
\* or stop() (base.py:313-376, 424-462; project_overview.md:246).
KeepsPromise == Promise!Spec

\* While the reconnect loop lives, an item in the buffer is published or
\* dropped in the end, whatever the broker did in between (base.py:313-422).
Drains ==
  \A x \in 1 .. MaxItems :
    (caller = "running" /\ reconnect_task \in {"sleep", "connect"}
       /\ x \in ToSet(buffer))
      ~> (x \notin ToSet(buffer) \cup ToSet(batch) \/ caller # "running")

\* stop() returns (base.py:276-307).
StopReturns ==
  caller \notin {"idle", "starting", "running"} ~> caller = "idle"

\* "If the connection is lost, reconnection is attempted with exponential
\* backoff" (base.py:386, and base.py:80).
Recovers ==
  (caller = "running" /\ ~is_connected) ~> (is_connected \/ caller # "running")
=============================================================================
