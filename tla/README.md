# A TLA+ model of simpleCollector

simpleCollector reads tags from PLCs and sensors, turns them into typed records
and publishes them to RabbitMQ.  It is one Python process with one asyncio event
loop (`src/src/`): a collector, an event bus, a processor, a buffer and a
publisher form a pipeline.  These modules model the parts of it whose behaviour
depends on the order in which things happen, on failures and on limits.  TLC checks them
on small instances; TLAPS proves for all of them the safety of the buffer, of the publisher, of the
event bus, of the processor, of the collector, of the process through its restarts, of the
read plan, of the streams that devices are read over and of the values read from them, and that the
publisher implements what it promises.  Every safety property that holds in a run is a theorem.

Paths such as `buffer.py:224` are relative to `src/src/core/`, `src/src/publishers/`
and so on; the exact lines of every definition are in `PROJECT.json`, `map`.

## 1. The system

```
 PLC --- Collector ---(callback)--> Pipeline --emit--> EventBus --> Processor
        one loop per group,                             queue        on_change filter,
        one connection                                               value cache
                                                                        | put_many
 broker <-- connection <-- Publisher <-- get_batch / put_front -- DataBuffer
                     publish loop, reconnect loop                 deque + file
```

All of it runs on one thread.  A coroutine runs undisturbed from one `await` that
suspends to the next, so in every module a step is what one coroutine does between
two such awaits, and the interleavings that matter are those at the awaits.

| Component | State it keeps | Operations | What makes it correct |
|---|---|---|---|
| `DataBuffer` (core/buffer.py) | deque, capacity, overflow policy, statistics, flag of the threshold alarm, persisted file | put, put_many, put_front, get_batch, get_all, clear, shutdown, load | bounded, FIFO across returned batches, every loss counted, alarm re-armed |
| `BasePublisher`, `RabbitMQPublisher` (publishers/) | running, connected, exchange, the batch in hand, two tasks | publish loop, retries, reconnect loop, start, stop with flush | nothing accepted is lost silently, first arrivals in order, duplicates only after a reported failure, drains, stop returns |
| `EventBus` (core/events.py) | handlers, queue, join count, history, one task | subscribe, emit, process, start, stop | order, every subscribed handler served, stop returns and leaves nothing running |
| `BaseProcessor` (processors/base.py) | tags per group, `_value_cache`, subscription | start, stop, on data collected, on collector connected | on_change stores changes only and never leaves the consumer with a stale value |
| `BaseCollector` (collectors/base.py) | connection state, group tasks, reconnect task, loss counters | connect, collection loop with timeout and retries, failure records, reconnect loop, start, stop | each cycle reports data or a failure, recovers, stop ends all tasks |
| Protocol collectors and processors (modbus, mc_protocol, s7_protocol, fenet) | connection, request lock, consecutive failures, read groups | register tags, connect, ensure connection, read, parse | read groups cover the tags within the limits, a tag gets its own registers, the stream stays in step |
| OPC UA collector, BLE and LoRa scanners | client library; advertisement cache, reference count, scan task | connect, read; acquire, release, scan | scanning exactly while somebody holds a reference |
| `ConfigLoader`, `TagDefinition`, `ProcessedData` (core/config.py, core/interfaces.py) | none | rows of the tag file to tags, scaling, columns | a value is published in the column of its type |
| `Pipeline`, `PipelineManager`, `main` (pipeline/manager.py, main.py) | running flags, the components, the shutdown event | start and stop in order, signals | what was accepted is accounted for across restarts; a signal ends the process |
| factory, registry, logging, status API, serializer, version | none that others depend on | wiring, output, formatting | outside this model |

Interactions.  The collector calls the pipeline's callback, which emits
`DATA_COLLECTED` (`manager.py:238-252`); the bus calls the processor's handler, one event
at a time; the processor awaits `put_many`; the publisher takes batches and puts
failed ones back in front.  `COLLECTOR_CONNECTED` travels through the same queue
and resets the processor's cache.

Hard behaviours.  Failed batches returned to a buffer that has filled up in the
meantime; a publish that fails after the broker has the message; a connection that
breaks under a waiting publish; `stop()` cancelling tasks at any await, one of which
swallows the cancellation; groups that share one connection, whose answers carry no
address and a number nobody compares, and that time out in the middle of a request or a
reconnection; answers that come in two parts, or as an exception of another length; handlers that
come and go while an event is handed out; an interrupted event and a restarted bus; a
cache that runs ahead of what is stored; a process that is killed while it saves.
`PROJECT.json`, `hazards`, lists them at their lines, with the properties aimed at
each, and those that nothing covers.

## 2. Plan

Done, in this order:

1. `DataBuffer`, `BufferUse`; `Publisher`, `EventBus`, `OnChange`, `Collector`.
2. `Feed`, what buffer and publisher promise together, and `Publisher` as a refinement of it.
3. `Lifecycle`: main(), the pipeline's start and stop, the persisted file, kills and restarts.
4. `ReadPlan`; the protocols' parsing and values (`ModbusRead`, `McRead`,
   `FenetRead`, `S7Read`); `DeviceRead`, which composes them with the connection.
5. `TagTable` and `TagRows`: the two ends of `DeviceRead`, from the tag file to the published row.
6. The proofs: buffer and read plan, then publisher with its refinement of `Feed`, event bus,
   collector, processor, process and the reading of devices, in this order; the lemmas they share are in
   `QueueLemmas`.
7. On top of the stream's proof, that of the values: a second invariant of `DeviceRead`, from which `ValuesAreOwn`
   and `NothingMissing` follow.

Worth adding next: the reference-counted scanners.

Every module is written for both tools: constants with named assumptions, one
action per operation, invariants as conjunctions, no `RECURSIVE` operator.

## 3. The modules

**`DataBuffer`** is the buffer's state and one action per method; the modules below
extend it and compose these actions with their own.  Methods hold one lock
and suspend only to wait for it or for an item, so each is one step.  Items are natural numbers in
the order of their production.

| Code | Model |
|---|---|
| `_buffer`, `_drop_oldest`, `_stats`, `_threshold_notified` | `buffer`, `drop_oldest`, `total_put` ... `max_size_reached`, `threshold_notified` |
| `put`, `put_many`, `_put_internal`, `_check_threshold` | `PutMany` (`AfterPut`, `AcceptedCount`, `Excess`) |
| `put_front` | `PutFront` (`AfterPutFront`, `FrontCount`) |
| `get_batch`, `_wait_for_data`; `get_all`; `clear` | `GetBatch`; `GetAll`; `Clear` |

**`BufferUse`** adds the smallest clients: a producer of fresh items and a
consumer that takes a batch and confirms it or puts it back.

**`Publisher`** is three coroutines over that buffer: `_publish_loop` with
`_publish_with_retry` (`publish_task`), `_reconnect_loop` (`reconnect_task`) and the caller of
`start` and `stop` with `_flush_remaining` (`caller`); each value of these variables is an
await of the code.  The broker, the AMQP connection and the fate of the one
message under way (`sent`, `arrived`, `broken`) are external: a message can arrive and its
confirmation still be lost.  Cancelling the publish task abandons the batch in hand,
whose message may arrive or not.  Not modelled: `health_check` and
the counters nothing reads.

**`Feed`** is what the two promise whatever happens inside: an item that was accepted waits until
the broker has it, the oldest are delivered first and perhaps more than once, and it is given up only
if more items wait than there is room for or by a stop.  `Publisher` implements it: `waiting` is
the deque and the batch in hand, `delivered` what has arrived, `running` is `_is_running`.
The reconnections, the retries and the waits are stutters.  A set of items is delivered as the one
sequence that has them in ascending order (`InOrder`).

**`EventBus`** is the queue, asyncio's count of unfinished tasks, the registered handlers
(by type, and at `Global` those of `subscribe_all`), the processor task with the event
and the handlers it still has to call, and the owner's `start`/`stop`.  A handler is one step
between the events of everybody else.  `Patient` says whether the timeout of `stop()`
outlasts a processor that has work to do.  `emit_now`, `wait_for` and `on` have no caller
in the program and are left out.

**`OnChange`** composes a collector that produces readings, failed readings and
reconnections, the bus reduced to its queue, the processor with its cache, the
buffer and a publisher reduced to take, confirm and put back.  A collector connects
again in two ways: `connect()`, which `start()` and the reconnect loop call, emits
`COLLECTOR_CONNECTED` (`Connects`); `_ensure_connection`, in the middle of a collection,
sets `CONNECTED` and emits nothing (`Reconnects`).  Connections are numbered for the properties: `connection` is
the present one, an event, an item and a tag's last reading have the number of the connection
they were reported over, and `announced` is the last one whose event the processor has handled.  The step in
which a reading is compared and cached (`OnDataCollected`) is apart from the one that stores
it (`Stores`), as the await of `put_many` in the code is.  What is stored is a set of tags, and
`InOrder` the one sequence that has them in the order of registration.  Values are integers;
Booleans and strings are the case `deadband = 0`.

**`Collector`** is `BaseCollector` over `ModbusCollector` and its TCP transport.  The tasks
are one `_collection_loop` per group (`loop`, with `attempt` of `_collect_with_retry` and
`index`, `failed` of `_do_collect`), `_reconnect_loop` (`reconnect_task`) and the caller of
`start` and `stop` (`owner`); each value of these is an await of the code, and
`connection_lock`, `request_lock` are the queues of the transport's two locks.  `wire`
holds the function codes of the answers the device still owes on this connection: a group takes
the first one and compares the function code only, as the code does.  The device can be
late, answer with an exception, be switched off (the connection may then end or hang
without a sign, `"dead"`) and come back; `faults` counts these.  A cancelled task leaves its locks and gives its request up;
`wait_for` may lose the cancellation when its result is there already, so
such a task goes on to the head of its loop.  `own` and `misread` are history: whether
what a cycle has read were its own answers, and whether a cycle has reported another's.

**`ReadPlan`** is the loop of `_create_read_groups` that four collectors have in the
same form: tags by rising address, a read group that is extended while gap and size allow it.
One step is one iteration.  A `rule` gives each area its gap, its limit and its unit; the unit is 16
for the bits MC reads in words.

**`TagValues`, `ModbusRead`, `McRead`, `FenetRead`, `S7Read`** are what the
collectors and processors compute: the place an address means, the size of a type, the request
of a read group, the registers of an answer, and a tag's value.  A value is not a number
but where it comes from: the sequence of the device's cells it is made of, most significant first.
Two values are equal only if they are made of the same registers in the same order,
which is stronger than equal numbers and needs no arithmetic.  The order of the bytes within a
register and the characters of a string are below that.  Each has, apart from the code, `Meant`: what an
address and a type mean.  `ParseAddress` is a set that is empty where the code raises.  `Update` is the
`dict.update` by which the reads of a collection come together, the later over the earlier.

**`TagTable`** is `_parse_tag_row`; **`TagRows`** is `process()` from a value on: the output type
that format, scale, decimals and data type decide, `apply_scaling` as the kind of its result, the column,
and what `to_dict` writes.  `FinalType` and `DbColumn` are `TagDefinition.output_type` and
`DataType.db_column`, which say the same of a tag and which `process()` does not use.

**`DeviceRead`** composes them: the tags of two groups are registered one group after the other
(`Plans`, `Registered`; an address that does not parse ends the start, `RegistrationRaises`), and then each
group collects over the connection of its protocol.

| Code | Model |
|---|---|
| `_collection_loop`, `collect`, `_do_collect` | `Begin`, `EndRead` (`pc`, `work`) |
| `_request_lock` of the transports, the one thread of the S7 executor | `lock` |
| socket, reader and writer; the requests not yet answered | `link`, `stream`, `owed` |
| `send_request`, `_receive_response`: `readexactly` of the header, then of the rest | `Sends`, `ReadsHead`, `ReadsBody`, `Outcome` |
| an exception over RTU/TCP, of which one byte too many is read | `ReadsPastException` |
| FEnet's `read(1024)` without a lock | `SendsFenet`, `WaitsForData`, `ReadsChunk` |
| snap7 in the executor | `Calls`, `CallReturns` |
| the transport's timeout, a closed stream, the group's timeout | `TimesOut`, `ConnectionLost`, `GroupTimesOut` |
| the thread of a cancelled serial read | `OrphanReads` |
| the device and the network | `Answers`, `AnswersInPart`, `Loses`, `LinkBreaks` |
| `process()` | `Processed`, `result` |

Bytes that are no answer's at that place (`Misreads`) may fail or be taken for data where no checksum is.
Reconnecting is one step here: its own interleavings, and start and stop, are `Collector`'s subject.
`given_up` and `doubtful` are history: whether a request of this connection was given up,
and whether another's answer could therefore come before this read's own.

**`Lifecycle`** is one process after the other: `Boot` loads the file, `StartPublisher` and `StartCollector`
end `Pipeline.start`, `Signal` may come at any moment, and then collector, processor,
publisher, buffer and bus are stopped in turn.  `SaveBegins` truncates the file and
`Saves` writes it or fails; `Crash` ends the process anywhere.  The parts are as coarse as their order
matters; `Deque == INSTANCE DataBuffer` are the buffer's own operators.  `accepted`, `fresh`, `dropped`, `lost`,
`loaded` and `suspect` are history.  The file is not deleted when it has been loaded, and an
empty buffer does not replace it: what it holds is published again at the next start.
The model has that, and `TwiceForAReason` counts it among the reasons.  The files it starts from
(`SavedBefore`) hold an item at most once, as what saved them was a deque in which an item is once.

`MCEventBus`, `MCOnChange`, `MCCollector`, `MCDeviceRead` and `MCLifecycle` give the constants that are
not model values.

## 4. The runs

| Run | Bounds | What it shows |
|---|---|---|
| `buffer` | capacity 3, batch 2, 6 items, 4 returns, both policies | `SizeBound`, `Accounting`, `FifoOrder`, `AlarmArmed`, `LossIsCounted` |
| `publisher` | capacity 2, batch 2, 3 items, 1 retry, 2 faults, 2 starts, drop_oldest | `NoSilentLoss`, `ResentOnlyAfterFailure`, `TasksEndBeforeFlush`; `KeepsPromise` (the refinement of `Feed`), `Drains`, `StopReturns` |
| `eventbus` | 2 handlers, 2 types, 3 events, 2 starts, 2 subscriptions, history 2 | `InOrder`, `NobodySkipped`, `JoinCount`; `EventsAreHandled`, `StopReturns` |
| `onchange` | 2 tags, 3 values, 3 readings out of 5, 2 reconnections of either kind before the last reading, 2 returns, capacity 2, both policies, polling and three deadbands | `NeverStale`, `LossAccounted`, `AnnouncementRepublishes` |
| `collector` | 2 groups with 1 and 2 reads, 1 retry, limit 2, 2 faults, 2 starts | `FailuresBelowLimit`, `StopLeavesNothing`; `CyclesEnd`, `ReconnectsWhileAlive`, `StopReturns` |
| `deviceread` | 16 devices with two groups of up to 4 tags, requests of up to 4 registers or 3 words of bits, gap 1, words of 4 bits, limit 2, 2 faults, 2 collections a group | `PlanCovers`, `WithinLimits`, `ValuesAreOwn`, `NothingMissing`, `StaysInStep` |
| `lifecycle` | capacity 2, batch 2, flush 2, 3 old and 2 new items, 2 processes, 2 faults, both policies, three files | `Accounted`, `TwiceForAReason`, `RoomForLoaded`; `ShutdownEnds` |
| `publisher_recovers` | 1 item, 1 fault, 1 start | violated: `Recovers` |
| `eventbus_stop` | 2 events, patient | violated: `StopHandlesPending` |
| `collector_answers` | no retry, 1 start | violated: `AnswersMatch` |
| `collector_recovers` | no retry, 1 fault, 1 start | violated: `Recovers` |
| `device_values` | an MC device with two bits, else as `deviceread` | violated: `EveryTagHasItsValue` |

Why the bounds suffice.  Items exceed the capacity in every run with a buffer, so
that both kinds of overflow and a return to a full buffer happen; the batch is smaller
than the capacity or equal to it; two faults let a retry fail
and a reconnection break again; two starts let a restart meet what the first stop left
behind; three events on two handlers let a handler unsubscribe its neighbour while an
event is handed out.  In `onchange` three readings make the shortest slow drift below an
absolute deadband of 1 and a percentage from zero, and the queue of the bus holds one
event while another is stored; two reconnections let one that is announced follow one that is
not, and the other way round.  In `collector` two groups are the fewest that share a
connection, two reads the fewest that fail partly, and with a limit of 2 a failure of one
group adds to a failure of the other; failures while the device is off are not counted as faults.

In `deviceread` the limits of 125, 960, 60 and 200 are 4 (the widest type takes four registers
and fits), the gaps of 100, 200, 10 and 20 are 1, and a word has 4 bits: tags are merged, overlap, are kept apart
by the gap and by the limit, and bits lie in the first word and in later ones.  `WithinLimits`
and `PlanCovers` are proved for all limits.  S7's FLOAT64 of 8 bytes is over that bound and not among the tags.
Two collections of each group let one follow on what another left on the connection, and two faults
are a late answer and one more failure.  In `lifecycle` the file may be empty, short, or longer than the capacity,
and a second process is the first to load what another saved; its capacity of 2 stands for a file of a larger configured size.

`ValuesAreOwn` and `NothingMissing` say nothing of a collection for which a given-up request of the same
connection, or another one under way, could have been answered first (`doubtful`): that this goes wrong is
the violation `collector_answers`.  They leave out (`Supported`, `RowSupported`) what no run can expect: types for which
the collector reads fewer registers than the processor needs (FEnet's DWORD and strings of several
words, S7's DWORD and BYTE, Modbus' DWORD and 64-bit integers), FEnet's 64-bit integers, of which the processor
takes one register of four, X and Y addresses whose base collector and
processor take differently, the bits of `device_values`, Modbus and S7 bytes without a scale,
which get no column, and texts and bits with a scale, decimals or a format.  These are recorded as hazards.

`AnnouncementRepublishes` is about reconnections that are announced.  Of any reconnection the guide says that it
clears the cache and the next collection publishes everything (`COLLECTOR_MODULE_GUIDE.md:444`, and 458 for
a connection lost in operation).  That is not so of `_ensure_connection` (`modbus/collector.py:1113-1127`,
`mc_protocol/collector.py:727-746`, `fenet/collector.py:361-375`, `s7_protocol/collector.py:429-443`), the usual way back once a
collector has been connected: it does not emit `COLLECTOR_CONNECTED`, the cache stays, and a tag that did
not change is not published again.  This is a sixth disagreement.  It has no run of its own because it needs none to be seen: the
step `Reconnects` leaves the bus and the cache alone, and a reading of the cached value after it stores nothing.
`NeverStale` shows that the consumer is not misled by it: what was not published again has not changed.

The five violations are disagreements of the code with its own comments:

* A publisher that was connected once and whose publish fails never reconnects: `start()`
  creates the reconnect task only when the first connect fails (`publishers/base.py:266-268`),
  and `aio_pika`'s own reconnection does not set `_is_connected` again.
* `EventBus.stop()` clears `_is_running` before it waits for the queue to drain
  (`events.py:358-362`), so the events it announces to process stay behind.
* A Modbus TCP request that times out leaves the connection open and the answer in the
  stream, and the transaction id is not compared (`modbus/collector.py:320, 354-359`): the next
  request takes the late answer for its own, although the module promises to reset
  the connection on a timeout (`modbus/collector.py:29`).
* A collector that was connected once and leaves `CONNECTED` stays so: its loops call
  `collect()` only while connected and the reconnect task was never created
  (`collectors/base.py:287-289`), against `collectors/base.py:537` and `modbus/collector.py:30`.
* The MC processor looks a bit up at a sixteenth of its address before it looks at the address
  itself (`mc_protocol/processor.py:268-279`).  With M1 and M20 in one group M20 reads 0, although
  a bit device is to be used as it is (`mc_protocol/processor.py:276`).

**Deadlock.**  `CHECK_DEADLOCK FALSE` only in the runs of `Publisher`, `Collector`, `DeviceRead` and
`Lifecycle`: one that is stopped for the last time has nothing to do, nor has a process after the last
one, or a group after its last collection.

**Fairness.**  Weak fairness of the tasks: asyncio runs every coroutine that is
ready, timeouts and sleeps end, and a handler returns.  A group of the collector has one
fairness for all it can do, so an answer, a timeout and a lost connection compete.  Of the environment only that a broker that is down
comes back, that the robust connection is restored and that a message sent over a
working connection arrives, and that a device that is off comes back.  Nobody has to produce, subscribe, start or stop.
`Drains` needs the reconnect loop alive, which is the reason it says so, and `Recovers`
shows what happens otherwise; likewise `ReconnectsWhileAlive` and `Recovers` of the collector.
In `Lifecycle` main() goes on through its start and its stop, whose awaits all end as
`StopReturns` of each part shows; no part of the data flow is fair, so `ShutdownEnds` does not rest on it.  `DeviceRead` states safety only.

## 5. The proofs

A theorem module per component, each of the form `Spec => []IInv` for one inductive invariant
`IInv`, then a theorem for each property of the runs.  They hold for every value of the
constants that the module's named assumptions admit: any capacity, batch, retries, limits,
groups, handlers, tags, deadbands and bounds.  The assumptions say what kind of thing a constant is
(a natural number, a finite set, a file of distinct items), nothing of its size.  `DeviceReadAssumption` says of the devices
that each has one of the six protocols, that a row of the tag file has a type and two natural lengths, that
tags parse to natural addresses and positive sizes, that a word has bits and that the limits are rules of `ReadPlan`, which
TLC evaluates for the devices of the run.  The bounds of TLC's runs are constants too,
so that a bound is no restriction.  Each proof has one lemma per action, in it one step per part of `IInv`.

| Module | Theorems | What the inductive invariant adds, and why |
|---|---|---|
| `BufferUseProofs` | `TypeCorrect`, `NeverTooLong`, `StatisticsAddUp`, `FirstInFirstOut`, `AlarmIsArmed`, `NoSilentOverflow` | No item in the deque or in the consumer's hands is newer than the last one produced: else a put could append an item older than the last.  For `NoSilentOverflow` (`LInv`): an item is in one place at most, and what is gone and what was returned balance the statistics; the equality follows from the cardinalities of disjoint unions. |
| `PublisherProofs` | `TypeCorrect`, `NothingRunsBesideTheFlush`, `FailedDataIsKept`, `TwiceOnlyAfterFailure`, `AlwaysOrdered`, `PublisherKeepsPromise` | `Control`: which of loop, reconnect loop and caller may be where at the same time, without which the flush could overwrite the loop's batch.  `Apart`, `Reported`, `Arrived`: an item waits in one place, one that the broker has waits only after a failure, a confirmed batch has arrived.  `LossCounted`, `Kept`: what is missing is counted, and nothing is given up before the first stop. |
| `EventBusProofs` | `TypeCorrect`, `EventsInOrder`, `NobodyIsSkipped`, `JoinCountExact` | A handler is registered in one place only; events that are over, the one under way and those in the queue are numbered in this order; whoever is entitled to the event under way has got it or has its turn to come, and not both. |
| `OnChangeProofs` | `TypeCorrect`, `ConsumerNeverStale`, `EveryLossCounted`, `EveryAnnouncementRepublishes` | `Remembered`: the newest item of a tag is within the deadband of its last reading, and the cache, unless it was reset, is that item.  `Viewed`: the consumer knows the newest item it has got.  `Ordered`: what is on the way is newer than what has arrived, so that a batch put back never makes the consumer forget a newer value.  `Counted`: `LossAccounted` as an equation between lengths. `Numbered`: the queue keeps the order of the connections, so that a `COLLECTOR_CONNECTED` is behind every reading of the connections before it and resets the cache neither early nor late. |
| `CollectorProofs` | `TypeCorrect`, `ConnectedMeansFewFailures`, `StopIsComplete` | Who is in the two locks, and that a lock's holder stands first in it; what is left while `start()` and `stop()` are under way; that a group that waits on an open connection is owed an answer; that failures and groups under way, each of which can add one, stay below a bound together. |
| `LifecycleProofs` | `TypeCorrect`, `NothingVanishes`, `TwiceOnlyForAReason`, `NeverGrowsBeyondLoad` | `Held`: up to the save the process itself has everything, the items of the file included, so that the file may be truncated.  `Kept`: outside the save everything is safe but what was accepted since.  `Once`: an item waits once.  `Control`, `Numbered`: where `main()` is, and which items there are. |
| `DeviceReadProofs` | `EveryTagIsRead`, `NoRequestTooLong` (of `ReadPlan`), `DeviceTagsAreRead`, `DeviceRequestsFit`, `TypeCorrect`, `StreamStaysInStep`, `TagsGetTheirOwnValues`, `CompleteCollectionsMissNothing` | Of the plan (`PInv`): the pending tags of the current area begin no earlier than the current group: else a tag could join a group that begins behind it.  Of the reading: `Locked`, only the first one in the lock is past sending, so that on one connection a single answer is awaited; `InStep`, the request and the pieces of its answer that are owed and have come at each place where that read can wait (`Expected`), an exception's included; `FailuresBounded`, as for the collector.  Of the values (`OwnInv`): what is owed and has come is of the request of whoever waits without a doubt, and what a collection has read so far. |

`QueueLemmas` has what several of them need: the members, the distinctness and the order of sequences, of
their concatenations and of their parts, and what `RemoveFirst` and the trimming of a deque leave.

**The refinement.**  `PublisherKeepsPromise` is `Spec => Promise!Spec`, where `Promise` is `Feed` under the
mapping of section 3.  Each of the publisher's actions is of one of ten kinds (it rests, starts, stops, takes a batch,
gives one up, sends, confirms, drops, puts back, stores), and each kind is a step of `Feed` or leaves its three
variables alone.  What `Feed` says of the order of a delivery, that it is the oldest items
in ascending order, follows from `AlwaysOrdered`.

**The values.**  `OwnInv` stands on `IInv` and adds four parts.  `PlansOwn`: the read groups of a registered group
cover the tags of all its rows.  `StreamOwn`: whoever waits without a doubt finds requests and pieces of its
own request only, and where answers are taken one by one nothing was given up.  `WorkOwn`: such a collection's data is right, that
is, every place holds the content of the device's cell at that place; it lies within the read groups, and unless a read failed it has
those of every group that is not to come any more.  `ResultsOwn` is what the two properties say.  The parts
keep each other: an answer is the asker's own because of `StreamOwn`, so what `Update` puts over right data is right, and overlapping
read groups agree on the places they share.
Below the steps are lemmas of one protocol each, which need no invariant: a request asks for the cells of its read group
(bits in words of any length included, and the first word of a read that begins inside one); the answer to it becomes
right data; in right data the processor finds the tag's own cells, with an address it has parsed for itself
and in the order of words that the collector's configuration names, unless they are not all there; and its rows are one, in the column of
the type, where they are.  What `Supported` leaves out is needed in them: without it they are false.

**Least and greatest.**  The processor's proof needs the newest of a bounded set of items.  It exists because `<` on the natural
numbers is well-founded (`Least`, `Greatest` in `QueueLemmas`); that of the values needs the longest string that was read.

TLC checked each `IInv`, and `OwnInv`, as an invariant of the component's run before its proof.

**Only model-checked.**  All liveness, which this prover does not reach: `Drains` and `StopReturns` of the
publisher, `EventsAreHandled` and `StopReturns` of the bus, `CyclesEnd`, `ReconnectsWhileAlive` and `StopReturns`
of the collector, `ShutdownEnds`.

## 6. Not modelled

OPC UA: a client library keeps the connection and its subscriptions, and what the repository adds is the
control of `BaseCollector`, which `Collector` has.  The BLE and LoRa scanners: radios and their wrappers; the reference
count is listed as a hazard.  MC over UDP, the layout of frames, byte order within a register, the characters of a string, checksums
(a broken frame is an answer that fails), arithmetic.  `PriorityBuffer`, `emit_now`, `wait_for`, the factory and the registry, which
the program does not use; several pipelines on one bus and `MultiPublisher`, which `main.py` never builds with two parts.
The YAML configuration, logging, the status API and the serializer are left out: they keep no state that
anything above depends on.
