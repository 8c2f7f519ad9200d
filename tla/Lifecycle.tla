----------------------------- MODULE Lifecycle ------------------------------
(***************************************************************************)
(* The life of the program, from one process to the next: main() builds    *)
(* the pipeline, whose buffer loads the file an earlier process saved;     *)
(* starts it; waits for a signal; stops it part by part; and the buffer    *)
(* saves what is left.  A process may be killed at any moment.             *)
(*                                                                         *)
(* The parts are as coarse as their order matters here: a collector that   *)
(* emits readings, the bus they wait in, a processor that stores them, a   *)
(* publisher with a batch in its hands.  Their own steps are in Collector, *)
(* EventBus, OnChange and Publisher.  A step is what runs between two      *)
(* awaits at which something else can happen; writing the file is two, for *)
(* the process can be killed in between.                                   *)
(***************************************************************************)
EXTENDS Integers, FiniteSets, SequencesExt

CONSTANTS
  MaxSize,     \* max_size
  BatchSize,   \* batch_size
  Policies,    \* the values of drop_oldest that are considered
  SavedBefore, \* what the file may hold at first: by a larger max_size, too
  FlushBatch,  \* what _flush_remaining publishes of the buffer (3 times 1000)
  OldItems,    \* bound: the items of earlier processes
  MaxItems,    \* bound: those and the readings
  MaxBoots,    \* bound: the processes
  MaxFaults    \* bound: kills, failed publishes, failed saves

ASSUME LifecycleAssumption ==
  /\ MaxSize \in Nat \ {0} /\ BatchSize \in Nat \ {0} /\ Policies \subseteq BOOLEAN
  /\ SavedBefore \subseteq Seq(1 .. OldItems)
  /\ \A s \in SavedBefore : \A i, j \in DOMAIN s : s[i] = s[j] => i = j
  /\ FlushBatch \in Nat \ {0}
  /\ MaxItems \in Nat /\ OldItems \in 0 .. MaxItems
  /\ MaxBoots \in Nat /\ MaxFaults \in Nat

VARIABLES
  drop_oldest, \* _drop_oldest
  buffer,      \* _buffer
  main,        \* where main() is
  shutdown,    \* _shutdown_event
  collecting,  \* the collection loops run
  subscribed,  \* the processor has subscribed
  publishing,  \* the publish loop runs
  queue,       \* the readings in the bus
  batch,       \* what is being published
  file,        \* external: what the file holds; <<0>> if it cannot be read
  received,    \* external: items at the broker, in the order of arrival
  collected, boots, faults,
  accepted,    \* history: items the buffer has accepted
  fresh,       \* history: those of this process that are not saved
  dropped,     \* history: items a full buffer has dropped
  lost,        \* history: items lost with a process
  loaded,      \* history: how many items this process has loaded
  suspect      \* history: items that may be received again

\* The deque's operations; its statistics and its alarm are the subject of BufferUse.
Deque == INSTANCE DataBuffer WITH
  ThresholdSize <- 0, total_put <- 0, total_get <- 0, total_overflow <- 0,
  max_size_reached <- 0, threshold_notified <- FALSE

bufferVars == <<drop_oldest, buffer>>
parts == <<collecting, subscribed, publishing, queue>>
bounds == <<collected, boots, faults>>
history == <<accepted, fresh, dropped, lost, loaded, suspect>>
vars == <<bufferVars, main, shutdown, parts, batch, file, received, bounds, history>>

\* main: down, publisher and collector (start() awaits its connect), waiting (for a
\* signal), stopping (collector.stop), unpublishing (publisher.stop), flushing, shutdown
\* (of the buffer), saving, and closing (event_bus.stop).

Torn == <<0>>

Fault == faults < MaxFaults /\ faults' = faults + 1 /\ UNCHANGED <<collected, boots>>

Memory == ToSet(batch) \cup ToSet(buffer)

\* get_batch
Take(size) ==
  /\ batch' = Deque!Batch(size)
  /\ buffer' = SubSeq(buffer, Len(batch') + 1, Len(buffer))
  /\ UNCHANGED drop_oldest
-----------------------------------------------------------------------------
(* A process begins and ends *)

\* A mistake: what a broken file holds is loaded.
RestoredAnyhow == file

\* _load_from_disk: the error of a file that cannot be read is logged.
Restored == IF file = Torn THEN <<>> ELSE file

\* A mistake: the file is deleted once it is loaded.
LoadDeletes ==
  /\ buffer' = Restored
  /\ file' = <<>>

\* The file stays.
Load ==
  /\ buffer' = Restored
  /\ UNCHANGED file

\* main() up to the first await of Pipeline.start: the buffer loads the file, the bus
\* and the processor are started.
Boot ==
  /\ main = "down" /\ boots < MaxBoots
  /\ boots' = boots + 1
  /\ Load
  /\ subscribed' = TRUE
  /\ main' = "publisher"
  /\ shutdown' = FALSE
  /\ fresh' = {}
  /\ loaded' = Len(Restored)
  /\ suspect' = suspect \cup (ToSet(Restored) \cap ToSet(received))
  /\ UNCHANGED <<drop_oldest, collecting, publishing, queue, batch, received, collected,
                 faults, accepted, dropped, lost>>

\* The process is gone, with what it had in memory.
Ends ==
  /\ main' = "down"
  /\ buffer' = <<>>
  /\ queue' = <<>> /\ batch' = <<>>
  /\ collecting' = FALSE /\ subscribed' = FALSE /\ publishing' = FALSE
  /\ fresh' = {}
  /\ loaded' = 0

\* What is being published arrives or not.
ArrivesOrNot == received' \in {received, received \o batch}

\* Killed: what this process has accepted and not saved is lost, and if it was writing
\* the file all that it was to hold.
Crash ==
  /\ main # "down"
  /\ Fault
  /\ Ends
  /\ ArrivesOrNot
  /\ lost' = lost \cup fresh \cup (IF main = "saving" THEN ToSet(buffer) ELSE {})
  /\ suspect' = suspect \cup ToSet(batch)
  /\ UNCHANGED <<drop_oldest, shutdown, file, accepted, dropped>>
-----------------------------------------------------------------------------
(* main(), start_all, stop_all, Pipeline.start and Pipeline.stop *)

StartPublisher ==
  /\ main = "publisher"
  /\ publishing' = TRUE
  /\ main' = "collector"
  /\ UNCHANGED <<bufferVars, shutdown, collecting, subscribed, queue, batch, file, received,
                 bounds, history>>

\* The collector is the last; both _is_running are set and main() waits.
StartCollector ==
  /\ main = "collector"
  /\ collecting' = TRUE
  /\ main' = "waiting"
  /\ UNCHANGED <<bufferVars, shutdown, subscribed, publishing, queue, batch, file,
                 received, bounds, history>>

\* A signal, also one during the start.
Signal ==
  /\ main # "down" /\ ~shutdown
  /\ shutdown' = TRUE
  /\ UNCHANGED <<bufferVars, main, parts, batch, file, received, bounds, history>>

StopBegins ==
  /\ main = "waiting" /\ shutdown
  /\ main' = "stopping"
  /\ UNCHANGED <<bufferVars, shutdown, parts, batch, file, received, bounds, history>>

\* collector.stop() has returned, and the processor unsubscribes without an await.
StopCollector ==
  /\ main = "stopping"
  /\ collecting' = FALSE
  /\ subscribed' = FALSE
  /\ main' = "unpublishing"
  /\ UNCHANGED <<bufferVars, shutdown, publishing, queue, batch, file, received,
                 bounds, history>>

\* publisher.stop() cancels the publish loop, which abandons its batch, and flushes.
StopPublisher ==
  /\ main = "unpublishing"
  /\ publishing' = FALSE
  /\ ArrivesOrNot
  /\ lost' = lost \cup ToSet(batch)
  /\ suspect' = suspect \cup ToSet(batch)
  /\ \/ /\ buffer # <<>>
        /\ Take(FlushBatch)
        /\ main' = "flushing"
     \/ /\ UNCHANGED bufferVars
        /\ batch' = <<>>
        /\ main' = "shutdown"
  /\ UNCHANGED <<shutdown, collecting, subscribed, queue, file, bounds, accepted,
                 fresh, dropped, loaded>>

\* What cannot be flushed is lost.
Flushes ==
  /\ main = "flushing"
  /\ \/ received' = received \o batch /\ UNCHANGED <<lost, suspect, bounds>>
     \/ /\ Fault
        /\ ArrivesOrNot
        /\ lost' = lost \cup ToSet(batch)
        /\ suspect' = suspect \cup ToSet(batch)
  /\ batch' = <<>>
  /\ main' = "shutdown"
  /\ UNCHANGED <<bufferVars, shutdown, collecting, subscribed, publishing, queue, file,
                 accepted, fresh, dropped, loaded>>

\* DataBuffer.shutdown: an empty buffer leaves the file as it is.
NothingToSave ==
  /\ main = "shutdown" /\ buffer = <<>>
  /\ main' = "closing"
  /\ UNCHANGED <<bufferVars, shutdown, parts, batch, file, received, bounds, history>>

\* open() truncates the file ...
SaveBegins ==
  /\ main = "shutdown" /\ buffer # <<>>
  /\ file' = Torn
  /\ main' = "saving"
  /\ UNCHANGED <<bufferVars, shutdown, parts, batch, received, bounds, history>>

\* ... and pickle.dump() writes it, or fails, which is logged.
Saves ==
  /\ main = "saving"
  /\ \/ file' = buffer /\ UNCHANGED <<lost, bounds>>
     \/ Fault /\ lost' = lost \cup ToSet(buffer) /\ UNCHANGED file
  /\ fresh' = {}
  /\ main' = "closing"
  /\ UNCHANGED <<bufferVars, shutdown, parts, batch, received, accepted, dropped, loaded,
                 suspect>>

\* A mistake: event_bus.stop() waits without a timeout until all is processed.
StopBusWhenDrained ==
  /\ main = "closing" /\ queue = <<>>
  /\ Ends
  /\ UNCHANGED <<drop_oldest, shutdown, file, received, bounds, accepted, dropped, lost,
                 suspect>>

\* event_bus.stop() gives up after its timeout; main() returns.
StopBus ==
  /\ main = "closing"
  /\ Ends
  /\ UNCHANGED <<drop_oldest, shutdown, file, received, bounds, accepted, dropped, lost,
                 suspect>>
-----------------------------------------------------------------------------
(* The data *)

Collect ==
  /\ collecting /\ collected < MaxItems
  /\ collected' = collected + 1
  /\ queue' = Append(queue, collected')
  /\ UNCHANGED <<bufferVars, main, shutdown, collecting, subscribed, publishing,
                 batch, file, received, boots, faults, history>>

\* The bus hands a reading out, to the processor or to nobody; its loop ends as soon as
\* event_bus.stop() begins.
Store ==
  /\ queue # <<>> /\ main \notin {"saving", "closing"}
  /\ queue' = Tail(queue)
  /\ IF subscribed
     THEN /\ buffer' = Deque!AfterPut(<<Head(queue)>>)
          /\ accepted' = accepted \cup
               ToSet(SubSeq(queue, 1, Deque!AcceptedCount(<<Head(queue)>>)))
          /\ fresh' = fresh \cup (accepted' \ accepted)
          /\ dropped' = dropped \cup (ToSet(buffer) \ ToSet(buffer'))
     ELSE UNCHANGED <<buffer, accepted, fresh, dropped>>
  /\ UNCHANGED <<drop_oldest, main, shutdown, collecting, subscribed, publishing, batch, file,
                 received, bounds, lost, loaded, suspect>>

Publish ==
  /\ publishing /\ batch = <<>>
  /\ buffer # <<>>
  /\ Take(BatchSize)
  /\ UNCHANGED <<main, shutdown, parts, file, received, bounds, history>>

\* A mistake: the batch is put back although it was published.
ConfirmPutsBack ==
  /\ publishing /\ batch # <<>>
  /\ received' = received \o batch
  /\ buffer' = Deque!AfterPutFront(batch)
  /\ batch' = <<>>
  /\ UNCHANGED <<drop_oldest, main, shutdown, parts, file, bounds, history>>

Confirm ==
  /\ publishing /\ batch # <<>>
  /\ received' = received \o batch
  /\ batch' = <<>>
  /\ UNCHANGED <<bufferVars, main, shutdown, parts, file, bounds, history>>

\* The retries have failed and the batch goes back to the front.
PutBack ==
  /\ publishing /\ batch # <<>>
  /\ Fault
  /\ ArrivesOrNot
  /\ buffer' = Deque!AfterPutFront(batch)
  /\ batch' = <<>>
  /\ dropped' = dropped \cup (Memory \ ToSet(buffer'))
  /\ suspect' = suspect \cup ToSet(batch)
  /\ UNCHANGED <<drop_oldest, main, shutdown, collecting, subscribed, publishing, queue,
                 file, accepted, fresh, lost, loaded>>
-----------------------------------------------------------------------------
Init ==
  /\ drop_oldest \in Policies /\ buffer = <<>>
  /\ main = "down" /\ shutdown = FALSE
  /\ collecting = FALSE /\ subscribed = FALSE /\ publishing = FALSE
  /\ queue = <<>> /\ batch = <<>>
  /\ file \in SavedBefore /\ received = <<>>
  /\ collected = OldItems /\ boots = 0 /\ faults = 0
  /\ accepted = ToSet(file)
  /\ fresh = {} /\ dropped = {} /\ lost = {} /\ loaded = 0 /\ suspect = {}

Stop ==
  \/ StopBegins \/ StopCollector \/ StopPublisher \/ Flushes
  \/ NothingToSave \/ SaveBegins \/ Saves \/ StopBus

Next ==
  \/ Boot \/ Crash \/ Signal \/ StartPublisher \/ StartCollector \/ Stop
  \/ Collect \/ Store \/ Publish \/ Confirm \/ PutBack

\* The event loop runs main(), whose awaits all end: connects fail after a timeout, and
\* the stops do as the modules of the parts show.
Fairness == WF_vars(StartPublisher) /\ WF_vars(StartCollector) /\ WF_vars(Stop)

Spec == Init /\ [][Next]_vars /\ Fairness
-----------------------------------------------------------------------------
(* Properties *)

\* The values of the variables, of the history's too.
TypeOK ==
  /\ {buffer, batch, queue} \subseteq Seq(1 .. MaxItems)
  /\ main \in {"down", "publisher", "collector", "waiting", "stopping", "unpublishing",
               "flushing", "shutdown", "saving", "closing"}
  /\ {shutdown, collecting, subscribed, publishing} \subseteq BOOLEAN
  /\ file \in Seq(0 .. MaxItems) /\ received \in Seq(1 .. MaxItems)
  /\ loaded \in Nat
  /\ UNION {fresh, dropped, lost} \subseteq accepted

\* What the buffer has accepted is at the broker, in memory or in the file, through any
\* number of processes.  It is lost with a process only: what was accepted since the last
\* save by a kill, what was being published by a stop, all of it by a kill or an error in
\* the middle of the save; else only a full buffer drops it (manager.py:292-305,
\* buffer.py:393-430; project_overview.md:248).
Accounted ==
  accepted \subseteq ToSet(received) \cup Memory \cup ToSet(file) \cup dropped \cup lost

\* An item is published twice only if a publish of it failed or was cut off, or if a
\* process loaded it although it was published: the file is not deleted when it has been
\* loaded, and an empty buffer does not replace it (buffer.py:147-149, 408-430).
TwiceForAReason ==
  \A i, j \in DOMAIN received : i # j /\ received[i] = received[j] => received[i] \in suspect

\* A file saved with a larger max_size is loaded whole, and the buffer then never grows
\* beyond what it began with, whatever is put and put back (buffer.py:221-231, 249-263,
\* 417).
RoomForLoaded == Len(buffer) <= MaxSize \/ Len(buffer) <= loaded

\* A process that gets a signal ends, also when it comes during the start
\* (main.py:571-612, manager.py:462-482).
ShutdownEnds == (shutdown /\ main # "down") ~> main = "down"
=============================================================================
