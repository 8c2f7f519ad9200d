----------------------------- MODULE DeviceRead -----------------------------
(***************************************************************************)
(* From a device's tags to their values: the rows of the tag file, the     *)
(* registration of the tags of each collection group, whose read groups    *)
(* ReadPlan plans, the collection of a group over the connection of its    *)
(* protocol, and the rows the processor makes of what was read.  The       *)
(* protocols are Modbus in three modes, MC, FEnet and S7; what they        *)
(* compute is in a module of each.                                         *)
(*                                                                         *)
(* A step is what a group's collection does between two awaits, or         *)
(* something of the device and the network.  An answer comes in two pieces *)
(* that may arrive apart: its header and the rest.  Reconnecting is one    *)
(* step; its interleavings, retries and the start and stop of a collector  *)
(* are the subject of Collector.                                           *)
(***************************************************************************)
EXTENDS ReadPlan, TagTable, TagRows, SequencesExt, FiniteSets, TLC

CONSTANTS
  Setups,       \* devices: protocol, series, word_order and the rows of each group's tags
  NumGroups,    \* the collection groups
  MaxRegisters, \* bound: what one request may ask for, scaled down from 125, 960,
  MaxBits,      \*   1920, 60 and 200, and from 2000 coils or 960 words of bits
  MaxGap,       \* bound: the gap that is read over, scaled down from 100, 200, 10, 20
  WordBits,     \* bound: the bits of an MC word, scaled down from 16
  MaxFailures,  \* _max_consecutive_failures
  MaxFaults,    \* bound: exceptions, lost or late answers, broken connections
  MaxCollects   \* bound: collections of a group

Modbus == INSTANCE ModbusRead WITH
  MAX_REGISTERS_PER_READ <- MaxRegisters, MAX_COILS_PER_READ <- MaxBits,
  max_address_gap <- MaxGap
Mc == INSTANCE McRead WITH
  max_read_points <- MaxRegisters, bit_read_points <- MaxBits,
  max_address_gap <- MaxGap
Fenet == INSTANCE FenetRead WITH MAX_WORDS_PER_READ <- MaxRegisters, max_gap <- MaxGap
S7 == INSTANCE S7Read WITH MAX_BYTES_PER_READ <- MaxRegisters, max_gap <- MaxGap

Groups == 1 .. NumGroups

VARIABLES
  device,       \* the setup, with its tags loaded
  registering,  \* the group whose tags are being registered; all are, or 0: it raised
  read_groups,  \* _read_groups
  state,        \* _state
  failures,     \* _consecutive_failures
  pc,           \* where each group's collection waits
  work,         \* its read groups to come, what it has read and what has failed
  result,       \* what the processor made of its last collection
  lock,         \* _request_lock, or the executor of S7: its holder and who waits
  link,         \* the connection: open, at its end (eof) or closed
  owed,         \* external: the requests the device has not answered
  stream,       \* the pieces of answers that have arrived
  orphans,      \* threads of cancelled reads that still read the serial line
  given_up,     \* history: a request of this connection was given up
  faults, collects

registered == <<device, registering, read_groups>>
transport == <<lock, link, owed, stream, orphans, given_up>>
vars == <<planVars, registered, state, failures, pc, work, result, transport,
          faults, collects>>

\* pc: idle, lock (waits to send), head and body (of the answer), refused (the third
\* byte after an exception's header), read and woken (about to take what has arrived),
\* call (in snap7), cut (its connection was replaced).
Waits(g) == pc[g] \in {"head", "body", "refused", "read", "woken", "cut"}

-----------------------------------------------------------------------------
(* The protocols *)

IsModbus(c) == c.protocol \in {"tcp", "rtu_over_tcp", "rtu"}

HasRequestLock(c) == c.protocol # "fenet"

\* _do_collect of FEnet and S7 ends with the first read that fails.
EndsAtFirstFailure(c) == c.protocol \in {"fenet", "s7"}

Place(c, tag) ==
  CASE IsModbus(c)          -> Modbus!ParseAddress(tag)
    [] c.protocol = "mc"    -> Mc!ParseAddress(c, tag)
    [] c.protocol = "fenet" -> Fenet!ParseAddress(tag)
    [] c.protocol = "s7"    -> S7!ParseAddress(tag)

Size(c, tag) ==
  CASE IsModbus(c)          -> Modbus!RegisterSize(tag)
    [] c.protocol = "mc"    -> Mc!RegisterSize(tag)
    [] c.protocol = "fenet" -> Fenet!WordSize(tag)
    [] c.protocol = "s7"    -> S7!ByteSize(tag)

\* _optimize_read_groups: the tags with their areas, addresses and sizes.
Parsed(c, tags) ==
  UNION {{[area |-> p.area, address |-> p.address, size |-> Size(c, t), tag |-> t] :
            p \in Place(c, t)} : t \in tags}

Limits(c) ==
  [area \in Areas |->
     CASE IsModbus(c)          -> Modbus!Limits(area)
       [] c.protocol = "mc"    -> Mc!Limits(area)
       [] c.protocol = "fenet" -> Fenet!Limits(area)
       [] c.protocol = "s7"    -> S7!Limits(area)]

Request(g) ==
  CASE IsModbus(device)          -> Modbus!Request(g)
    [] device.protocol = "mc"    -> Mc!Request(g)
    [] device.protocol = "fenet" -> Fenet!Request(g)
    [] device.protocol = "s7"    -> S7!Request(g)

\* External: the content of the device.
Answer(request) ==
  IF device.protocol = "mc" THEN Mc!Answer(request)
  ELSE Modbus!DeviceCells(request.area, request.start, request.count)

ReadResult(g, payload) ==
  CASE IsModbus(device)          -> Modbus!ReadResult(g, payload)
    [] device.protocol = "mc"    -> Mc!ReadResult(g, payload)
    [] device.protocol = "fenet" -> Fenet!ReadResult(g, payload)
    [] device.protocol = "s7"    -> S7!ReadResult(g, payload)

\* The values the processor finds for a tag: one, or none if it raises.
Value(tag, data) ==
  CASE IsModbus(device)          -> Modbus!ParseValue(device, tag, data)
    [] device.protocol = "mc"    -> Mc!ExtractValue(device, tag, data)
    [] device.protocol = "fenet" -> Fenet!ParseValue(tag, data)
    [] device.protocol = "s7"    -> S7!ParseValue(tag, data)

\* What a tag means, and whether the code can be expected to find it.
Meant(tag) ==
  CASE IsModbus(device)          -> Modbus!Meant(device, tag)
    [] device.protocol = "mc"    -> Mc!Meant(device, tag)
    [] device.protocol = "fenet" -> Fenet!Meant(tag)
    [] device.protocol = "s7"    -> S7!Meant(tag)

Supported(g, tag) ==
  /\ RowSupported(tag)
  /\ CASE IsModbus(device)          -> Modbus!Supported(device, read_groups[g], tag)
       [] device.protocol = "mc"    -> Mc!Supported(device, read_groups[g], tag)
       [] device.protocol = "fenet" -> Fenet!Supported(tag)
       [] device.protocol = "s7"    -> S7!Supported(tag)

-----------------------------------------------------------------------------
(* register_tags, one group after the other *)

Registering == registering \in Groups

\* main(): the rows of the tag file become tags before the pipeline is created.
Loaded(setup) ==
  [setup EXCEPT !.groups =
     [g \in Groups |-> {TagOf(row) : row \in setup.groups[g]}]]

Devices == {Loaded(s) : s \in Setups}

AllParse(c, tags) == \A t \in tags : Place(c, t) # {}

Protocols == {"tcp", "rtu_over_tcp", "rtu", "mc", "fenet", "s7"}

\* A row has a type and two lengths, which are zero where there is none.
RowTypeOK(row) ==
  /\ {"data_type", "words", "colon"} \subseteq DOMAIN row
  /\ row.words \in Nat /\ row.colon \in Nat

ASSUME DeviceReadAssumption ==
  /\ NumGroups \in Nat \ {0} /\ MaxFailures \in Nat \ {0}
  /\ MaxFaults \in Nat /\ MaxCollects \in Nat /\ WordBits \in Nat \ {0}
  /\ \A s \in Setups :
       /\ {"protocol", "groups"} \subseteq DOMAIN s
       /\ s.protocol \in Protocols
       /\ \A g \in Groups : \A row \in s.groups[g] : RowTypeOK(row)
  /\ \A c \in Devices :
       /\ Limits(c) \in Rules
       /\ \A g \in Groups : Parsed(c, c.groups[g]) \in TagSets
  /\ {} \in TagSets

\* The read groups of a group's tags are planned; the next group's tags come.
Registered ==
  /\ Registering /\ Planned
  /\ AllParse(device, device.groups[registering])
  /\ read_groups' = [read_groups EXCEPT ![registering] = closed]
  /\ registering' = registering + 1
  /\ asked' = IF registering + 1 \in Groups
              THEN Parsed(device, device.groups[registering + 1]) ELSE {}
  /\ pending' = asked'
  /\ closed' = {}
  /\ UNCHANGED <<rule, current, device, state, failures, pc, work, result, transport,
                 faults, collects>>

\* The address of a tag does not parse: ValueError leaves create_pipeline.
RegistrationRaises ==
  /\ Registering
  /\ ~AllParse(device, device.groups[registering])
  /\ registering' = 0
  /\ UNCHANGED <<planVars, device, read_groups, state, failures, pc, work, result,
                 transport, faults, collects>>

Plans ==
  /\ Registering
  /\ AllParse(device, device.groups[registering])
  /\ PlanNext
  /\ UNCHANGED <<registered, state, failures, pc, work, result, transport, faults,
                 collects>>

Running == registering > NumGroups

-----------------------------------------------------------------------------
(* A collection *)

NoWork == [todo |-> {}, data |-> <<>>, failed |-> 0, doubtful |-> FALSE]
NoResult == [rows |-> <<>>, complete |-> FALSE, doubtful |-> TRUE]

\* The read group a collection is at; the order is of no consequence.
ReadGroup(g) == CHOOSE rg \in work[g].todo : TRUE

Leave(queue, g) == RemoveFirst(queue, g)

\* A mistake: a collection that ends keeps the lock.
IdleHolding(g) ==
  /\ pc' = [pc EXCEPT ![g] = "idle"]
  /\ work' = [work EXCEPT ![g] = NoWork]
  /\ UNCHANGED lock

\* The collection is over: the locks are left.
Idle(g) ==
  /\ pc' = [pc EXCEPT ![g] = "idle"]
  /\ work' = [work EXCEPT ![g] = NoWork]
  /\ lock' = Leave(lock, g)

StateAfterFailure(s) == IF failures + 1 >= MaxFailures THEN "ERROR" ELSE s

\* BaseProcessor.process: a tag without a value is left out.
Processed(g, data) ==
  [t \in device.groups[g] |-> UNION {Rows(t, v) : v \in Value(t, data) \ {None}}]

\* _read_group has returned registers or None, after which _state is s: the next read
\* group, the failure of the collection or its data.
EndRead(g, ok, registers, s) ==
  LET w == [work[g] EXCEPT !.todo = @ \ {ReadGroup(g)},
                           !.data = Update(@, registers),
                           !.failed = @ + (IF ok THEN 0 ELSE 1)]
      fails == \/ ~ok /\ EndsAtFirstFailure(device)
               \/ w.todo = {} /\ w.failed = Cardinality(read_groups[g])
  IN  \/ /\ ~fails /\ w.todo # {}
         /\ pc' = [pc EXCEPT ![g] = "lock"]
         /\ work' = [work EXCEPT ![g] = w]
         /\ lock' = IF HasRequestLock(device) THEN Append(Leave(lock, g), g) ELSE lock
         /\ state' = s
         /\ UNCHANGED <<failures, result>>
      \/ /\ fails
         /\ Idle(g)
         /\ failures' = failures + 1
         /\ state' = StateAfterFailure(s)
         /\ UNCHANGED result
      \/ /\ ~fails /\ w.todo = {}
         /\ Idle(g)
         /\ failures' = 0
         /\ state' = s
         /\ result' = [result EXCEPT ![g] =
                         [rows |-> Processed(g, w.data), complete |-> w.failed = 0,
                          doubtful |-> w.doubtful]]

ReadFails(g, s) == EndRead(g, FALSE, <<>>, s)
ReadGives(g, payload) == EndRead(g, TRUE, ReadResult(ReadGroup(g), payload), state)

-----------------------------------------------------------------------------
(* The connection *)

\* A new connection; whoever waits on the old one finds it cut.  A serial line stays:
\* the device may still answer what it was asked before.
Fresh(pcs) ==
  /\ link' = "open"
  /\ owed' = IF device.protocol = "rtu" THEN owed ELSE <<>>
  /\ stream' = <<>>
  /\ orphans' = 0
  /\ given_up' = (owed' # <<>>)
  /\ pc' = [g \in Groups |-> IF Waits(g) THEN "cut" ELSE pcs[g]]

StartsWork(g) ==
  /\ work' = [work EXCEPT ![g] = [NoWork EXCEPT !.todo = read_groups[g]]]
  /\ lock' = IF HasRequestLock(device) THEN Append(lock, g) ELSE lock

\* _collection_loop, collect and _do_collect up to the first read.
Begin(g) ==
  /\ Running /\ pc[g] = "idle" /\ state = "CONNECTED" /\ read_groups[g] # {}
  /\ collects[g] < MaxCollects
  /\ collects' = [collects EXCEPT ![g] = @ + 1]
  /\ result' = [result EXCEPT ![g] = NoResult]
  /\ \/ /\ link # "closed"
        /\ StartsWork(g)
        /\ pc' = [pc EXCEPT ![g] = "lock"]
        /\ UNCHANGED <<state, failures, link, owed, stream, orphans, given_up, faults>>
     \/ /\ link = "closed"
        /\ StartsWork(g)
        /\ Fresh([pc EXCEPT ![g] = "lock"])
        /\ failures' = 0
        /\ UNCHANGED <<state, faults>>
     \/ /\ link = "closed"
        /\ faults < MaxFaults
        /\ faults' = faults + 1
        /\ failures' = failures + 1
        /\ state' = "ERROR"
        /\ UNCHANGED <<pc, work, transport>>
  /\ UNCHANGED <<planVars, registered>>

\* The reconnect loop.
Reconnects ==
  /\ Running /\ state = "ERROR"
  /\ Fresh(pc)
  /\ state' = "CONNECTED"
  /\ failures' = 0
  /\ UNCHANGED <<planVars, registered, work, result, lock, faults, collects>>

\* A mistake: a request is sent while another waits for its answer.
MaySendBeside(g) == g \in Groups

\* Who has the right to send.
MaySend(g) == HasRequestLock(device) => Head(lock) = g

Ask(g) == Append(owed, [of |-> Request(ReadGroup(g)), begun |-> FALSE])

\* What a read is exposed to that another request's answer could come first: after a
\* request was given up, or while another is under way.
Exposed ==
  CASE device.protocol = "rtu"   -> owed # <<>> \/ orphans > 0
    [] device.protocol = "fenet" -> owed # <<>> \/ stream # <<>>
    [] OTHER                     -> given_up

\* send_request and _read_group write the request, or find the connection closed.  The
\* serial transport drops its input first.
Sends(g) ==
  /\ pc[g] = "lock" /\ MaySend(g)
  /\ device.protocol \notin {"fenet", "s7"}
  /\ \/ /\ link = "closed"
        /\ ReadFails(g, state)
        /\ UNCHANGED <<link, owed, stream, orphans, given_up>>
     \/ /\ link # "closed"
        /\ pc' = [pc EXCEPT ![g] = "head"]
        /\ work' = [work EXCEPT ![g].doubtful = @ \/ Exposed]
        /\ owed' = IF link = "open" THEN Ask(g) ELSE owed
        /\ stream' = IF device.protocol = "rtu" THEN <<>> ELSE stream
        /\ UNCHANGED <<state, failures, result, lock, link, orphans, given_up>>
  /\ UNCHANGED <<planVars, registered, faults, collects>>

-----------------------------------------------------------------------------
(* The answer: readexactly() of the header, then of the rest *)

\* The pieces after some that were taken for something they are not.
Rests == {SubSeq(stream, i, Len(stream)) : i \in 2 .. Len(stream) + 1}

\* Bytes that no device has sent as this answer: only a checksum tells them.
Misreads(g) ==
  /\ stream' \in Rests
  /\ \/ ReadFails(g, state)
     \/ /\ device.protocol \in {"tcp", "mc"}
        /\ ReadGives(g, [i \in 1 .. Request(ReadGroup(g)).count |-> <<"garbage", i>>])

\* A mistake: an exception's code stays in the stream.
ReadsHeadOnly(g) ==
  /\ pc[g] = "head" /\ stream # <<>>
  /\ device.protocol # "fenet"
  /\ \/ /\ Head(stream).part = "head"
        /\ stream' = Tail(stream)
        /\ IF Head(stream).exception THEN ReadFails(g, state)
           ELSE /\ pc' = [pc EXCEPT ![g] = "body"]
                /\ UNCHANGED <<state, failures, work, result, lock>>
     \/ Head(stream).part = "body" /\ Misreads(g)
  /\ UNCHANGED <<planVars, registered, link, owed, orphans, given_up, faults, collects>>

ReadsHead(g) ==
  /\ pc[g] = "head" /\ stream # <<>>
  /\ device.protocol # "fenet"
  /\ \/ /\ Head(stream).part = "head"
        /\ stream' = Tail(stream)
        /\ pc' = [pc EXCEPT ![g] =
             IF Head(stream).exception /\ device.protocol = "rtu_over_tcp"
             THEN "refused" ELSE "body"]
        /\ UNCHANGED <<state, failures, work, result, lock>>
     \/ Head(stream).part = "body" /\ Misreads(g)
  /\ UNCHANGED <<planVars, registered, link, owed, orphans, given_up, faults, collects>>

\* The answer is complete.  An exception gives None, and so does another function code,
\* which only Modbus TCP compares.
Outcome(g, answer) ==
  IF \/ answer.exception
     \/ /\ device.protocol = "tcp"
        /\ Modbus!FunctionCode(answer.of.area) # Modbus!FunctionCode(ReadGroup(g).area)
  THEN ReadFails(g, state)
  ELSE ReadGives(g, Answer(answer.of))

ReadsBody(g) ==
  /\ pc[g] = "body" /\ stream # <<>>
  /\ \/ /\ Head(stream).part = "body"
        /\ stream' = Tail(stream)
        /\ Outcome(g, Head(stream))
     \/ Head(stream).part = "head" /\ Misreads(g)
  /\ UNCHANGED <<planVars, registered, link, owed, orphans, given_up, faults, collects>>

\* RTU over TCP reads three bytes after an exception's header, but only two follow: the
\* third is the first of another answer, or there is none.
ReadsPastException(g) ==
  /\ pc[g] = "refused" /\ Len(stream) > 1
  /\ Misreads(g)
  /\ UNCHANGED <<planVars, registered, link, owed, orphans, given_up, faults, collects>>

-----------------------------------------------------------------------------
(* FEnet: no lock, and read(1024) of whatever has arrived *)

\* The request is written, and wait_for() will start the read.
SendsFenet(g) ==
  /\ pc[g] = "lock" /\ device.protocol = "fenet"
  /\ \/ /\ link = "closed"
        /\ ReadFails(g, state)
        /\ UNCHANGED owed
     \/ /\ link # "closed"
        /\ pc' = [pc EXCEPT ![g] = "read"]
        /\ work' = [h \in Groups |->
             [work[h] EXCEPT !.doubtful = @ \/ (h = g /\ Exposed) \/ (h # g /\ Waits(h))]]
        /\ owed' = IF link = "open" THEN Ask(g) ELSE owed
        /\ UNCHANGED <<state, failures, result, lock>>
  /\ UNCHANGED <<planVars, registered, link, stream, orphans, given_up, faults, collects>>

\* read() finds no data: it waits, but for one reader at a time, or RuntimeError.
WaitsForData(g) ==
  /\ pc[g] = "read" /\ stream = <<>> /\ link = "open"
  /\ \/ /\ \A h \in Groups : pc[h] # "head"
        /\ pc' = [pc EXCEPT ![g] = "head"]
        /\ UNCHANGED <<state, failures, work, result, lock>>
     \/ /\ \E h \in Groups : pc[h] = "head"
        /\ ReadFails(g, state)
  /\ UNCHANGED <<planVars, registered, transport, faults, collects>>

\* read() returns all that is there, nothing if another reader has taken it, and
\* _parse_read_response looks at the first answer, which must be whole.
ReadsChunk(g) ==
  /\ \/ pc[g] = "read" /\ stream # <<>>
     \/ pc[g] = "woken" /\ link = "open"
  /\ IF /\ Len(stream) > 1
        /\ stream[1].part = "head" /\ stream[2].part = "body"
        /\ ~stream[1].exception
     THEN ReadGives(g, Answer(stream[1].of))
     ELSE ReadFails(g, state)
  /\ stream' = <<>>
  /\ UNCHANGED <<planVars, registered, link, owed, orphans, given_up, faults, collects>>

-----------------------------------------------------------------------------
(* S7: snap7 in the executor's only thread *)

Calls(g) ==
  /\ pc[g] = "lock" /\ device.protocol = "s7" /\ MaySend(g)
  /\ pc' = [pc EXCEPT ![g] = "call"]
  /\ UNCHANGED <<planVars, registered, state, failures, work, result, transport, faults,
                 collects>>

CallReturns(g) ==
  /\ pc[g] = "call"
  /\ \/ /\ link = "open"
        /\ ReadGives(g, Answer(Request(ReadGroup(g))))
        /\ UNCHANGED faults
     \/ /\ link # "open"
        /\ ReadFails(g, state)
        /\ UNCHANGED faults
     \/ /\ faults < MaxFaults
        /\ faults' = faults + 1
        /\ ReadFails(g, state)
  /\ UNCHANGED <<planVars, registered, link, owed, stream, orphans, given_up, collects>>

-----------------------------------------------------------------------------
(* A read that ends without an answer *)

\* The answer can still come, or the rest of it.
GivenUp == given_up \/ owed # <<>> \/ stream # <<>>

\* Nothing is owed and nothing comes, or the device is late.
Late ==
  IF owed = <<>> THEN UNCHANGED faults
  ELSE faults < MaxFaults /\ faults' = faults + 1

\* The transport's timeout gives the request up and keeps the connection.  FEnet calls it
\* an error.
TimesOut(g) ==
  /\ pc[g] \in {"head", "body", "refused"} /\ link = "open"
  /\ stream = <<>> \/ pc[g] = "refused"
  /\ Late
  /\ given_up' = GivenUp
  /\ ReadFails(g, IF device.protocol = "fenet" THEN "ERROR" ELSE state)
  /\ UNCHANGED <<planVars, registered, link, owed, stream, orphans, collects>>

\* The stream has ended or was replaced.  Modbus closes what is now its connection.
ConnectionLost(g) ==
  /\ pc[g] = "cut" \/ (Waits(g) /\ link # "open")
  /\ link' = IF IsModbus(device) /\ device.protocol # "rtu" THEN "closed" ELSE link
  /\ ReadFails(g, state)
  /\ UNCHANGED <<planVars, registered, owed, stream, orphans, given_up, faults, collects>>

\* The group's timeout cancels the collection wherever it is.  The thread of a serial
\* read goes on.
GroupTimesOut(g) ==
  /\ pc[g] # "idle"
  /\ faults < MaxFaults
  /\ faults' = faults + 1
  /\ Idle(g)
  /\ given_up' = (given_up \/ (Waits(g) /\ GivenUp))
  /\ orphans' = IF device.protocol = "rtu" /\ pc[g] \in {"head", "body"}
                THEN orphans + 1 ELSE orphans
  /\ UNCHANGED <<planVars, registered, state, failures, result, link, owed, stream,
                 collects>>

\* Such a thread takes what arrives on the line, or its own timeout ends it.
OrphanReads ==
  /\ orphans > 0
  /\ \/ stream # <<>> /\ stream' = Tail(stream) /\ UNCHANGED orphans
     \/ orphans' = orphans - 1 /\ UNCHANGED stream
  /\ UNCHANGED <<planVars, registered, state, failures, pc, work, result, lock, link, owed,
                 given_up, faults, collects>>

-----------------------------------------------------------------------------
(* External: the device and the network *)

Piece(part, of, exception) == [part |-> part, of |-> of, exception |-> exception]

\* Pieces arrive, which wakes the reader of FEnet.
Arrive(pieces) ==
  /\ stream' = stream \o pieces
  /\ pc' = [g \in Groups |->
              IF device.protocol = "fenet" /\ pc[g] = "head" THEN "woken" ELSE pc[g]]

\* The oldest request is answered, by an exception if the device refuses it.
Answers(exception) ==
  /\ owed # <<>> /\ link = "open"
  /\ exception => faults < MaxFaults /\ ~Head(owed).begun
  /\ faults' = IF exception THEN faults + 1 ELSE faults
  /\ LET of == Head(owed).of
     IN  Arrive((IF Head(owed).begun THEN <<>> ELSE <<Piece("head", of, exception)>>)
                  \o <<Piece("body", of, exception)>>)
  /\ owed' = Tail(owed)
  /\ UNCHANGED <<planVars, registered, state, failures, work, result, lock, link, orphans,
                 given_up, collects>>

\* Its header comes first and the rest later.
AnswersInPart ==
  /\ owed # <<>> /\ link = "open"
  /\ ~Head(owed).begun
  /\ faults < MaxFaults
  /\ faults' = faults + 1
  /\ Arrive(<<Piece("head", Head(owed).of, FALSE)>>)
  /\ owed' = [owed EXCEPT ![1].begun = TRUE]
  /\ UNCHANGED <<planVars, registered, state, failures, work, result, lock, link, orphans,
                 given_up, collects>>

\* A request is lost, or its answer.
Loses ==
  /\ owed # <<>>
  /\ ~Head(owed).begun
  /\ faults < MaxFaults
  /\ faults' = faults + 1
  /\ owed' = Tail(owed)
  /\ UNCHANGED <<planVars, registered, state, failures, pc, work, result, lock, link,
                 stream, orphans, given_up, collects>>

\* The peer ends the connection, or it is reset, and what is under way is gone.
LinkBreaks ==
  /\ Running /\ link = "open" /\ device.protocol # "rtu"
  /\ faults < MaxFaults
  /\ faults' = faults + 1
  /\ link' \in IF device.protocol = "s7" THEN {"closed"} ELSE {"eof", "closed"}
  /\ owed' = <<>> /\ stream' = <<>>
  /\ UNCHANGED <<planVars, registered, state, failures, pc, work, result, lock, orphans,
                 given_up, collects>>

-----------------------------------------------------------------------------
Init ==
  /\ device \in Devices
  /\ registering = 1
  /\ read_groups = [g \in Groups |-> {}]
  /\ rule = Limits(device)
  /\ asked = Parsed(device, device.groups[1])
  /\ pending = asked /\ current = {} /\ closed = {}
  /\ state = "CONNECTED" /\ failures = 0
  /\ pc = [g \in Groups |-> "idle"]
  /\ work = [g \in Groups |-> NoWork]
  /\ result = [g \in Groups |-> NoResult]
  /\ lock = <<>> /\ link = "open" /\ owed = <<>> /\ stream = <<>>
  /\ orphans = 0 /\ given_up = FALSE
  /\ faults = 0 /\ collects = [g \in Groups |-> 0]

Reads(g) == Sends(g) \/ ReadsHead(g) \/ ReadsBody(g) \/ ReadsPastException(g)
ReadsFenet(g) == SendsFenet(g) \/ WaitsForData(g) \/ ReadsChunk(g)
ReadsS7(g) == Calls(g) \/ CallReturns(g)

Next ==
  \/ Plans \/ Registered \/ RegistrationRaises
  \/ \E g \in Groups :
       \/ Begin(g) \/ Reads(g) \/ ReadsFenet(g) \/ ReadsS7(g)
       \/ TimesOut(g) \/ ConnectionLost(g) \/ GroupTimesOut(g)
  \/ Reconnects \/ OrphanReads
  \/ (\E exception \in BOOLEAN : Answers(exception)) \/ AnswersInPart \/ Loses
  \/ LinkBreaks

Spec == Init /\ [][Next]_vars

-----------------------------------------------------------------------------
(* Properties *)

\* The values of the variables of registration, connection and collection.
TypeOK ==
  /\ device \in Devices /\ registering \in 0 .. NumGroups + 1
  /\ DOMAIN read_groups = Groups
  /\ state \in {"CONNECTED", "ERROR"}
  /\ failures \in 0 .. MaxFailures + NumGroups
  /\ pc \in [Groups -> {"idle", "lock", "read", "head", "body", "refused", "woken",
                        "call", "cut"}]
  /\ \A g \in Groups : work[g].todo \subseteq read_groups[g]
  /\ lock \in Seq(Groups) /\ Len(lock) <= NumGroups
  /\ link \in {"open", "eof", "closed"}
  /\ orphans \in 0 .. MaxFaults /\ given_up \in BOOLEAN
  /\ faults \in 0 .. MaxFaults
  /\ collects \in [Groups -> 0 .. MaxCollects]

\* A string is cut at the first register that a failed read did not bring, if the tags
\* of another read group overlap with it.
CutString(g, tag) ==
  IF tag.data_type = "STRING" /\ ~result[g].complete
  THEN {SubSeq(Meant(tag), 1, n) : n \in 0 .. Len(Meant(tag))} ELSE {}

\* A tag that gets a value gets its own: the content of its registers, in their order,
\* although the read groups merge tags, read over gaps and are cut out of answers that
\* carry no address; provided no answer of a request that was given up, or that is under
\* way beside this one (FEnet, a cancelled serial read), could be in front of its own
\* (modbus/collector.py:1250-1256, mc_protocol/collector.py:886-919, the processors).
ValuesAreOwn ==
  \A g \in Groups : ~result[g].doubtful =>
    \A t \in device.groups[g] : Supported(g, t) =>
      {row.of : row \in result[g].rows[t]} \subseteq {Meant(t), None} \cup CutString(g, t)

\* The one row the processor has made of a tag.
HasItsValue(g, tag) ==
  \E row \in result[g].rows[tag] :
    /\ result[g].rows[tag] = {row}
    /\ HoldsValue(row, tag, Meant(tag))

\* When every read of such a collection succeeded, each tag has its value: the registers
\* it needs were planned, asked for, answered, kept and found again by a processor that
\* parses the address once more by itself.
NothingMissing ==
  \A g \in Groups : result[g].complete /\ ~result[g].doubtful =>
    \A t \in device.groups[g] : Supported(g, t) => HasItsValue(g, t)

\* On a stream that is read answer by answer, a read takes all of its answer, of an
\* exception too: nothing is left for the next request unless one was given up.
StaysInStep ==
  /\ device.protocol \in {"tcp", "rtu_over_tcp", "mc"}
  /\ \A g \in Groups : ~Waits(g)
  /\ ~given_up
  => owed = <<>> /\ stream = <<>>

\* The same as NothingMissing for every type and address the protocol's documentation
\* lists, as "a bit device is used as it is" (mc_protocol/processor.py:276).
EveryTagHasItsValue ==
  \A g \in Groups : result[g].complete /\ ~result[g].doubtful =>
    \A t \in device.groups[g] : HasItsValue(g, t)
=============================================================================
