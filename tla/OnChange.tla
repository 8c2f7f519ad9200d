------------------------------ MODULE OnChange ------------------------------
(***************************************************************************)
(* A processor between its event bus and its buffer (src/processors/base.py*)
(* BaseProcessor with GenericProcessor): what of each reading it stores, in*)
(* polling and in on_change mode, and what the consumer of the buffer knows*)
(* of the tags in the end.                                                 *)
(*                                                                         *)
(* The bus is its queue, handled in order and one event at a time          *)
(* (EventBus).  The collector, which fills it, and the publisher, which    *)
(* takes from the buffer and either confirms or puts back, are reduced to  *)
(* that.  One group of tags is modelled; groups share no tags.             *)
(***************************************************************************)
EXTENDS DataBuffer

CONSTANTS
  NumTags,       (* the tags of the group, in the order of registration     *)
  Values,        (* what a tag can read                                     *)
  None,          (* what a tag reads when its collection failed             *)
  Absent,        (* no value: not in a reading, not in the cache            *)
  Modes,         (* mode, deadband and deadband_type of the group           *)
  Readings,      (* what a collection of the group can read                 *)
  MaxReadings,   (* bound: readings the collector makes                     *)
  MaxConnects,   (* bound: connections after the first                      *)
  MaxQueued,     (* bound: events waiting in the bus                        *)
  MaxReturns     (* bound: items put back in front                          *)

Tags == 1 .. NumTags

ASSUME OnChangeAssumption ==
  /\ NumTags \in Nat \ {0}
  /\ Values \subseteq Nat
  /\ None # Absent /\ None \notin Values /\ Absent \notin Values
  /\ Modes \subseteq [mode : {"polling", "on_change"}, deadband : Nat,
                      deadband_type : {"absolute", "percent"}]
  /\ Readings \subseteq [Tags -> Values \cup {None, Absent}]
  /\ MaxReadings \in Nat /\ MaxConnects \in Nat /\ MaxReturns \in Nat
  /\ MaxQueued \in Nat

VARIABLES
  group,         (* the group's mode and deadband                           *)
  bus,           (* the queue of the event bus                              *)
  subscribed,    (* the processor has started                               *)
  value_cache,   (* _value_cache                                            *)
  storing,       (* the items put_many is about to be called with           *)
  taken,         (* the batch the publisher holds                           *)
  view,          (* what the consumer was last told of each tag             *)
  item,          (* history: every item made, with the connection its       *)
                 (* reading was reported over                               *)
  delivered,     (* history: the items the consumer has                     *)
  seen,          (* history: each tag's last processed reading              *)
  connection,    (* history: the number of the collector's connection       *)
  announced,     (* history: the last one whose COLLECTOR_CONNECTED was     *)
                 (* handled                                                 *)
  readings,      (* readings made, items put back and items refused by a    *)
  returned,      (* full buffer                                             *)
  refused

history == <<item, delivered, seen, announced>>
vars == <<bufferVars, group, bus, subscribed, value_cache, storing, taken, view,
          history, connection, readings, returned, refused>>
-----------------------------------------------------------------------------
Abs(n) == IF n < 0 THEN -n ELSE n

\* The comparison of two numbers in _is_value_changed.
Differs(old, new) ==
  CASE group.deadband = 0 -> old # new
    [] group.deadband # 0 /\ group.deadband_type = "percent" ->
         IF old = 0 THEN new # 0 ELSE Abs(new - old) * 100 > group.deadband * Abs(old)
    [] OTHER -> Abs(new - old) > group.deadband

\* _is_value_changed: nothing is cached, or one of the two is None, or the
\* numbers differ.
Changed(old, new) ==
  \/ old = Absent
  \/ (old = None) # (new = None)
  \/ old \in Values /\ new \in Values /\ Differs(old, new)

\* The tags of a reading that are stored.
Stored(reading) ==
  {t \in Tags : /\ reading[t] # Absent
                /\ group.mode = "on_change" => Changed(value_cache[t], reading[t])}

\* These tags in the order of registration (one sequence).
InOrder(S) ==
  {s \in [1 .. Cardinality(S) -> S] : \A i, j \in DOMAIN s : i < j => s[i] < s[j]}

\* A mistake: the cache follows every reading, so that a slow drift is lost.
CacheFollows(reading) ==
  [t \in Tags |-> IF reading[t] # Absent THEN reading[t] ELSE value_cache[t]]

\* The cache after a reading: it remembers what was stored last.
CacheAfter(reading) ==
  [t \in Tags |->
     IF group.mode = "on_change" /\ t \in Stored(reading)
     THEN reading[t] ELSE value_cache[t]]
-----------------------------------------------------------------------------
(* The processor.                                                          *)

Start ==
  /\ ~subscribed
  /\ subscribed' = TRUE
  /\ UNCHANGED <<bufferVars, group, bus, value_cache, storing, taken, view, history,
                 connection, readings, returned, refused>>

\* The cache survives; a handler that is under way goes on.
Stop ==
  /\ subscribed
  /\ subscribed' = FALSE
  /\ UNCHANGED <<bufferVars, group, bus, value_cache, storing, taken, view, history,
                 connection, readings, returned, refused>>

\* The bus hands over its next event once the last one's handler is through.
NextEvent(kind) ==
  /\ storing = <<>>
  /\ bus # <<>>
  /\ Head(bus).kind = kind
  /\ bus' = Tail(bus)

\* A processor that has unsubscribed gets nothing: the event is lost.
EventLost ==
  /\ ~subscribed
  /\ \E kind \in {"collected", "connected"} : NextEvent(kind)
  /\ UNCHANGED <<bufferVars, group, subscribed, value_cache, storing, taken, view,
                 history, connection, readings, returned, refused>>

\* A mistake: the cache survives a reconnection.
ConnectedKeepsCache ==
  /\ subscribed
  /\ NextEvent("connected")
  /\ announced' = Head(bus).connection
  /\ UNCHANGED <<bufferVars, group, subscribed, value_cache, storing, taken, view, item,
                 delivered, seen, connection, readings, returned, refused>>

\* _on_collector_connected.
OnCollectorConnected ==
  /\ subscribed
  /\ NextEvent("connected")
  /\ value_cache' = [t \in Tags |-> Absent]
  /\ announced' = Head(bus).connection
  /\ UNCHANGED <<bufferVars, group, subscribed, storing, taken, view, item, delivered,
                 seen, connection, readings, returned, refused>>

\* _on_data_collected up to put_many: the reading becomes items, of which
\* on_change keeps those that changed, and the cache is already updated.
OnDataCollected ==
  /\ subscribed
  /\ NextEvent("collected")
  /\ LET reading == Head(bus).values
     IN  /\ \E kept \in InOrder(Stored(reading)) :
              item' = item \o [i \in DOMAIN kept |->
                        [tag |-> kept[i], value |-> reading[kept[i]],
                         connection |-> Head(bus).connection]]
         /\ storing' = [i \in 1 .. Cardinality(Stored(reading)) |-> Len(item) + i]
         /\ value_cache' = CacheAfter(reading)
         /\ seen' = [t \in Tags |-> IF reading[t] = Absent THEN seen[t]
                                    ELSE [value |-> reading[t],
                                          connection |-> Head(bus).connection]]
  /\ UNCHANGED <<bufferVars, group, subscribed, taken, view, delivered, announced,
                 connection, readings, returned, refused>>

\* put_many gets the buffer's lock; what it refuses is only logged.
Stores ==
  /\ storing # <<>>
  /\ PutMany(storing)
  /\ refused' = refused + Len(storing) - AcceptedCount(storing)
  /\ storing' = <<>>
  /\ UNCHANGED <<group, bus, subscribed, value_cache, taken, view, history, connection,
                 readings, returned>>
-----------------------------------------------------------------------------
(* The collector: a reading of the group, a failed one, and the two ways   *)
(* to connect again, none of them after the last reading (bound).  A       *)
(* reading belongs to the connection it is reported over; connection 0 is  *)
(* the first, which finds nothing in the cache.                            *)

Emit(event) ==
  /\ Len(bus) < MaxQueued
  /\ bus' = Append(bus, event)
  /\ UNCHANGED <<bufferVars, group, subscribed, value_cache, storing, taken, view,
                 history, returned, refused>>

Collects(reading) ==
  /\ readings < MaxReadings
  /\ readings' = readings + 1
  /\ Emit([kind |-> "collected", values |-> reading, connection |-> connection])
  /\ UNCHANGED connection

\* connect(), which start() and the reconnect loop call.
Connects ==
  /\ readings < MaxReadings
  /\ connection < MaxConnects
  /\ connection' = connection + 1
  /\ Emit([kind |-> "connected", connection |-> connection + 1])
  /\ UNCHANGED readings

\* _ensure_connection, in the middle of a collection: CONNECTED again, and no event.
Reconnects ==
  /\ readings < MaxReadings
  /\ connection < MaxConnects
  /\ connection' = connection + 1
  /\ UNCHANGED <<bufferVars, group, bus, subscribed, value_cache, storing, taken, view,
                 history, readings, returned, refused>>
-----------------------------------------------------------------------------
(* The publisher.                                                          *)

Takes ==
  /\ taken = <<>>
  /\ GetBatch(BatchSize)
  /\ taken' = Batch(BatchSize)
  /\ UNCHANGED <<group, bus, subscribed, value_cache, storing, view, history,
                 connection, readings, returned, refused>>

\* The last value of tag t among the items in s, or else the value v.
LastValue(s, t, v) ==
  LET own == {x \in s : item[x].tag = t}
  IN  IF own = {} THEN v
      ELSE item[CHOOSE x \in own : \A y \in own : y <= x].value

Confirms ==
  /\ taken # <<>>
  /\ view' = [t \in Tags |-> LastValue(ToSet(taken), t, view[t])]
  /\ delivered' = delivered \cup ToSet(taken)
  /\ taken' = <<>>
  /\ UNCHANGED <<bufferVars, group, bus, subscribed, value_cache, storing, item, seen,
                 announced, connection, readings, returned, refused>>

\* A mistake: what a full buffer cannot take back is not accounted for.
PutsBackUnseen ==
  /\ taken # <<>>
  /\ returned + Len(taken) <= MaxReturns
  /\ buffer' = AfterPutFront(taken)
  /\ returned' = returned + Len(taken)
  /\ taken' = <<>>
  /\ UNCHANGED <<drop_oldest, stats, threshold_notified, group, bus, subscribed,
                 value_cache, storing, view, history, connection, readings, refused>>

PutsBack ==
  /\ taken # <<>>
  /\ returned + Len(taken) <= MaxReturns
  /\ PutFront(taken)
  /\ returned' = returned + Len(taken)
  /\ refused' = refused + Len(taken) - FrontCount(taken)
  /\ taken' = <<>>
  /\ UNCHANGED <<group, bus, subscribed, value_cache, storing, view, history,
                 connection, readings>>
-----------------------------------------------------------------------------
Init ==
  /\ BufferInit
  /\ group \in Modes
  /\ bus = <<>> /\ subscribed = FALSE
  /\ value_cache = [t \in Tags |-> Absent]
  /\ storing = <<>> /\ taken = <<>>
  /\ view = [t \in Tags |-> Absent]
  /\ item = <<>> /\ delivered = {} /\ announced = 0
  /\ seen = [t \in Tags |-> [value |-> Absent, connection |-> 0]]
  /\ connection = 0 /\ readings = 0 /\ returned = 0 /\ refused = 0

Next ==
  \/ Start \/ Stop \/ EventLost \/ OnCollectorConnected \/ OnDataCollected \/ Stores
  \/ \E reading \in Readings : Collects(reading)
  \/ Connects \/ Reconnects
  \/ Takes \/ Confirms \/ PutsBack

Spec == Init /\ [][Next]_vars
-----------------------------------------------------------------------------
(* Properties.                                                             *)

\* Every variable has its type.
TypeOK ==
  /\ BufferTypeOK
  /\ group \in Modes
  /\ \A i \in DOMAIN bus : bus[i].kind \in {"collected", "connected"}
  /\ subscribed \in BOOLEAN
  /\ value_cache \in [Tags -> Values \cup {None, Absent}]
  /\ storing \in Seq(Nat) /\ taken \in Seq(Nat)
  /\ view \in [Tags -> Values \cup {None, Absent}]
  /\ \A x \in DOMAIN item : item[x].tag \in Tags
  /\ delivered \subseteq DOMAIN item
  /\ seen \in [Tags -> [value : Values \cup {None, Absent}, connection : Nat]]
  /\ announced \in 0 .. connection
  /\ readings \in Nat /\ returned \in Nat /\ refused \in Nat

\* What the documentation of the deadband calls a change: a tag that appears,
\* fails or comes back, or a distance greater than the deadband.
Significant(old, new) ==
  \/ old = Absent
  \/ (old = None) # (new = None)
  \/ /\ old \in Values /\ new \in Values
     /\ IF group.deadband_type = "percent"
        THEN Abs(new - old) * 100 > group.deadband * Abs(old)
        ELSE Abs(new - old) > group.deadband

OnTheWay == ToSet(storing) \cup ToSet(buffer) \cup ToSet(taken)
Lost == DOMAIN item \ (OnTheWay \cup delivered)
ItemsOf(t) == {x \in DOMAIN item : item[x].tag = t}

\* What the consumer will know of a tag once it has got all that is on its
\* way differs from the last reading by no more than the deadband, however
\* slowly the value drifts, fails or comes back, however often batches are
\* put back, and across restarts of the processor; unless the very last
\* item of the tag was lost to a full buffer (processors/base.py:454-512,
\* 620-646).
NeverStale ==
  \A t \in Tags :
    seen[t].value # Absent =>
      \/ ~Significant(LastValue(OnTheWay, t, view[t]), seen[t].value)
      \/ \E x \in Lost \cap ItemsOf(t) : \A y \in ItemsOf(t) : y <= x

\* What is lost is what the buffer counted as overflow or refused: nothing
\* is lost between the cache, put_many, get_batch and put_front
\* (processors/base.py:646, buffer.py:189-237).
LossAccounted == Cardinality(Lost) = total_overflow + refused

\* A reconnection that is announced republishes: of every tag reported over
\* the last connection whose COLLECTOR_CONNECTED was handled, or over a later
\* one, an item was made of a reading from then on, changed or not.  The event
\* goes through one queue with the readings: it neither overtakes one of before
\* nor is overtaken by one of after (processors/base.py:585-592,
\* collectors/base.py:188).  A reconnection in the middle of a collection is
\* not announced (modbus/collector.py:1113-1127): after it, against
\* COLLECTOR_MODULE_GUIDE.md:444 and 458, only what has changed is published.
AnnouncementRepublishes ==
  \A t \in Tags :
    seen[t].value # Absent /\ seen[t].connection >= announced =>
      \E x \in ItemsOf(t) : item[x].connection >= announced
=============================================================================
