--------------------------- MODULE OnChangeProofs ---------------------------
(***************************************************************************)
(* Proofs about OnChange, for any number of tags, any values, readings,    *)
(* modes and deadbands, any capacity and any bounds: the types,            *)
(* NeverStale, LossAccounted and AnnouncementRepublishes.                  *)
(*                                                                         *)
(* NeverStale is about what will have arrived in the end, and needs three  *)
(* facts of the way there.  Remembered: the newest item of a tag is within *)
(* the deadband of its last reading, and the cache, unless it was reset,   *)
(* is that item.  Viewed: the consumer knows the newest item it has got.   *)
(* Ordered: what is on the way is newer than what the consumer has, so     *)
(* that a batch put back never makes it forget a newer value.              *)
(* LossAccounted becomes an equation between lengths (Counted), because    *)
(* ordered sequences have no duplicates.                                   *)
(*                                                                         *)
(* AnnouncementRepublishes needs that the queue keeps the order in which   *)
(* connections were made (Numbered): a COLLECTOR_CONNECTED is behind every *)
(* reading of the connections before it, so that the reset of the cache is *)
(* neither early nor late for any tag.                                     *)
(***************************************************************************)
EXTENDS OnChange, QueueLemmas

Readable == Values \cup {None, Absent}
Tagged == [tag : Tags, value : Values \cup {None}, connection : Nat]
Event ==
  [kind : {"collected"}, values : Readings, connection : Nat]
  \cup [kind : {"connected"}, connection : Nat]

\* Types, as the steps need them.
BufferTyped ==
  /\ drop_oldest \in BOOLEAN /\ threshold_notified \in BOOLEAN
  /\ total_put \in Nat /\ total_get \in Nat /\ total_overflow \in Nat
  /\ buffer \in Seq(Nat) /\ Len(buffer) <= MaxSize /\ max_size_reached \in 0 .. MaxSize

Typed ==
  /\ BufferTyped
  /\ group \in Modes /\ bus \in Seq(Event) /\ subscribed \in BOOLEAN
  /\ value_cache \in [Tags -> Readable]
  /\ storing \in Seq(Nat) /\ taken \in Seq(Nat)
  /\ view \in [Tags -> Readable]
  /\ item \in Seq(Tagged) /\ delivered \subseteq 1 .. Len(item)
  /\ seen \in [Tags -> [value : Readable, connection : Nat]]
  /\ announced \in Nat /\ connection \in Nat
  /\ readings \in Nat /\ returned \in Nat /\ refused \in Nat

\* What is known of connection n comes before event e.
Before(n, e) ==
  /\ n <= e.connection
  /\ e.kind = "connected" => n < e.connection

\* The queue is in the order of the connections, and behind what was handled.
Numbered ==
  /\ announced <= connection
  /\ \A t \in Tags : seen[t].connection <= connection
  /\ \A i \in 1 .. Len(bus) :
       /\ bus[i].connection <= connection
       /\ Before(announced, bus[i])
       /\ \A t \in Tags : Before(seen[t].connection, bus[i])
       /\ \A j \in 1 .. i - 1 : Before(bus[j].connection, bus[i])

\* Items are on their way in the order of production, behind what has arrived.
Ordered ==
  /\ Sorted(storing) /\ Sorted(buffer) /\ Sorted(taken)
  /\ Below(ToSet(taken), ToSet(buffer))
  /\ Below(ToSet(taken) \cup ToSet(buffer), ToSet(storing))
  /\ Below(delivered, OnTheWay)
  /\ OnTheWay \subseteq 1 .. Len(item)

\* Every item made is on its way, delivered, or counted as lost.
Places == Len(storing) + Len(buffer) + Len(taken)
Losses == total_overflow + refused
Counted == Len(item) = Places + Cardinality(delivered) + Losses

\* Of the items r, x is the newest one of tag t among those in s.
Newest(r, s, t, x) ==
  /\ x \in s /\ r[x].tag = t
  /\ \A y \in s : r[y].tag = t => y <= x

\* The items a reading becomes, for the tags kept.
ItemsMade(kept, reading, n) ==
  [i \in DOMAIN kept |-> [tag |-> kept[i], value |-> reading[kept[i]], connection |-> n]]

\* Of the first m items r, the newest one of tag t comes after the first n; it
\* has this value and is of this connection.
NewestAfter(r, n, m, t, v, c) ==
  \E x \in n + 1 .. m :
    r[x] = [tag |-> t, value |-> v, connection |-> c] /\ Newest(r, 1 .. m, t, x)

\* The newest item of a tag and its last reading differ by no more than the
\* deadband, and what is cached is that item, made since the cache was reset.
Remembered ==
  \A t \in Tags :
    /\ seen[t].value # Absent =>
         \E x \in 1 .. Len(item) :
           Newest(item, 1 .. Len(item), t, x) /\ ~Significant(item[x].value, seen[t].value)
    /\ group.mode = "on_change" /\ value_cache[t] # Absent =>
         \E x \in 1 .. Len(item) :
           /\ Newest(item, 1 .. Len(item), t, x)
           /\ item[x].value = value_cache[t] /\ item[x].connection >= announced

\* The consumer knows of each tag the newest item it has got.
Viewed ==
  \A t \in Tags : \A x \in delivered :
    Newest(item, delivered, t, x) => view[t] = item[x].value

\* Of a tag reported since the announced connection an item was made since.
Republished ==
  \A t \in Tags :
    seen[t].value # Absent /\ seen[t].connection >= announced =>
      \E x \in 1 .. Len(item) : item[x].tag = t /\ item[x].connection >= announced

IInv ==
  Typed /\ Numbered /\ Ordered /\ Counted /\ Remembered /\ Viewed /\ Republished
-----------------------------------------------------------------------------
(* Numbers.                                                                *)

\* What Abs returns.
LEMMA AbsProperties ==
  /\ Abs(0) = 0
  /\ \A n \in Int : Abs(n) \in Nat
BY DEF Abs

\* A value does not differ from itself.
LEMMA SameValue ==
  ASSUME group \in Modes, NEW v \in Values \cup {None}
  PROVE  ~Significant(v, v)
<1>1. /\ None # Absent /\ None \notin Values /\ Absent \notin Values /\ Values \subseteq Nat
      /\ group.deadband \in Nat
  BY OnChangeAssumption
<1>2. CASE v = None
  BY <1>1, <1>2 DEF Significant
<1>3. CASE v \in Values
  <2>1. v \in Nat /\ v - v = 0 /\ Abs(v - v) = 0 /\ Abs(v) \in Nat
    BY <1>1, <1>3, AbsProperties
  <2>2. group.deadband * Abs(v) \in Nat
    BY <1>1, <2>1
  <2>3. ~(Abs(v - v) * 100 > group.deadband * Abs(v)) /\ ~(Abs(v - v) > group.deadband)
    BY <1>1, <2>1, <2>2
  <2> QED
    BY <1>1, <1>3, <2>3 DEF Significant
<1> QED
  BY <1>2, <1>3

\* What _is_value_changed calls unchanged is within the deadband.
LEMMA UnchangedIsInsignificant ==
  ASSUME group \in Modes, NEW old \in Readable, NEW new \in Readable, ~Changed(old, new)
  PROVE  old # Absent /\ ~Significant(old, new)
<1>1. /\ None # Absent /\ None \notin Values /\ Absent \notin Values /\ Values \subseteq Nat
      /\ group.deadband \in Nat
      /\ group.deadband_type \in {"absolute", "percent"}
  BY OnChangeAssumption
<1>2. old # Absent /\ ~((old = None) # (new = None))
  BY DEF Changed
<1>3. SUFFICES ASSUME old \in Values, new \in Values
               PROVE  IF group.deadband_type = "percent"
                      THEN ~(Abs(new - old) * 100 > group.deadband * Abs(old))
                      ELSE ~(Abs(new - old) > group.deadband)
  BY <1>2 DEF Significant
<1>4. ~Differs(old, new)
  BY <1>3 DEF Changed
<1>5. old \in Nat /\ new \in Nat
  BY <1>1, <1>3
<1>6. CASE group.deadband = 0
  <2>1. old = new /\ Abs(new - old) = 0 /\ Abs(old) \in Nat
    BY <1>4, <1>5, <1>6, AbsProperties DEF Differs
  <2> QED
    BY <1>6, <2>1
<1>7. CASE group.deadband # 0 /\ group.deadband_type = "percent"
  <2>1. IF old = 0 THEN new = 0 ELSE ~(Abs(new - old) * 100 > group.deadband * Abs(old))
    BY <1>4, <1>7 DEF Differs
  <2>2. CASE old = 0
    <3>1. Abs(new - old) = 0 /\ Abs(old) = 0
      BY <2>1, <2>2, AbsProperties
    <3> QED
      BY <3>1, <1>1, <1>7
  <2> QED
    BY <2>1, <2>2, <1>7
<1>8. CASE group.deadband # 0 /\ group.deadband_type # "percent"
  BY <1>4, <1>8 DEF Differs
<1> QED
  BY <1>6, <1>7, <1>8

\* LastValue is the value of the newest of a tag's items, or what was known before.
LEMMA LastValueNewest ==
  ASSUME NEW s, s \subseteq Int, NEW t, NEW v, NEW x, Newest(item, s, t, x)
  PROVE  LastValue(s, t, v) = item[x].value
<1> DEFINE own == {y \in s : item[y].tag = t}
           c == CHOOSE y \in own : \A z \in own : z <= y
<1>1. x \in own /\ \A z \in own : z <= x
  BY DEF Newest
<1>2. c \in own /\ \A z \in own : z <= c
  BY <1>1
<1>3. \A y \in own : y \in Int
  OBVIOUS
<1> HIDE DEF own, c
<1>4. c = x
  BY <1>1, <1>2, <1>3
<1>5. LastValue(s, t, v) = IF own = {} THEN v ELSE item[c].value
  BY DEF LastValue, own, c
<1> QED
  BY <1>1, <1>4, <1>5

LEMMA LastValueNone ==
  ASSUME NEW s, NEW t, NEW v, \A y \in s : item[y].tag # t
  PROVE  LastValue(s, t, v) = v
BY DEF LastValue

LEMMA LastValueType ==
  ASSUME item \in Seq(Tagged), NEW s, s \subseteq 1 .. Len(item), NEW t,
         NEW v \in Readable
  PROVE  LastValue(s, t, v) \in Readable
<1>1. Len(item) \in Nat /\ \A x \in 1 .. Len(item) : item[x].value \in Readable
  <2>1. \A x \in 1 .. Len(item) : item[x] \in Tagged
    BY ElementOfSeq
  <2> QED
    BY <2>1, LenProperties DEF Tagged, Readable
<1>2. CASE \E y \in s : item[y].tag = t
  <2> DEFINE own == {y \in s : item[y].tag = t}
  <2>1. own # {} /\ own \subseteq 0 .. Len(item)
    <3>1. \A y \in 1 .. Len(item) : y \in 0 .. Len(item)
      BY <1>1
    <3> QED
      BY <3>1, <1>2
  <2> HIDE DEF own
  <2>2. PICK x \in own : \A y \in own : y <= x
    BY <2>1, <1>1, Greatest
  <2>3. x \in s /\ Newest(item, s, t, x)
    BY <2>2 DEF own, Newest
  <2>4. s \subseteq Int
    BY <1>1
  <2>5. LastValue(s, t, v) = item[x].value
    BY <2>3, <2>4, LastValueNewest
  <2> QED
    BY <2>3, <2>5, <1>1
<1>3. CASE \A y \in s : item[y].tag # t
  BY <1>3, LastValueNone
<1> QED
  BY <1>2, <1>3
-----------------------------------------------------------------------------
(* The queue of the bus.                                                   *)

\* An event of the present connection goes behind all that is waiting.
LEMMA EventAdded ==
  ASSUME Typed, Numbered, NEW e \in Event, bus' = Append(bus, e),
         connection' \in Nat, connection <= connection', e.connection = connection',
         e.kind = "connected" => connection < connection',
         UNCHANGED <<announced, seen>>
  PROVE  bus' \in Seq(Event) /\ Numbered'
<1>1. /\ bus \in Seq(Event) /\ Len(bus) \in Nat /\ \A i \in 1 .. Len(bus) : bus[i] \in Event
      /\ announced \in Nat /\ connection \in Nat
      /\ \A t \in Tags : seen[t].connection \in Nat
  BY LenProperties, ElementOfSeq DEF Typed
<1>2. /\ bus' \in Seq(Event) /\ Len(bus') = Len(bus) + 1
      /\ \A i \in 1 .. Len(bus) : bus'[i] = bus[i]
      /\ bus'[Len(bus) + 1] = e
  BY <1>1, AppendProperties
<1>3. \A i \in 1 .. Len(bus) : bus[i].connection \in Nat /\ bus[i].connection <= connection
  BY <1>1 DEF Numbered, Event
<1>4. \A n \in Nat : n <= connection => n <= connection' /\ Before(n, e)
  BY <1>1 DEF Before
<1>5. /\ announced' <= connection'
      /\ \A t \in Tags : seen'[t].connection <= connection'
  BY <1>1, <1>4 DEF Numbered
<1>6. ASSUME NEW i \in 1 .. Len(bus')
      PROVE  /\ bus'[i].connection <= connection'
             /\ Before(announced', bus'[i])
             /\ \A t \in Tags : Before(seen'[t].connection, bus'[i])
             /\ \A j \in 1 .. i - 1 : Before(bus'[j].connection, bus'[i])
  <2>1. CASE i \in 1 .. Len(bus)
    <3>1. bus'[i] = bus[i] /\ \A j \in 1 .. i - 1 : bus'[j] = bus[j]
      BY <2>1, <1>1, <1>2
    <3>2. bus[i].connection <= connection'
      BY <2>1, <1>3, <1>4
    <3> QED
      BY <2>1, <3>1, <3>2 DEF Numbered
  <2>2. CASE i = Len(bus) + 1
    <3>1. /\ bus'[i] = e /\ i - 1 = Len(bus)
          /\ \A j \in 1 .. i - 1 : j \in 1 .. Len(bus) /\ bus'[j] = bus[j]
      BY <2>2, <1>1, <1>2
    <3>2. Before(announced, e) /\ \A t \in Tags : Before(seen[t].connection, e)
      BY <1>1, <1>4 DEF Numbered
    <3>3. \A j \in 1 .. Len(bus) : Before(bus[j].connection, e)
      BY <1>3, <1>4
    <3> QED
      BY <3>1, <3>2, <3>3
  <2> QED
    BY <2>1, <2>2, <1>1, <1>2
<1> QED
  BY <1>2, <1>5, <1>6 DEF Numbered

\* Of the next event, everything that waits behind it is later.
LEMMA EventTaken ==
  ASSUME Typed, Numbered, bus # <<>>, bus' = Tail(bus), connection' = connection,
         announced' \in {announced, Head(bus).connection},
         \A t \in Tags : seen'[t].connection \in {seen[t].connection, Head(bus).connection}
  PROVE  Numbered'
<1>1. bus \in Seq(Event) /\ Len(bus) \in Nat \ {0}
  BY EmptySeq DEF Typed
<1>2. /\ Head(bus) = bus[1] /\ Len(bus') = Len(bus) - 1
      /\ \A i \in 1 .. Len(bus') : bus'[i] = bus[i + 1]
  BY <1>1, HeadTailProperties
<1>3. 1 \in 1 .. Len(bus) /\ bus[1].connection <= connection
  BY <1>1 DEF Numbered
<1>4. /\ announced' <= connection'
      /\ \A t \in Tags : seen'[t].connection <= connection'
  BY <1>2, <1>3 DEF Numbered
<1>5. ASSUME NEW i \in 1 .. Len(bus')
      PROVE  /\ bus'[i].connection <= connection'
             /\ Before(announced', bus'[i])
             /\ \A t \in Tags : Before(seen'[t].connection, bus'[i])
             /\ \A j \in 1 .. i - 1 : Before(bus'[j].connection, bus'[i])
  <2>1. /\ i + 1 \in 1 .. Len(bus) /\ bus'[i] = bus[i + 1]
        /\ 1 \in 1 .. (i + 1) - 1
        /\ \A j \in 1 .. i - 1 : j + 1 \in 1 .. (i + 1) - 1 /\ bus'[j] = bus[j + 1]
    BY <1>1, <1>2
  <2>2. /\ bus[i + 1].connection <= connection
        /\ Before(announced, bus[i + 1])
        /\ \A t \in Tags : Before(seen[t].connection, bus[i + 1])
        /\ \A j \in 1 .. (i + 1) - 1 : Before(bus[j].connection, bus[i + 1])
    BY <2>1 DEF Numbered
  <2>3. Before(bus[1].connection, bus[i + 1])
    BY <2>1, <2>2
  <2> QED
    BY <2>1, <2>2, <2>3, <1>2
<1> QED
  BY <1>4, <1>5 DEF Numbered
-----------------------------------------------------------------------------
(* What the invariant means for the properties.                            *)

LEMMA NothingStale ==
  ASSUME IInv
  PROVE  NeverStale
<1>1. /\ Typed /\ Ordered /\ Remembered /\ Viewed
      /\ DOMAIN item = 1 .. Len(item) /\ Len(item) \in Nat
  BY LenProperties DEF IInv, Typed
<1> SUFFICES ASSUME NEW t \in Tags, seen[t].value # Absent
             PROVE  \/ ~Significant(LastValue(OnTheWay, t, view[t]), seen[t].value)
                    \/ \E x \in Lost \cap ItemsOf(t) : \A y \in ItemsOf(t) : y <= x
  BY DEF NeverStale
<1>2. PICK x \in 1 .. Len(item) :
        /\ Newest(item, 1 .. Len(item), t, x)
        /\ ~Significant(item[x].value, seen[t].value)
  BY <1>1 DEF Remembered
<1>3. /\ x \in ItemsOf(t) /\ \A y \in ItemsOf(t) : y <= x
      /\ item[x].tag = t
  BY <1>1, <1>2 DEF ItemsOf, Newest
<1>4. /\ OnTheWay \subseteq 1 .. Len(item) /\ delivered \subseteq 1 .. Len(item)
      /\ OnTheWay \subseteq Int
  BY <1>1 DEF Ordered, Typed
<1>5. CASE x \in Lost
  BY <1>3, <1>5
<1>6. CASE x \in OnTheWay
  <2>1. Newest(item, OnTheWay, t, x)
    BY <1>2, <1>4, <1>6 DEF Newest
  <2>2. LastValue(OnTheWay, t, view[t]) = item[x].value
    BY <2>1, <1>4, LastValueNewest
  <2> QED
    BY <2>2, <1>2
<1>7. CASE x \in delivered
  <2>1. ASSUME NEW y \in OnTheWay, item[y].tag = t  PROVE FALSE
    <3>1. y <= x /\ x < y
      BY <2>1, <1>1, <1>2, <1>4, <1>7 DEF Newest, Ordered, Below
    <3>2. x \in Int /\ y \in Int
      BY <1>4
    <3> QED
      BY <3>1, <3>2
  <2>2. LastValue(OnTheWay, t, view[t]) = view[t]
    BY <2>1, LastValueNone
  <2>3. Newest(item, delivered, t, x)
    BY <1>2, <1>4, <1>7 DEF Newest
  <2>4. view[t] = item[x].value
    BY <2>3, <1>1, <1>7 DEF Viewed
  <2> QED
    BY <2>2, <2>4, <1>2
<1> QED
  BY <1>1, <1>5, <1>6, <1>7 DEF Lost

\* The members of two sets of numbers, one below the other, are different.
LEMMA BelowApart ==
  ASSUME NEW S, NEW T, S \subseteq Int, Below(S, T)
  PROVE  S \cap T = {}
<1> SUFFICES ASSUME NEW x \in S, x \in T  PROVE FALSE
  OBVIOUS
<1>1. x < x /\ x \in Int
  BY DEF Below
<1> QED
  BY <1>1

\* The size of a union of sets that do not overlap.
LEMMA UnionCount ==
  ASSUME NEW A, NEW B, IsFiniteSet(A), IsFiniteSet(B), A \cap B = {}
  PROVE  /\ IsFiniteSet(A \cup B)
         /\ Cardinality(A \cup B) = Cardinality(A) + Cardinality(B)
<1>1. Cardinality(A \cap B) = 0
  BY FS_EmptySet
<1>2. Cardinality(A) \in Nat /\ Cardinality(B) \in Nat
  BY FS_CardinalityType
<1>3. /\ IsFiniteSet(A \cup B)
      /\ Cardinality(A \cup B) = Cardinality(A) + Cardinality(B) - Cardinality(A \cap B)
  BY FS_Union
<1> QED
  BY <1>1, <1>2, <1>3

\* An ordered sequence has as many members as its length.
LEMMA SortedCount ==
  ASSUME NEW s \in Seq(Nat), Sorted(s)
  PROVE  Cardinality(ToSet(s)) = Len(s) /\ ToSet(s) \subseteq Int
<1>1. Nat \subseteq Int
  OBVIOUS
<1>2. Distinct(s)
  BY <1>1, SortedIsDistinct
<1>3. ToSet(s) \subseteq Nat
  BY Members
<1> QED
  BY <1>1, <1>2, <1>3, MemberCount

LEMMA LossesCounted ==
  ASSUME IInv
  PROVE  LossAccounted
<1>1. /\ Typed /\ Ordered /\ Counted
      /\ DOMAIN item = 1 .. Len(item) /\ Len(item) \in Nat
  BY LenProperties DEF IInv, Typed
<1> DEFINE A == ToSet(storing)
           B == ToSet(buffer)
           C == ToSet(taken)
<1>2. /\ Cardinality(A) = Len(storing) /\ Cardinality(B) = Len(buffer)
      /\ Cardinality(C) = Len(taken)
      /\ A \subseteq Int /\ B \subseteq Int /\ C \subseteq Int
  BY <1>1, SortedCount DEF Typed, BufferTyped, Ordered
<1>3. /\ A \subseteq 1 .. Len(item) /\ B \subseteq 1 .. Len(item)
      /\ C \subseteq 1 .. Len(item) /\ delivered \subseteq 1 .. Len(item)
  BY <1>1 DEF Ordered, OnTheWay, Typed
<1>4. /\ A \cap B = {} /\ A \cap C = {} /\ B \cap C = {}
      /\ A \cap delivered = {} /\ B \cap delivered = {} /\ C \cap delivered = {}
  <2>1. Below(C, B) /\ Below(C \cup B, A) /\ Below(delivered, A \cup B \cup C)
    BY <1>1 DEF Ordered, OnTheWay
  <2>2. delivered \subseteq Int /\ C \cup B \subseteq Int
    BY <1>2, <1>3
  <2> HIDE DEF A, B, C
  <2>3. C \cap B = {} /\ (C \cup B) \cap A = {} /\ delivered \cap (A \cup B \cup C) = {}
    BY <1>2, <2>1, <2>2, BelowApart
  <2> QED
    BY <2>3
<1>5. Lost = (1 .. Len(item)) \ ((A \cup B \cup C) \cup delivered)
  BY <1>1 DEF Lost, OnTheWay
<1>6. /\ Len(storing) \in Nat /\ Len(buffer) \in Nat /\ Len(taken) \in Nat
      /\ total_overflow \in Nat /\ refused \in Nat
  BY <1>1, LenProperties DEF Typed, BufferTyped
<1>7. Cardinality(delivered) \in Nat
  <2>1. IsFiniteSet(1 .. Len(item))
    BY <1>1, FS_Interval
  <2>2. IsFiniteSet(delivered)
    BY <2>1, <1>3, FS_Subset
  <2> QED
    BY <2>2, FS_CardinalityType
<1> HIDE DEF A, B, C
<1>8. Cardinality(Lost) = Len(item) - Len(storing) - Len(buffer) - Len(taken)
                            - Cardinality(delivered)
  <2> DEFINE n == Len(item)
             N == 1 .. n
             D == delivered
             AB == A \cup B
             ABC == AB \cup C
             ABCD == ABC \cup D
  <2>1. /\ n \in Nat /\ A \subseteq N /\ B \subseteq N /\ C \subseteq N /\ D \subseteq N
        /\ A \cap D = {} /\ B \cap D = {} /\ C \cap D = {}
    BY <1>1, <1>3, <1>4
  <2>2. Lost = N \ ABCD /\ Cardinality(D) = Cardinality(delivered)
    BY <1>5
  <2> HIDE DEF n, D
  <2>3. IsFiniteSet(N) /\ Cardinality(N) = n
    BY <2>1, FS_Interval
  <2>4. ABCD \subseteq N /\ AB \cap C = {} /\ ABC \cap D = {} /\ N \cap ABCD = ABCD
    BY <2>1, <1>4
  <2> HIDE DEF N
  <2>5. IsFiniteSet(A) /\ IsFiniteSet(B) /\ IsFiniteSet(C) /\ IsFiniteSet(D)
    BY <2>1, <2>3, FS_Subset
  <2>6. IsFiniteSet(AB) /\ Cardinality(AB) = Cardinality(A) + Cardinality(B)
    BY <2>5, <1>4, UnionCount
  <2> HIDE DEF AB
  <2>7. IsFiniteSet(ABC) /\ Cardinality(ABC) = Cardinality(AB) + Cardinality(C)
    BY <2>4, <2>5, <2>6, UnionCount
  <2> HIDE DEF ABC
  <2>8. IsFiniteSet(ABCD) /\ Cardinality(ABCD) = Cardinality(ABC) + Cardinality(D)
    BY <2>4, <2>5, <2>7, UnionCount
  <2> HIDE DEF ABCD
  <2>9. Cardinality(N \ ABCD) = Cardinality(N) - Cardinality(ABCD)
    <3>1. Cardinality(N \ ABCD) = Cardinality(N) - Cardinality(N \cap ABCD)
      BY <2>3, <2>8, FS_Difference
    <3> QED
      BY <3>1, <2>4
  <2>10. Cardinality(Lost) =
           n - Len(storing) - Len(buffer) - Len(taken) - Cardinality(delivered)
    BY <2>1, <2>2, <2>3, <2>6, <2>7, <2>8, <2>9, <1>2, <1>6, <1>7
  <2> QED
    BY <2>10 DEF n
<1>9. Len(item) = Len(storing) + Len(buffer) + Len(taken) + Cardinality(delivered)
                    + total_overflow + refused
  <2>1. Len(item) = Places + Cardinality(delivered) + Losses
    BY <1>1 DEF Counted
  <2>2. Places = Len(storing) + Len(buffer) + Len(taken) /\ Losses = total_overflow + refused
    BY DEF Places, Losses
  <2> QED
    BY <2>1, <2>2, <1>6, <1>7
<1>10. Len(item) \in Nat
  BY <1>1
<1>11. Cardinality(Lost) = total_overflow + refused
  BY <1>6, <1>7, <1>8, <1>9, <1>10
<1> QED
  BY <1>11 DEF LossAccounted
-----------------------------------------------------------------------------
(* The steps that leave the items alone.                                   *)

LEMMA InitInvariant == Init => IInv
<1> SUFFICES ASSUME Init  PROVE IInv
  OBVIOUS
<1>1. /\ drop_oldest \in Policies /\ Policies \subseteq BOOLEAN /\ threshold_notified = FALSE
      /\ total_put = 0 /\ total_get = 0 /\ total_overflow = 0 /\ max_size_reached = 0
      /\ buffer = <<>> /\ bus = <<>> /\ storing = <<>> /\ taken = <<>> /\ item = <<>>
      /\ group \in Modes /\ subscribed = FALSE /\ delivered = {} /\ announced = 0
      /\ value_cache = [t \in Tags |-> Absent] /\ view = [t \in Tags |-> Absent]
      /\ seen = [t \in Tags |-> [value |-> Absent, connection |-> 0]]
      /\ connection = 0 /\ readings = 0 /\ returned = 0 /\ refused = 0
      /\ MaxSize \in Nat
  BY DataBufferAssumption DEF Init, BufferInit
<1>2. /\ <<>> \in Seq(Nat) /\ <<>> \in Seq(Event) /\ <<>> \in Seq(Tagged)
      /\ Len(<<>>) = 0 /\ ToSet(<<>>) = {}
  BY NoMembers
<1>3. Typed
  <2>1. BufferTyped
    <3>1. drop_oldest \in BOOLEAN
      BY <1>1
    <3>2. threshold_notified \in BOOLEAN
      BY <1>1
    <3>3. /\ total_put \in Nat /\ total_get \in Nat /\ total_overflow \in Nat
          /\ buffer \in Seq(Nat) /\ Len(buffer) <= MaxSize /\ max_size_reached \in 0 .. MaxSize
      BY <1>1, <1>2
    <3> QED
      BY <3>1, <3>2, <3>3 DEF BufferTyped
  <2>2. /\ value_cache \in [Tags -> Readable] /\ view \in [Tags -> Readable]
        /\ seen \in [Tags -> [value : Readable, connection : Nat]]
    BY <1>1 DEF Readable
  <2>3. subscribed \in BOOLEAN
    BY <1>1
  <2> QED
    BY <1>1, <1>2, <2>1, <2>2, <2>3 DEF Typed
<1>4. Numbered
  BY <1>1, <1>2 DEF Numbered
<1>5. Ordered
  BY <1>1, <1>2 DEF Ordered, Sorted, Below, OnTheWay
<1>6. Counted
  BY <1>1, <1>2, FS_EmptySet DEF Counted, Places, Losses
<1>7. Remembered /\ Viewed /\ Republished
  BY <1>1 DEF Remembered, Viewed, Republished
<1> QED
  BY <1>3, <1>4, <1>5, <1>6, <1>7 DEF IInv

\* What changes only the bus and its collector.
LEMMA QuietInvariant ==
  ASSUME IInv,
         UNCHANGED <<bufferVars, group, value_cache, storing, taken, view, history,
                     returned, refused>>,
         bus' \in Seq(Event), subscribed' \in BOOLEAN,
         connection' \in Nat, readings' \in Nat, Numbered'
  PROVE  IInv'
<1>1. /\ UNCHANGED <<drop_oldest, buffer, total_put, total_get, total_overflow>>
      /\ UNCHANGED <<max_size_reached, threshold_notified, group, value_cache, storing>>
      /\ UNCHANGED <<taken, view, item, delivered, seen, announced, returned, refused>>
  BY DEF bufferVars, stats, history
<1>2. Typed'
  BY <1>1 DEF IInv, Typed, BufferTyped
<1>3. Ordered'
  BY <1>1 DEF IInv, Ordered, OnTheWay
<1>4. Counted'
  BY <1>1 DEF IInv, Counted, Places, Losses
<1>5. Remembered'
  BY <1>1 DEF IInv, Remembered, Newest, Significant
<1>6. Viewed' /\ Republished'
  BY <1>1 DEF IInv, Viewed, Newest, Republished
<1> QED
  BY <1>2, <1>3, <1>4, <1>5, <1>6 DEF IInv

\* What the next event is.
LEMMA NextEventFacts ==
  ASSUME Typed, NEW kind, NextEvent(kind)
  PROVE  /\ bus # <<>> /\ bus' = Tail(bus) /\ bus' \in Seq(Event)
         /\ Head(bus) \in Event /\ Head(bus).kind = kind /\ Head(bus).connection \in Nat
<1>1. bus \in Seq(Event) /\ bus # <<>> /\ bus' = Tail(bus) /\ Head(bus).kind = kind
  BY DEF Typed, NextEvent
<1>2. bus' \in Seq(Event) /\ Head(bus) \in Event
  BY <1>1, HeadTailProperties
<1> QED
  BY <1>1, <1>2 DEF Event

LEMMA StartsAndStops ==
  ASSUME IInv, Start \/ Stop
  PROVE  IInv'
<1>1. /\ subscribed' = TRUE \/ subscribed' = FALSE
      /\ UNCHANGED <<bufferVars, group, bus, value_cache, storing, taken, view, history,
                     connection, readings, returned, refused>>
  BY DEF Start, Stop
<1>2. subscribed' \in BOOLEAN
  BY <1>1
<1>3. bus' \in Seq(Event) /\ connection' \in Nat /\ readings' \in Nat /\ Numbered'
  BY <1>1 DEF IInv, Typed, Numbered, history
<1> QED
  BY <1>1, <1>2, <1>3, QuietInvariant

LEMMA EventLostInvariant ==
  ASSUME IInv, EventLost
  PROVE  IInv'
<1>1. PICK kind \in {"collected", "connected"} : NextEvent(kind)
  BY DEF EventLost
<1>2. /\ UNCHANGED <<bufferVars, group, value_cache, storing, taken, view, history>>
      /\ UNCHANGED <<returned, refused, subscribed, connection, readings>>
      /\ UNCHANGED <<announced, seen>>
  BY DEF EventLost, history
<1>3. Typed /\ Numbered
  BY DEF IInv
<1>4. bus # <<>> /\ bus' = Tail(bus) /\ bus' \in Seq(Event)
  BY <1>1, <1>3, NextEventFacts
<1>5. Numbered'
  BY <1>2, <1>3, <1>4, EventTaken
<1>6. subscribed' \in BOOLEAN /\ connection' \in Nat /\ readings' \in Nat
  BY <1>2, <1>3 DEF Typed
<1> QED
  BY <1>2, <1>4, <1>5, <1>6, QuietInvariant

LEMMA CollectsInvariant ==
  ASSUME IInv, NEW reading \in Readings, Collects(reading)
  PROVE  IInv'
<1> DEFINE e == [kind |-> "collected", values |-> reading, connection |-> connection]
<1>1. /\ readings' = readings + 1 /\ connection' = connection /\ bus' = Append(bus, e)
      /\ UNCHANGED <<bufferVars, group, value_cache, storing, taken, view, history>>
      /\ UNCHANGED <<returned, refused, subscribed, announced, seen>>
  BY DEF Collects, Emit, history
<1>2. /\ Typed /\ Numbered
      /\ subscribed \in BOOLEAN /\ connection \in Nat /\ readings \in Nat
  BY DEF IInv, Typed
<1>3. e \in Event /\ e.kind # "connected" /\ e.connection = connection'
  BY <1>1, <1>2 DEF Event
<1> HIDE DEF e
<1>4. connection' \in Nat /\ connection <= connection' /\ readings' \in Nat
  BY <1>1, <1>2
<1>5. bus' \in Seq(Event) /\ Numbered'
  BY <1>1, <1>2, <1>3, <1>4, EventAdded
<1> QED
  BY <1>1, <1>2, <1>4, <1>5, QuietInvariant

LEMMA ConnectsInvariant ==
  ASSUME IInv, Connects
  PROVE  IInv'
<1> DEFINE e == [kind |-> "connected", connection |-> connection + 1]
<1>1. /\ connection' = connection + 1 /\ readings' = readings /\ bus' = Append(bus, e)
      /\ UNCHANGED <<bufferVars, group, value_cache, storing, taken, view, history>>
      /\ UNCHANGED <<returned, refused, subscribed, announced, seen>>
  BY DEF Connects, Emit, history
<1>2. /\ Typed /\ Numbered
      /\ subscribed \in BOOLEAN /\ connection \in Nat /\ readings \in Nat
  BY DEF IInv, Typed
<1>3. e \in Event /\ e.connection = connection'
  BY <1>1, <1>2 DEF Event
<1> HIDE DEF e
<1>4. connection' \in Nat /\ connection < connection' /\ readings' \in Nat
  BY <1>1, <1>2
<1>5. connection <= connection'
  BY <1>2, <1>4
<1>6. bus' \in Seq(Event) /\ Numbered'
  BY <1>1, <1>2, <1>3, <1>4, <1>5, EventAdded
<1> QED
  BY <1>1, <1>2, <1>4, <1>6, QuietInvariant

\* A reconnection that is not announced leaves queue and cache alone.
LEMMA ReconnectsInvariant ==
  ASSUME IInv, Reconnects
  PROVE  IInv'
<1>1. /\ connection' = connection + 1 /\ readings' = readings /\ bus' = bus
      /\ UNCHANGED <<bufferVars, group, value_cache, storing, taken, view, history>>
      /\ UNCHANGED <<returned, refused, subscribed, announced, seen>>
  BY DEF Reconnects, history
<1>2. /\ Typed /\ Numbered /\ bus \in Seq(Event) /\ announced \in Nat
      /\ subscribed \in BOOLEAN /\ connection \in Nat /\ readings \in Nat
      /\ \A t \in Tags : seen[t].connection \in Nat
  BY DEF IInv, Typed
<1>3. \A i \in 1 .. Len(bus) : bus[i].connection \in Nat
  <2>1. \A i \in 1 .. Len(bus) : bus[i] \in Event
    BY <1>2, ElementOfSeq
  <2> QED
    BY <2>1 DEF Event
<1>4. \A n \in Nat : n <= connection => n <= connection'
  BY <1>1, <1>2
<1>5. Numbered'
  BY <1>1, <1>2, <1>3, <1>4 DEF Numbered
<1>6. connection' \in Nat
  BY <1>1, <1>2
<1> QED
  BY <1>1, <1>2, <1>5, <1>6, QuietInvariant

\* The event empties the cache; no reading of the connection it announces is known.
LEMMA ConnectedInvariant ==
  ASSUME IInv, OnCollectorConnected
  PROVE  IInv'
<1>1. /\ NextEvent("connected") /\ announced' = Head(bus).connection
      /\ value_cache' = [t \in Tags |-> Absent]
      /\ UNCHANGED <<bufferVars, group, subscribed, storing, taken, view, item, delivered>>
      /\ UNCHANGED <<seen, connection, readings, returned, refused>>
  BY DEF OnCollectorConnected
<1>2. /\ UNCHANGED <<drop_oldest, buffer, total_put, total_get, total_overflow>>
      /\ UNCHANGED <<max_size_reached, threshold_notified>>
  BY <1>1 DEF bufferVars, stats
<1>3. Typed /\ Numbered
  BY DEF IInv
<1>4. /\ bus # <<>> /\ bus' = Tail(bus) /\ bus' \in Seq(Event)
      /\ Head(bus).kind = "connected" /\ Head(bus).connection \in Nat
  BY <1>1, <1>3, NextEventFacts
<1>5. Typed'
  <2>1. value_cache' \in [Tags -> Readable] /\ announced' \in Nat
    BY <1>1, <1>4 DEF Readable
  <2>2. BufferTyped'
    BY <1>2, <1>3 DEF Typed, BufferTyped
  <2> QED
    BY <1>1, <1>3, <1>4, <2>1, <2>2 DEF Typed
<1>6. Numbered'
  BY <1>1, <1>3, <1>4, EventTaken
<1>7. Ordered'
  BY <1>1, <1>2 DEF IInv, Ordered, OnTheWay
<1>8. Counted'
  BY <1>1, <1>2 DEF IInv, Counted, Places, Losses
<1>9. Remembered'
  <2> SUFFICES ASSUME NEW t \in Tags
               PROVE  /\ value_cache'[t] = Absent
                      /\ seen[t].value # Absent =>
                           \E x \in 1 .. Len(item) :
                             /\ Newest(item, 1 .. Len(item), t, x)
                             /\ ~Significant(item[x].value, seen[t].value)
    BY <1>1 DEF Remembered, Newest, Significant
  <2> QED
    BY <1>1 DEF IInv, Remembered
<1>10. Republished'
  <2> SUFFICES ASSUME NEW t \in Tags  PROVE ~(seen[t].connection >= announced')
    BY <1>1 DEF Republished
  <2>1. Head(bus) = bus[1] /\ 1 \in 1 .. Len(bus)
    BY <1>3, <1>4, HeadTailProperties, EmptySeq DEF Typed
  <2>2. seen[t].connection < Head(bus).connection /\ seen[t].connection \in Nat
    BY <2>1, <1>3, <1>4 DEF Numbered, Before, Typed
  <2> QED
    BY <2>2, <1>1, <1>4
<1>11. Viewed'
  BY <1>1 DEF IInv, Viewed, Newest
<1> QED
  BY <1>5, <1>6, <1>7, <1>8, <1>9, <1>10, <1>11 DEF IInv
-----------------------------------------------------------------------------
(* The buffer.                                                             *)

LEMMA Excesses ==
  ASSUME NEW n \in Nat, NEW k \in Nat
  PROVE  /\ Excess(n, k) \in 0 .. k
         /\ n <= MaxSize => n + k - Excess(n, k) <= MaxSize
BY DataBufferAssumption DEF Excess

\* What is left of an ordered sequence that loses e places at one end.
LEMMA SortedTrimmed ==
  ASSUME NEW s \in Seq(Nat), Sorted(s), NEW e \in 0 .. Len(s), NEW r,
         r = SubSeq(s, e + 1, Len(s)) \/ r = SubSeq(s, 1, Len(s) - e)
  PROVE  /\ r \in Seq(Nat) /\ Len(r) = Len(s) - e
         /\ Sorted(r) /\ ToSet(r) \subseteq ToSet(s)
<1> DEFINE m == Len(s) - e
<1>1. Len(s) \in Nat /\ Nat \subseteq Int
  BY LenProperties
<1>2. m \in 0 .. Len(s)
  BY <1>1
<1>3. r = SubSeq(s, e + 1, Len(s)) \/ r = SubSeq(s, 1, m)
  OBVIOUS
<1> HIDE DEF m
<1>4. Sorted(r)
  BY <1>1, <1>2, <1>3, SortedParts
<1> QED
  BY <1>4, TrimmedQueue

\* A put of ordered items on either side leaves an ordered deque that is not too long.
LEMMA PutFacts ==
  ASSUME BufferTyped, NEW items \in Seq(Nat), Sorted(items), Sorted(buffer), NEW r,
         \/ r = AfterPut(items) /\ Below(ToSet(buffer), ToSet(items))
         \/ r = AfterPutFront(items) /\ Below(ToSet(items), ToSet(buffer))
  PROVE  /\ r \in Seq(Nat) /\ Len(r) <= MaxSize /\ Sorted(r)
         /\ ToSet(r) \subseteq ToSet(buffer) \cup ToSet(items)
         /\ Len(r) = Len(buffer) + Len(items) - Excess(Len(buffer), Len(items))
         /\ Excess(Len(buffer), Len(items)) \in 0 .. Len(items)
<1> DEFINE e == Excess(Len(buffer), Len(items))
           back == buffer \o items
           front == items \o buffer
<1>1. /\ buffer \in Seq(Nat) /\ Len(buffer) <= MaxSize /\ MaxSize \in Nat
      /\ Len(buffer) \in Nat /\ Len(items) \in Nat /\ Nat \subseteq Int
  BY LenProperties, DataBufferAssumption DEF BufferTyped
<1>2. e \in 0 .. Len(items) /\ Len(buffer) + Len(items) - e <= MaxSize
  BY <1>1, Excesses
<1>3. /\ back \in Seq(Nat) /\ Len(back) = Len(buffer) + Len(items)
      /\ ToSet(back) = ToSet(buffer) \cup ToSet(items)
      /\ front \in Seq(Nat) /\ Len(front) = Len(buffer) + Len(items)
      /\ ToSet(front) = ToSet(buffer) \cup ToSet(items)
  BY <1>1, MembersOfBoth
<1>4. /\ \/ AfterPut(items) = SubSeq(back, e + 1, Len(back))
         \/ AfterPut(items) = SubSeq(back, 1, Len(back) - e)
      /\ \/ AfterPutFront(items) = SubSeq(front, e + 1, Len(front))
         \/ AfterPutFront(items) = SubSeq(front, 1, Len(front) - e)
  BY DEF AfterPut, AfterPutFront
<1>5. PICK all \in {back, front} :
        /\ Sorted(all)
        /\ r = SubSeq(all, e + 1, Len(all)) \/ r = SubSeq(all, 1, Len(all) - e)
  <2>1. Below(ToSet(buffer), ToSet(items)) => Sorted(back)
    BY <1>1, SortedBoth
  <2>2. Below(ToSet(items), ToSet(buffer)) => Sorted(front)
    BY <1>1, SortedBoth
  <2> HIDE DEF e, back, front
  <2> QED
    BY <2>1, <2>2, <1>4
<1> HIDE DEF e, back, front
<1>6. /\ all \in Seq(Nat) /\ Len(all) = Len(buffer) + Len(items)
      /\ ToSet(all) = ToSet(buffer) \cup ToSet(items)
  BY <1>3
<1>7. e \in 0 .. Len(all)
  BY <1>1, <1>2, <1>6
<1>8. r \in Seq(Nat) /\ Len(r) = Len(all) - e /\ Sorted(r) /\ ToSet(r) \subseteq ToSet(all)
  BY <1>5, <1>6, <1>7, SortedTrimmed
<1> QED
  BY <1>1, <1>2, <1>6, <1>8 DEF e

\* What moves items on their way, or loses them, and leaves the rest alone.
LEMMA MoveInvariant ==
  ASSUME IInv,
         UNCHANGED <<group, bus, subscribed, value_cache, view, history, connection, readings>>,
         BufferTyped', storing' \in Seq(Nat), taken' \in Seq(Nat),
         returned' \in Nat, refused' \in Nat, Ordered', Counted'
  PROVE  IInv'
<1>1. /\ UNCHANGED <<group, bus, subscribed, value_cache, view, connection, readings>>
      /\ UNCHANGED <<item, delivered, seen, announced>>
  BY DEF history
<1>2. Typed'
  BY <1>1 DEF IInv, Typed
<1>3. Numbered'
  BY <1>1 DEF IInv, Numbered
<1>4. Remembered'
  <2>1. Remembered
    BY DEF IInv
  <2>2. \A u, v : Significant(u, v)' <=> Significant(u, v)
    BY <1>1 DEF Significant
  <2> QED
    BY <1>1, <2>1, <2>2 DEF Remembered, Newest
<1>5. Viewed' /\ Republished'
  BY <1>1 DEF IInv, Viewed, Newest, Republished
<1> QED
  BY <1>2, <1>3, <1>4, <1>5 DEF IInv

\* The delivered items are finitely many.
LEMMA DeliveredFinite ==
  ASSUME Typed
  PROVE  IsFiniteSet(delivered) /\ Cardinality(delivered) \in Nat /\ Len(item) \in Nat
<1>1. item \in Seq(Tagged) /\ delivered \in SUBSET (1 .. Len(item))
  BY DEF Typed
<1>2. Len(item) \in Nat
  BY <1>1, LenProperties
<1>3. IsFiniteSet(1 .. Len(item))
  BY <1>2, FS_Interval
<1>4. IsFiniteSet(delivered)
  BY <1>1, <1>3, FS_Subset
<1> QED
  BY <1>2, <1>4, FS_CardinalityType

\* What leaves its place is counted as a loss.
LEMMA CountedMoves ==
  ASSUME Typed, Counted, NEW e \in Int, UNCHANGED <<item, delivered>>,
         Places' = Places - e, Losses' = Losses + e
  PROVE  Counted'
<1>1. /\ Len(storing) \in Nat /\ Len(buffer) \in Nat /\ Len(taken) \in Nat
      /\ total_overflow \in Nat /\ refused \in Nat
  BY LenProperties DEF Typed, BufferTyped
<1>2. Places \in Nat /\ Losses \in Nat /\ Cardinality(delivered) \in Nat /\ Len(item) \in Nat
  BY <1>1, DeliveredFinite DEF Places, Losses
<1>3. Len(item) = Places' + Cardinality(delivered) + Losses'
  BY <1>2 DEF Counted
<1> QED
  BY <1>3 DEF Counted

LEMMA StoresInvariant ==
  ASSUME IInv, Stores
  PROVE  IInv'
<1> DEFINE e == Excess(Len(buffer), Len(storing))
           accepted == AcceptedCount(storing)
           r == AfterPut(storing)
<1>1. /\ buffer' = r /\ storing' = <<>> /\ taken' = taken
      /\ total_put' = total_put + accepted
      /\ total_overflow' = total_overflow + (IF drop_oldest THEN e ELSE 0)
      /\ max_size_reached' = IF accepted > 0 /\ Len(r) > max_size_reached
                             THEN Len(r) ELSE max_size_reached
      /\ threshold_notified' = (threshold_notified \/ (accepted > 0 /\ Len(r) >= ThresholdSize))
      /\ refused' = refused + Len(storing) - accepted
      /\ UNCHANGED <<drop_oldest, total_get, returned>>
  BY DEF Stores, PutMany
<1>2. UNCHANGED <<group, bus, subscribed, value_cache, view, history, connection, readings>>
  BY DEF Stores
<1>3. accepted = IF drop_oldest THEN Len(storing) ELSE Len(storing) - e
  BY DEF AcceptedCount
<1>4. /\ Typed /\ Ordered /\ Counted /\ BufferTyped /\ storing \in Seq(Nat)
      /\ buffer \in Seq(Nat) /\ taken \in Seq(Nat) /\ refused \in Nat /\ returned \in Nat
  BY DEF IInv, Typed, BufferTyped
<1>5. Len(storing) \in Nat /\ Len(buffer) \in Nat /\ Len(taken) \in Nat
  BY <1>4, LenProperties
<1>6. /\ Sorted(storing) /\ Sorted(buffer) /\ Sorted(taken)
      /\ Below(ToSet(taken), ToSet(buffer)) /\ Below(ToSet(taken), ToSet(storing))
      /\ Below(ToSet(buffer), ToSet(storing))
      /\ Below(delivered, OnTheWay) /\ OnTheWay \subseteq 1 .. Len(item)
  BY <1>4 DEF Ordered, Below
<1>7. /\ r \in Seq(Nat) /\ Len(r) <= MaxSize /\ Sorted(r)
      /\ ToSet(r) \subseteq ToSet(buffer) \cup ToSet(storing)
      /\ Len(r) = Len(buffer) + Len(storing) - e
      /\ e \in 0 .. Len(storing)
  BY <1>4, <1>6, PutFacts
<1> HIDE DEF e, accepted, r
<1>8. BufferTyped'
  <2>1. threshold_notified' \in BOOLEAN /\ drop_oldest' \in BOOLEAN
    BY <1>1, <1>4 DEF BufferTyped
  <2>2. accepted \in Nat
    BY <1>3, <1>5, <1>7
  <2>3. total_put' \in Nat /\ total_get' \in Nat /\ total_overflow' \in Nat
    BY <1>1, <1>4, <1>5, <1>7, <2>2 DEF BufferTyped
  <2>4. MaxSize \in Nat /\ Len(r) \in Nat
    BY <1>7, LenProperties, DataBufferAssumption
  <2>5. max_size_reached' \in 0 .. MaxSize
    BY <1>1, <1>4, <1>7, <2>4 DEF BufferTyped
  <2> QED
    BY <1>1, <1>7, <2>1, <2>3, <2>5 DEF BufferTyped
<1>9. /\ storing' \in Seq(Nat) /\ Len(storing') = 0 /\ ToSet(storing') = {} /\ Sorted(storing')
      /\ taken' \in Seq(Nat) /\ returned' \in Nat
  BY <1>1, <1>4, NoMembers DEF Sorted
<1>10. refused' \in Nat
  <2>1. Len(storing) - accepted \in Nat
    BY <1>3, <1>5, <1>7
  <2> QED
    BY <2>1, <1>1, <1>3, <1>4, <1>5, <1>7
<1>11. Ordered'
  <2>1. OnTheWay' \subseteq OnTheWay
    BY <1>1, <1>7, <1>9 DEF OnTheWay
  <2>2. UNCHANGED <<item, delivered>>
    BY <1>2 DEF history
  <2>3. Below(ToSet(taken), ToSet(r))
    BY <1>6, <1>7 DEF Below
  <2>4. Below(delivered, OnTheWay')
    BY <2>1, <1>6 DEF Below
  <2>5. /\ Sorted(storing') /\ Sorted(buffer') /\ Sorted(taken')
        /\ Below(ToSet(taken'), ToSet(buffer'))
        /\ Below(ToSet(taken') \cup ToSet(buffer'), ToSet(storing'))
    BY <1>1, <1>6, <1>7, <1>9, <2>3 DEF Below
  <2> QED
    BY <2>1, <2>2, <2>4, <2>5, <1>6 DEF Ordered
<1>12. Counted'
  <2>1. UNCHANGED <<item, delivered>>
    BY <1>2 DEF history
  <2>2. Losses' = Losses + e
    <3>1. /\ total_overflow \in Nat /\ refused \in Nat /\ e \in Nat /\ Len(storing) \in Nat
      BY <1>4, <1>5, <1>7 DEF BufferTyped
    <3>2. CASE drop_oldest
      <4>1. total_overflow' = total_overflow + e /\ refused' = refused + Len(storing) - Len(storing)
        BY <1>1, <1>3, <3>2
      <4> QED
        BY <3>1, <4>1 DEF Losses
    <3>3. CASE ~drop_oldest
      <4>1. total_overflow' = total_overflow + 0 /\ refused' = refused + Len(storing) - (Len(storing) - e)
        BY <1>1, <1>3, <3>3
      <4> QED
        BY <3>1, <4>1 DEF Losses
    <3> QED
      BY <3>2, <3>3
  <2>3. Places' = Places - e
    BY <1>1, <1>5, <1>7, <1>9 DEF Places
  <2> QED
    BY <2>1, <2>2, <2>3, <1>4, <1>5, <1>7, CountedMoves
<1> QED
  BY <1>2, <1>8, <1>9, <1>10, <1>11, <1>12, MoveInvariant

LEMMA PutsBackInvariant ==
  ASSUME IInv, PutsBack
  PROVE  IInv'
<1> DEFINE e == Excess(Len(buffer), Len(taken))
           count == FrontCount(taken)
           r == AfterPutFront(taken)
<1>1. /\ buffer' = r /\ taken' = <<>> /\ storing' = storing
      /\ total_overflow' = total_overflow + (IF drop_oldest THEN e ELSE 0)
      /\ refused' = refused + Len(taken) - count
      /\ returned' = returned + Len(taken)
      /\ UNCHANGED <<drop_oldest, total_put, total_get, max_size_reached, threshold_notified>>
  BY DEF PutsBack, PutFront
<1>2. UNCHANGED <<group, bus, subscribed, value_cache, view, history, connection, readings>>
  BY DEF PutsBack
<1>3. count = IF drop_oldest THEN Len(taken) ELSE Len(taken) - e
  BY DEF FrontCount
<1>4. /\ Typed /\ Ordered /\ Counted /\ BufferTyped /\ storing \in Seq(Nat)
      /\ buffer \in Seq(Nat) /\ taken \in Seq(Nat) /\ refused \in Nat /\ returned \in Nat
      /\ total_overflow \in Nat
  BY DEF IInv, Typed, BufferTyped
<1>5. Len(storing) \in Nat /\ Len(buffer) \in Nat /\ Len(taken) \in Nat
  BY <1>4, LenProperties
<1>6. /\ Sorted(storing) /\ Sorted(buffer) /\ Sorted(taken)
      /\ Below(ToSet(taken), ToSet(buffer)) /\ Below(ToSet(taken), ToSet(storing))
      /\ Below(ToSet(buffer), ToSet(storing))
      /\ Below(delivered, OnTheWay) /\ OnTheWay \subseteq 1 .. Len(item)
  BY <1>4 DEF Ordered, Below
<1>7. /\ r \in Seq(Nat) /\ Len(r) <= MaxSize /\ Sorted(r)
      /\ ToSet(r) \subseteq ToSet(buffer) \cup ToSet(taken)
      /\ Len(r) = Len(buffer) + Len(taken) - e
      /\ e \in 0 .. Len(taken)
  BY <1>4, <1>6, PutFacts
<1> HIDE DEF e, count, r
<1>8. BufferTyped'
  <2>1. total_overflow' \in Nat
    BY <1>1, <1>4, <1>5, <1>7
  <2> QED
    BY <1>1, <1>4, <1>7, <2>1 DEF BufferTyped
<1>9. /\ taken' \in Seq(Nat) /\ Len(taken') = 0 /\ ToSet(taken') = {} /\ Sorted(taken')
      /\ storing' \in Seq(Nat) /\ returned' \in Nat
  BY <1>1, <1>4, <1>5, NoMembers DEF Sorted
<1>10. refused' \in Nat
  <2>1. Len(taken) - count \in Nat
    BY <1>3, <1>5, <1>7
  <2> QED
    BY <2>1, <1>1, <1>3, <1>4, <1>5, <1>7
<1>11. Ordered'
  <2>1. OnTheWay' \subseteq OnTheWay
    BY <1>1, <1>7, <1>9 DEF OnTheWay
  <2>2. UNCHANGED <<item, delivered>>
    BY <1>2 DEF history
  <2>3. Below(ToSet(r), ToSet(storing))
    BY <1>6, <1>7 DEF Below
  <2>4. Below(delivered, OnTheWay')
    BY <2>1, <1>6 DEF Below
  <2>5. /\ Sorted(storing') /\ Sorted(buffer') /\ Sorted(taken')
        /\ Below(ToSet(taken'), ToSet(buffer'))
        /\ Below(ToSet(taken') \cup ToSet(buffer'), ToSet(storing'))
    BY <1>1, <1>6, <1>7, <1>9, <2>3 DEF Below
  <2> QED
    BY <2>1, <2>2, <2>4, <2>5, <1>6 DEF Ordered
<1>12. Counted'
  <2>1. UNCHANGED <<item, delivered>>
    BY <1>2 DEF history
  <2>2. Losses' = Losses + e
    <3>1. total_overflow \in Nat /\ refused \in Nat /\ e \in Nat /\ Len(taken) \in Nat
      BY <1>4, <1>5, <1>7
    <3>2. CASE drop_oldest
      <4>1. total_overflow' = total_overflow + e /\ refused' = refused + Len(taken) - Len(taken)
        BY <1>1, <1>3, <3>2
      <4> QED
        BY <3>1, <4>1 DEF Losses
    <3>3. CASE ~drop_oldest
      <4>1. total_overflow' = total_overflow + 0 /\ refused' = refused + Len(taken) - (Len(taken) - e)
        BY <1>1, <1>3, <3>3
      <4> QED
        BY <3>1, <4>1 DEF Losses
    <3> QED
      BY <3>2, <3>3
  <2>3. Places' = Places - e
    BY <1>1, <1>5, <1>7, <1>9 DEF Places
  <2> QED
    BY <2>1, <2>2, <2>3, <1>4, <1>5, <1>7, CountedMoves
<1> QED
  BY <1>2, <1>8, <1>9, <1>10, <1>11, <1>12, MoveInvariant

LEMMA TakesInvariant ==
  ASSUME IInv, Takes
  PROVE  IInv'
<1> DEFINE m == BatchLen(BatchSize)
           a == SubSeq(buffer, 1, m)
           b == SubSeq(buffer, m + 1, Len(buffer))
<1>1. /\ taken = <<>> /\ buffer' = b /\ taken' = a /\ storing' = storing
      /\ total_get' = total_get + m
      /\ threshold_notified' = (threshold_notified /\ Len(buffer) - m >= ThresholdSize)
      /\ UNCHANGED <<drop_oldest, total_put, total_overflow, max_size_reached>>
      /\ UNCHANGED <<returned, refused>>
  BY DEF Takes, GetBatch, Batch
<1>2. UNCHANGED <<group, bus, subscribed, value_cache, view, history, connection, readings>>
  BY DEF Takes
<1>3. /\ Typed /\ Ordered /\ Counted /\ BufferTyped /\ storing \in Seq(Nat)
      /\ buffer \in Seq(Nat) /\ refused \in Nat /\ returned \in Nat /\ Len(buffer) <= MaxSize
  BY DEF IInv, Typed, BufferTyped
<1>4. /\ Len(storing) \in Nat /\ Len(buffer) \in Nat /\ Nat \subseteq Int
      /\ ToSet(taken) = {} /\ Len(taken) = 0
      /\ BatchSize \in Nat /\ MaxSize \in Nat
  BY <1>1, <1>3, LenProperties, NoMembers, DataBufferAssumption
<1>5. m \in 0 .. Len(buffer)
  BY <1>4 DEF BatchLen
<1>6. /\ Sorted(storing) /\ Sorted(buffer) /\ Below(ToSet(buffer), ToSet(storing))
      /\ Below(delivered, OnTheWay) /\ OnTheWay \subseteq 1 .. Len(item)
  BY <1>3 DEF Ordered, Below
<1> HIDE DEF m
<1>7. /\ a \in Seq(Nat) /\ Len(a) = m /\ b \in Seq(Nat) /\ Len(b) = Len(buffer) - m
      /\ ToSet(buffer) = ToSet(a) \cup ToSet(b)
  BY <1>3, <1>5, MembersOfParts
<1>8. Sorted(a) /\ Sorted(b) /\ Below(ToSet(a), ToSet(b))
  BY <1>3, <1>4, <1>5, <1>6, SortedParts
<1> HIDE DEF a, b
<1>9. BufferTyped'
  <2>1. threshold_notified' \in BOOLEAN
    BY <1>1
  <2>2. Len(b) <= MaxSize
    BY <1>3, <1>4, <1>5, <1>7
  <2>3. total_get' \in Nat
    BY <1>1, <1>3, <1>5 DEF BufferTyped
  <2> QED
    BY <1>1, <1>3, <1>7, <2>1, <2>2, <2>3 DEF BufferTyped
<1>10. /\ taken' \in Seq(Nat) /\ storing' \in Seq(Nat) /\ returned' \in Nat /\ refused' \in Nat
  BY <1>1, <1>3, <1>7
<1>11. Ordered'
  <2>1. OnTheWay' = OnTheWay
    BY <1>1, <1>4, <1>7 DEF OnTheWay
  <2>2. UNCHANGED <<item, delivered>>
    BY <1>2 DEF history
  <2> QED
    BY <2>1, <2>2, <1>1, <1>6, <1>7, <1>8 DEF Ordered
<1>12. Counted'
  <2>1. UNCHANGED <<item, delivered>>
    BY <1>2 DEF history
  <2>2. Losses' = Losses + 0 /\ Places' = Places - 0
    <3>1. total_overflow \in Nat /\ refused \in Nat
      BY <1>3 DEF BufferTyped
    <3>2. Losses' = Losses + 0
      BY <3>1, <1>1 DEF Losses
    <3>3. Places' = Places - 0
      BY <1>1, <1>4, <1>5, <1>7 DEF Places
    <3> QED
      BY <3>2, <3>3
  <2> QED
    BY <2>1, <2>2, <1>3, CountedMoves
<1> QED
  BY <1>2, <1>9, <1>10, <1>11, <1>12, MoveInvariant

\* The consumer has the batch, and knows the newest of its items.
LEMMA ConfirmsInvariant ==
  ASSUME IInv, Confirms
  PROVE  IInv'
<1> DEFINE S == ToSet(taken)
           D == delivered \cup S
<1>1. /\ taken' = <<>> /\ delivered' = D
      /\ view' = [t \in Tags |-> LastValue(S, t, view[t])]
      /\ UNCHANGED <<bufferVars, group, bus, subscribed, value_cache, storing, item, seen>>
      /\ UNCHANGED <<announced, connection, readings, returned, refused>>
  BY DEF Confirms
<1>2. /\ UNCHANGED <<drop_oldest, buffer, total_put, total_get, total_overflow>>
      /\ UNCHANGED <<max_size_reached, threshold_notified>>
  BY <1>1 DEF bufferVars, stats
<1>3. /\ Typed /\ Numbered /\ Ordered /\ Counted /\ Remembered /\ Viewed /\ Republished
      /\ taken \in Seq(Nat) /\ item \in Seq(Tagged) /\ Len(item) \in Nat
      /\ delivered \subseteq 1 .. Len(item) /\ Sorted(taken)
      /\ storing \in Seq(Nat) /\ buffer \in Seq(Nat)
  BY LenProperties DEF IInv, Typed, BufferTyped, Ordered
<1>4. /\ S \subseteq 1 .. Len(item) /\ Below(delivered, S) /\ S \subseteq OnTheWay
  BY <1>3 DEF Ordered, OnTheWay, Below
<1>5. Cardinality(S) = Len(taken) /\ S \subseteq Int /\ IsFiniteSet(S) /\ Len(taken) \in Nat
  BY <1>3, SortedCount, MemberCount, LenProperties
<1>6. /\ taken' \in Seq(Nat) /\ Len(taken') = 0 /\ ToSet(taken') = {} /\ Sorted(taken')
  BY <1>1, NoMembers DEF Sorted
<1> HIDE DEF S
<1>7. Typed'
  <2>1. view' \in [Tags -> Readable]
    <3> SUFFICES ASSUME NEW t \in Tags  PROVE LastValue(S, t, view[t]) \in Readable
      BY <1>1
    <3>1. view[t] \in Readable
      BY <1>3 DEF Typed
    <3> QED
      BY <3>1, <1>3, <1>4, LastValueType
  <2>2. delivered' \subseteq 1 .. Len(item')
    BY <1>1, <1>3, <1>4
  <2>3. BufferTyped'
    BY <1>2, <1>3 DEF Typed, BufferTyped
  <2> QED
    BY <1>1, <1>3, <1>6, <2>1, <2>2, <2>3 DEF Typed
<1>8. Numbered' /\ Republished'
  BY <1>1, <1>3 DEF Numbered, Republished
<1>9. Remembered'
  BY <1>1, <1>3 DEF Remembered, Newest, Significant
<1>10. Ordered'
  <2>1. OnTheWay' = ToSet(storing) \cup ToSet(buffer)
    BY <1>1, <1>2, <1>6 DEF OnTheWay
  <2>2. OnTheWay' \subseteq OnTheWay
    BY <2>1 DEF OnTheWay
  <2>3. Below(S, OnTheWay')
    BY <2>1, <1>3 DEF Ordered, Below, S
  <2>4. Below(delivered', OnTheWay')
    BY <2>2, <2>3, <1>1, <1>3 DEF Ordered, Below
  <2>5. /\ Sorted(storing') /\ Sorted(buffer') /\ Sorted(taken')
        /\ Below(ToSet(taken'), ToSet(buffer'))
        /\ Below(ToSet(taken') \cup ToSet(buffer'), ToSet(storing'))
    BY <1>1, <1>2, <1>3, <1>6 DEF Ordered, Below
  <2> QED
    BY <2>2, <2>4, <2>5, <1>1, <1>3 DEF Ordered
<1>11. Counted'
  <2>1. delivered \cap S = {}
    <3>1. delivered \subseteq Int
      BY <1>3
    <3> QED
      BY <3>1, <1>4, BelowApart
  <2>2. IsFiniteSet(delivered) /\ Cardinality(delivered) \in Nat
    BY <1>3, DeliveredFinite
  <2>3. Cardinality(D) = Cardinality(delivered) + Len(taken)
    BY <2>1, <2>2, <1>5, UnionCount
  <2>4. /\ Len(storing) \in Nat /\ Len(buffer) \in Nat
        /\ total_overflow \in Nat /\ refused \in Nat
    BY <1>3, LenProperties DEF Typed, BufferTyped
  <2>5. Places' = Places - Len(taken) /\ Places \in Nat
    BY <2>4, <1>1, <1>2, <1>5, <1>6 DEF Places
  <2>6. Losses' = Losses /\ Losses \in Nat
    BY <2>4, <1>1, <1>2 DEF Losses
  <2>7. Len(item) = Places + Cardinality(delivered) + Losses
    BY <1>3 DEF Counted
  <2>8. Len(item) = Places' + Cardinality(D) + Losses'
    BY <2>2, <2>3, <2>5, <2>6, <2>7, <1>5
  <2> QED
    BY <2>8, <1>1 DEF Counted
<1>12. Viewed'
  <2> SUFFICES ASSUME NEW t \in Tags, NEW x \in D, Newest(item, D, t, x)
               PROVE  LastValue(S, t, view[t]) = item[x].value
    BY <1>1 DEF Viewed, Newest
  <2>1. CASE x \in S
    <3>1. Newest(item, S, t, x)
      BY <2>1 DEF Newest
    <3> QED
      BY <3>1, <1>5, LastValueNewest
  <2>2. CASE x \notin S
    <3>1. x \in delivered /\ Newest(item, delivered, t, x)
      BY <2>2 DEF Newest
    <3>2. ASSUME NEW y \in S, item[y].tag = t  PROVE FALSE
      <4>1. y <= x /\ x < y
        BY <3>1, <3>2, <1>4 DEF Newest, Below
      <4>2. x \in Int /\ y \in Int
        BY <3>1, <1>3, <1>5
      <4> QED
        BY <4>1, <4>2
    <3>3. LastValue(S, t, view[t]) = view[t]
      BY <3>2, LastValueNone
    <3> QED
      BY <3>1, <3>3, <1>3 DEF Viewed
  <2> QED
    BY <2>1, <2>2
<1> QED
  BY <1>7, <1>8, <1>9, <1>10, <1>11, <1>12 DEF IInv
-----------------------------------------------------------------------------
(* The processing of a reading.                                            *)

\* InOrder lists each of some tags once.
LEMMA InOrderFacts ==
  ASSUME NEW S, S \subseteq Tags, NEW kept \in InOrder(S)
  PROVE  /\ Cardinality(S) \in Nat /\ DOMAIN kept = 1 .. Cardinality(S)
         /\ \A i \in 1 .. Cardinality(S) : kept[i] \in S
         /\ \A i, j \in 1 .. Cardinality(S) : kept[i] = kept[j] => i = j
         /\ kept \in Surjection(1 .. Cardinality(S), S)
<1> DEFINE c == Cardinality(S)
           N == 1 .. c
<1>1. IsFiniteSet(S) /\ c \in Nat /\ S \subseteq Int
  <2>1. NumTags \in Nat
    BY OnChangeAssumption
  <2>2. IsFiniteSet(Tags) /\ Tags \subseteq Int
    BY <2>1, FS_Interval DEF Tags
  <2>3. IsFiniteSet(S)
    BY <2>2, FS_Subset
  <2> QED
    BY <2>2, <2>3, FS_CardinalityType
<1>2. kept \in [N -> S] /\ \A i, j \in N : i < j => kept[i] < kept[j]
  BY DEF InOrder
<1>3. IsFiniteSet(N) /\ Cardinality(N) = c
  BY <1>1, FS_Interval
<1>4. \A i, j \in N : kept[i] = kept[j] => i = j
  <2> SUFFICES ASSUME NEW i \in N, NEW j \in N, kept[i] = kept[j]  PROVE i = j
    OBVIOUS
  <2>0. kept[i] \in S /\ i \in Int /\ j \in Int
    BY <1>2
  <2>1. kept[i] \in Int /\ i \in Int /\ j \in Int
    BY <1>1, <2>0
  <2>2. ~(i < j) /\ ~(j < i)
    BY <1>2, <2>1
  <2> QED
    BY <2>1, <2>2
<1> HIDE DEF c, N
<1>5. kept \in Injection(N, S)
  BY <1>2, <1>4 DEF Injection, IsInjective
<1>6. kept \in Surjection(N, S)
  BY <1>1, <1>3, <1>5, FS_Injection DEF c
<1>7. DOMAIN kept = N /\ \A i \in N : kept[i] \in S
  BY <1>2
<1> QED
  BY <1>1, <1>4, <1>6, <1>7 DEF c, N

\* New items get the next numbers.
LEMMA NextNumbers ==
  ASSUME NEW n \in Nat, NEW c \in Nat, NEW s, s = [i \in 1 .. c |-> n + i]
  PROVE  /\ s \in Seq(Nat) /\ Len(s) = c /\ Sorted(s)
         /\ ToSet(s) \subseteq 1 .. n + c
         /\ Below(1 .. n, ToSet(s))
<1>1. s \in Seq(Nat) /\ Len(s) = c
  <2>1. \A i \in 1 .. c : n + i \in Nat
    OBVIOUS
  <2> QED
    BY <2>1
<1>2. \A i \in 1 .. c : s[i] = n + i
  OBVIOUS
<1>3. Sorted(s)
  BY <1>1, <1>2 DEF Sorted
<1>4. \A x \in ToSet(s) : x \in n + 1 .. n + c
  <2> SUFFICES ASSUME NEW x \in ToSet(s)  PROVE x \in n + 1 .. n + c
    OBVIOUS
  <2>1. Queued(s, x)
    BY <1>1, Members
  <2>2. PICK i \in 1 .. c : x = n + i
    BY <2>1, <1>1, <1>2 DEF Queued
  <2> QED
    BY <2>2
<1>5. \A x \in n + 1 .. n + c : x \in 1 .. n + c /\ \A y \in 1 .. n : y < x
  OBVIOUS
<1> QED
  BY <1>1, <1>3, <1>4, <1>5 DEF Below

\* The items a reading becomes, behind those there were: one for each stored tag.
LEMMA NewItems ==
  ASSUME item \in Seq(Tagged), Head(bus).connection \in Nat,
         NEW reading \in Readings, NEW S, S = Stored(reading), NEW kept \in InOrder(S), NEW r,
         r = item \o ItemsMade(kept, reading, Head(bus).connection)
  PROVE  /\ Len(item) \in Nat /\ Cardinality(S) \in Nat
         /\ r \in Seq(Tagged) /\ Len(r) = Len(item) + Cardinality(S)
         /\ \A x \in 1 .. Len(item) : r[x] = item[x]
         /\ \A x \in Len(item) + 1 .. Len(r) : r[x].tag \in S
         /\ \A t \in S :
              NewestAfter(r, Len(item), Len(r), t, reading[t], Head(bus).connection)
<1> DEFINE number == Head(bus).connection
           c == Cardinality(S)
           n == Len(item)
           made(t) == [tag |-> t, value |-> reading[t], connection |-> number]
           new == [i \in 1 .. c |-> made(kept[i])]
<1>1. S \subseteq Tags /\ \A t \in S : reading[t] \in Values \cup {None}
  <2>1. reading \in [Tags -> Values \cup {None, Absent}]
    BY OnChangeAssumption
  <2> QED
    BY <2>1 DEF Stored
<1>2. /\ c \in Nat /\ DOMAIN kept = 1 .. c
      /\ \A i \in 1 .. c : kept[i] \in S
      /\ \A i, j \in 1 .. c : kept[i] = kept[j] => i = j
      /\ \A t \in S : \E i \in 1 .. c : kept[i] = t
  <2>1. S \subseteq Tags
    BY <1>1
  <2> HIDE DEF c
  <2>2. /\ Cardinality(S) \in Nat /\ DOMAIN kept = 1 .. Cardinality(S)
        /\ \A i \in 1 .. Cardinality(S) : kept[i] \in S
    BY <2>1, InOrderFacts
  <2>3. \A i, j \in 1 .. Cardinality(S) : kept[i] = kept[j] => i = j
    BY <2>1, InOrderFacts
  <2>4. kept \in Surjection(1 .. Cardinality(S), S)
    BY <2>1, InOrderFacts
  <2> QED
    BY <2>2, <2>3, <2>4 DEF c, Surjection
<1>3. r = item \o new
  BY <1>2 DEF ItemsMade
<1>4. n \in Nat /\ \A x \in 1 .. n : item[x] \in Tagged
  BY LenProperties, ElementOfSeq
<1>5. \A t \in S : made(t) \in Tagged
  BY <1>1 DEF Tagged
<1> HIDE DEF c, n
<1>6. /\ new \in Seq(Tagged) /\ Len(new) = c
      /\ \A i \in 1 .. c : new[i] = made(kept[i])
  <2>1. \A i \in 1 .. c : made(kept[i]) \in Tagged
    BY <1>2, <1>5
  <2> HIDE DEF made
  <2> QED
    BY <1>2, <2>1
<1>7. \A t : made(t).tag = t
  OBVIOUS
<1> HIDE DEF made, new
<1>8. /\ r \in Seq(Tagged) /\ Len(r) = n + c
      /\ \A x \in 1 .. n + c : r[x] = IF x <= n THEN item[x] ELSE new[x - n]
  <2>1. /\ item \o new \in Seq(Tagged) /\ Len(item \o new) = Len(item) + Len(new)
        /\ \A x \in 1 .. Len(item) + Len(new) :
             (item \o new)[x] = IF x <= Len(item) THEN item[x] ELSE new[x - Len(item)]
    BY <1>6, ConcatProperties
  <2> QED
    BY <2>1, <1>3, <1>6 DEF n
<1>9. \A x \in 1 .. n : r[x] = item[x]
  BY <1>2, <1>4, <1>8
<1>10. \A i \in 1 .. c : r[n + i] = made(kept[i])
  <2> SUFFICES ASSUME NEW i \in 1 .. c  PROVE r[n + i] = made(kept[i])
    OBVIOUS
  <2>1. n + i \in 1 .. n + c /\ ~(n + i <= n) /\ (n + i) - n = i
    BY <1>2, <1>4
  <2> QED
    BY <2>1, <1>6, <1>8
<1>11. \A x \in n + 1 .. n + c : x - n \in 1 .. c /\ x = n + (x - n)
  BY <1>2, <1>4
<1>12. \A x \in n + 1 .. n + c : r[x].tag = kept[x - n]
  BY <1>7, <1>10, <1>11
<1>13. ASSUME NEW t \in S
       PROVE  \E x \in n + 1 .. n + c : r[x] = made(t) /\ Newest(r, 1 .. n + c, t, x)
  <2>1. PICK i \in 1 .. c : kept[i] = t
    BY <1>2
  <2>2. n + i \in n + 1 .. n + c /\ r[n + i] = made(t)
    <3>1. n + i \in n + 1 .. n + c
      BY <1>2, <1>4
    <3>2. r[n + i] = made(kept[i])
      BY <1>10
    <3> QED
      BY <3>1, <3>2, <2>1
  <2>3. ASSUME NEW y \in 1 .. n + c, r[y].tag = t  PROVE y <= n + i
    <3>1. CASE y <= n
      BY <3>1, <1>2, <1>4
    <3>2. CASE y > n
      <4>1. y \in n + 1 .. n + c
        BY <3>2, <1>2, <1>4
      <4>2. kept[y - n] = t /\ y - n \in 1 .. c /\ y = n + (y - n)
        BY <4>1, <2>3, <1>11, <1>12
      <4>3. y - n = i
        BY <4>2, <2>1, <1>2
      <4> QED
        BY <4>2, <4>3, <1>4
    <3> QED
      BY <3>1, <3>2, <1>4
  <2>4. n + i \in 1 .. n + c /\ r[n + i].tag = t
    <3>1. made(t).tag = t
      BY <1>7
    <3>2. n + i \in 1 .. n + c
      BY <2>1, <1>2, <1>4
    <3> QED
      BY <3>1, <3>2, <2>2
  <2> QED
    BY <2>2, <2>3, <2>4 DEF Newest
<1>14. \A x \in n + 1 .. n + c : r[x].tag \in S
  BY <1>2, <1>11, <1>12
<1>15. \A t \in S : NewestAfter(r, n, n + c, t, reading[t], number)
  BY <1>13 DEF NewestAfter, made
<1> QED
  BY <1>2, <1>4, <1>8, <1>9, <1>14, <1>15 DEF n, c, made

\* A reading becomes items for the tags that are stored, and stays within the
\* deadband of the newest item for the others.
LEMMA CollectedInvariant ==
  ASSUME IInv, OnDataCollected
  PROVE  IInv'
<1> DEFINE reading == Head(bus).values
           S == Stored(reading)
           n == Len(item)
           c == Cardinality(S)
           number == Head(bus).connection
<1>1. /\ NextEvent("collected") /\ storing = <<>>
      /\ storing' = [i \in 1 .. c |-> n + i]
      /\ value_cache' = CacheAfter(reading)
      /\ seen' = [t \in Tags |-> IF reading[t] = Absent THEN seen[t]
                                 ELSE [value |-> reading[t], connection |-> number]]
      /\ UNCHANGED <<bufferVars, group, subscribed, taken, view, delivered, announced>>
      /\ UNCHANGED <<connection, readings, returned, refused>>
  BY DEF OnDataCollected, NextEvent
<1>2. PICK kept \in InOrder(S) : item' = item \o ItemsMade(kept, reading, number)
  BY DEF OnDataCollected, ItemsMade
<1>3. /\ UNCHANGED <<drop_oldest, buffer, total_put, total_get, total_overflow>>
      /\ UNCHANGED <<max_size_reached, threshold_notified>>
  BY <1>1 DEF bufferVars, stats
<1>4. /\ Typed /\ Numbered /\ Ordered /\ Counted /\ Remembered /\ Viewed /\ Republished
      /\ item \in Seq(Tagged) /\ announced \in Nat /\ connection \in Nat /\ BufferTyped
      /\ delivered \subseteq 1 .. n /\ group \in Modes
  BY DEF IInv, Typed
<1>5. /\ bus # <<>> /\ bus' = Tail(bus) /\ bus' \in Seq(Event)
      /\ Head(bus) \in Event /\ Head(bus).kind = "collected" /\ number \in Nat
  BY <1>1, <1>4, NextEventFacts
\* The reading is of the announced connection or of a later one.
<1>later. number >= announced
  <2>1. Head(bus) = bus[1] /\ 1 \in 1 .. Len(bus)
    BY <1>4, <1>5, HeadTailProperties, EmptySeq DEF Typed
  <2>2. announced <= number
    BY <2>1, <1>4 DEF Numbered, Before
  <2> QED
    BY <2>2, <1>4, <1>5
<1>numbered. Numbered'
  <2>1. ASSUME NEW t \in Tags
        PROVE  seen'[t].connection \in {seen[t].connection, number}
    BY <1>1
  <2> QED
    BY <2>1, <1>1, <1>4, <1>5, EventTaken
<1>6. reading \in Readings
  BY <1>5 DEF Event
<1>7. reading \in [Tags -> Readable]
  BY <1>6, OnChangeAssumption DEF Readable
<1>8. \A t \in S : t \in Tags /\ reading[t] # Absent /\ reading[t] \in Values \cup {None}
  BY <1>7 DEF Stored, Readable
<1>9. ASSUME NEW t \in Tags, t \notin S, reading[t] # Absent
      PROVE  group.mode = "on_change" /\ ~Changed(value_cache[t], reading[t])
  BY <1>9 DEF Stored
<1> HIDE DEF reading, S, number
<1>10. /\ n \in Nat /\ c \in Nat
       /\ item' \in Seq(Tagged) /\ Len(item') = n + c
       /\ \A x \in 1 .. n : item'[x] = item[x]
       /\ \A x \in n + 1 .. n + c : item'[x].tag \in S
       /\ \A t \in S : NewestAfter(item', n, n + c, t, reading[t], number)
  <2>1. /\ n \in Nat /\ c \in Nat
        /\ item' \in Seq(Tagged) /\ Len(item') = n + c
        /\ \A x \in 1 .. n : item'[x] = item[x]
        /\ \A x \in n + 1 .. Len(item') : item'[x].tag \in S
        /\ \A t \in S : NewestAfter(item', n, Len(item'), t, reading[t], number)
    <3>1. item \in Seq(Tagged) /\ number \in Nat /\ reading \in Readings
      BY <1>4, <1>5, <1>6
    <3>2. S = Stored(reading)
      BY DEF S
    <3> QED
      BY <3>1, <3>2, <1>2, NewItems DEF number
  <2> QED
    BY <2>1
<1> HIDE DEF n, c
<1>11. /\ storing' \in Seq(Nat) /\ Len(storing') = c /\ Sorted(storing')
       /\ ToSet(storing') \subseteq 1 .. n + c /\ Below(1 .. n, ToSet(storing'))
  BY <1>1, <1>10, NextNumbers
<1>12. /\ \A x \in 1 .. n : x \in 1 .. n + c
       /\ \A x \in n + 1 .. n + c : x \in 1 .. n + c
       /\ \A x \in 1 .. n + c : x \in 1 .. n \/ x \in n + 1 .. n + c
       /\ \A x \in 1 .. n + c : x \in Int
  BY <1>10
\* The items of a stored tag and those of another one.
<1>13. ASSUME NEW t \in S
       PROVE  \E x \in 1 .. n + c :
                /\ Newest(item', 1 .. n + c, t, x)
                /\ item'[x].value = reading[t] /\ item'[x].connection = number
  <2>1. PICK x \in n + 1 .. n + c :
          /\ item'[x] = [tag |-> t, value |-> reading[t], connection |-> number]
          /\ Newest(item', 1 .. n + c, t, x)
    BY <1>10 DEF NewestAfter
  <2>2. x \in 1 .. n + c
    BY <2>1, <1>12
  <2> QED
    BY <2>1, <2>2
<1>14. ASSUME NEW t, t \notin S, NEW x \in 1 .. n, Newest(item, 1 .. n, t, x)
       PROVE  x \in 1 .. n + c /\ Newest(item', 1 .. n + c, t, x) /\ item'[x] = item[x]
  <2>1. x \in 1 .. n + c /\ item'[x] = item[x] /\ item'[x].tag = t
    BY <1>10, <1>12, <1>14 DEF Newest
  <2>2. ASSUME NEW y \in 1 .. n + c, item'[y].tag = t  PROVE y <= x
    <3>1. y \in 1 .. n
      BY <2>2, <1>10, <1>12, <1>14
    <3> QED
      BY <3>1, <2>2, <1>10, <1>14 DEF Newest
  <2> QED
    BY <2>1, <2>2 DEF Newest
<1>15. Typed'
  <2>1. value_cache' \in [Tags -> Readable]
    BY <1>1, <1>4, <1>7 DEF CacheAfter, Typed
  <2>2. seen' \in [Tags -> [value : Readable, connection : Nat]]
    <3> SUFFICES ASSUME NEW t \in Tags
                 PROVE  (IF reading[t] = Absent THEN seen[t]
                         ELSE [value |-> reading[t], connection |-> number])
                          \in [value : Readable, connection : Nat]
      BY <1>1
    <3>1. reading[t] \in Readable /\ seen[t] \in [value : Readable, connection : Nat]
      BY <1>4, <1>7 DEF Typed
    <3> QED
      BY <3>1, <1>5
  <2>3. delivered' \subseteq 1 .. Len(item')
    BY <1>1, <1>4, <1>10, <1>12
  <2>4. BufferTyped'
    BY <1>3, <1>4 DEF BufferTyped
  <2> QED
    BY <1>1, <1>4, <1>5, <1>10, <1>11, <2>1, <2>2, <2>3, <2>4 DEF Typed
<1>17. Ordered'
  <2>1. ToSet(storing) = {}
    BY <1>1, NoMembers
  <2>2. /\ OnTheWay = ToSet(buffer) \cup ToSet(taken)
        /\ OnTheWay' = ToSet(storing') \cup OnTheWay
    BY <2>1, <1>1, <1>3 DEF OnTheWay
  <2>3. OnTheWay \subseteq 1 .. n /\ Below(delivered, OnTheWay)
    BY <1>4 DEF Ordered, n
  <2>4. Below(delivered', OnTheWay')
    BY <2>2, <2>3, <1>1, <1>4, <1>11 DEF Below
  <2>5. Below(ToSet(taken') \cup ToSet(buffer'), ToSet(storing'))
    BY <2>2, <2>3, <1>1, <1>3, <1>11 DEF Below
  <2>6. OnTheWay' \subseteq 1 .. Len(item')
    BY <2>2, <2>3, <1>10, <1>11, <1>12
  <2>7. Sorted(buffer') /\ Sorted(taken') /\ Below(ToSet(taken'), ToSet(buffer'))
    BY <1>1, <1>3, <1>4 DEF Ordered
  <2> QED
    BY <2>4, <2>5, <2>6, <2>7, <1>11 DEF Ordered
<1>18. Counted'
  <2>1. Len(storing) = 0 /\ Len(buffer) \in Nat /\ Len(taken) \in Nat
    BY <1>1, <1>4, NoMembers, LenProperties DEF Typed, BufferTyped
  <2>2. Places' = Places + c /\ Places \in Nat
    BY <2>1, <1>1, <1>3, <1>10, <1>11 DEF Places
  <2>3. Losses' = Losses /\ Losses \in Nat
    BY <1>1, <1>3, <1>4 DEF Losses, Typed, BufferTyped
  <2>4. Cardinality(delivered) \in Nat /\ delivered' = delivered
    BY <1>1, <1>4, DeliveredFinite
  <2>5. n = Places + Cardinality(delivered) + Losses
    BY <1>4 DEF Counted, n
  <2>6. Len(item') = Places' + Cardinality(delivered) + Losses'
    BY <2>2, <2>3, <2>4, <2>5, <1>10
  <2> QED
    BY <2>4, <2>6 DEF Counted
<1>19. ASSUME NEW t \in Tags
       PROVE  /\ seen'[t].value # Absent =>
                   \E x \in 1 .. n + c :
                     /\ Newest(item', 1 .. n + c, t, x)
                     /\ ~Significant(item'[x].value, seen'[t].value)
              /\ group.mode = "on_change" /\ value_cache'[t] # Absent =>
                   \E x \in 1 .. n + c :
                     /\ Newest(item', 1 .. n + c, t, x)
                     /\ item'[x].value = value_cache'[t] /\ item'[x].connection >= announced
  <2>1. /\ seen'[t] = IF reading[t] = Absent THEN seen[t]
                      ELSE [value |-> reading[t], connection |-> number]
        /\ value_cache'[t] = IF group.mode = "on_change" /\ t \in S
                             THEN reading[t] ELSE value_cache[t]
    BY <1>1 DEF CacheAfter, S
  <2>2. CASE t \in S
    <3>1. PICK x \in 1 .. n + c :
            /\ Newest(item', 1 .. n + c, t, x)
            /\ item'[x].value = reading[t] /\ item'[x].connection >= announced
      BY <2>2, <1>13, <1>later
    <3>2. /\ reading[t] # Absent /\ ~Significant(reading[t], reading[t])
      BY <2>2, <1>4, <1>8, SameValue
    <3>3. seen'[t].value = reading[t]
      BY <2>1, <3>2
    <3>4. group.mode = "on_change" => value_cache'[t] = reading[t]
      BY <2>1, <2>2
    <3> QED
      BY <3>1, <3>2, <3>3, <3>4
  <2>3. CASE t \notin S
    <3>1. value_cache'[t] = value_cache[t]
      BY <2>1, <2>3
    <3>2. group.mode = "on_change" /\ value_cache[t] # Absent =>
            \E x \in 1 .. n :
              /\ Newest(item, 1 .. n, t, x)
              /\ item[x].value = value_cache[t] /\ item[x].connection >= announced
      BY <1>4 DEF Remembered, n
    <3>3. group.mode = "on_change" /\ value_cache'[t] # Absent =>
            \E x \in 1 .. n + c :
              /\ Newest(item', 1 .. n + c, t, x)
              /\ item'[x].value = value_cache'[t] /\ item'[x].connection >= announced
      <4> SUFFICES ASSUME group.mode = "on_change", value_cache'[t] # Absent
                   PROVE  \E x \in 1 .. n + c :
                            /\ Newest(item', 1 .. n + c, t, x)
                            /\ item'[x].value = value_cache'[t]
                            /\ item'[x].connection >= announced
        OBVIOUS
      <4>1. PICK x \in 1 .. n :
              /\ Newest(item, 1 .. n, t, x)
              /\ item[x].value = value_cache[t] /\ item[x].connection >= announced
        BY <3>1, <3>2
      <4>2. x \in 1 .. n + c /\ Newest(item', 1 .. n + c, t, x) /\ item'[x] = item[x]
        BY <4>1, <2>3, <1>14
      <4> QED
        BY <4>1, <4>2, <3>1
    <3>5. CASE reading[t] = Absent
      <4>1. seen'[t] = seen[t]
        BY <3>5, <2>1
      <4>2. seen[t].value # Absent =>
              \E x \in 1 .. n :
                Newest(item, 1 .. n, t, x) /\ ~Significant(item[x].value, seen[t].value)
        BY <1>4 DEF Remembered, n
      <4>3. ASSUME seen[t].value # Absent
            PROVE  \E x \in 1 .. n + c :
                     /\ Newest(item', 1 .. n + c, t, x)
                     /\ ~Significant(item'[x].value, seen[t].value)
        <5>1. PICK x \in 1 .. n :
                Newest(item, 1 .. n, t, x) /\ ~Significant(item[x].value, seen[t].value)
          BY <4>2, <4>3
        <5>2. x \in 1 .. n + c /\ Newest(item', 1 .. n + c, t, x) /\ item'[x] = item[x]
          BY <5>1, <2>3, <1>14
        <5> QED
          BY <5>1, <5>2
      <4> QED
        BY <4>1, <4>3, <3>3
    <3>6. CASE reading[t] # Absent
      <4>1. group.mode = "on_change" /\ ~Changed(value_cache[t], reading[t])
        BY <3>6, <2>3, <1>9
      <4>2. value_cache[t] \in Readable /\ reading[t] \in Readable
        BY <1>4, <1>7 DEF Typed
      <4>3. value_cache[t] # Absent /\ ~Significant(value_cache[t], reading[t])
        BY <4>1, <4>2, <1>4, UnchangedIsInsignificant
      <4>4. seen'[t].value = reading[t]
        BY <2>1, <3>6
      <4>5. PICK x \in 1 .. n + c :
              Newest(item', 1 .. n + c, t, x) /\ item'[x].value = value_cache[t]
        BY <3>1, <3>3, <4>1, <4>3
      <4>6. ~Significant(item'[x].value, seen'[t].value)
        BY <4>3, <4>4, <4>5
      <4> QED
        BY <4>5, <4>6, <3>3
    <3> QED
      BY <3>5, <3>6
  <2> QED
    BY <2>2, <2>3
<1>20. Remembered'
  BY <1>1, <1>10, <1>19 DEF Remembered, Significant
<1>21. Viewed'
  <2> SUFFICES ASSUME NEW t \in Tags, NEW x \in delivered, Newest(item', delivered, t, x)
               PROVE  view[t] = item'[x].value
    BY <1>1 DEF Viewed
  <2>1. \A y \in delivered : item'[y] = item[y]
    BY <1>4, <1>10
  <2>2. Newest(item, delivered, t, x)
    BY <2>1, <1>1 DEF Newest
  <2> QED
    BY <2>1, <2>2, <1>4 DEF Viewed
<1>22. Republished'
  <2> SUFFICES ASSUME NEW t \in Tags, seen'[t].value # Absent,
                      seen'[t].connection >= announced
               PROVE  \E x \in 1 .. n + c :
                        item'[x].tag = t /\ item'[x].connection >= announced
    BY <1>1, <1>10 DEF Republished
  <2>1. CASE t \in S
    <3>1. PICK x \in 1 .. n + c :
            Newest(item', 1 .. n + c, t, x) /\ item'[x].connection >= announced
      BY <2>1, <1>13, <1>later
    <3> QED
      BY <3>1 DEF Newest
  <2>2. ASSUME NEW x \in 1 .. n, item[x].tag = t, item[x].connection >= announced
        PROVE  \E y \in 1 .. n + c : item'[y].tag = t /\ item'[y].connection >= announced
    BY <2>2, <1>10, <1>12
  <2>3. CASE reading[t] = Absent
    <3>1. seen'[t] = seen[t]
      BY <2>3, <1>1
    <3>2. PICK x \in 1 .. n : item[x].tag = t /\ item[x].connection >= announced
      BY <3>1, <1>4 DEF Republished, n
    <3> QED
      BY <3>2, <2>2
  <2>4. CASE t \notin S /\ reading[t] # Absent
    <3>1. group.mode = "on_change" /\ ~Changed(value_cache[t], reading[t])
      BY <2>4, <1>9
    <3>2. value_cache[t] # Absent
      BY <3>1 DEF Changed
    <3>3. PICK x \in 1 .. n : Newest(item, 1 .. n, t, x) /\ item[x].connection >= announced
      BY <3>1, <3>2, <1>4 DEF Remembered, n
    <3> QED
      BY <3>3, <2>2 DEF Newest
  <2> QED
    BY <2>1, <2>3, <2>4
<1> QED
  BY <1>15, <1>numbered, <1>17, <1>18, <1>20, <1>21, <1>22 DEF IInv
-----------------------------------------------------------------------------
(* The theorems.                                                           *)

\* IInv holds initially, and every step of the processor, of its bus, of the
\* collector and of the publisher preserves it.
THEOREM Invariance == Spec => []IInv
<1>1. Init => IInv
  BY InitInvariant
<1>2. IInv /\ [Next]_vars => IInv'
  <2> SUFFICES ASSUME IInv, [Next]_vars  PROVE IInv'
    OBVIOUS
  <2>1. CASE Start \/ Stop
    BY <2>1, StartsAndStops
  <2>2. CASE EventLost
    BY <2>2, EventLostInvariant
  <2>3. CASE OnCollectorConnected
    BY <2>3, ConnectedInvariant
  <2>4. CASE OnDataCollected
    BY <2>4, CollectedInvariant
  <2>5. CASE Stores
    BY <2>5, StoresInvariant
  <2>6. CASE \E reading \in Readings : Collects(reading)
    BY <2>6, CollectsInvariant
  <2>7. CASE Connects
    BY <2>7, ConnectsInvariant
  <2>8. CASE Reconnects
    BY <2>8, ReconnectsInvariant
  <2>9. CASE Takes
    BY <2>9, TakesInvariant
  <2>10. CASE Confirms
    BY <2>10, ConfirmsInvariant
  <2>11. CASE PutsBack
    BY <2>11, PutsBackInvariant
  <2>12. CASE UNCHANGED vars
    <3>1. /\ UNCHANGED <<bufferVars, group, value_cache, storing, taken, view, history,
                         returned, refused>>
          /\ bus' = bus /\ subscribed' = subscribed
          /\ connection' = connection /\ readings' = readings
      BY <2>12 DEF vars
    <3>2. /\ bus' \in Seq(Event) /\ subscribed' \in BOOLEAN
          /\ connection' \in Nat /\ readings' \in Nat /\ Numbered'
      BY <3>1 DEF IInv, Typed, Numbered, history
    <3> QED
      BY <3>1, <3>2, QuietInvariant
  <2> QED
    BY <2>1, <2>2, <2>3, <2>4, <2>5, <2>6, <2>7, <2>8, <2>9, <2>10, <2>11, <2>12
       DEF Next
<1> QED
  BY <1>1, <1>2, PTL DEF Spec

\* Every variable keeps its type; no connection is announced before it is made.
THEOREM TypeCorrect == Spec => []TypeOK
<1>1. IInv => TypeOK
  <2> SUFFICES ASSUME IInv  PROVE TypeOK
    OBVIOUS
  <2>1. Typed /\ Numbered
    BY DEF IInv
  <2>2. BufferTypeOK
    BY <2>1 DEF Typed, BufferTyped, BufferTypeOK
  <2>3. \A i \in DOMAIN bus : bus[i].kind \in {"collected", "connected"}
    <3>1. DOMAIN bus = 1 .. Len(bus) /\ \A i \in 1 .. Len(bus) : bus[i] \in Event
      BY <2>1, LenProperties, ElementOfSeq DEF Typed
    <3> QED
      BY <3>1 DEF Event
  <2>4. DOMAIN item = 1 .. Len(item)
    BY <2>1, LenProperties DEF Typed
  <2>5. \A x \in DOMAIN item : item[x].tag \in Tags
    <3>1. \A x \in 1 .. Len(item) : item[x] \in Tagged
      BY <2>1, ElementOfSeq DEF Typed
    <3> QED
      BY <3>1, <2>4 DEF Tagged
  <2>6. announced \in 0 .. connection
    BY <2>1 DEF Typed, Numbered
  <2> QED
    BY <2>1, <2>2, <2>3, <2>4, <2>5, <2>6 DEF Typed, TypeOK, Readable
<1> QED
  BY <1>1, Invariance, PTL

\* What the consumer will know of a tag in the end is within the deadband of
\* its last reading, unless the tag's newest item was lost to a full buffer
\* (processors/base.py:454-512, 620-646).
THEOREM ConsumerNeverStale == Spec => []NeverStale
<1>1. IInv => NeverStale
  BY NothingStale
<1> QED
  BY <1>1, Invariance, PTL

\* Nothing is lost between the cache, put_many, get_batch and put_front but
\* what the buffer overwrote or refused (processors/base.py:646,
\* buffer.py:189-237).
THEOREM EveryLossCounted == Spec => []LossAccounted
<1>1. IInv => LossAccounted
  BY LossesCounted
<1> QED
  BY <1>1, Invariance, PTL

\* After a reconnection that is announced by COLLECTOR_CONNECTED the first
\* reading of a tag is stored, changed or not (processors/base.py:585-592).
THEOREM EveryAnnouncementRepublishes == Spec => []AnnouncementRepublishes
<1>1. IInv => AnnouncementRepublishes
  <2> SUFFICES ASSUME IInv  PROVE AnnouncementRepublishes
    OBVIOUS
  <2>1. Republished /\ DOMAIN item = 1 .. Len(item)
    BY LenProperties DEF IInv, Typed
  <2> QED
    BY <2>1 DEF Republished, AnnouncementRepublishes, ItemsOf
<1> QED
  BY <1>1, Invariance, PTL
=============================================================================
