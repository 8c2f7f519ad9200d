-------------------------- MODULE DeviceReadProofs --------------------------
(***************************************************************************)
(* Proofs about ReadPlan and DeviceRead, for any devices, any number of    *)
(* collection groups, any tags, gaps, limits and units, and any bounds:    *)
(* PlanCovers and WithinLimits, the types, StaysInStep, ValuesAreOwn and   *)
(* NothingMissing.                                                         *)
(*                                                                         *)
(* The invariant of the planning loop, PInv, adds to PlanCovers and        *)
(* WithinLimits that the tags still to come in the current area begin no   *)
(* earlier than the current group: the loop takes them by rising address.  *)
(* Without it a tag could join a group that begins behind it.              *)
(*                                                                         *)
(* StaysInStep is inductive once it is known that only the first one in    *)
(* the lock waits for an answer (Locked), and what of that answer is owed  *)
(* and has come wherever it waits (Expected). The bound on the failures in *)
(* a row counts the collections under way, each of which can add one.      *)
(*                                                                         *)
(* The two about values rest on a second invariant, OwnInv. What is owed   *)
(* and has come is of the request of whoever waits without a doubt, so it  *)
(* is given its own answer; the data of such a collection is right, lies   *)
(* in its read groups, and unless a read failed has all of those that are  *)
(* not to come any more. Before it stand, protocol by protocol, what a     *)
(* request asks for, what is made of its answer, and that the processor    *)
(* finds the tag's own cells in right data, which need no invariant.       *)
(***************************************************************************)
EXTENDS DeviceRead, QueueLemmas

Ahead == \A g \in current : \A u \in pending : u.area = g.area => g.start <= u.address

PInv == PlanTypeOK /\ Ahead /\ PlanCovers /\ WithinLimits

PlannedGroups == [area : Areas, start : Nat, end : Nat, tags : SUBSET asked]

-----------------------------------------------------------------------------
(* Read groups *)

LEMMA TagType ==
  ASSUME PlanTypeOK, NEW t \in asked
  PROVE  t.area \in Areas /\ t.address \in Nat /\ t.size \in Nat /\ t.size > 0
BY ReadPlanAssumption DEF PlanTypeOK

\* A group made for a tag holds that tag.
LEMMA GroupOfTag ==
  ASSUME PlanTypeOK, NEW t \in asked
  PROVE  GroupOf(t) \in PlannedGroups /\ Within(t, GroupOf(t))
BY TagType DEF GroupOf, Within, PlannedGroups

\* A group a tag is added to begins where it began, holds the tag, and all it held.
LEMMA AddTagKeeps ==
  ASSUME PlanTypeOK, NEW t \in asked, NEW g \in PlannedGroups,
         g.area = t.area, g.start <= t.address
  PROVE  /\ AddTag(g, t) \in PlannedGroups
         /\ AddTag(g, t).start = g.start
         /\ AddTag(g, t).area = g.area
         /\ AddTag(g, t).end \in {g.end, t.address + t.size}
         /\ Within(t, AddTag(g, t))
         /\ \A u \in asked : Within(u, g) => Within(u, AddTag(g, t))
<1> DEFINE h == AddTag(g, t)
<1>1. t.address \in Nat /\ t.size \in Nat
  BY TagType
<1>2. g.end \in Nat /\ g.start \in Nat /\ g.area \in Areas /\ g.tags \in SUBSET asked
  BY DEF PlannedGroups
<1>3. h = [area |-> g.area, start |-> g.start,
           end |-> Later(g.end, t.address + t.size), tags |-> g.tags \cup {t}]
  BY DEF AddTag, PlannedGroups
<1>4. /\ Later(g.end, t.address + t.size) \in {g.end, t.address + t.size}
      /\ g.end <= Later(g.end, t.address + t.size)
      /\ t.address + t.size <= Later(g.end, t.address + t.size)
      /\ Later(g.end, t.address + t.size) \in Nat
  BY <1>1, <1>2 DEF Later
<1>5. h \in PlannedGroups
  BY <1>2, <1>3, <1>4 DEF PlannedGroups
<1>6. Within(t, h)
  BY <1>3, <1>4 DEF Within
<1>7. ASSUME NEW u \in asked, Within(u, g)
      PROVE  Within(u, h)
  <2>1. u.address \in Nat /\ u.size \in Nat
    BY TagType
  <2>2. u.address + u.size <= h.end
    BY <1>2, <1>3, <1>4, <1>7, <2>1 DEF Within
  <2>3. QED
    BY <1>3, <1>7, <2>2 DEF Within
<1>8. QED
  BY <1>3, <1>4, <1>5, <1>6, <1>7

-----------------------------------------------------------------------------
(* The loop *)

LEMMA PlanStarts == PlanInit => PInv
<1> SUFFICES ASSUME PlanInit PROVE PInv
  OBVIOUS
<1>1. rule \in [Areas -> RuleOf]
  BY ReadPlanAssumption DEF PlanInit
<1>2. PlanTypeOK
  BY <1>1 DEF PlanInit, PlanTypeOK, ReadGroups
<1>3. QED
  BY <1>2 DEF PInv, PlanInit, Ahead, PlanCovers, WithinLimits, ReadGroups

\* Every tag fits into a request by itself.
Fits ==
  \A t \in asked :
    Points(t.address, t.address + t.size, rule[t.area].unit) <= rule[t.area].limit

LEMMA ExtendKeeps ==
  ASSUME PInv, NEW t \in pending, Extend(t)
  PROVE  PInv'
<1> USE DEF PInv
<1>1. /\ t \in asked
      /\ rule' = rule /\ asked' = asked /\ closed' = closed
      /\ pending' = pending \ {t}
  BY DEF Extend, PlanTypeOK
<1>2. PICK g \in current : g.area = t.area /\ Joins(g, t) /\ current' = {AddTag(g, t)}
  BY DEF Extend
<1>3. current = {g}
  BY <1>2 DEF PlanTypeOK
<1>4. g \in PlannedGroups /\ g.start <= t.address
  BY <1>2 DEF PlanTypeOK, ReadGroups, PlannedGroups, Ahead
<1> DEFINE h == AddTag(g, t)
<1>5. /\ h \in PlannedGroups /\ h.start = g.start /\ h.area = g.area
      /\ h.end \in {g.end, t.address + t.size}
      /\ Within(t, h)
      /\ \A u \in asked : Within(u, g) => Within(u, h)
  BY <1>1, <1>2, <1>4, AddTagKeeps
<1>6. ReadGroups' = closed \cup {h} /\ ReadGroups = closed \cup {g}
  BY <1>1, <1>2, <1>3 DEF ReadGroups
<1>7. PlanTypeOK'
  <2>1. ReadGroups' \subseteq PlannedGroups
    BY <1>5, <1>6 DEF PlanTypeOK, PlannedGroups
  <2>2. QED
    BY <1>1, <1>2, <2>1 DEF PlanTypeOK, PlannedGroups
<1>8. Ahead'
  BY <1>1, <1>2, <1>3, <1>5 DEF Ahead
<1>9. PlanCovers'
  <2> SUFFICES ASSUME NEW u \in asked, u \notin pending \ {t}
               PROVE  \E k \in ReadGroups' : Within(u, k)
    BY <1>1 DEF PlanCovers, Within
  <2>1. CASE u = t
    BY <1>5, <1>6, <2>1
  <2>2. CASE u # t
    <3>1. PICK k \in ReadGroups : Within(u, k)
      BY <2>2 DEF PlanCovers
    <3>2. QED
      BY <1>5, <1>6, <3>1
  <2>3. QED
    BY <2>1, <2>2
<1>10. WithinLimits'
  <2> SUFFICES ASSUME Fits
               PROVE  \A k \in ReadGroups' :
                        Points(k.start, k.end, rule[k.area].unit) <= rule[k.area].limit
    BY <1>1 DEF WithinLimits, Fits, Points, UnitsUpTo, UnitOf
  <2>1. \A k \in ReadGroups :
          Points(k.start, k.end, rule[k.area].unit) <= rule[k.area].limit
    BY DEF WithinLimits, Fits
  <2>2. Points(g.start, t.address + t.size, rule[t.area].unit) <= rule[t.area].limit
    BY <1>2 DEF Joins
  <2>3. Points(h.start, h.end, rule[h.area].unit) <= rule[h.area].limit
    <3>1. CASE h.end = g.end
      BY <1>5, <1>6, <2>1, <3>1
    <3>2. CASE h.end = t.address + t.size
      BY <1>2, <1>5, <2>2, <3>2
    <3>3. QED
      BY <1>5, <3>1, <3>2
  <2>4. QED
    BY <1>6, <2>1, <2>3
<1>11. QED
  BY <1>7, <1>8, <1>9, <1>10

LEMMA OpenKeeps ==
  ASSUME PInv, NEW t \in pending, Open(t)
  PROVE  PInv'
<1> USE DEF PInv
<1>1. /\ t \in asked
      /\ rule' = rule /\ asked' = asked
      /\ closed' = ReadGroups
      /\ current' = {GroupOf(t)}
      /\ pending' = pending \ {t}
  BY DEF Open, PlanTypeOK, ReadGroups
<1>2. GroupOf(t) \in PlannedGroups /\ Within(t, GroupOf(t))
  BY <1>1, GroupOfTag
<1>3. ReadGroups' = ReadGroups \cup {GroupOf(t)}
  BY <1>1 DEF ReadGroups
<1>4. PlanTypeOK'
  <2>1. ReadGroups' \subseteq PlannedGroups
    BY <1>2, <1>3 DEF PlanTypeOK, PlannedGroups
  <2>2. QED
    BY <1>1, <2>1 DEF PlanTypeOK, PlannedGroups
<1>5. Ahead'
  BY <1>1 DEF Ahead, Open, IsNext, GroupOf
<1>6. PlanCovers'
  <2> SUFFICES ASSUME NEW u \in asked, u \notin pending \ {t}
               PROVE  \E k \in ReadGroups' : Within(u, k)
    BY <1>1 DEF PlanCovers, Within
  <2>1. QED
    BY <1>2, <1>3 DEF PlanCovers
<1>7. WithinLimits'
  <2> SUFFICES ASSUME Fits
               PROVE  \A k \in ReadGroups' :
                        Points(k.start, k.end, rule[k.area].unit) <= rule[k.area].limit
    BY <1>1 DEF WithinLimits, Fits, Points, UnitsUpTo, UnitOf
  <2>1. \A k \in ReadGroups :
          Points(k.start, k.end, rule[k.area].unit) <= rule[k.area].limit
    BY DEF WithinLimits, Fits
  <2>2. Points(t.address, t.address + t.size, rule[t.area].unit) <= rule[t.area].limit
    BY <1>1 DEF Fits
  <2>3. QED
    BY <1>3, <2>1, <2>2 DEF GroupOf
<1>8. QED
  BY <1>4, <1>5, <1>6, <1>7

LEMMA FinishKeeps == PInv /\ Finish => PInv'
<1> SUFFICES ASSUME PInv, Finish PROVE PInv'
  OBVIOUS
<1> USE DEF PInv
<1>1. /\ rule' = rule /\ asked' = asked /\ pending' = pending
      /\ current' = {} /\ ReadGroups' = ReadGroups
  BY DEF Finish, ReadGroups
<1>2. PlanTypeOK' /\ Ahead'
  BY <1>1 DEF PlanTypeOK, Ahead
<1>3. PlanCovers'
  BY <1>1 DEF PlanCovers, Within
<1>4. WithinLimits'
  BY <1>1 DEF WithinLimits, Points, UnitsUpTo, UnitOf
<1>5. QED
  BY <1>2, <1>3, <1>4

LEMMA PlanStutters == PInv /\ UNCHANGED planVars => PInv'
BY DEF PInv, planVars, PlanTypeOK, Ahead, PlanCovers, WithinLimits, ReadGroups, Within,
       Points, UnitsUpTo, UnitOf

LEMMA PlanInvariance == PlanSpec => []PInv
<1>1. PInv /\ [PlanNext]_planVars => PInv'
  BY ExtendKeeps, OpenKeeps, FinishKeeps, PlanStutters DEF PlanNext
<1>2. QED
  BY <1>1, PlanStarts, PTL DEF PlanSpec

-----------------------------------------------------------------------------
(* The results *)

\* Whatever the tags, the gap and the limits: every tag that was registered is
\* inside a read group of its area (_create_read_groups of the four collectors).
THEOREM EveryTagIsRead == PlanSpec => []PlanCovers
<1>1. PInv => PlanCovers
  BY DEF PInv
<1>2. QED
  BY <1>1, PlanInvariance, PTL

\* No merging of tags makes a request longer than the protocol's limit (125 registers,
\* 2000 coils, 960 words, 60 words, 200 bytes).
THEOREM NoRequestTooLong == PlanSpec => []WithinLimits
<1>1. PInv => WithinLimits
  BY DEF PInv
<1>2. QED
  BY <1>1, PlanInvariance, PTL
-----------------------------------------------------------------------------
(* The invariant of DeviceRead.                                            *)

Places ==
  {"idle", "lock", "read", "head", "body", "refused", "woken", "call", "cut"}

\* A collection has left to do what the plan gave it, and waits where its protocol can.
Worked ==
  /\ device \in Devices /\ registering \in 0 .. NumGroups + 1
  /\ DOMAIN read_groups = Groups
  /\ pc \in [Groups -> Places]
  /\ DOMAIN work = Groups
  /\ \A g \in Groups :
       /\ "todo" \in DOMAIN work[g]
       /\ work[g].todo \subseteq read_groups[g]
       /\ pc[g] = "idle" => work[g].todo = {}
       /\ ~Running => pc[g] = "idle"
       /\ pc[g] \in {"read", "woken"} => device.protocol = "fenet"
       /\ pc[g] = "call" => device.protocol = "s7"
       /\ pc[g] = "refused" => device.protocol = "rtu_over_tcp"
  /\ collects \in [Groups -> 0 .. MaxCollects]

\* The collections under way: each of them can add a failure.
Busy == {g \in Groups : pc[g] # "idle"}

FailuresBounded ==
  /\ state \in {"CONNECTED", "ERROR"} /\ failures \in Nat
  /\ state = "CONNECTED" => failures < MaxFailures
  /\ failures + Cardinality(Busy) < MaxFailures + NumGroups

\* Whoever collects is in the lock, and whoever has sent a request is its first.
Locked ==
  /\ lock \in Seq(Groups) /\ Distinct(lock)
  /\ \A g \in Groups : Queued(lock, g) <=> HasRequestLock(device) /\ pc[g] # "idle"
  /\ \A g \in Groups :
       HasRequestLock(device) /\ pc[g] \notin {"idle", "lock"} => lock[1] = g

Transport ==
  /\ link \in {"open", "eof", "closed"} /\ given_up \in BOOLEAN
  /\ orphans \in Nat /\ faults \in 0 .. MaxFaults /\ orphans <= faults
  /\ orphans > 0 => device.protocol = "rtu"

\* The protocols whose stream is read answer by answer.
ByAnswers == device.protocol \in {"tcp", "rtu_over_tcp", "mc"}

\* One request is owed, of which the header has been sent or not; one piece, or a whole
\* answer, is in the stream.
Owes(o, begun) == o = <<o[1]>> /\ "begun" \in DOMAIN o[1] /\ o[1].begun = begun
Alone(s, part) == s = <<s[1]>> /\ s[1].part = part
Whole(s) == s = <<s[1], s[2]>> /\ s[1].part = "head" /\ s[2].part = "body"

\* What may be owed and have come where a collection waits.
Expected(p, o, s) ==
  \/ o = <<>> /\ s = <<>>
  \/ p = "head" /\ s = <<>> /\ Owes(o, FALSE)
  \/ p = "head" /\ Alone(s, "head") /\ ~s[1].exception /\ Owes(o, TRUE)
  \/ p = "head" /\ Whole(s) /\ o = <<>>
  \/ p = "body" /\ s = <<>> /\ Owes(o, TRUE)
  \/ p \in {"body", "refused"} /\ Alone(s, "body") /\ o = <<>>

Nothing == owed = <<>> /\ stream = <<>>

InStep ==
  ByAnswers /\ ~given_up =>
    /\ link # "open" => Nothing
    /\ (\A g \in Groups : ~Waits(g)) => Nothing
    /\ \A g \in Groups : Waits(g) => Expected(pc[g], owed, stream)

IInv == PInv /\ Worked /\ FailuresBounded /\ Locked /\ Transport /\ InStep
-----------------------------------------------------------------------------
(* The pieces of answers.                                                  *)

\* Sequences of one and of two.
LEMMA One ==
  ASSUME NEW x
  PROVE  /\ <<x>> \in Seq({x}) /\ Len(<<x>>) = 1 /\ <<x>>[1] = x
         /\ <<x>> # <<>> /\ Head(<<x>>) = x /\ Tail(<<x>>) = <<>>
         /\ <<>> \o <<x>> = <<x>> /\ Append(<<>>, x) = <<x>>
OBVIOUS

LEMMA Two ==
  ASSUME NEW x, NEW y
  PROVE  /\ Len(<<x, y>>) = 2 /\ <<x, y>>[1] = x /\ <<x, y>>[2] = y
         /\ <<x, y>> # <<>> /\ Head(<<x, y>>) = x /\ Tail(<<x, y>>) = <<y>>
         /\ <<x>> \o <<y>> = <<x, y>>
<1>1. /\ Len(<<x, y>>) = 2 /\ <<x, y>>[1] = x /\ <<x, y>>[2] = y
      /\ <<x, y>> # <<>> /\ Head(<<x, y>>) = x /\ Tail(<<x, y>>) = <<y>>
  OBVIOUS
<1>2. <<x>> \o <<y>> = <<x, y>>
  <2> DEFINE S == {x, y}
             r == <<x>> \o <<y>>
             q == <<x, y>>
  <2>1. <<x>> \in Seq(S) /\ <<y>> \in Seq(S) /\ q \in Seq(S)
    OBVIOUS
  <2>2. Len(<<x>>) = 1 /\ Len(<<y>>) = 1 /\ <<x>>[1] = x /\ <<y>>[1] = y
    OBVIOUS
  <2>3. r \in Seq(S) /\ Len(r) = 2 /\ r[1] = x /\ r[2] = y
    <3> HIDE DEF S
    <3> QED
      BY <2>1, <2>2, ConcatProperties
  <2>4. Len(q) = 2 /\ q[1] = x /\ q[2] = y
    OBVIOUS
  <2> HIDE DEF S, r, q
  <2>5. \A i \in 1 .. 2 : r[i] = q[i]
    BY <2>3, <2>4
  <2> QED
    BY <2>1, <2>3, <2>4, <2>5, SeqEqual DEF r, q
<1> QED
  BY <1>1, <1>2

LEMMA AloneTaken ==
  ASSUME NEW s, NEW part, Alone(s, part)
  PROVE  /\ s # <<>> /\ Head(s) = s[1] /\ Head(s).part = part
         /\ Tail(s) = <<>> /\ Len(s) = 1
<1> DEFINE x == s[1]
<1>1. s = <<x>> /\ x.part = part
  BY DEF Alone
<1> HIDE DEF x
<1> QED
  BY <1>1, One

LEMMA WholeTaken ==
  ASSUME NEW s, Whole(s)
  PROVE  /\ s # <<>> /\ Head(s) = s[1] /\ Head(s).part = "head"
         /\ Alone(Tail(s), "body") /\ Len(s) = 2
<1> DEFINE x == s[1]
           y == s[2]
<1>1. s = <<x, y>> /\ x.part = "head" /\ y.part = "body"
  BY DEF Whole
<1> HIDE DEF x, y
<1>2. Alone(<<y>>, "body")
  BY <1>1, One DEF Alone
<1> QED
  BY <1>1, <1>2, Two

LEMMA OwesTaken ==
  ASSUME NEW o, NEW begun, Owes(o, begun)
  PROVE  /\ o # <<>> /\ Head(o) = o[1] /\ Head(o).begun = begun /\ Tail(o) = <<>>
         /\ Owes([o EXCEPT ![1].begun = TRUE], TRUE)
<1> DEFINE x == o[1]
           y == [x EXCEPT !.begun = TRUE]
<1>1. o = <<x>> /\ x.begun = begun /\ "begun" \in DOMAIN x
  BY DEF Owes
<1> HIDE DEF x
<1>2. "begun" \in DOMAIN y /\ y.begun = TRUE
  BY <1>1
<1>3. [o EXCEPT ![1].begun = TRUE] = [o EXCEPT ![1] = y]
  BY <1>1
<1> HIDE DEF y
<1>4. [o EXCEPT ![1] = y] = <<y>>
  BY <1>1
<1>5. Owes(<<y>>, TRUE)
  BY <1>2, One DEF Owes
<1> QED
  BY <1>1, <1>3, <1>4, <1>5, One

LEMMA Asking ==
  ASSUME NEW of
  PROVE  Owes(Append(<<>>, [of |-> of, begun |-> FALSE]), FALSE)
<1> DEFINE x == [of |-> of, begun |-> FALSE]
<1>1. x.begun = FALSE /\ "begun" \in DOMAIN x
  OBVIOUS
<1> HIDE DEF x
<1>2. Append(<<>>, x) = <<x>> /\ <<x>>[1] = x
  BY One
<1>3. Owes(<<x>>, FALSE)
  BY <1>1, <1>2 DEF Owes
<1> QED
  BY <1>2, <1>3 DEF x

\* A header and the rest make an answer, whether they come together or apart.
LEMMA Arrival ==
  ASSUME NEW x, NEW y, NEW s, x.part = "head", y.part = "body"
  PROVE  /\ Alone(<<>> \o <<x>>, "head") /\ Alone(<<>> \o (<<>> \o <<y>>), "body")
         /\ (<<>> \o <<x>>)[1] = x
         /\ Whole(<<>> \o (<<x>> \o <<y>>))
         /\ Alone(s, "head") => Whole(s \o (<<>> \o <<y>>))
<1>1. <<>> \o <<x>> = <<x>> /\ <<>> \o <<y>> = <<y>> /\ <<x>>[1] = x /\ <<y>>[1] = y
  BY One
<1>2. <<x>> \o <<y>> = <<x, y>> /\ <<x, y>>[1] = x /\ <<x, y>>[2] = y
  BY Two
<1>3. <<>> \o <<x, y>> = <<x, y>>
  OBVIOUS
<1>4. Whole(<<x, y>>) /\ Alone(<<x>>, "head") /\ Alone(<<y>>, "body")
  BY <1>1, <1>2 DEF Whole, Alone
<1>5. ASSUME Alone(s, "head")  PROVE Whole(s \o <<y>>)
  <2> DEFINE z == s[1]
  <2>1. s = <<z>> /\ z.part = "head"
    BY <1>5 DEF Alone
  <2> HIDE DEF z
  <2>2. s \o <<y>> = <<z, y>> /\ <<z, y>>[1] = z /\ <<z, y>>[2] = y
    BY <2>1, Two
  <2>3. Whole(<<z, y>>)
    BY <2>1, <2>2 DEF Whole
  <2> QED
    BY <2>2, <2>3
<1> QED
  BY <1>1, <1>2, <1>3, <1>4, <1>5
-----------------------------------------------------------------------------
(* The collections.                                                        *)

LEMMA BusyFinite ==
  /\ NumGroups \in Nat /\ MaxFailures \in Nat \ {0}
  /\ IsFiniteSet(Busy) /\ Cardinality(Busy) \in Nat /\ Cardinality(Busy) <= NumGroups
<1>1. NumGroups \in Nat /\ MaxFailures \in Nat \ {0}
  BY DeviceReadAssumption
<1>2. IsFiniteSet(Groups) /\ Cardinality(Groups) = NumGroups
  BY <1>1, FS_Interval DEF Groups
<1>3. Busy \in SUBSET Groups
  BY DEF Busy
<1>4. IsFiniteSet(Busy) /\ Cardinality(Busy) <= Cardinality(Groups)
  BY <1>2, <1>3, FS_Subset
<1> QED
  BY <1>1, <1>2, <1>4, FS_CardinalityType

\* Any set of groups counts so many at most.
LEMMA FewGroups ==
  ASSUME NEW B \in SUBSET Groups
  PROVE  Cardinality(B) \in Nat /\ Cardinality(B) <= NumGroups
<1>1. NumGroups \in Nat
  BY DeviceReadAssumption
<1>2. IsFiniteSet(Groups) /\ Cardinality(Groups) = NumGroups
  BY <1>1, FS_Interval DEF Groups
<1>3. IsFiniteSet(B) /\ Cardinality(B) <= Cardinality(Groups)
  BY <1>2, FS_Subset
<1> QED
  BY <1>2, <1>3, FS_CardinalityType

\* One that is not under way leaves room for its failure.
LEMMA IdleIsNotBusy ==
  ASSUME NEW g \in Groups, g \notin Busy
  PROVE  Cardinality(Busy) <= NumGroups - 1
<1>1. NumGroups \in Nat
  BY DeviceReadAssumption
<1>2. IsFiniteSet(Groups) /\ Cardinality(Groups) = NumGroups
  BY <1>1, FS_Interval DEF Groups
<1>3. IsFiniteSet(Groups \ {g}) /\ Cardinality(Groups \ {g}) = Cardinality(Groups) - 1
  BY <1>2, FS_RemoveElement
<1>4. Busy \in SUBSET (Groups \ {g})
  BY DEF Busy
<1>5. Cardinality(Busy) <= Cardinality(Groups \ {g})
  BY <1>3, <1>4, FS_Subset
<1> QED
  BY <1>2, <1>3, <1>5

\* Only the first one in the lock waits for an answer.
LEMMA OneWaits ==
  ASSUME Worked, Locked, HasRequestLock(device), NEW g \in Groups, lock[1] = g,
         NEW h \in Groups, h # g
  PROVE  ~Waits(h)
BY DEF Locked, Waits

\* With nothing owed and nothing in the stream, it is in step.
LEMMA EmptyInStep ==
  ASSUME device' = device, ByAnswers /\ ~given_up' => Nothing'
  PROVE  InStep'
BY DEF InStep, ByAnswers, Nothing, Expected

\* A collection that ends leaves the lock.
LEMMA IdleKeeps ==
  ASSUME Worked, Locked, NEW g \in Groups, pc[g] # "idle", Idle(g),
         UNCHANGED <<registered, collects>>
  PROVE  /\ Worked' /\ Locked' /\ Cardinality(Busy') = Cardinality(Busy) - 1
         /\ pc' = [pc EXCEPT ![g] = "idle"]
<1>1. /\ pc' = [pc EXCEPT ![g] = "idle"] /\ work' = [work EXCEPT ![g] = NoWork]
      /\ lock' = RemoveFirst(lock, g)
      /\ device' = device /\ registering' = registering /\ read_groups' = read_groups
      /\ collects' = collects
  BY DEF Idle, Leave, registered
<1>2. \A h \in Groups : pc'[h] = IF h = g THEN "idle" ELSE pc[h]
  BY <1>1 DEF Worked
<1>3. Worked'
  <2>1. \A h \in Groups : work'[h] = IF h = g THEN NoWork ELSE work[h]
    BY <1>1 DEF Worked
  <2>2. DOMAIN work' = Groups /\ pc' \in [Groups -> Places]
    BY <1>1 DEF Worked, Places
  <2> SUFFICES ASSUME NEW h \in Groups
               PROVE  /\ "todo" \in DOMAIN work'[h]
                      /\ work'[h].todo \subseteq read_groups[h]
                      /\ pc'[h] = "idle" => work'[h].todo = {}
                      /\ ~Running => pc'[h] = "idle"
                      /\ pc'[h] \in {"read", "woken"} => device.protocol = "fenet"
                      /\ pc'[h] = "call" => device.protocol = "s7"
                      /\ pc'[h] = "refused" => device.protocol = "rtu_over_tcp"
    BY <1>1, <2>2 DEF Worked, Running
  <2>3. CASE h = g
    <3>1. work'[h] = NoWork /\ pc'[h] = "idle"
      BY <1>2, <2>1, <2>3
    <3> QED
      BY <3>1 DEF NoWork
  <2>4. CASE h # g
    <3>1. work'[h] = work[h] /\ pc'[h] = pc[h]
      BY <1>2, <2>1, <2>4
    <3> QED
      BY <3>1 DEF Worked
  <2> QED
    BY <2>3, <2>4
<1>4. Locked'
  <2>1. lock \in Seq(Groups) /\ Distinct(lock)
    BY DEF Locked
  <2>2. /\ lock' \in Seq(Groups) /\ Distinct(lock')
        /\ \A y : Queued(lock', y) <=> Queued(lock, y) /\ y # g
        /\ lock # <<>> /\ g # lock[1] => lock'[1] = lock[1]
    BY <1>1, <2>1, RemoveQueue
  <2>3. \A h \in Groups : Queued(lock', h) <=> HasRequestLock(device') /\ pc'[h] # "idle"
    BY <1>1, <1>2, <2>2 DEF Locked
  <2>4. ASSUME NEW h \in Groups, HasRequestLock(device), pc'[h] \notin {"idle", "lock"}
        PROVE  lock'[1] = h
    <3>1. h # g /\ pc[h] \notin {"idle", "lock"}
      BY <1>2, <2>4
    <3>2. lock[1] = h /\ Queued(lock, h)
      BY <3>1, <2>4 DEF Locked
    <3>3. lock # <<>>
      BY <3>2, EmptyQueue
    <3> QED
      BY <3>1, <3>2, <3>3, <2>2
  <2> QED
    BY <1>1, <2>2, <2>3, <2>4 DEF Locked
<1>5. Cardinality(Busy') = Cardinality(Busy) - 1
  <2>1. Busy' = Busy \ {g} /\ g \in Busy
    BY <1>2 DEF Busy
  <2>2. IsFiniteSet(Busy)
    BY BusyFinite
  <2> QED
    BY <2>1, <2>2, FS_RemoveElement
<1> QED
  BY <1>1, <1>3, <1>4, <1>5

\* Who goes on to where another wait may be, and keeps what it has to do.
LEMMA MovesKeeps ==
  ASSUME Worked, Locked, NEW g \in Groups, NEW p \in Places \ {"idle"}, pc[g] # "idle",
         p \in {"read", "woken"} => device.protocol = "fenet",
         p = "call" => device.protocol = "s7",
         p = "refused" => device.protocol = "rtu_over_tcp",
         HasRequestLock(device) => lock[1] = g,
         pc' = [pc EXCEPT ![g] = p],
         UNCHANGED <<registered, collects, lock>>,
         DOMAIN work' = Groups,
         \A h \in Groups :
           work'[h].todo = work[h].todo /\ "todo" \in DOMAIN work'[h]
  PROVE  Worked' /\ Locked' /\ Busy' = Busy
<1>1. /\ device' = device /\ registering' = registering /\ read_groups' = read_groups
      /\ collects' = collects /\ lock' = lock
  BY DEF registered
<1>2. \A h \in Groups : pc'[h] = IF h = g THEN p ELSE pc[h]
  BY DEF Worked
<1>3. pc' \in [Groups -> Places]
  BY DEF Worked
<1>4. Worked'
  BY <1>1, <1>2, <1>3 DEF Worked, Running
<1>5. Locked'
  BY <1>1, <1>2 DEF Locked
<1>6. Busy' = Busy
  BY <1>2 DEF Busy
<1> QED
  BY <1>4, <1>5, <1>6

\* Whoever is not idle stays so, and whoever has not sent waits to send.
LEMMA Rearranged ==
  ASSUME Worked, Locked, pc' \in [Groups -> Places],
         UNCHANGED <<registered, collects, lock, work>>,
         \A g \in Groups :
           /\ (pc'[g] = "idle") <=> (pc[g] = "idle")
           /\ (pc'[g] = "lock") <=> (pc[g] = "lock")
           /\ pc'[g] \in {"read", "woken"} => device.protocol = "fenet"
           /\ pc'[g] = "call" => device.protocol = "s7"
           /\ pc'[g] = "refused" => device.protocol = "rtu_over_tcp"
  PROVE  Worked' /\ Locked' /\ Busy' = Busy
<1>1. /\ device' = device /\ registering' = registering /\ read_groups' = read_groups
      /\ collects' = collects /\ lock' = lock /\ work' = work
  BY DEF registered
<1>2. Worked'
  BY <1>1 DEF Worked, Running
<1>3. Locked'
  BY <1>1 DEF Locked
<1>4. Busy' = Busy
  BY DEF Busy
<1> QED
  BY <1>2, <1>3, <1>4

\* A read ends: the next one queues again, or the collection is over.
LEMMA EndReadKeeps ==
  ASSUME Worked, FailuresBounded, Locked, NEW g \in Groups, pc[g] # "idle",
         HasRequestLock(device) => lock[1] = g,
         NEW ok \in BOOLEAN, NEW registers, NEW s \in {state, "ERROR"},
         EndRead(g, ok, registers, s), UNCHANGED <<registered, collects>>
  PROVE  Worked' /\ FailuresBounded' /\ Locked'
<1> DEFINE w == [work[g] EXCEPT !.todo = @ \ {ReadGroup(g)},
                                !.data = Update(@, registers),
                                !.failed = @ + (IF ok THEN 0 ELSE 1)]
<1>1. \/ /\ pc' = [pc EXCEPT ![g] = "lock"] /\ work' = [work EXCEPT ![g] = w]
         /\ lock' = IF HasRequestLock(device) THEN Append(Leave(lock, g), g) ELSE lock
         /\ state' = s /\ failures' = failures
      \/ /\ Idle(g) /\ failures' = failures + 1 /\ state' = StateAfterFailure(s)
      \/ /\ Idle(g) /\ failures' = 0 /\ state' = s
  BY Zenon DEF EndRead
<1>2. /\ device' = device /\ registering' = registering /\ read_groups' = read_groups
      /\ collects' = collects
  BY DEF registered
<1>3. "todo" \in DOMAIN w /\ w.todo = work[g].todo \ {ReadGroup(g)}
  BY DEF Worked
<1> HIDE DEF w
<1>4. /\ state \in {"CONNECTED", "ERROR"} /\ failures \in Nat
      /\ state = "CONNECTED" => failures < MaxFailures
      /\ failures + Cardinality(Busy) < MaxFailures + NumGroups
      /\ MaxFailures \in Nat \ {0} /\ NumGroups \in Nat /\ Cardinality(Busy) \in Nat
      /\ Cardinality(Busy) <= NumGroups
  BY BusyFinite DEF FailuresBounded
<1>5. CASE /\ pc' = [pc EXCEPT ![g] = "lock"] /\ work' = [work EXCEPT ![g] = w]
           /\ lock' = IF HasRequestLock(device) THEN Append(Leave(lock, g), g) ELSE lock
           /\ state' = s /\ failures' = failures
  <2>1. /\ \A h \in Groups : pc'[h] = IF h = g THEN "lock" ELSE pc[h]
        /\ \A h \in Groups : work'[h] = IF h = g THEN w ELSE work[h]
        /\ pc' \in [Groups -> Places] /\ DOMAIN work' = Groups
    BY <1>5 DEF Worked, Places
  <2>3. w.todo \subseteq read_groups[g]
    BY <1>3 DEF Worked
  <2>4. Worked'
    BY <1>2, <1>3, <2>1, <2>3 DEF Worked, Running
  <2>5. Busy' = Busy
    BY <2>1 DEF Busy
  <2>6. FailuresBounded'
    BY <1>4, <1>5, <2>5 DEF FailuresBounded
  <2>7. ASSUME ~HasRequestLock(device)  PROVE Locked'
    BY <1>2, <1>5, <2>1, <2>7 DEF Locked
  <2>8. ASSUME HasRequestLock(device)  PROVE Locked'
    <3> DEFINE rest == RemoveFirst(lock, g)
    <3>1. lock \in Seq(Groups) /\ Distinct(lock) /\ lock[1] = g
      BY <2>8 DEF Locked
    <3>2. /\ rest \in Seq(Groups) /\ Distinct(rest)
          /\ \A y : Queued(rest, y) <=> Queued(lock, y) /\ y # g
      BY <3>1, RemoveQueue
    <3>3. lock' = Append(rest, g)
      BY <1>5, <2>8 DEF Leave
    <3> HIDE DEF rest
    <3>4. /\ lock' \in Seq(Groups) /\ Distinct(lock')
          /\ \A y : Queued(lock', y) <=> Queued(rest, y) \/ y = g
      BY <3>2, <3>3, AppendQueue
    <3>5. \A h \in Groups : Queued(lock', h) <=> HasRequestLock(device) /\ pc'[h] # "idle"
      BY <3>2, <3>4, <2>1, <2>8 DEF Locked
    <3>6. \A h \in Groups : pc'[h] \in {"idle", "lock"}
      BY <3>1, <2>1, <2>8 DEF Locked
    <3> QED
      BY <1>2, <3>4, <3>5, <3>6 DEF Locked
  <2> QED
    BY <2>4, <2>6, <2>7, <2>8
<1>6. CASE Idle(g) /\ failures' = failures + 1 /\ state' = StateAfterFailure(s)
  <2>1. Worked' /\ Locked' /\ Cardinality(Busy') = Cardinality(Busy) - 1
    BY <1>6, IdleKeeps
  <2>2. failures' \in Nat /\ failures' + Cardinality(Busy') < MaxFailures + NumGroups
    BY <1>4, <1>6, <2>1
  <2>3. /\ state' \in {"CONNECTED", "ERROR"}
        /\ state' = "CONNECTED" => failures' < MaxFailures
    BY <1>4, <1>6 DEF StateAfterFailure
  <2> QED
    BY <2>1, <2>2, <2>3 DEF FailuresBounded
<1>7. CASE Idle(g) /\ failures' = 0 /\ state' = s
  <2>1. Worked' /\ Locked' /\ Cardinality(Busy') = Cardinality(Busy) - 1
    BY <1>7, IdleKeeps
  <2>2. 0 + (Cardinality(Busy) - 1) < MaxFailures + NumGroups
    BY <1>4
  <2> QED
    BY <1>4, <1>7, <2>1, <2>2 DEF FailuresBounded
<1> QED
  BY <1>1, <1>5, <1>6, <1>7
-----------------------------------------------------------------------------
(* Registration.                                                           *)

LEMMA CollectingUnchanged ==
  ASSUME Worked, FailuresBounded, Locked,
         UNCHANGED <<registered, state, failures, pc, work, lock, collects>>
  PROVE  Worked' /\ FailuresBounded' /\ Locked'
<1>1. /\ device' = device /\ registering' = registering /\ read_groups' = read_groups
      /\ collects' = collects /\ lock' = lock /\ work' = work /\ pc' = pc
      /\ state' = state /\ failures' = failures
  BY DEF registered
<1>2. Worked' /\ Locked' /\ Busy' = Busy
  BY <1>1 DEF Worked, Locked, Busy, Running
<1> QED
  BY <1>1, <1>2 DEF FailuresBounded

LEMMA TransportUnchanged ==
  ASSUME Transport, InStep,
         UNCHANGED <<device, pc, link, owed, stream, orphans, given_up, faults>>
  PROVE  Transport' /\ InStep'
<1>1. Transport'
  BY DEF Transport
<1>2. InStep'
  BY DEF InStep, ByAnswers, Nothing, Waits
<1> QED
  BY <1>1, <1>2

LEMMA InitInvariant == Init => IInv
<1> SUFFICES ASSUME Init  PROVE IInv
  OBVIOUS
<1>1. /\ NumGroups \in Nat \ {0} /\ MaxFailures \in Nat \ {0}
      /\ MaxFaults \in Nat /\ MaxCollects \in Nat
  BY DeviceReadAssumption
<1>2. 1 \in Groups
  BY <1>1 DEF Groups
<1>3. device \in Devices /\ rule \in Rules /\ asked \in TagSets
  BY <1>2, DeviceReadAssumption DEF Init
<1>4. PInv
  BY <1>3, PlanStarts DEF Init, PlanInit
<1>5. Worked
  <2>1. \A g \in Groups : work[g] = NoWork /\ pc[g] = "idle" /\ read_groups[g] = {}
    BY DEF Init
  <2>2. "todo" \in DOMAIN NoWork /\ NoWork.todo = {}
    BY DEF NoWork
  <2>3. /\ registering \in 0 .. NumGroups + 1 /\ DOMAIN read_groups = Groups
        /\ pc \in [Groups -> Places] /\ DOMAIN work = Groups
        /\ collects \in [Groups -> 0 .. MaxCollects]
    BY <1>1 DEF Init, Places
  <2> QED
    BY <1>3, <2>1, <2>2, <2>3 DEF Worked
<1>6. FailuresBounded
  <2>1. Busy = {}
    BY DEF Busy, Init
  <2>2. Cardinality(Busy) = 0
    BY <2>1, FS_EmptySet
  <2> QED
    BY <1>1, <2>2 DEF FailuresBounded, Init
<1>7. Locked
  <2>1. lock = <<>> /\ \A g \in Groups : pc[g] = "idle"
    BY DEF Init
  <2>2. lock \in Seq(Groups)
    BY <2>1
  <2> QED
    BY <2>1, <2>2, EmptyQueue DEF Locked
<1>8. Transport
  <2>1. link = "open" /\ given_up = FALSE /\ orphans = 0 /\ faults = 0
    BY DEF Init
  <2>2. 0 \in 0 .. MaxFaults /\ 0 \in Nat /\ 0 <= 0 /\ ~(0 > 0)
    BY <1>1
  <2>3. link \in {"open", "eof", "closed"} /\ given_up \in BOOLEAN
    BY <2>1
  <2>4. orphans \in Nat /\ faults \in 0 .. MaxFaults /\ orphans <= faults /\ ~(orphans > 0)
    BY <2>1, <2>2
  <2> QED
    BY <2>3, <2>4 DEF Transport
<1>9. InStep
  BY DEF InStep, Init, Nothing, Expected
<1> QED
  BY <1>4, <1>5, <1>6, <1>7, <1>8, <1>9 DEF IInv

LEMMA PlansInvariant ==
  ASSUME IInv, Plans
  PROVE  IInv'
<1>1. PlanNext
  BY DEF Plans
<1>2. /\ UNCHANGED <<registered, state, failures, pc, work, lock, collects>>
      /\ UNCHANGED <<device, pc, link, owed, stream, orphans, given_up, faults>>
  BY DEF Plans, registered, transport
<1>3. PInv'
  BY <1>1, ExtendKeeps, OpenKeeps, FinishKeeps DEF PlanNext, IInv
<1> QED
  BY <1>2, <1>3, CollectingUnchanged, TransportUnchanged DEF IInv

\* While tags are registered nothing is collected.
LEMMA NobodyBusy ==
  ASSUME Worked, registering \in Groups, NEW g \in Groups
  PROVE  pc[g] = "idle" /\ work[g].todo = {} /\ ~Running
<1>1. ~Running
  BY DeviceReadAssumption DEF Running, Groups
<1> QED
  BY <1>1 DEF Worked

LEMMA RegisteredInvariant ==
  ASSUME IInv, Registered
  PROVE  IInv'
<1>1. /\ registering \in Groups /\ pending = {} /\ current = {}
      /\ read_groups' = [read_groups EXCEPT ![registering] = closed]
      /\ registering' = registering + 1
      /\ asked' = IF registering + 1 \in Groups
                  THEN Parsed(device, device.groups[registering + 1]) ELSE {}
      /\ pending' = asked' /\ closed' = {}
      /\ rule' = rule /\ current' = current /\ device' = device
      /\ state' = state /\ failures' = failures /\ pc' = pc /\ work' = work
      /\ lock' = lock /\ collects' = collects
      /\ UNCHANGED <<device, pc, link, owed, stream, orphans, given_up, faults>>
  BY DEF Registered, Registering, Planned, transport
<1>2. NumGroups \in Nat /\ registering + 1 \in 0 .. NumGroups + 1
  BY <1>1, DeviceReadAssumption DEF Groups
<1>3. PInv'
  <2>1. asked' \in TagSets
    BY <1>1, DeviceReadAssumption DEF IInv, Worked
  <2>2. rule' \in [Areas -> RuleOf] /\ current' = {} /\ closed' = {} /\ pending' = asked'
    BY <1>1 DEF IInv, PInv, PlanTypeOK
  <2> QED
    BY <2>1, <2>2 DEF PInv, PlanTypeOK, Ahead, PlanCovers, WithinLimits, ReadGroups
<1>4. \A g \in Groups : pc[g] = "idle" /\ work[g].todo = {}
  BY <1>1, NobodyBusy DEF IInv
<1>5. Worked'
  BY <1>1, <1>2, <1>4 DEF IInv, Worked
<1>6. FailuresBounded' /\ Locked'
  BY <1>1 DEF IInv, FailuresBounded, Locked, Busy
<1> QED
  BY <1>1, <1>3, <1>5, <1>6, TransportUnchanged DEF IInv

LEMMA RegistrationRaisesInvariant ==
  ASSUME IInv, RegistrationRaises
  PROVE  IInv'
<1>1. /\ registering \in Groups /\ registering' = 0
      /\ device' = device /\ read_groups' = read_groups
      /\ state' = state /\ failures' = failures /\ pc' = pc /\ work' = work
      /\ lock' = lock /\ collects' = collects
      /\ UNCHANGED planVars
      /\ UNCHANGED <<device, pc, link, owed, stream, orphans, given_up, faults>>
  BY DEF RegistrationRaises, Registering, transport
<1>2. PInv'
  BY <1>1, PlanStutters DEF IInv
<1>3. \A g \in Groups : pc[g] = "idle"
  BY <1>1, NobodyBusy DEF IInv
<1>4. Worked'
  <2>1. 0 \in 0 .. NumGroups + 1
    BY DeviceReadAssumption
  <2> QED
    BY <1>1, <1>3, <2>1 DEF IInv, Worked
<1>5. FailuresBounded' /\ Locked'
  BY <1>1 DEF IInv, FailuresBounded, Locked, Busy
<1> QED
  BY <1>1, <1>2, <1>4, <1>5, TransportUnchanged DEF IInv
-----------------------------------------------------------------------------
(* Reading.                                                                *)

\* A new connection: who waits on the old one will find it cut, and nothing is owed
\* but over a serial line.
LEMMA FreshFacts ==
  ASSUME Worked, NEW pcs, pcs \in [Groups -> Places], Fresh(pcs), device' = device
  PROVE  /\ pc' \in [Groups -> Places] /\ link' = "open" /\ orphans' = 0
         /\ given_up' \in BOOLEAN
         /\ \A h \in Groups : pc'[h] = IF Waits(h) THEN "cut" ELSE pcs[h]
         /\ ByAnswers => Nothing'
BY DEF Fresh, Places, ByAnswers, Nothing

\* Whoever goes on from its place is the first in the lock.
LEMMA FirstInLock ==
  ASSUME Worked, Locked, NEW g \in Groups, HasRequestLock(device), pc[g] # "idle",
         pc[g] = "lock" => MaySend(g)
  PROVE  lock[1] = g
<1>1. Queued(lock, g) /\ lock \in Seq(Groups)
  BY DEF Locked
<1>2. lock # <<>>
  BY <1>1, EmptyQueue
<1>3. CASE pc[g] = "lock"
  BY <1>1, <1>2, <1>3, HeadTailProperties DEF MaySend
<1>4. CASE pc[g] # "lock"
  BY <1>4 DEF Locked
<1> QED
  BY <1>3, <1>4

\* So nobody else waits for an answer.
LEMMA NobodyElseWaits ==
  ASSUME Worked, Locked, NEW g \in Groups, ByAnswers, pc[g] # "idle",
         pc[g] = "lock" => MaySend(g)
  PROVE  HasRequestLock(device) /\ lock[1] = g /\ \A h \in Groups : h # g => ~Waits(h)
<1>1. HasRequestLock(device)
  BY DEF HasRequestLock, ByAnswers
<1> QED
  BY <1>1, FirstInLock, OneWaits

\* A read that ends keeps the invariant, as nothing is left that it would have taken.
LEMMA ReadEnds ==
  ASSUME IInv, NEW g \in Groups, pc[g] # "idle",
         pc[g] = "lock" /\ HasRequestLock(device) => MaySend(g),
         NEW ok \in BOOLEAN, NEW registers, NEW s \in {state, "ERROR"},
         EndRead(g, ok, registers, s),
         UNCHANGED <<planVars, registered, collects>>,
         Transport', ByAnswers /\ ~given_up' => Nothing'
  PROVE  IInv'
<1>1. PInv'
  BY PlanStutters DEF IInv
<1>2. HasRequestLock(device) => lock[1] = g
  BY FirstInLock DEF IInv
<1>3. Worked' /\ FailuresBounded' /\ Locked'
  BY <1>2, EndReadKeeps DEF IInv
<1>4. InStep'
  BY EmptyInStep DEF registered
<1> QED
  BY <1>1, <1>3, <1>4 DEF IInv

\* The two ways a read ends.
LEMMA ReadFailsEnds ==
  ASSUME IInv, NEW g \in Groups, pc[g] # "idle",
         pc[g] = "lock" /\ HasRequestLock(device) => MaySend(g),
         NEW s \in {state, "ERROR"}, ReadFails(g, s),
         UNCHANGED <<planVars, registered, collects>>,
         Transport', ByAnswers /\ ~given_up' => Nothing'
  PROVE  IInv'
<1>1. EndRead(g, FALSE, <<>>, s)
  BY DEF ReadFails
<1> QED
  BY <1>1, ReadEnds

LEMMA ReadGivesEnds ==
  ASSUME IInv, NEW g \in Groups, pc[g] # "idle",
         pc[g] = "lock" /\ HasRequestLock(device) => MaySend(g),
         NEW payload, ReadGives(g, payload),
         UNCHANGED <<planVars, registered, collects>>,
         Transport', ByAnswers /\ ~given_up' => Nothing'
  PROVE  IInv'
<1>1. EndRead(g, TRUE, ReadResult(ReadGroup(g), payload), state)
  BY DEF ReadGives
<1> QED
  BY <1>1, ReadEnds

\* Whoever moves on within a read.
LEMMA ReadMoves ==
  ASSUME IInv, NEW g \in Groups, NEW p \in Places \ {"idle"}, pc[g] # "idle",
         pc[g] = "lock" /\ HasRequestLock(device) => MaySend(g),
         p \in {"read", "woken"} => device.protocol = "fenet",
         p = "call" => device.protocol = "s7",
         p = "refused" => device.protocol = "rtu_over_tcp",
         pc' = [pc EXCEPT ![g] = p],
         UNCHANGED <<planVars, registered, collects, lock, state, failures>>,
         DOMAIN work' = Groups,
         \A h \in Groups :
           work'[h].todo = work[h].todo /\ "todo" \in DOMAIN work'[h],
         Transport', InStep'
  PROVE  IInv'
<1>1. PInv'
  BY PlanStutters DEF IInv
<1>2. HasRequestLock(device) => lock[1] = g
  BY FirstInLock DEF IInv
<1>3. Worked' /\ Locked' /\ Busy' = Busy
  BY <1>2, MovesKeeps DEF IInv
<1>4. FailuresBounded'
  BY <1>3 DEF FailuresBounded, IInv
<1> QED
  BY <1>1, <1>3, <1>4 DEF IInv

\* In step, whoever moves on expects what is owed and has come from there.
LEMMA MoveInStep ==
  ASSUME Worked, Locked, NEW g \in Groups, NEW p \in Places, ByAnswers, pc[g] # "idle",
         pc[g] = "lock" => MaySend(g),
         pc' = [pc EXCEPT ![g] = p], p \in {"head", "body", "refused"}, device' = device,
         link' # "open" => Nothing', Expected(p, owed', stream')
  PROVE  InStep'
<1>1. \A h \in Groups : h # g => ~Waits(h)
  BY NobodyElseWaits
<1>2. \A h \in Groups : pc'[h] = IF h = g THEN p ELSE pc[h]
  BY DEF Worked
<1>3. pc'[g] = p /\ Waits(g)'
  BY <1>2 DEF Waits
<1>4. \A h \in Groups : h # g => ~(Waits(h)')
  BY <1>1, <1>2 DEF Waits
<1> QED
  BY <1>3, <1>4 DEF InStep

\* Of the connection only the fields change that Transport does not speak of.
LEMMA SameTransport ==
  ASSUME Transport, UNCHANGED <<registered, link, orphans, given_up, faults>>
  PROVE  Transport'
BY DEF Transport, registered

LEMMA BeginInvariant ==
  ASSUME IInv, NEW g \in Groups, Begin(g)
  PROVE  IInv'
<1>1. /\ Running /\ pc[g] = "idle" /\ state = "CONNECTED" /\ collects[g] < MaxCollects
      /\ collects' = [collects EXCEPT ![g] = @ + 1]
      /\ UNCHANGED <<planVars, registered>>
      /\ \/ /\ StartsWork(g)
            /\ pc' = [pc EXCEPT ![g] = "lock"]
            /\ UNCHANGED <<state, failures, link, owed, stream, orphans, given_up, faults>>
         \/ /\ StartsWork(g)
            /\ Fresh([pc EXCEPT ![g] = "lock"])
            /\ failures' = 0
            /\ UNCHANGED <<state, faults>>
         \/ /\ faults < MaxFaults
            /\ faults' = faults + 1
            /\ failures' = failures + 1
            /\ state' = "ERROR"
            /\ UNCHANGED <<pc, work, transport>>
  BY DEF Begin
<1>2. /\ device' = device /\ registering' = registering /\ read_groups' = read_groups
  BY <1>1 DEF registered
<1>3. PInv'
  BY <1>1, PlanStutters DEF IInv
<1>4. collects' \in [Groups -> 0 .. MaxCollects]
  <2>1. collects \in [Groups -> 0 .. MaxCollects] /\ collects[g] \in 0 .. MaxCollects
    BY DEF IInv, Worked
  <2>2. collects[g] + 1 \in 0 .. MaxCollects
    BY <2>1, <1>1, DeviceReadAssumption
  <2> QED
    BY <2>1, <2>2, <1>1
<1>5. /\ Worked /\ FailuresBounded /\ Locked /\ Transport /\ InStep
      /\ ~Waits(g)
  BY <1>1 DEF IInv, Waits
<1>6. /\ state \in {"CONNECTED", "ERROR"} /\ failures \in Nat /\ failures < MaxFailures
      /\ MaxFailures \in Nat \ {0} /\ NumGroups \in Nat
  BY <1>1, <1>5, BusyFinite DEF FailuresBounded
<1>7. ASSUME StartsWork(g), pc' \in [Groups -> Places],
             \A h \in Groups :
               pc'[h] = IF h = g THEN "lock" ELSE IF Waits(h) THEN pc'[h] ELSE pc[h],
             \A h \in Groups : Waits(h) => pc'[h] \in {"cut", pc[h]}
      PROVE  Worked' /\ Locked'
  <2> DEFINE w == [NoWork EXCEPT !.todo = read_groups[g]]
  <2>1. "todo" \in DOMAIN w /\ w.todo = read_groups[g]
    BY DEF NoWork
  <2>2. /\ work' = [work EXCEPT ![g] = w]
        /\ lock' = IF HasRequestLock(device) THEN Append(lock, g) ELSE lock
    BY <1>7 DEF StartsWork
  <2> HIDE DEF w
  <2>3. /\ \A h \in Groups : work'[h] = IF h = g THEN w ELSE work[h]
        /\ DOMAIN work' = Groups
    BY <1>5, <2>2 DEF Worked
  <2>4. pc'[g] = "lock"
    BY <1>7
  <2>5. ASSUME NEW h \in Groups, h # g
        PROVE  /\ pc'[h] \in {"cut", pc[h]} /\ (pc'[h] = "idle" <=> pc[h] = "idle")
               /\ pc'[h] \notin {"idle", "lock"} => pc[h] \notin {"idle", "lock"}
    BY <1>7, <2>5 DEF Waits
  <2>6. Worked'
    <3> SUFFICES ASSUME NEW h \in Groups
                 PROVE  /\ "todo" \in DOMAIN work'[h]
                        /\ work'[h].todo \subseteq read_groups[h]
                        /\ pc'[h] = "idle" => work'[h].todo = {}
                        /\ pc'[h] \in {"read", "woken"} => device.protocol = "fenet"
                        /\ pc'[h] = "call" => device.protocol = "s7"
                        /\ pc'[h] = "refused" => device.protocol = "rtu_over_tcp"
      BY <1>1, <1>2, <1>4, <1>5, <1>7, <2>3 DEF Worked, Running
    <3>1. CASE h = g
      BY <3>1, <2>1, <2>3, <2>4
    <3>2. CASE h # g
      <4>1. work'[h] = work[h]
        BY <3>2, <2>3
      <4> QED
        BY <3>2, <4>1, <2>5, <1>5 DEF Worked
    <3> QED
      BY <3>1, <3>2
  <2>7. ASSUME HasRequestLock(device)  PROVE Locked'
    <3>1. lock \in Seq(Groups) /\ Distinct(lock) /\ ~Queued(lock, g) /\ lock' = Append(lock, g)
      BY <1>1, <1>5, <2>2, <2>7 DEF Locked
    <3>2. /\ lock' \in Seq(Groups) /\ Distinct(lock')
          /\ \A y : Queued(lock', y) <=> Queued(lock, y) \/ y = g
          /\ lock # <<>> => lock'[1] = lock[1]
      BY <3>1, AppendQueue
    <3>3. \A h \in Groups : Queued(lock', h) <=> pc'[h] # "idle"
      BY <3>2, <1>5, <2>4, <2>5, <2>7 DEF Locked
    <3>4. ASSUME NEW h \in Groups, pc'[h] \notin {"idle", "lock"}  PROVE lock'[1] = h
      <4>1. h # g /\ pc[h] \notin {"idle", "lock"}
        BY <3>4, <2>4, <2>5
      <4>2. lock[1] = h /\ Queued(lock, h)
        BY <4>1, <1>5, <2>7 DEF Locked
      <4> QED
        BY <4>2, <3>2, EmptyQueue
    <3> QED
      BY <3>2, <3>3, <3>4, <2>7, <1>2 DEF Locked
  <2>8. ASSUME ~HasRequestLock(device)  PROVE Locked'
    BY <2>8, <2>2, <1>2, <1>5 DEF Locked
  <2> QED
    BY <2>6, <2>7, <2>8
<1>8. CASE /\ StartsWork(g)
           /\ pc' = [pc EXCEPT ![g] = "lock"]
           /\ UNCHANGED <<state, failures, link, owed, stream, orphans, given_up, faults>>
  <2>1. /\ \A h \in Groups : pc'[h] = IF h = g THEN "lock" ELSE pc[h]
        /\ pc' \in [Groups -> Places]
    BY <1>5, <1>8 DEF Worked, Places
  <2>2. Worked' /\ Locked'
    BY <1>5, <1>7, <1>8, <2>1
  <2>3. Transport'
    BY <1>1, <1>5, <1>8, SameTransport
  <2>4. \A h \in Groups : Waits(h)' = Waits(h)
    BY <2>1, <1>5 DEF Waits
  <2>5. InStep'
    BY <1>2, <1>5, <1>8, <2>1, <2>4 DEF InStep, ByAnswers, Nothing
  <2>6. FailuresBounded'
    <3> DEFINE B == Busy'
    <3>0. B \in SUBSET Groups
      BY DEF Busy
    <3> HIDE DEF B
    <3>1. Cardinality(B) \in Nat /\ Cardinality(B) <= NumGroups
      BY <3>0, FewGroups
    <3>2. failures + Cardinality(B) < MaxFailures + NumGroups
      BY <3>1, <1>6
    <3> QED
      BY <3>2, <1>6, <1>8 DEF FailuresBounded, B
  <2> QED
    BY <1>3, <2>2, <2>3, <2>5, <2>6 DEF IInv
<1>9. CASE /\ StartsWork(g)
           /\ Fresh([pc EXCEPT ![g] = "lock"])
           /\ failures' = 0
           /\ UNCHANGED <<state, faults>>
  <2>1. [pc EXCEPT ![g] = "lock"] \in [Groups -> Places]
    BY <1>5 DEF Worked, Places
  <2>2. /\ pc' \in [Groups -> Places] /\ link' = "open" /\ orphans' = 0
        /\ given_up' \in BOOLEAN
        /\ \A h \in Groups : pc'[h] = IF Waits(h) THEN "cut" ELSE [pc EXCEPT ![g] = "lock"][h]
        /\ ByAnswers => Nothing'
    BY <1>2, <1>5, <1>9, <2>1, FreshFacts
  <2>3. \A h \in Groups : [pc EXCEPT ![g] = "lock"][h] = IF h = g THEN "lock" ELSE pc[h]
    BY <1>5 DEF Worked
  <2>4. Worked' /\ Locked'
    BY <1>5, <1>7, <1>9, <2>2, <2>3
  <2>5. Transport'
    BY <1>2, <1>5, <1>9, <2>2, DeviceReadAssumption DEF Transport
  <2>6. InStep'
    BY <1>2, <2>2, EmptyInStep
  <2>7. FailuresBounded'
    <3> DEFINE B == Busy'
    <3>0. B \in SUBSET Groups
      BY DEF Busy
    <3> HIDE DEF B
    <3>1. Cardinality(B) \in Nat /\ Cardinality(B) <= NumGroups
      BY <3>0, FewGroups
    <3>2. 0 + Cardinality(B) < MaxFailures + NumGroups /\ 0 < MaxFailures
      BY <3>1, <1>6
    <3> QED
      BY <3>2, <1>6, <1>9 DEF FailuresBounded, B
  <2> QED
    BY <1>3, <2>4, <2>5, <2>6, <2>7 DEF IInv
<1>10. CASE /\ faults < MaxFaults
            /\ faults' = faults + 1
            /\ failures' = failures + 1
            /\ state' = "ERROR"
            /\ UNCHANGED <<pc, work, transport>>
  <2>1. /\ pc' = pc /\ work' = work /\ lock' = lock /\ link' = link /\ owed' = owed
        /\ stream' = stream /\ orphans' = orphans /\ given_up' = given_up
    BY <1>10 DEF transport
  <2>2. Worked'
    BY <1>2, <1>4, <1>5, <2>1 DEF Worked, Running
  <2>3. Locked' /\ InStep'
    BY <1>2, <1>5, <2>1 DEF Locked, InStep, ByAnswers, Nothing, Waits
  <2>4. Transport'
    <3>1. /\ orphans \in Nat /\ faults \in 0 .. MaxFaults /\ orphans <= faults
          /\ MaxFaults \in Nat
      BY <1>5, DeviceReadAssumption DEF Transport
    <3>2. faults + 1 \in 0 .. MaxFaults /\ orphans <= faults + 1
      BY <3>1, <1>10
    <3> QED
      BY <1>2, <1>5, <1>10, <2>1, <3>2 DEF Transport
  <2>5. FailuresBounded'
    <3>1. Cardinality(Busy) <= NumGroups - 1 /\ Cardinality(Busy) \in Nat
      BY <1>1, IdleIsNotBusy, BusyFinite DEF Busy
    <3>2. (failures + 1) + Cardinality(Busy) < MaxFailures + NumGroups /\ failures + 1 \in Nat
      BY <3>1, <1>6
    <3>3. Busy' = Busy
      BY <2>1 DEF Busy
    <3> QED
      BY <3>2, <3>3, <1>10 DEF FailuresBounded
  <2> QED
    BY <1>3, <2>2, <2>3, <2>4, <2>5 DEF IInv
<1> QED
  BY <1>1, <1>8, <1>9, <1>10

\* What the device, the network and the reconnect loop do to the collections is that
\* they wake the readers or find their connection cut.
LEMMA Around ==
  ASSUME IInv, pc' \in [Groups -> Places],
         \A g \in Groups :
           \/ pc'[g] = pc[g]
           \/ Waits(g) /\ pc'[g] = "cut"
           \/ pc[g] = "head" /\ pc'[g] = "woken" /\ device.protocol = "fenet",
         UNCHANGED <<planVars, registered, collects, lock, work>>,
         \/ state' = state /\ failures' = failures
         \/ state' = "CONNECTED" /\ failures' = 0,
         Transport', InStep'
  PROVE  IInv'
<1>1. PInv'
  BY PlanStutters DEF IInv
<1>2. \A g \in Groups :
        /\ (pc'[g] = "idle") <=> (pc[g] = "idle")
        /\ (pc'[g] = "lock") <=> (pc[g] = "lock")
        /\ pc'[g] \in {"read", "woken"} => device.protocol = "fenet"
        /\ pc'[g] = "call" => device.protocol = "s7"
        /\ pc'[g] = "refused" => device.protocol = "rtu_over_tcp"
  BY DEF IInv, Worked, Waits
<1>3. Worked' /\ Locked' /\ Busy' = Busy
  BY <1>2, Rearranged DEF IInv
<1>4. FailuresBounded'
  <2>1. CASE state' = state /\ failures' = failures
    BY <1>3, <2>1 DEF FailuresBounded, IInv
  <2>2. CASE state' = "CONNECTED" /\ failures' = 0
    <3>1. 0 < MaxFailures /\ 0 \in Nat /\ 0 + Cardinality(Busy) < MaxFailures + NumGroups
      BY BusyFinite
    <3> QED
      BY <1>3, <2>2, <3>1 DEF FailuresBounded
  <2> QED
    BY <2>1, <2>2
<1> QED
  BY <1>1, <1>3, <1>4 DEF IInv

\* The connection changes, and perhaps one more thing has gone wrong.
LEMMA OneFault ==
  ASSUME Transport, UNCHANGED <<device, orphans>>,
         link' \in {"open", "eof", "closed"}, given_up' \in BOOLEAN,
         faults' = faults \/ (faults < MaxFaults /\ faults' = faults + 1)
  PROVE  Transport'
<1>1. /\ orphans \in Nat /\ faults \in 0 .. MaxFaults /\ orphans <= faults
      /\ MaxFaults \in Nat
  BY DeviceReadAssumption DEF Transport
<1>2. faults' \in 0 .. MaxFaults /\ orphans <= faults'
  BY <1>1
<1> QED
  BY <1>1, <1>2 DEF Transport

\* StaysInStep speaks of other protocols.
LEMMA OtherProtocol ==
  ASSUME device' = device, ~ByAnswers
  PROVE  InStep' /\ (ByAnswers /\ ~given_up' => Nothing')
BY DEF InStep, ByAnswers

LEMMA ReconnectsInvariant ==
  ASSUME IInv, Reconnects
  PROVE  IInv'
<1>1. /\ Fresh(pc) /\ state' = "CONNECTED" /\ failures' = 0
      /\ UNCHANGED <<planVars, registered, collects, lock, work>> /\ faults' = faults
  BY DEF Reconnects
<1>2. device' = device
  BY <1>1 DEF registered
<1>3. Worked /\ pc \in [Groups -> Places]
  BY DEF IInv, Worked
<1>4. /\ pc' \in [Groups -> Places] /\ link' = "open" /\ orphans' = 0
      /\ given_up' \in BOOLEAN
      /\ \A h \in Groups : pc'[h] = IF Waits(h) THEN "cut" ELSE pc[h]
      /\ ByAnswers => Nothing'
  BY <1>1, <1>2, <1>3, FreshFacts
<1>5. Transport'
  BY <1>1, <1>2, <1>4, DeviceReadAssumption DEF IInv, Transport
<1>6. InStep'
  BY <1>2, <1>4, EmptyInStep
<1> QED
  BY <1>1, <1>4, <1>5, <1>6, Around

\* Whoever is about to send finds nothing owed and nothing in the stream.
LEMMA NothingOwed ==
  ASSUME IInv, NEW g \in Groups, pc[g] = "lock", MaySend(g), ByAnswers, ~given_up
  PROVE  owed = <<>> /\ stream = <<>>
<1>1. \A h \in Groups : h # g => ~Waits(h)
  BY NobodyElseWaits DEF IInv
<1>2. ~Waits(g)
  BY DEF Waits
<1> QED
  BY <1>1, <1>2 DEF IInv, InStep, Nothing

LEMMA SendsInvariant ==
  ASSUME IInv, NEW g \in Groups, Sends(g)
  PROVE  IInv'
<1>1. /\ pc[g] = "lock" /\ MaySend(g) /\ pc[g] # "idle"
      /\ UNCHANGED <<planVars, registered, collects>> /\ faults' = faults
      /\ \/ /\ link = "closed" /\ ReadFails(g, state)
            /\ UNCHANGED <<link, owed, stream, orphans, given_up>>
         \/ /\ link # "closed" /\ pc' = [pc EXCEPT ![g] = "head"]
            /\ work' = [work EXCEPT ![g].doubtful = @ \/ Exposed]
            /\ owed' = IF link = "open" THEN Ask(g) ELSE owed
            /\ stream' = IF device.protocol = "rtu" THEN <<>> ELSE stream
            /\ UNCHANGED <<state, failures, result, lock, link, orphans, given_up>>
  BY DEF Sends
<1>2. device' = device /\ Worked /\ Locked /\ Transport /\ InStep
  BY <1>1 DEF registered, IInv
<1>3. Transport'
  BY <1>1, <1>2, SameTransport
<1>4. CASE /\ link = "closed" /\ ReadFails(g, state)
           /\ UNCHANGED <<link, owed, stream, orphans, given_up>>
  <2>1. ByAnswers /\ ~given_up' => Nothing'
    BY <1>2, <1>4 DEF InStep, Nothing
  <2> QED
    BY <1>1, <1>3, <1>4, <2>1, ReadFailsEnds
<1>5. CASE /\ link # "closed" /\ pc' = [pc EXCEPT ![g] = "head"]
           /\ work' = [work EXCEPT ![g].doubtful = @ \/ Exposed]
           /\ owed' = IF link = "open" THEN Ask(g) ELSE owed
           /\ stream' = IF device.protocol = "rtu" THEN <<>> ELSE stream
           /\ UNCHANGED <<state, failures, result, lock, link, orphans, given_up>>
  <2>1. InStep'
    <3>1. ASSUME ByAnswers, ~given_up  PROVE InStep'
      <4>1. owed = <<>> /\ stream = <<>>
        BY <1>1, <3>1, NothingOwed
      <4>2. stream' = <<>>
        BY <1>5, <4>1
      <4>3. owed' = IF link = "open"
                    THEN Append(<<>>, [of |-> Request(ReadGroup(g)), begun |-> FALSE])
                    ELSE <<>>
        BY <1>5, <4>1 DEF Ask
      <4>4. link' # "open" => Nothing'
        BY <1>5, <4>2, <4>3 DEF Nothing
      <4>5. Owes(owed', FALSE) \/ owed' = <<>>
        BY <4>3, Asking
      <4>6. Expected("head", owed', stream')
        BY <4>2, <4>5 DEF Expected
      <4> QED
        BY <1>1, <1>2, <1>5, <3>1, <4>4, <4>6, MoveInStep DEF Places
    <3>2. ASSUME ~ByAnswers \/ given_up  PROVE InStep'
      BY <1>2, <1>5, <3>2 DEF InStep, ByAnswers
    <3> QED
      BY <3>1, <3>2, <1>5 DEF IInv, Transport
  <2>2. /\ DOMAIN work' = Groups
        /\ \A h \in Groups : work'[h].todo = work[h].todo /\ "todo" \in DOMAIN work'[h]
    BY <1>2, <1>5 DEF Worked
  <2> QED
    BY <1>1, <1>2, <1>3, <1>5, <2>1, <2>2, ReadMoves DEF Places
<1> QED
  BY <1>1, <1>4, <1>5

\* Bytes taken for an answer end the read, whatever comes of it: only after a request was
\* given up.
LEMMA MisreadEnds ==
  ASSUME IInv, NEW g \in Groups, pc[g] \notin {"idle", "lock"}, Misreads(g),
         UNCHANGED <<planVars, registered, collects, link, orphans, given_up, faults>>,
         ~(ByAnswers /\ ~given_up)
  PROVE  IInv'
<1>1. Transport'
  BY SameTransport DEF IInv
<1>2. ~(ByAnswers /\ ~given_up)'
  BY DEF ByAnswers, registered
<1>3. state \in {state, "ERROR"}
  OBVIOUS
<1>4. \/ ReadFails(g, state)
      \/ ReadGives(g, [i \in 1 .. Request(ReadGroup(g)).count |-> <<"garbage", i>>])
  BY DEF Misreads
<1>5. CASE ReadFails(g, state)
  BY <1>1, <1>2, <1>3, <1>5, ReadFailsEnds
<1>6. CASE ReadGives(g, [i \in 1 .. Request(ReadGroup(g)).count |-> <<"garbage", i>>])
  BY <1>1, <1>2, <1>6, ReadGivesEnds
<1> QED
  BY <1>4, <1>5, <1>6

\* What a waiting collection finds in a stream that is in step.
LEMMA Finds ==
  ASSUME IInv, NEW g \in Groups, Waits(g), ByAnswers, ~given_up
  PROVE  Expected(pc[g], owed, stream) /\ (link # "open" => Nothing)
BY DEF IInv, InStep

LEMMA ReadsHeadInvariant ==
  ASSUME IInv, NEW g \in Groups, ReadsHead(g)
  PROVE  IInv'
<1> DEFINE p == IF Head(stream).exception /\ device.protocol = "rtu_over_tcp"
                THEN "refused" ELSE "body"
<1>1. /\ pc[g] = "head" /\ stream # <<>>
      /\ UNCHANGED <<planVars, registered, collects, link, orphans, given_up, faults>>
      /\ owed' = owed
      /\ \/ /\ Head(stream).part = "head" /\ stream' = Tail(stream)
            /\ pc' = [pc EXCEPT ![g] = p]
            /\ UNCHANGED <<state, failures, work, lock>>
         \/ Head(stream).part = "body" /\ Misreads(g)
  BY DEF ReadsHead
<1>2. device' = device /\ Worked /\ Locked /\ Transport /\ InStep /\ Waits(g)
  BY <1>1 DEF registered, IInv, Waits
<1>3. ASSUME ByAnswers, ~given_up
      PROVE  /\ link = "open" /\ Head(stream) = stream[1] /\ Head(stream).part = "head"
             /\ \/ ~Head(stream).exception /\ Tail(stream) = <<>> /\ Owes(owed, TRUE)
                \/ Alone(Tail(stream), "body") /\ owed = <<>>
  <2>1. Expected("head", owed, stream) /\ (link # "open" => Nothing)
    BY <1>1, <1>2, <1>3, Finds
  <2>2. \/ Alone(stream, "head") /\ ~stream[1].exception /\ Owes(owed, TRUE)
        \/ Whole(stream) /\ owed = <<>>
    BY <1>1, <2>1 DEF Expected
  <2>3. CASE Alone(stream, "head") /\ ~stream[1].exception /\ Owes(owed, TRUE)
    BY <1>1, <2>1, <2>3, AloneTaken DEF Nothing
  <2>4. CASE Whole(stream) /\ owed = <<>>
    BY <1>1, <2>1, <2>4, WholeTaken DEF Nothing
  <2> QED
    BY <2>2, <2>3, <2>4
<1>4. CASE /\ Head(stream).part = "head" /\ stream' = Tail(stream)
           /\ pc' = [pc EXCEPT ![g] = p]
           /\ UNCHANGED <<state, failures, work, lock>>
  <2>1. p \in {"refused", "body"} /\ (p = "refused" => device.protocol = "rtu_over_tcp")
        /\ (~Head(stream).exception => p = "body")
    OBVIOUS
  <2> HIDE DEF p
  <2>2. InStep'
    <3>1. ASSUME ByAnswers, ~given_up  PROVE InStep'
      <4>1. Expected(p, owed', stream')
        BY <1>1, <1>3, <1>4, <2>1, <3>1 DEF Expected
      <4>2. link' = "open"
        BY <1>1, <1>3, <3>1
      <4> QED
        BY <1>1, <1>2, <1>4, <2>1, <3>1, <4>1, <4>2, MoveInStep DEF Places
    <3>2. ASSUME ~ByAnswers \/ given_up  PROVE InStep'
      BY <1>1, <1>2, <3>2 DEF InStep, ByAnswers
    <3> QED
      BY <3>1, <3>2
  <2>3. Transport'
    BY <1>1, <1>2, SameTransport
  <2>4. /\ DOMAIN work' = Groups
        /\ \A h \in Groups : work'[h].todo = work[h].todo /\ "todo" \in DOMAIN work'[h]
    BY <1>2, <1>4 DEF Worked
  <2> QED
    BY <1>1, <1>4, <2>1, <2>2, <2>3, <2>4, ReadMoves DEF Places
<1>5. CASE Head(stream).part = "body" /\ Misreads(g)
  <2>1. ~(ByAnswers /\ ~given_up)
    BY <1>3, <1>5
  <2> QED
    BY <1>1, <1>5, <2>1, MisreadEnds
<1> QED
  BY <1>1, <1>4, <1>5

LEMMA ReadsBodyInvariant ==
  ASSUME IInv, NEW g \in Groups, ReadsBody(g)
  PROVE  IInv'
<1>1. /\ pc[g] = "body" /\ stream # <<>>
      /\ UNCHANGED <<planVars, registered, collects, link, orphans, given_up, faults>>
      /\ owed' = owed
      /\ \/ /\ Head(stream).part = "body" /\ stream' = Tail(stream)
            /\ Outcome(g, Head(stream))
         \/ Head(stream).part = "head" /\ Misreads(g)
  BY DEF ReadsBody
<1>2. device' = device /\ Transport /\ Waits(g)
  BY <1>1 DEF registered, IInv, Waits
<1>3. ASSUME ByAnswers, ~given_up
      PROVE  Head(stream).part = "body" /\ Tail(stream) = <<>> /\ owed = <<>>
  <2>1. Expected("body", owed, stream)
    BY <1>1, <1>2, <1>3, Finds
  <2>2. Alone(stream, "body") /\ owed = <<>>
    BY <1>1, <2>1 DEF Expected
  <2> QED
    BY <2>2, AloneTaken
<1>4. Transport'
  BY <1>1, <1>2, SameTransport
<1>5. CASE stream' = Tail(stream) /\ Outcome(g, Head(stream))
  <2>1. ByAnswers /\ ~given_up' => Nothing'
    BY <1>1, <1>2, <1>3, <1>5 DEF Nothing, ByAnswers
  <2>2. ReadFails(g, state) \/ ReadGives(g, Answer(Head(stream).of))
    BY <1>5 DEF Outcome
  <2>3. CASE ReadFails(g, state)
    BY <1>1, <1>4, <2>1, <2>3, ReadFailsEnds
  <2>4. CASE ReadGives(g, Answer(Head(stream).of))
    BY <1>1, <1>4, <2>1, <2>4, ReadGivesEnds
  <2> QED
    BY <2>2, <2>3, <2>4
<1>6. CASE Head(stream).part = "head" /\ Misreads(g)
  <2>1. ~(ByAnswers /\ ~given_up)
    BY <1>3, <1>6
  <2> QED
    BY <1>1, <1>6, <2>1, MisreadEnds
<1> QED
  BY <1>1, <1>5, <1>6

\* In step, an exception is followed by its two bytes only.
LEMMA ReadsPastExceptionInvariant ==
  ASSUME IInv, NEW g \in Groups, ReadsPastException(g)
  PROVE  IInv'
<1>1. /\ pc[g] = "refused" /\ Len(stream) > 1 /\ Misreads(g)
      /\ UNCHANGED <<planVars, registered, collects, link, orphans, given_up, faults>>
  BY DEF ReadsPastException
<1>2. ~(ByAnswers /\ ~given_up)
  <2> SUFFICES ASSUME ByAnswers, ~given_up  PROVE FALSE
    OBVIOUS
  <2>1. Expected("refused", owed, stream)
    BY <1>1, Finds DEF Waits
  <2>2. stream = <<>> \/ Alone(stream, "body")
    BY <2>1 DEF Expected
  <2>3. CASE stream = <<>>
    BY <1>1, <2>3
  <2>4. CASE Alone(stream, "body")
    <3>1. Len(stream) = 1
      BY <2>4, AloneTaken
    <3> QED
      BY <1>1, <3>1
  <2> QED
    BY <2>2, <2>3, <2>4
<1> QED
  BY <1>1, <1>2, MisreadEnds
-----------------------------------------------------------------------------
(* FEnet and S7.                                                           *)

LEMMA SendsFenetInvariant ==
  ASSUME IInv, NEW g \in Groups, SendsFenet(g)
  PROVE  IInv'
<1>1. /\ pc[g] = "lock" /\ device.protocol = "fenet"
      /\ UNCHANGED <<planVars, registered, collects, link, orphans, given_up, faults>>
      /\ \/ ReadFails(g, state)
         \/ /\ pc' = [pc EXCEPT ![g] = "read"]
            /\ work' = [h \in Groups |->
                 [work[h] EXCEPT !.doubtful = @ \/ (h = g /\ Exposed) \/ (h # g /\ Waits(h))]]
            /\ UNCHANGED <<state, failures, lock>>
  BY DEF SendsFenet
<1>2. device' = device /\ Worked /\ Transport /\ ~HasRequestLock(device) /\ ~ByAnswers
  BY <1>1 DEF registered, IInv, HasRequestLock, ByAnswers
<1>3. Transport' /\ InStep' /\ (ByAnswers /\ ~given_up' => Nothing')
  BY <1>1, <1>2, SameTransport, OtherProtocol
<1>4. CASE ReadFails(g, state)
  BY <1>1, <1>2, <1>3, <1>4, ReadFailsEnds
<1>5. CASE /\ pc' = [pc EXCEPT ![g] = "read"]
           /\ work' = [h \in Groups |->
                [work[h] EXCEPT !.doubtful = @ \/ (h = g /\ Exposed) \/ (h # g /\ Waits(h))]]
           /\ UNCHANGED <<state, failures, lock>>
  <2>1. /\ DOMAIN work' = Groups
        /\ \A h \in Groups : work'[h].todo = work[h].todo /\ "todo" \in DOMAIN work'[h]
    BY <1>2, <1>5 DEF Worked
  <2> QED
    BY <1>1, <1>2, <1>3, <1>5, <2>1, ReadMoves DEF Places
<1> QED
  BY <1>1, <1>4, <1>5

LEMMA WaitsForDataInvariant ==
  ASSUME IInv, NEW g \in Groups, WaitsForData(g)
  PROVE  IInv'
<1>1. /\ pc[g] = "read"
      /\ UNCHANGED <<planVars, registered, collects, link, orphans, given_up, faults>>
      /\ \/ /\ pc' = [pc EXCEPT ![g] = "head"]
            /\ UNCHANGED <<state, failures, work, lock>>
         \/ ReadFails(g, state)
  BY DEF WaitsForData, transport
<1>2. device' = device /\ Worked /\ Transport
  BY <1>1 DEF registered, IInv
<1>3. device.protocol = "fenet" /\ ~ByAnswers
  BY <1>1, <1>2 DEF Worked, ByAnswers
<1>4. Transport' /\ InStep' /\ (ByAnswers /\ ~given_up' => Nothing')
  BY <1>1, <1>2, <1>3, SameTransport, OtherProtocol
<1>5. CASE ReadFails(g, state)
  BY <1>1, <1>4, <1>5, ReadFailsEnds
<1>6. CASE pc' = [pc EXCEPT ![g] = "head"] /\ UNCHANGED <<state, failures, work, lock>>
  <2>1. /\ DOMAIN work' = Groups
        /\ \A h \in Groups : work'[h].todo = work[h].todo /\ "todo" \in DOMAIN work'[h]
    BY <1>2, <1>6 DEF Worked
  <2> QED
    BY <1>1, <1>4, <1>6, <2>1, ReadMoves DEF Places
<1> QED
  BY <1>1, <1>5, <1>6

LEMMA ReadsChunkInvariant ==
  ASSUME IInv, NEW g \in Groups, ReadsChunk(g)
  PROVE  IInv'
<1>1. /\ pc[g] \in {"read", "woken"}
      /\ UNCHANGED <<planVars, registered, collects, link, orphans, given_up, faults>>
      /\ ReadFails(g, state) \/ ReadGives(g, Answer(stream[1].of))
  BY DEF ReadsChunk
<1>2. device' = device /\ Transport /\ ~ByAnswers
  BY <1>1 DEF registered, IInv, Worked, ByAnswers
<1>3. Transport' /\ (ByAnswers /\ ~given_up' => Nothing')
  BY <1>1, <1>2, SameTransport, OtherProtocol
<1>4. CASE ReadFails(g, state)
  BY <1>1, <1>3, <1>4, ReadFailsEnds
<1>5. CASE ReadGives(g, Answer(stream[1].of))
  BY <1>1, <1>3, <1>5, ReadGivesEnds
<1> QED
  BY <1>1, <1>4, <1>5

LEMMA CallsInvariant ==
  ASSUME IInv, NEW g \in Groups, Calls(g)
  PROVE  IInv'
<1>1. /\ pc[g] = "lock" /\ device.protocol = "s7" /\ MaySend(g)
      /\ pc' = [pc EXCEPT ![g] = "call"]
      /\ UNCHANGED <<planVars, registered, collects, link, orphans, given_up, faults>>
      /\ UNCHANGED <<state, failures, work, lock>>
  BY DEF Calls, transport
<1>2. device' = device /\ Worked /\ Transport /\ ~ByAnswers
  BY <1>1 DEF registered, IInv, ByAnswers
<1>3. Transport' /\ InStep'
  BY <1>1, <1>2, SameTransport, OtherProtocol
<1>4. /\ DOMAIN work' = Groups
      /\ \A h \in Groups : work'[h].todo = work[h].todo /\ "todo" \in DOMAIN work'[h]
  BY <1>1, <1>2 DEF Worked
<1> QED
  BY <1>1, <1>3, <1>4, ReadMoves DEF Places

LEMMA CallReturnsInvariant ==
  ASSUME IInv, NEW g \in Groups, CallReturns(g)
  PROVE  IInv'
<1>1. /\ pc[g] = "call"
      /\ UNCHANGED <<planVars, registered, collects, link, orphans, given_up>>
      /\ faults' = faults \/ (faults < MaxFaults /\ faults' = faults + 1)
      /\ ReadFails(g, state) \/ ReadGives(g, Answer(Request(ReadGroup(g))))
  BY DEF CallReturns
<1>2. /\ device' = device /\ Transport /\ ~ByAnswers
      /\ link \in {"open", "eof", "closed"} /\ given_up \in BOOLEAN
  BY <1>1 DEF registered, IInv, Worked, ByAnswers, Transport
<1>3. Transport' /\ (ByAnswers /\ ~given_up' => Nothing')
  BY <1>1, <1>2, OneFault, OtherProtocol
<1>4. CASE ReadFails(g, state)
  BY <1>1, <1>3, <1>4, ReadFailsEnds
<1>5. CASE ReadGives(g, Answer(Request(ReadGroup(g))))
  BY <1>1, <1>3, <1>5, ReadGivesEnds
<1> QED
  BY <1>1, <1>4, <1>5
-----------------------------------------------------------------------------
(* Reads that end without an answer.                                       *)

LEMMA TimesOutInvariant ==
  ASSUME IInv, NEW g \in Groups, TimesOut(g)
  PROVE  IInv'
<1> DEFINE s == IF device.protocol = "fenet" THEN "ERROR" ELSE state
<1>1. /\ pc[g] \in {"head", "body", "refused"} /\ given_up' = GivenUp
      /\ UNCHANGED <<planVars, registered, collects, link, orphans, owed, stream>>
      /\ faults' = faults \/ (faults < MaxFaults /\ faults' = faults + 1)
      /\ ReadFails(g, s)
  BY DEF TimesOut, Late
<1>2. s \in {state, "ERROR"}
  OBVIOUS
<1> HIDE DEF s
<1>3. /\ device' = device /\ Transport
      /\ link \in {"open", "eof", "closed"} /\ given_up \in BOOLEAN
  BY <1>1 DEF registered, IInv, Transport
<1>4. given_up' \in BOOLEAN /\ (~given_up' => Nothing')
  BY <1>1, <1>3 DEF GivenUp, Nothing
<1>5. Transport'
  BY <1>1, <1>3, <1>4, OneFault
<1> QED
  BY <1>1, <1>2, <1>4, <1>5, ReadFailsEnds

LEMMA ConnectionLostInvariant ==
  ASSUME IInv, NEW g \in Groups, ConnectionLost(g)
  PROVE  IInv'
<1>1. /\ pc[g] = "cut" \/ (Waits(g) /\ link # "open")
      /\ link' = IF IsModbus(device) /\ device.protocol # "rtu" THEN "closed" ELSE link
      /\ UNCHANGED <<planVars, registered, collects, orphans, owed, stream, given_up, faults>>
      /\ ReadFails(g, state)
  BY DEF ConnectionLost
<1>2. /\ device' = device /\ Transport /\ Waits(g) /\ pc[g] \notin {"idle", "lock"}
      /\ link' \in {"open", "eof", "closed"} /\ given_up' \in BOOLEAN
  BY <1>1 DEF registered, IInv, Transport, Waits
<1>3. Transport'
  BY <1>1, <1>2, OneFault
<1>4. ASSUME ByAnswers, ~given_up  PROVE Nothing
  <2>1. Expected(pc[g], owed, stream) /\ (link # "open" => Nothing)
    BY <1>2, <1>4, Finds
  <2> QED
    BY <1>1, <2>1 DEF Expected, Nothing
<1>5. ByAnswers /\ ~given_up' => Nothing'
  BY <1>1, <1>2, <1>4 DEF ByAnswers, Nothing
<1> QED
  BY <1>1, <1>2, <1>3, <1>5, ReadFailsEnds

LEMMA GroupTimesOutInvariant ==
  ASSUME IInv, NEW g \in Groups, GroupTimesOut(g)
  PROVE  IInv'
<1>1. /\ pc[g] # "idle" /\ faults < MaxFaults /\ faults' = faults + 1 /\ Idle(g)
      /\ given_up' = (given_up \/ (Waits(g) /\ GivenUp))
      /\ orphans' = IF device.protocol = "rtu" /\ pc[g] \in {"head", "body"}
                    THEN orphans + 1 ELSE orphans
      /\ UNCHANGED <<planVars, registered, state, failures, link, owed, stream, collects>>
  BY DEF GroupTimesOut
<1>2. /\ device' = device /\ Worked /\ Locked /\ FailuresBounded /\ Transport /\ InStep
  BY <1>1 DEF registered, IInv
<1>3. PInv'
  BY <1>1, PlanStutters DEF IInv
<1>4. /\ Worked' /\ Locked' /\ Cardinality(Busy') = Cardinality(Busy) - 1
      /\ pc' = [pc EXCEPT ![g] = "idle"]
  BY <1>1, <1>2, IdleKeeps
<1>5. FailuresBounded'
  <2>1. /\ failures \in Nat /\ failures + Cardinality(Busy) < MaxFailures + NumGroups
        /\ Cardinality(Busy) \in Nat /\ MaxFailures \in Nat /\ NumGroups \in Nat
    BY <1>2, BusyFinite DEF FailuresBounded
  <2>2. failures + (Cardinality(Busy) - 1) < MaxFailures + NumGroups
    BY <2>1
  <2> QED
    BY <1>1, <1>2, <1>4, <2>2 DEF FailuresBounded
<1>6. Transport'
  <2>1. /\ orphans \in Nat /\ faults \in 0 .. MaxFaults /\ orphans <= faults
        /\ MaxFaults \in Nat
    BY <1>2, DeviceReadAssumption DEF Transport
  <2>2. /\ faults' \in 0 .. MaxFaults /\ orphans' \in Nat /\ orphans' <= faults'
        /\ orphans' > 0 => orphans > 0 \/ device.protocol = "rtu"
    BY <1>1, <2>1
  <2>3. given_up' \in BOOLEAN
    BY <1>1, <1>2 DEF Transport, GivenUp
  <2> QED
    BY <1>1, <1>2, <2>2, <2>3 DEF Transport
<1>7. InStep'
  <2>1. \A h \in Groups : pc'[h] = IF h = g THEN "idle" ELSE pc[h]
    BY <1>2, <1>4 DEF Worked
  <2>2. CASE Waits(g)
    <3>1. ByAnswers /\ ~given_up' => Nothing'
      BY <1>1, <2>2 DEF GivenUp, Nothing
    <3> QED
      BY <1>2, <3>1, EmptyInStep
  <2>3. CASE ~Waits(g)
    <3>1. \A h \in Groups : Waits(h)' = Waits(h) /\ (Waits(h) => pc'[h] = pc[h])
      BY <2>1, <2>3 DEF Waits
    <3> QED
      BY <1>1, <1>2, <2>3, <3>1 DEF InStep, ByAnswers, Nothing
  <2> QED
    BY <2>2, <2>3
<1> QED
  BY <1>3, <1>4, <1>5, <1>6, <1>7 DEF IInv

\* The thread of a cancelled read on a serial line.
LEMMA OrphanReadsInvariant ==
  ASSUME IInv, OrphanReads
  PROVE  IInv'
<1>1. /\ orphans > 0 /\ orphans' \in {orphans, orphans - 1}
      /\ UNCHANGED <<planVars, registered, collects, lock, work, state, failures, pc>>
      /\ link' = link /\ given_up' = given_up /\ faults' = faults
  BY DEF OrphanReads
<1>2. device' = device /\ Transport /\ pc \in [Groups -> Places]
  BY <1>1 DEF registered, IInv, Worked
<1>3. device.protocol = "rtu" /\ ~ByAnswers
  BY <1>1, <1>2 DEF Transport, ByAnswers
<1>4. InStep'
  BY <1>2, <1>3, OtherProtocol
<1>5. Transport'
  <2>1. orphans \in Nat /\ faults \in 0 .. MaxFaults /\ orphans <= faults /\ MaxFaults \in Nat
    BY <1>2, DeviceReadAssumption DEF Transport
  <2>2. orphans' \in Nat /\ orphans' <= faults
    BY <1>1, <2>1
  <2> QED
    BY <1>1, <1>2, <1>3, <2>1, <2>2 DEF Transport
<1> QED
  BY <1>1, <1>2, <1>4, <1>5, Around
-----------------------------------------------------------------------------
(* The device and the network.                                             *)

\* Nobody but the reader of FEnet moves when pieces arrive.
LEMMA ArrivalWakes ==
  ASSUME Worked, NEW pieces, Arrive(pieces)
  PROVE  /\ pc' \in [Groups -> Places] /\ stream' = stream \o pieces
         /\ \A g \in Groups :
              \/ pc'[g] = pc[g]
              \/ pc[g] = "head" /\ pc'[g] = "woken" /\ device.protocol = "fenet"
         /\ ByAnswers => \A g \in Groups : pc'[g] = pc[g]
BY DEF Arrive, Worked, Places, ByAnswers

\* As long as something is owed, somebody waits; and in step with what is owed and has
\* come after it, the stream is in step again.
LEMMA StepInStep ==
  ASSUME IInv, owed # <<>>, link' = "open", given_up' = given_up, device' = device,
         ByAnswers => \A g \in Groups : pc'[g] = pc[g],
         ASSUME NEW g \in Groups, ByAnswers, ~given_up, Expected(pc[g], owed, stream)
         PROVE  Expected(pc[g], owed', stream')
  PROVE  InStep'
<1> SUFFICES ASSUME ByAnswers, ~given_up
             PROVE  /\ (\A g \in Groups : ~(Waits(g)')) => Nothing'
                    /\ \A g \in Groups : Waits(g)' => Expected(pc'[g], owed', stream')
  BY DEF InStep, ByAnswers
<1>1. \A g \in Groups : Waits(g)' = Waits(g) /\ pc'[g] = pc[g]
  BY DEF Waits
<1>2. \E g \in Groups : Waits(g)
  BY DEF IInv, InStep, Nothing
<1>3. ASSUME NEW g \in Groups, Waits(g)  PROVE Expected(pc'[g], owed', stream')
  <2>1. Expected(pc[g], owed, stream)
    BY <1>3, Finds
  <2> QED
    BY <1>1, <2>1
<1> QED
  BY <1>1, <1>2, <1>3

\* What is owed is one request, and what has come of it fits.
LEMMA Answered ==
  ASSUME owed # <<>>, NEW p, Expected(p, owed, stream), NEW of, NEW exception,
         stream' = stream \o ((IF Head(owed).begun THEN <<>>
                               ELSE <<Piece("head", of, exception)>>)
                                \o <<Piece("body", of, exception)>>),
         owed' = Tail(owed)
  PROVE  Expected(p, owed', stream')
<1> DEFINE x == Piece("head", of, exception)
           y == Piece("body", of, exception)
<1>1. x.part = "head" /\ y.part = "body"
  BY DEF Piece
<1>2. stream' = stream \o ((IF Head(owed).begun THEN <<>> ELSE <<x>>) \o <<y>>)
  OBVIOUS
<1> HIDE DEF x, y
<1>3. CASE p = "head" /\ stream = <<>> /\ Owes(owed, FALSE)
  <2>1. Head(owed).begun = FALSE /\ owed' = <<>>
    BY <1>3, OwesTaken
  <2>2. stream' = <<>> \o (<<x>> \o <<y>>)
    BY <1>2, <1>3, <2>1
  <2>3. Whole(stream')
    BY <1>1, <2>2, Arrival
  <2> QED
    BY <1>3, <2>1, <2>3 DEF Expected
<1>4. CASE p = "head" /\ Alone(stream, "head") /\ Owes(owed, TRUE)
  <2>1. Head(owed).begun = TRUE /\ owed' = <<>>
    BY <1>4, OwesTaken
  <2>2. stream' = stream \o (<<>> \o <<y>>)
    BY <1>2, <2>1
  <2>3. Alone(stream, "head")
    BY <1>4
  <2>4. Whole(stream \o (<<>> \o <<y>>))
    BY <1>1, <2>3, Arrival
  <2>5. Whole(stream')
    BY <2>2, <2>4
  <2> QED
    BY <1>4, <2>1, <2>5 DEF Expected
<1>5. CASE p = "body" /\ stream = <<>> /\ Owes(owed, TRUE)
  <2>1. Head(owed).begun = TRUE /\ owed' = <<>>
    BY <1>5, OwesTaken
  <2>2. stream' = <<>> \o (<<>> \o <<y>>)
    BY <1>2, <1>5, <2>1
  <2>3. Alone(stream', "body")
    BY <1>1, <2>2, Arrival
  <2> QED
    BY <1>5, <2>1, <2>3 DEF Expected
<1> QED
  BY <1>3, <1>4, <1>5 DEF Expected

LEMMA AnswersInvariant ==
  ASSUME IInv, NEW exception \in BOOLEAN, Answers(exception)
  PROVE  IInv'
<1> DEFINE of == Head(owed).of
           pieces == (IF Head(owed).begun THEN <<>> ELSE <<Piece("head", of, exception)>>)
                       \o <<Piece("body", of, exception)>>
<1>1. /\ owed # <<>> /\ link = "open" /\ Arrive(pieces) /\ owed' = Tail(owed)
      /\ faults' = faults \/ (faults < MaxFaults /\ faults' = faults + 1)
      /\ UNCHANGED <<planVars, registered, collects, lock, work, state, failures>>
      /\ UNCHANGED <<link, orphans, given_up>>
  BY DEF Answers
<1>2. /\ device' = device /\ Worked /\ Transport /\ given_up' \in BOOLEAN
      /\ link' = "open"
  BY <1>1 DEF registered, IInv, Transport
<1>3. ASSUME NEW g \in Groups, ByAnswers, ~given_up, Expected(pc[g], owed, stream)
      PROVE  Expected(pc[g], owed', stream')
  <2>1. stream' = stream \o pieces
    BY <1>1 DEF Arrive
  <2> HIDE DEF of
  <2> QED
    BY <1>1, <1>3, <2>1, Answered
<1> HIDE DEF pieces
<1>4. /\ pc' \in [Groups -> Places]
      /\ \A g \in Groups :
           \/ pc'[g] = pc[g]
           \/ pc[g] = "head" /\ pc'[g] = "woken" /\ device.protocol = "fenet"
      /\ ByAnswers => \A g \in Groups : pc'[g] = pc[g]
  BY <1>1, <1>2, ArrivalWakes
<1>5. Transport'
  BY <1>1, <1>2, OneFault
<1>6. InStep'
  BY <1>1, <1>2, <1>3, <1>4, StepInStep
<1> QED
  BY <1>1, <1>4, <1>5, <1>6, Around

LEMMA AnswersInPartInvariant ==
  ASSUME IInv, AnswersInPart
  PROVE  IInv'
<1> DEFINE x == Piece("head", Head(owed).of, FALSE)
<1>1. /\ owed # <<>> /\ link = "open" /\ ~Head(owed).begun /\ Arrive(<<x>>)
      /\ owed' = [owed EXCEPT ![1].begun = TRUE]
      /\ faults < MaxFaults /\ faults' = faults + 1
      /\ UNCHANGED <<planVars, registered, collects, lock, work, state, failures>>
      /\ UNCHANGED <<link, orphans, given_up>>
  BY DEF AnswersInPart
<1>2. /\ device' = device /\ Worked /\ Transport /\ given_up' \in BOOLEAN
      /\ link' = "open"
  BY <1>1 DEF registered, IInv, Transport
<1>3. x.part = "head" /\ x.exception = FALSE
  BY DEF Piece
<1> HIDE DEF x
<1>4. /\ pc' \in [Groups -> Places] /\ stream' = stream \o <<x>>
      /\ \A g \in Groups :
           \/ pc'[g] = pc[g]
           \/ pc[g] = "head" /\ pc'[g] = "woken" /\ device.protocol = "fenet"
      /\ ByAnswers => \A g \in Groups : pc'[g] = pc[g]
  BY <1>1, <1>2, ArrivalWakes
<1>5. ASSUME NEW g \in Groups, ByAnswers, ~given_up, Expected(pc[g], owed, stream)
      PROVE  Expected(pc[g], owed', stream')
  <2>1. ~Owes(owed, TRUE)
    BY <1>1, OwesTaken
  <2>2. pc[g] = "head" /\ stream = <<>> /\ Owes(owed, FALSE)
    BY <1>1, <1>5, <2>1 DEF Expected
  <2>3. Owes(owed', TRUE)
    BY <1>1, <2>2, OwesTaken
  <2>4. stream' = <<x>> /\ <<x>>[1] = x
    BY <1>4, <2>2, One
  <2>5. Alone(stream', "head") /\ ~stream'[1].exception
    BY <1>3, <2>4 DEF Alone
  <2> QED
    BY <2>2, <2>3, <2>5 DEF Expected
<1>6. Transport'
  BY <1>1, <1>2, OneFault
<1>7. InStep'
  BY <1>1, <1>2, <1>4, <1>5, StepInStep
<1> QED
  BY <1>1, <1>4, <1>6, <1>7, Around

LEMMA LosesInvariant ==
  ASSUME IInv, Loses
  PROVE  IInv'
<1>1. /\ owed # <<>> /\ ~Head(owed).begun /\ owed' = Tail(owed) /\ stream' = stream
      /\ faults < MaxFaults /\ faults' = faults + 1 /\ pc' = pc
      /\ UNCHANGED <<planVars, registered, collects, lock, work, state, failures>>
      /\ UNCHANGED <<link, orphans, given_up>>
  BY DEF Loses
<1>2. /\ device' = device /\ pc \in [Groups -> Places] /\ Transport
      /\ given_up' \in BOOLEAN /\ link' \in {"open", "eof", "closed"}
  BY <1>1 DEF registered, IInv, Transport, Worked
<1>3. ASSUME NEW g \in Groups, ByAnswers, ~given_up, Expected(pc[g], owed, stream)
      PROVE  Expected(pc[g], owed', stream')
  <2>1. ~Owes(owed, TRUE)
    BY <1>1, OwesTaken
  <2>2. stream = <<>> /\ Owes(owed, FALSE)
    BY <1>1, <1>3, <2>1 DEF Expected
  <2>3. owed' = <<>>
    BY <1>1, <2>2, OwesTaken
  <2> QED
    BY <1>1, <2>2, <2>3 DEF Expected
<1>4. Transport'
  BY <1>1, <1>2, OneFault
<1>5. InStep'
  <2>1. CASE link = "open"
    BY <1>1, <1>2, <1>3, <2>1, StepInStep
  <2>2. CASE link # "open"
    BY <1>1, <1>2, <2>2 DEF IInv, InStep, ByAnswers, Nothing
  <2> QED
    BY <2>1, <2>2
<1> QED
  BY <1>1, <1>2, <1>4, <1>5, Around

LEMMA LinkBreaksInvariant ==
  ASSUME IInv, LinkBreaks
  PROVE  IInv'
<1>1. /\ link' \in {"open", "eof", "closed"} /\ owed' = <<>> /\ stream' = <<>>
      /\ faults < MaxFaults /\ faults' = faults + 1 /\ pc' = pc
      /\ UNCHANGED <<planVars, registered, collects, lock, work, state, failures>>
      /\ UNCHANGED <<orphans, given_up>>
  BY DEF LinkBreaks
<1>2. /\ device' = device /\ pc \in [Groups -> Places] /\ Transport
      /\ given_up' \in BOOLEAN
  BY <1>1 DEF registered, IInv, Transport, Worked
<1>3. Transport'
  BY <1>1, <1>2, OneFault
<1>4. Nothing'
  BY <1>1 DEF Nothing
<1>5. InStep'
  BY <1>2, <1>4, EmptyInStep
<1> QED
  BY <1>1, <1>2, <1>3, <1>5, Around
-----------------------------------------------------------------------------
(* All steps together.                                                     *)

LEMMA StutterInvariant ==
  ASSUME IInv, UNCHANGED vars
  PROVE  IInv'
<1>1. /\ UNCHANGED planVars
      /\ UNCHANGED <<registered, state, failures, pc, work, lock, collects>>
      /\ UNCHANGED <<device, pc, link, owed, stream, orphans, given_up, faults>>
  BY DEF vars, registered, transport
<1>2. PInv'
  BY <1>1, PlanStutters DEF IInv
<1> QED
  BY <1>1, <1>2, CollectingUnchanged, TransportUnchanged DEF IInv

LEMMA Invariance == Spec => []IInv
<1>1. IInv /\ [Next]_vars => IInv'
  <2> SUFFICES ASSUME IInv, [Next]_vars  PROVE IInv'
    OBVIOUS
  <2>1. ASSUME NEW g \in Groups, Reads(g)  PROVE IInv'
    BY <2>1, SendsInvariant, ReadsHeadInvariant, ReadsBodyInvariant,
       ReadsPastExceptionInvariant DEF Reads
  <2>2. ASSUME NEW g \in Groups, ReadsFenet(g)  PROVE IInv'
    BY <2>2, SendsFenetInvariant, WaitsForDataInvariant, ReadsChunkInvariant
       DEF ReadsFenet
  <2>3. ASSUME NEW g \in Groups, ReadsS7(g)  PROVE IInv'
    BY <2>3, CallsInvariant, CallReturnsInvariant DEF ReadsS7
  <2>4. CASE Plans \/ Registered \/ RegistrationRaises
    BY <2>4, PlansInvariant, RegisteredInvariant, RegistrationRaisesInvariant
  <2>5. CASE \E g \in Groups : Begin(g) \/ Reads(g) \/ ReadsFenet(g) \/ ReadsS7(g)
    BY <2>1, <2>2, <2>3, <2>5, BeginInvariant
  <2>6. CASE \E g \in Groups : TimesOut(g) \/ ConnectionLost(g) \/ GroupTimesOut(g)
    BY <2>6, TimesOutInvariant, ConnectionLostInvariant, GroupTimesOutInvariant
  <2>7. CASE Reconnects \/ OrphanReads
    BY <2>7, ReconnectsInvariant, OrphanReadsInvariant
  <2>8. CASE \/ \E exception \in BOOLEAN : Answers(exception)
             \/ AnswersInPart \/ Loses \/ LinkBreaks
    BY <2>8, AnswersInvariant, AnswersInPartInvariant, LosesInvariant, LinkBreaksInvariant
  <2>9. CASE UNCHANGED vars
    BY <2>9, StutterInvariant
  <2> QED
    BY <2>4, <2>5, <2>6, <2>7, <2>8, <2>9 DEF Next
<1> QED
  BY <1>1, InitInvariant, PTL DEF Spec

-----------------------------------------------------------------------------
(* What a collection reads.  A cell of the device is named by its place,   *)
(* so that right data is a function that returns its argument.             *)

PlacesOf(groups) ==
  UNION {{<<rg.area, a>> : a \in rg.start .. rg.end - 1} : rg \in groups}

Right(data) == \A place \in DOMAIN data : data[place] = place

\* n cells from an address on are there.
Held(data, area, address, n) ==
  \A i \in 0 .. n - 1 : <<area, address + i>> \in DOMAIN data

LEMMA CellsAreTheDevices ==
  ASSUME NEW data, Right(data), NEW area, NEW address \in Int, NEW n \in Nat
  PROVE  IF Held(data, area, address, n)
         THEN Cells(data, area, address, n) = DeviceCells(area, address, n)
         ELSE Cells(data, area, address, n) = None
<1>1. CASE Held(data, area, address, n)
  <2>1. \A i \in 1 .. n : i - 1 \in 0 .. n - 1 /\ address + (i - 1) = address + i - 1
    OBVIOUS
  <2>2. ASSUME NEW i \in 1 .. n
        PROVE  data[<<area, address + i - 1>>] = <<area, address + i - 1>>
    <3>1. <<area, address + (i - 1)>> \in DOMAIN data
      BY <1>1, <2>1 DEF Held
    <3> QED
      BY <2>1, <3>1 DEF Right
  <2>3. Cells(data, area, address, n) = [i \in 1 .. n |-> data[<<area, address + i - 1>>]]
    BY <1>1 DEF Cells, Held
  <2> QED
    BY <1>1, <2>2, <2>3 DEF DeviceCells
<1>2. CASE ~Held(data, area, address, n)
  BY <1>2 DEF Cells, Held
<1> QED
  BY <1>1, <1>2

LEMMA LengthOfCells ==
  ASSUME NEW area, NEW address \in Int, NEW n \in Nat
  PROVE  /\ DeviceCells(area, address, n) \in Seq({area} \X Int)
         /\ Len(DeviceCells(area, address, n)) = n
         /\ n > 0 => DeviceCells(area, address, n) # None
<1>1. \A i \in 1 .. n : <<area, address + i - 1>> \in {area} \X Int
  OBVIOUS
<1>2. /\ DeviceCells(area, address, n) \in Seq({area} \X Int)
      /\ Len(DeviceCells(area, address, n)) = n
  BY <1>1 DEF DeviceCells
<1> QED
  BY <1>2 DEF None

\* The first of the cells.
LEMMA FirstCells ==
  ASSUME NEW area, NEW address \in Int, NEW n \in Nat, NEW k \in 0 .. n
  PROVE  DeviceCells(area, address, k) = SubSeq(DeviceCells(area, address, n), 1, k)
<1> DEFINE s == DeviceCells(area, address, n)
           r == DeviceCells(area, address, k)
           q == SubSeq(s, 1, k)
           T == {area} \X Int
<1>1. k \in Nat /\ s \in Seq(T) /\ Len(s) = n /\ r \in Seq(T) /\ Len(r) = k
  BY LengthOfCells
<1>2. \A i \in 1 .. k : s[i] = r[i]
  BY DEF DeviceCells
<1> HIDE DEF s, r, T
<1>3. q \in Seq(T) /\ Len(q) = k /\ \A i \in 1 .. k : q[i] = s[i]
  <2>1. k <= Len(s) /\ n \in Nat
    BY <1>1
  <2>2. \A i \in 1 .. k : 1 + i - 1 = i
    OBVIOUS
  <2>3. q = [i \in 1 .. k |-> s[i]]
    BY <1>1, <2>1, <2>2
  <2> QED
    BY <1>1, <2>1, <2>3
<1> HIDE DEF q
<1> QED
  BY <1>1, <1>2, <1>3, SeqEqual DEF r, q, s

\* The cells up to the first one that is missing: all, or the first of them.
LEMMA CellsUpToTheFirstMissing ==
  ASSUME NEW data, Right(data), NEW area, NEW address \in Int, NEW n \in Nat
  PROVE  /\ \E k \in 0 .. n : CellsWhileRead(data, area, address, n) =
                                SubSeq(DeviceCells(area, address, n), 1, k)
         /\ Held(data, area, address, n) =>
              CellsWhileRead(data, area, address, n) = DeviceCells(area, address, n)
<1> DEFINE present == {k \in 0 .. n : Held(data, area, address, k)}
           m == CHOOSE k \in present : \A j \in present : j <= k
<1>1. CellsWhileRead(data, area, address, n) = Cells(data, area, address, m)
  BY DEF CellsWhileRead, Held
<1>2. m \in present /\ \A j \in present : j <= m
  <2>1. Held(data, area, address, 0) /\ 0 \in 0 .. n
    BY DEF Held
  <2>2. present \subseteq 0 .. n /\ present # {}
    BY <2>1
  <2> HIDE DEF present
  <2>3. \E k \in present : \A j \in present : j <= k
    BY <2>2, Greatest
  <2> QED
    BY <2>3
<1>3. m \in 0 .. n /\ m \in Nat /\ Held(data, area, address, m)
  BY <1>2
<1>4. Held(data, area, address, n) => m = n
  <2>1. Held(data, area, address, n) => n \in present
    OBVIOUS
  <2> QED
    BY <1>2, <1>3, <2>1
<1> HIDE DEF present, m
<1>5. Cells(data, area, address, m) = DeviceCells(area, address, m)
  BY <1>3, CellsAreTheDevices
<1>6. DeviceCells(area, address, m) = SubSeq(DeviceCells(area, address, n), 1, m)
  BY <1>3, FirstCells
<1> QED
  BY <1>1, <1>3, <1>4, <1>5, <1>6

-----------------------------------------------------------------------------
(* Modbus *)

LEMMA ModbusPlace ==
  ASSUME NEW t, NEW p \in Modbus!ParseAddress(t)
  PROVE  p.area = Modbus!AreaOf[t.letters] /\ p.address = t.number
<1>1. PICK i \in DOMAIN Modbus!AddressPrefixes :
        /\ p = [area |-> Modbus!AddressPrefixes[i].area, address |-> t.number]
        /\ Modbus!AddressPrefixes[i].letters = t.letters
        /\ Modbus!FirstPrefix(i, t.letters)
  BY DEF Modbus!ParseAddress
<1>2. i \in {1, 2, 3, 4, 5, 6, 7}
  BY DEF Modbus!AddressPrefixes
<1>3. i # 6
  <2> SUFFICES ASSUME i = 6 PROVE FALSE
    OBVIOUS
  <2>1. t.letters = <<"I", "R">>
    BY <1>1 DEF Modbus!AddressPrefixes
  <2>2. Modbus!AddressPrefixes[4].letters = <<"I">>
    BY DEF Modbus!AddressPrefixes
  <2>3. Modbus!IsPrefix(<<"I">>, <<"I", "R">>)
    BY DEF Modbus!IsPrefix
  <2> QED
    BY <1>1, <2>1, <2>2, <2>3 DEF Modbus!FirstPrefix
<1> QED
  BY <1>1, <1>2, <1>3 DEF Modbus!AddressPrefixes, Modbus!AreaOf

\* A value of a tag is what the tag means, nothing, or the beginning of a string; and it
\* is what the tag means if everything the tag was planned for has been read.
IsOwn(v, tag, meant, all) ==
  /\ \/ v \in {meant, None}
     \/ tag.data_type = "STRING" /\ (\E k \in 0 .. Len(meant) : v = SubSeq(meant, 1, k))
  /\ all => v = meant

LEMMA ModbusCells ==
  ASSUME NEW data, NEW area, NEW address, NEW n
  PROVE  /\ Modbus!Cells(data, area, address, n) = Cells(data, area, address, n)
         /\ Modbus!CellsWhileRead(data, area, address, n) =
              CellsWhileRead(data, area, address, n)
         /\ Modbus!DeviceCells(area, address, n) = DeviceCells(area, address, n)
BY DEF Modbus!Cells, Cells, Modbus!CellsWhileRead, CellsWhileRead, Modbus!DeviceCells,
       DeviceCells, Modbus!None, None

\* One cell is a sequence of one.
LEMMA OneCell ==
  ASSUME NEW area, NEW address \in Int
  PROVE  DeviceCells(area, address, 1) = <<<<area, address>>>>
BY DEF DeviceCells

LEMMA ModbusInOrder ==
  ASSUME NEW word_order
  PROVE  /\ Modbus!InOrder(word_order, None) = None
         /\ \A x : Modbus!InOrder(word_order, <<x>>) = <<x>>
BY DEF Modbus!InOrder, Modbus!Reverse, None

LEMMA ModbusValues ==
  ASSUME NEW c, NEW t, NEW data, Right(data), t.words \in Nat, NEW groups,
         Modbus!Supported(c, groups, t),
         NEW p \in Modbus!ParseAddress(t), p.address \in Nat,
         NEW v \in Modbus!ParseValue(c, t, data)
  PROVE  IsOwn(v, t, Modbus!Meant(c, t),
               Held(data, p.area, p.address, Modbus!RegisterSize(t)))
<1> DEFINE area == Modbus!AreaOf[t.letters]
           n == Modbus!RegisterSize(t)
           cells == DeviceCells(area, t.number, n)
           read == Cells(data, area, t.number, n)
<1>1. p.area = area /\ p.address = t.number /\ t.number \in Int
  BY ModbusPlace
<1>2. n \in Nat /\ n > 0 /\ Modbus!Width(t) = n
  BY DEF Modbus!RegisterSize, Modbus!Width
<1>3. v = IF t.data_type = "STRING" THEN CellsWhileRead(data, area, t.number, n)
          ELSE IF t.data_type \in {"INT32", "UINT32", "FLOAT32", "FLOAT64"}
          THEN Modbus!InOrder(c.word_order, read) ELSE read
  <2>1. PICK q \in Modbus!ParseAddress(t) :
          v = CASE t.data_type = "STRING" ->
                     CellsWhileRead(data, q.area, q.address,
                                    IF t.words > 0 THEN t.words ELSE 1)
                [] t.data_type \in {"INT32", "UINT32", "FLOAT32"} ->
                     Modbus!InOrder(c.word_order, Cells(data, q.area, q.address, 2))
                [] t.data_type = "FLOAT64" ->
                     Modbus!InOrder(c.word_order, Cells(data, q.area, q.address, 4))
                [] OTHER -> Cells(data, q.area, q.address, 1)
    BY ModbusCells DEF Modbus!ParseValue
  <2>2. q.area = area /\ q.address = t.number
    BY ModbusPlace
  <2> QED
    BY <2>1, <2>2 DEF Modbus!RegisterSize
<1>4. Modbus!Meant(c, t) = IF t.data_type = "STRING" THEN cells
                           ELSE Modbus!InOrder(c.word_order, cells)
  BY <1>2, ModbusCells DEF Modbus!Meant
<1>5. IF Held(data, area, t.number, n) THEN read = cells ELSE read = None
  BY <1>1, <1>2, CellsAreTheDevices
<1>6. CASE t.data_type = "STRING"
  <2>1. /\ \E k \in 0 .. n : v = SubSeq(cells, 1, k)
        /\ Held(data, area, t.number, n) => v = cells
    BY <1>1, <1>2, <1>3, <1>6, CellsUpToTheFirstMissing
  <2>2. Len(cells) = n
    BY <1>1, <1>2, LengthOfCells
  <2> HIDE DEF cells, n
  <2> QED
    BY <1>1, <1>4, <1>6, <2>1, <2>2 DEF IsOwn, n
<1>7. CASE t.data_type \in {"INT32", "UINT32", "FLOAT32", "FLOAT64"}
  <2>1. v = Modbus!InOrder(c.word_order, read)
    BY <1>3, <1>7
  <2>2. Modbus!Meant(c, t) = Modbus!InOrder(c.word_order, cells)
    BY <1>4, <1>7
  <2> HIDE DEF cells, n, read
  <2>3. v \in {Modbus!Meant(c, t), None}
    BY <1>5, <2>1, <2>2, ModbusInOrder
  <2>4. Held(data, area, t.number, n) => v = Modbus!Meant(c, t)
    BY <1>5, <2>1, <2>2
  <2> QED
    BY <1>1, <2>3, <2>4 DEF IsOwn, n
<1>8. CASE t.data_type \notin {"STRING", "INT32", "UINT32", "FLOAT32", "FLOAT64"}
  <2>1. n = 1
    BY <1>8 DEF Modbus!RegisterSize
  <2>2. cells = <<<<area, t.number>>>>
    BY <1>1, <2>1, OneCell
  <2>3. Modbus!InOrder(c.word_order, cells) = cells
    BY <2>2, ModbusInOrder
  <2>4. v = read
    BY <1>3, <1>8
  <2>5. Modbus!Meant(c, t) = cells
    BY <1>4, <1>8, <2>3
  <2> HIDE DEF cells, n, read
  <2> QED
    BY <1>1, <1>5, <2>4, <2>5 DEF IsOwn, n
<1> QED
  BY <1>6, <1>7, <1>8

LEMMA ModbusFinds ==
  ASSUME NEW c, NEW t, NEW data, Modbus!ParseAddress(t) # {}
  PROVE  Modbus!ParseValue(c, t, data) # {}
BY DEF Modbus!ParseValue

-----------------------------------------------------------------------------
(* FEnet *)

LEMMA FenetPlace ==
  ASSUME NEW t, NEW p \in Fenet!ParseAddress(t)
  PROVE  p.area = Fenet!Device(t) /\ p.address = t.number
<1>1. Fenet!Loaded(t).number = t.number
      /\ Fenet!Loaded(t).letter = IF t.memory # "" THEN t.memory ELSE t.letter
  BY DEF Fenet!Loaded
<1>2. t.memory # "" => Fenet!Loaded(t).letter # ""
  BY <1>1
<1> DEFINE text == Fenet!Loaded(t)
           area == CASE t.memory # "" -> t.memory
                       [] t.memory = "" /\ text.letter # "" -> text.letter
                       [] OTHER -> "D"
<1>3. /\ p = [area |-> area, address |-> text.number]
      /\ t.memory # "" => text.letter = ""
  BY DEF Fenet!ParseAddress
<1>4. t.memory = ""
  BY <1>2, <1>3
<1>5. area = Fenet!Device(t)
  BY <1>1, <1>4 DEF Fenet!Device
<1> HIDE DEF area, text
<1> QED
  BY <1>1, <1>3, <1>5 DEF text

LEMMA FenetCells ==
  ASSUME NEW data, NEW area, NEW address, NEW n
  PROVE  /\ Fenet!Cells(data, area, address, n) = Cells(data, area, address, n)
         /\ Fenet!DeviceCells(area, address, n) = DeviceCells(area, address, n)
BY DEF Fenet!Cells, Cells, Fenet!DeviceCells, DeviceCells, Fenet!None, None

LEMMA FenetReverse ==
  /\ Fenet!Reverse(None) = None
  /\ \A x : Fenet!Reverse(<<x>>) = <<x>>
BY DEF Fenet!Reverse, None

LEMMA FenetValues ==
  ASSUME NEW t, NEW data, Right(data), t.words \in Nat,
         Fenet!Supported(t),
         NEW p \in Fenet!ParseAddress(t), p.address \in Nat,
         NEW v \in Fenet!ParseValue(t, data)
  PROVE  IsOwn(v, t, Fenet!Meant(t),
               Held(data, p.area, p.address, Fenet!WordSize(t)))
<1> DEFINE area == Fenet!Device(t)
           n == Fenet!WordSize(t)
           cells == DeviceCells(area, t.number, n)
           read == Cells(data, area, t.number, n)
           long == {"INT32", "UINT32", "DWORD", "FLOAT32", "FLOAT64"}
<1>1. p.area = area /\ p.address = t.number /\ t.number \in Int
  BY FenetPlace
<1>2. /\ n \in Nat /\ n > 0 /\ Fenet!Width(t) = n
      /\ t.data_type \notin {"INT64", "UINT64", "LWORD"}
  BY DEF Fenet!Supported, Fenet!WordSize, Fenet!Width
<1>3. t.data_type = "STRING" => n = IF t.words > 0 THEN t.words ELSE 1
  BY <1>2 DEF Fenet!Width
<1>4. v = IF t.data_type \in long THEN Fenet!Reverse(read) ELSE read
  <2>1. PICK q \in Fenet!ParseAddress(t) :
          v = CASE t.data_type \in {"INT32", "UINT32", "DWORD", "FLOAT32"} ->
                     Fenet!Reverse(Cells(data, q.area, q.address, 2))
                [] t.data_type = "FLOAT64" ->
                     Fenet!Reverse(Cells(data, q.area, q.address, 4))
                [] t.data_type = "STRING" ->
                     Cells(data, q.area, q.address, IF t.words > 0 THEN t.words ELSE 1)
                [] OTHER -> Cells(data, q.area, q.address, 1)
    BY FenetCells DEF Fenet!ParseValue
  <2>2. q.area = area /\ q.address = t.number
    BY FenetPlace
  <2> QED
    BY <1>2, <1>3, <2>1, <2>2 DEF Fenet!Width
<1>5. Fenet!Meant(t) = IF t.data_type = "STRING" THEN cells ELSE Fenet!Reverse(cells)
  BY <1>2, FenetCells DEF Fenet!Meant
<1>6. IF Held(data, area, t.number, n) THEN read = cells ELSE read = None
  BY <1>1, <1>2, CellsAreTheDevices
<1>7. Fenet!Meant(t) = IF t.data_type \in long THEN Fenet!Reverse(cells) ELSE cells
  <2>1. CASE t.data_type \in long \cup {"STRING"}
    BY <1>5, <2>1
  <2>2. CASE t.data_type \notin long \cup {"STRING"}
    <3>1. n = 1
      BY <2>2 DEF Fenet!WordSize
    <3>2. cells = <<<<area, t.number>>>>
      BY <1>1, <3>1, OneCell
    <3> QED
      BY <1>5, <2>2, <3>2, FenetReverse
  <2> QED
    BY <2>1, <2>2
<1> HIDE DEF cells, read, long, n
<1>8. v \in {Fenet!Meant(t), None}
  BY <1>4, <1>6, <1>7, FenetReverse
<1>9. Held(data, area, t.number, n) => v = Fenet!Meant(t)
  BY <1>4, <1>6, <1>7
<1> QED
  BY <1>1, <1>8, <1>9 DEF IsOwn, n

LEMMA FenetFinds ==
  ASSUME NEW t, NEW data, Fenet!ParseAddress(t) # {}
  PROVE  Fenet!ParseValue(t, data) # {}
BY DEF Fenet!ParseValue

-----------------------------------------------------------------------------
(* S7 *)

\* A place and a bit of it.
LEMMA BitPlace ==
  ASSUME NEW x, NEW y, NEW z
  PROVE  <<x, y>> \o <<z>> = <<x, y, z>>
<1> DEFINE S == {x, y, z}
           r == <<x, y>> \o <<z>>
           q == <<x, y, z>>
<1>1. <<x, y>> \in Seq(S) /\ <<z>> \in Seq(S) /\ q \in Seq(S)
  OBVIOUS
<1>2. Len(<<x, y>>) = 2 /\ Len(<<z>>) = 1 /\ <<x, y>>[1] = x /\ <<x, y>>[2] = y
      /\ <<z>>[1] = z
  OBVIOUS
<1>3. r \in Seq(S) /\ Len(r) = 3 /\ r[1] = x /\ r[2] = y /\ r[3] = z
  <2> HIDE DEF S
  <2> QED
    BY <1>1, <1>2, ConcatProperties
<1>4. Len(q) = 3 /\ q[1] = x /\ q[2] = y /\ q[3] = z
  OBVIOUS
<1> HIDE DEF S, r, q
<1>5. \A i \in 1 .. 3 : r[i] = q[i]
  BY <1>3, <1>4
<1> QED
  BY <1>1, <1>3, <1>4, <1>5, SeqEqual DEF r, q

LEMMA S7Cells ==
  ASSUME NEW data, NEW area, NEW address, NEW n
  PROVE  /\ S7!Cells(data, area, address, n) = Cells(data, area, address, n)
         /\ S7!DeviceCells(area, address, n) = DeviceCells(area, address, n)
BY DEF S7!Cells, Cells, S7!DeviceCells, DeviceCells, S7!None, None

LEMMA S7BitOf ==
  ASSUME NEW x, NEW bit
  PROVE  S7!BitOf(<<x>>, bit) = <<x \o <<bit>>>>
<1> DEFINE y == x \o <<bit>>
<1>1. S7!BitOf(<<x>>, bit) = [i \in DOMAIN <<x>> |-> <<x>>[i] \o <<bit>>]
  BY DEF S7!BitOf
<1>2. DOMAIN <<x>> = {1} /\ \A i \in {1} : <<x>>[i] = x
  OBVIOUS
<1>3. S7!BitOf(<<x>>, bit) = [i \in {1} |-> y]
  BY <1>1, <1>2, Zenon
<1> HIDE DEF y
<1>4. [i \in {1} |-> y] = <<y>>
  OBVIOUS
<1> QED
  BY <1>3, <1>4 DEF y

LEMMA S7Place ==
  ASSUME NEW t, NEW p \in S7!ParseAddress(t)
  PROVE  /\ p.area = IF t.area = "" THEN "M" ELSE t.area
         /\ p.address = t.byte /\ p.bit = t.bit
<1>1. PICK a \in {t.area} :
        p = [area |-> IF a = "" THEN "M" ELSE a, address |-> t.byte, bit |-> t.bit]
  BY DEF S7!ParseAddress
<1> QED
  BY <1>1

\* Some of the cells that are there.
LEMMA HeldPart ==
  ASSUME NEW data, NEW area, NEW address \in Int, NEW n \in Nat,
         Held(data, area, address, n), NEW k \in Nat, NEW m \in Nat, k + m <= n
  PROVE  Held(data, area, address + k, m)
<1> SUFFICES ASSUME NEW i \in 0 .. m - 1
             PROVE  <<area, address + k + i>> \in DOMAIN data
  BY DEF Held
<1>1. k + i \in 0 .. n - 1 /\ address + (k + i) = address + k + i
  OBVIOUS
<1> QED
  BY <1>1 DEF Held

\* Part of the cells that are there is as the device has it.
LEMMA PartIsTheDevices ==
  ASSUME NEW data, Right(data), NEW area, NEW address \in Int, NEW n \in Nat,
         Held(data, area, address, n), NEW k \in Nat, NEW m \in Nat, k + m <= n
  PROVE  Cells(data, area, address + k, m) = DeviceCells(area, address + k, m)
<1>1. Held(data, area, address + k, m)
  BY HeldPart
<1>2. address + k \in Int
  OBVIOUS
<1> QED
  BY <1>1, <1>2, CellsAreTheDevices

\* The text of a supported string: its characters, which the second byte counts.
LEMMA S7Text ==
  ASSUME NEW t, NEW data, Right(data), t.words \in Nat,
         t.data_type = "STRING", S7!Supported(t),
         NEW p, p.address \in Nat,
         Held(data, p.area, p.address, S7!ByteSize(t))
  PROVE  S7!ParseString(t, p, data) = DeviceCells(p.area, p.address + 2, t.actual)
<1> DEFINE n == S7!ByteSize(t)
<1>1. t.actual \in Nat /\ t.actual > 0 /\ t.actual <= t.words /\ 2 + t.actual <= n
      /\ n \in Nat /\ t.words > 0
  BY DEF S7!Supported, S7!ByteSize
<1> HIDE DEF n
<1>2. Held(data, p.area, p.address, n)
  BY DEF n
<1>3. Cells(data, p.area, p.address + 0, 2) = DeviceCells(p.area, p.address + 0, 2)
  BY <1>1, <1>2, PartIsTheDevices
<1>4. Cells(data, p.area, p.address, 2) # None
  <2>1. p.address + 0 = p.address /\ p.address \in Int
    OBVIOUS
  <2>2. \A m \in Nat : m > 0 => DeviceCells(p.area, p.address, m) # None
    BY <2>1, LengthOfCells
  <2> QED
    BY <1>3, <2>1, <2>2
<1>5. Cells(data, p.area, p.address + 2, t.actual) =
        DeviceCells(p.area, p.address + 2, t.actual)
  BY <1>1, <1>2, PartIsTheDevices
<1>6. DeviceCells(p.area, p.address + 2, t.actual) # None
  <2>1. p.address + 2 \in Int
    OBVIOUS
  <2> QED
    BY <1>1, <2>1, LengthOfCells
<1>7. S7!Smaller(t.actual, IF t.words > 0 THEN t.words ELSE 10) = t.actual
  BY <1>1 DEF S7!Smaller
<1>8. S7!None = None
  BY DEF S7!None, None
<1> QED
  BY <1>1, <1>4, <1>5, <1>6, <1>7, <1>8, S7Cells DEF S7!ParseString

LEMMA S7Values ==
  ASSUME NEW t, NEW data, Right(data), t.words \in Nat,
         S7!Supported(t),
         NEW p \in S7!ParseAddress(t), p.address \in Nat,
         Held(data, p.area, p.address, S7!ByteSize(t)),
         NEW v \in S7!ParseValue(t, data)
  PROVE  v = S7!Meant(t)
<1> DEFINE area == IF t.area = "" THEN "M" ELSE t.area
<1>1. p.area = area /\ p.address = t.byte /\ t.byte \in Int /\ p.bit = t.bit
  <2>1. p.area = area /\ p.address = t.byte /\ p.bit = t.bit
    BY S7Place
  <2>2. t.byte \in Nat
    BY <2>1
  <2> HIDE DEF area
  <2> QED
    BY <2>1, <2>2
<1>2. PICK q \in S7!ParseAddress(t) :
        v = CASE t.data_type = "BOOL" -> S7!BitOf(Cells(data, q.area, q.address, 1), q.bit)
              [] t.data_type \in {"INT8", "UINT8"} -> Cells(data, q.area, q.address, 1)
              [] t.data_type \in {"INT32", "UINT32", "DWORD", "FLOAT32"} ->
                   Cells(data, q.area, q.address, 4)
              [] t.data_type = "FLOAT64" -> Cells(data, q.area, q.address, 8)
              [] t.data_type = "STRING" -> S7!ParseString(t, q, data)
              [] OTHER -> Cells(data, q.area, q.address, 2)
  BY S7Cells DEF S7!ParseValue
<1>3. q.area = area /\ q.address = t.byte /\ q.bit = t.bit
  BY S7Place
<1> HIDE DEF area
<1>4. \A m \in Nat : m <= S7!ByteSize(t) =>
        Cells(data, area, t.byte, m) = DeviceCells(area, t.byte, m)
  <2> SUFFICES ASSUME NEW m \in Nat, m <= S7!ByteSize(t)
               PROVE  Cells(data, area, t.byte, m) = DeviceCells(area, t.byte, m)
    OBVIOUS
  <2>1. S7!ByteSize(t) \in Nat
    BY DEF S7!ByteSize
  <2>2. Held(data, area, t.byte, S7!ByteSize(t))
    BY <1>1
  <2>3. \A k \in Nat : k + m <= S7!ByteSize(t) =>
          Cells(data, area, t.byte + k, m) = DeviceCells(area, t.byte + k, m)
    BY <1>1, <2>1, <2>2, PartIsTheDevices
  <2>4. 0 + m <= S7!ByteSize(t) /\ t.byte + 0 = t.byte
    BY <1>1, <2>1
  <2> QED
    BY <2>3, <2>4
<1>5. CASE t.data_type = "STRING"
  <2>1. v = S7!ParseString(t, q, data)
    BY <1>2, <1>5
  <2>2. v = DeviceCells(area, t.byte + 2, t.actual)
    BY <1>1, <1>3, <1>5, <2>1, S7Text
  <2> QED
    BY <1>5, <2>2, S7Cells DEF S7!Meant, area
<1>6. CASE t.data_type = "BOOL"
  <2>1. S7!ByteSize(t) = 1
    BY <1>6 DEF S7!ByteSize
  <2>2. v = S7!BitOf(<<<<area, t.byte>>>>, t.bit)
    BY <1>1, <1>2, <1>3, <1>4, <1>6, <2>1, OneCell
  <2>3. v = <<<<area, t.byte>> \o <<t.bit>>>>
    BY <2>2, S7BitOf
  <2> QED
    BY <1>6, <2>3, BitPlace DEF S7!Meant, area
<1>7. CASE t.data_type \notin {"STRING", "BOOL"}
  <2>1. S7!Width(t) \in Nat /\ S7!Width(t) <= S7!ByteSize(t)
    BY <1>7 DEF S7!Supported, S7!Width, S7!ByteSize
  <2>2. v = Cells(data, area, t.byte, S7!Width(t))
    BY <1>2, <1>3, <1>7 DEF S7!Supported, S7!Width
  <2>3. v = DeviceCells(area, t.byte, S7!Width(t))
    BY <1>4, <2>1, <2>2
  <2> QED
    BY <1>7, <2>3, S7Cells DEF S7!Meant, area
<1> QED
  BY <1>5, <1>6, <1>7

LEMMA S7Finds ==
  ASSUME NEW t, NEW data, S7!ParseAddress(t) # {}
  PROVE  S7!ParseValue(t, data) # {}
BY DEF S7!ParseValue

-----------------------------------------------------------------------------
(* MC *)

\* Division by the bits of a word.
LEMMA Division ==
  ASSUME NEW a \in Nat, NEW n \in Nat, n > 0
  PROVE  /\ a \div n \in Nat /\ a % n \in 0 .. n - 1
         /\ a = (a \div n) * n + (a % n)
         /\ a = 0 => a \div n = 0 /\ a % n = 0
OBVIOUS

LEMMA McPlace ==
  ASSUME NEW c, NEW t, NEW p \in Mc!ParseAddress(c, t)
  PROVE  p.area = t.device /\ p.address = Mc!NumberOf(t.digits, Mc!BaseOf(c, t))
BY DEF Mc!ParseAddress

\* The processor's parser agrees with the collector's.
LEMMA McPlaceAgain ==
  ASSUME NEW c, NEW t, NEW groups, Mc!Supported(c, groups, t),
         NEW p \in Mc!ParseAddress(c, t), NEW q \in Mc!ParseAddressAgain(t)
  PROVE  q.area = p.area /\ q.address = p.address
<1>1. q.area = t.device
  BY DEF Mc!ParseAddressAgain
<1>2. q.address \in {r.address : r \in Mc!ParseAddress(c, t)}
  BY DEF Mc!Supported
<1>3. PICK r \in Mc!ParseAddress(c, t) : r.address = q.address
  BY <1>2
<1>4. p.area = t.device /\ r.address = p.address
  BY McPlace
<1> QED
  BY <1>1, <1>3, <1>4

LEMMA McCells ==
  ASSUME NEW data, NEW area, NEW address, NEW n
  PROVE  /\ Mc!Cells(data, area, address, n) = Cells(data, area, address, n)
         /\ Mc!CellsWhileRead(data, area, address, n) =
              CellsWhileRead(data, area, address, n)
         /\ Mc!DeviceCells(area, address, n) = DeviceCells(area, address, n)
BY DEF Mc!Cells, Cells, Mc!CellsWhileRead, CellsWhileRead, Mc!DeviceCells,
       DeviceCells, Mc!None, None

LEMMA McInOrder ==
  ASSUME NEW word_order
  PROVE  /\ Mc!InOrder(word_order, None) = None
         /\ \A x : Mc!InOrder(word_order, <<x>>) = <<x>>
BY DEF Mc!InOrder, Mc!Reverse, None

\* The first bit of a cell, as the processor reads it.
LEMMA McFirstBit ==
  ASSUME NEW area, NEW address
  PROVE  Mc!ShiftedBit(area, <<area, address>>, 0) =
           IF Mc!IsBitArea(area) THEN <<area, address>> ELSE <<area, address, 0>>
<1>1. DOMAIN <<area, address>> = 1 .. 2 /\ 0 \in 0 .. WordBits - 1 /\ 0 \notin 1 .. 2
  BY DeviceReadAssumption
<1>2. Mc!BitOf(<<area, address>>, 0) = <<area, address>> \o <<0>>
  BY <1>1 DEF Mc!BitOf
<1> QED
  BY <1>2, BitPlace DEF Mc!ShiftedBit

LEMMA McBits ==
  ASSUME NEW c, NEW t, NEW data, Right(data), NEW groups,
         DOMAIN data \subseteq PlacesOf(groups),
         t.data_type = "BOOL", Mc!Supported(c, groups, t),
         NEW p \in Mc!ParseAddress(c, t), p.address \in Nat
  PROVE  IF Held(data, p.area, p.address, 1)
         THEN Mc!ExtractBool(data, p.area, p.address) = Mc!Meant(c, t)
         ELSE Mc!ExtractBool(data, p.area, p.address) = None
<1> DEFINE area == t.device
           a == p.address
           word == Cells(data, area, a \div WordBits, 1)
           bit == Cells(data, area, a, 1)
<1>1. p.area = area /\ a = Mc!NumberOf(t.digits, Mc!BaseOf(c, t))
  BY McPlace
<1>2. /\ a \div WordBits \in Nat /\ a % WordBits \in 0 .. WordBits - 1
      /\ a = 0 => a \div WordBits = 0 /\ a % WordBits = 0
  BY Division, DeviceReadAssumption
<1>3. a > 0 => word = None
  <2> SUFFICES ASSUME a > 0 PROVE ~Held(data, area, a \div WordBits, 1)
    BY <1>2, CellsAreTheDevices
  <2> DEFINE x == a \div WordBits
  <2>1. x \in Nat
    BY <1>2
  <2>2. \A rg \in groups : rg.area = t.device => x \notin rg.start .. rg.end - 1
    BY <1>1 DEF Mc!Supported, Mc!BitAddressTaken
  <2> HIDE DEF x
  <2>3. <<area, x>> \notin PlacesOf(groups)
    BY <2>2 DEF PlacesOf
  <2>4. ~Held(data, area, x, 1)
    BY <2>1, <2>3 DEF Held
  <2> QED
    BY <2>4 DEF x
<1>4. a = 0 => word = bit
  BY <1>2
<1>5. IF Held(data, area, a, 1) THEN bit = <<<<area, a>>>> ELSE bit = None
  BY CellsAreTheDevices, OneCell
<1>6. Mc!ExtractBool(data, area, a) =
        CASE word # None -> <<Mc!ShiftedBit(area, word[1], a % WordBits)>>
          [] word = None /\ bit # None -> <<Mc!ShiftedBit(area, bit[1], 0)>>
          [] OTHER -> None
  BY McCells DEF Mc!ExtractBool, Mc!None, None
<1> HIDE DEF word, bit
<1>7. CASE Held(data, area, a, 1)
  <2>1. bit = <<<<area, a>>>> /\ bit # None /\ bit[1] = <<area, a>>
    <3>1. bit = <<<<area, a>>>>
      BY <1>5, <1>7
    <3>2. \A x : <<x>> # <<>> /\ <<x>>[1] = x
      OBVIOUS
    <3> QED
      BY <3>1, <3>2 DEF None
  <2>2. Mc!ExtractBool(data, area, a) = <<Mc!ShiftedBit(area, <<area, a>>, 0)>>
    BY <1>2, <1>3, <1>4, <1>6, <2>1
  <2>3. Mc!RegisterSize(t) = 1
    BY DEF Mc!RegisterSize
  <2>4. Mc!DeviceCells(area, a, 1) = <<<<area, a>>>>
    BY McCells, OneCell
  <2>5. Mc!Meant(c, t) = IF Mc!IsBitArea(area) THEN <<<<area, a>>>>
                         ELSE <<<<area, a>> \o <<0>>>>
    <3> DEFINE cells == Mc!DeviceCells(area, a, 1)
    <3>1. Mc!Meant(c, t) = IF Mc!IsBitArea(area) THEN Mc!InOrder(c.word_order, cells)
                           ELSE <<cells[1] \o <<0>>>>
      BY <1>1, <2>3 DEF Mc!Meant
    <3>2. cells = <<<<area, a>>>> /\ cells[1] = <<area, a>>
      BY <2>4
    <3> HIDE DEF cells
    <3> QED
      BY <3>1, <3>2, McInOrder
  <2>6. <<area, a>> \o <<0>> = <<area, a, 0>>
    BY BitPlace
  <2> QED
    BY <1>1, <1>7, <2>2, <2>5, <2>6, McFirstBit
<1>8. CASE ~Held(data, area, a, 1)
  BY <1>1, <1>3, <1>4, <1>5, <1>6, <1>8
<1> QED
  BY <1>7, <1>8

LEMMA McValues ==
  ASSUME NEW c, NEW t, NEW data, Right(data), t.words \in Nat, t.colon \in Nat,
         NEW groups, DOMAIN data \subseteq PlacesOf(groups),
         Mc!Supported(c, groups, t),
         NEW p \in Mc!ParseAddress(c, t), p.address \in Nat,
         NEW v \in Mc!ExtractValue(c, t, data)
  PROVE  IsOwn(v, t, Mc!Meant(c, t),
               Held(data, p.area, p.address, Mc!RegisterSize(t)))
<1> DEFINE n == Mc!RegisterSize(t)
           cells == DeviceCells(p.area, p.address, n)
           read == Cells(data, p.area, p.address, n)
           long == {"INT32", "UINT32", "FLOAT32", "FLOAT64"}
<1>1. p.area = t.device /\ p.address = Mc!NumberOf(t.digits, Mc!BaseOf(c, t))
  BY McPlace
<1>2. n \in Nat /\ n > 0
  BY DEF Mc!RegisterSize, Mc!WordCount
<1>3. PICK q \in Mc!ParseAddressAgain(t) :
        v = CASE t.data_type = "BOOL" -> Mc!ExtractBool(data, q.area, q.address)
              [] t.data_type \in {"INT16", "UINT16"} -> Cells(data, q.area, q.address, 1)
              [] t.data_type \in {"INT32", "UINT32", "FLOAT32"} ->
                   Mc!InOrder(c.word_order, Cells(data, q.area, q.address, 2))
              [] t.data_type = "FLOAT64" ->
                   Mc!InOrder(c.word_order, Cells(data, q.area, q.address, 4))
              [] t.data_type = "STRING" ->
                   CellsWhileRead(data, q.area, q.address, Mc!WordCount(t))
              [] OTHER -> Mc!None
  BY McCells DEF Mc!ExtractValue
<1>4. q.area = p.area /\ q.address = p.address
  BY McPlaceAgain
<1>5. IF Held(data, p.area, p.address, n) THEN read = cells ELSE read = None
  BY <1>2, CellsAreTheDevices
<1>6. Mc!Meant(c, t) =
        CASE t.data_type = "STRING" -> cells
          [] t.data_type = "BOOL" /\ ~Mc!IsBitArea(t.device) -> <<cells[1] \o <<0>>>>
          [] OTHER -> Mc!InOrder(c.word_order, cells)
  <2>1. (IF t.data_type = "STRING" /\ t.words > 0 THEN t.words ELSE n) = n
    BY DEF Mc!Supported, Mc!RegisterSize, Mc!WordCount
  <2> HIDE DEF n
  <2>2. Mc!DeviceCells(t.device, p.address, n) = cells
    BY <1>1, McCells
  <2> HIDE DEF cells
  <2> QED
    BY <1>1, <2>1, <2>2 DEF Mc!Meant, n
<1>7. CASE t.data_type = "BOOL"
  <2>1. v = Mc!ExtractBool(data, p.area, p.address)
    BY <1>3, <1>4, <1>7
  <2>2. n = 1
    BY <1>7 DEF Mc!RegisterSize
  <2>3. IF Held(data, p.area, p.address, 1) THEN v = Mc!Meant(c, t) ELSE v = None
    BY <1>7, <2>1, McBits
  <2> HIDE DEF n
  <2> QED
    BY <2>2, <2>3 DEF IsOwn, n
<1>8. CASE t.data_type = "STRING"
  <2>1. n = Mc!WordCount(t)
    BY <1>8 DEF Mc!RegisterSize
  <2>2. v = CellsWhileRead(data, p.area, p.address, n)
    BY <1>3, <1>4, <1>8, <2>1
  <2> HIDE DEF n
  <2>3. /\ \E k \in 0 .. n : v = SubSeq(cells, 1, k)
        /\ Held(data, p.area, p.address, n) => v = cells
    BY <1>2, <2>2, CellsUpToTheFirstMissing
  <2>4. Len(cells) = n
    <3>1. p.address \in Int
      OBVIOUS
    <3> QED
      BY <1>2, <3>1, LengthOfCells
  <2> HIDE DEF cells
  <2>5. Mc!Meant(c, t) = cells
    BY <1>6, <1>8
  <2> QED
    BY <1>8, <2>3, <2>4, <2>5 DEF IsOwn, n
<1>9. CASE t.data_type \in long
  <2>1. v = Mc!InOrder(c.word_order, read)
    BY <1>3, <1>4, <1>9 DEF Mc!RegisterSize
  <2>2. Mc!Meant(c, t) = Mc!InOrder(c.word_order, cells)
    BY <1>6, <1>9
  <2> HIDE DEF cells, n, read
  <2>3. v \in {Mc!Meant(c, t), None}
    BY <1>5, <2>1, <2>2, McInOrder
  <2>4. Held(data, p.area, p.address, n) => v = Mc!Meant(c, t)
    BY <1>5, <2>1, <2>2
  <2> QED
    BY <2>3, <2>4 DEF IsOwn, n
<1>10. CASE t.data_type \in {"INT16", "UINT16"}
  <2>1. n = 1
    BY <1>10 DEF Mc!RegisterSize
  <2>2. v = read
    BY <1>3, <1>4, <1>10, <2>1
  <2>3. cells = <<<<p.area, p.address>>>>
    BY <2>1, OneCell
  <2> HIDE DEF n
  <2>4. Mc!Meant(c, t) = cells
    BY <1>6, <1>10, <2>3, McInOrder
  <2> HIDE DEF cells, read
  <2> QED
    BY <1>5, <2>2, <2>4 DEF IsOwn, n
<1> QED
  BY <1>7, <1>8, <1>9, <1>10 DEF Mc!Supported

LEMMA McFinds ==
  ASSUME NEW c, NEW t, NEW data, NEW groups, Mc!Supported(c, groups, t),
         Mc!ParseAddress(c, t) # {}
  PROVE  Mc!ExtractValue(c, t, data) # {}
<1>1. {p.address : p \in Mc!ParseAddressAgain(t)} # {}
  BY DEF Mc!Supported
<1>2. Mc!ParseAddressAgain(t) # {}
  BY <1>1
<1> QED
  BY <1>2 DEF Mc!ExtractValue

-----------------------------------------------------------------------------
(* An answer to a read group's own request holds its cells, all of them.   *)

IsReadGroup(rg) == rg.start \in Nat /\ rg.end \in Nat /\ rg.start <= rg.end

LEMMA PlacesOfOne ==
  ASSUME NEW rg
  PROVE  PlacesOf({rg}) = {<<rg.area, a>> : a \in rg.start .. rg.end - 1}
BY DEF PlacesOf

LEMMA RegistersAreTheDevices ==
  ASSUME NEW rg, IsReadGroup(rg), NEW n, n = rg.end - rg.start,
         NEW payload, payload = DeviceCells(rg.area, rg.start, n)
  PROVE  /\ Len(payload) = n
         /\ Right(Registers(rg.area, rg.start, n, payload))
         /\ DOMAIN Registers(rg.area, rg.start, n, payload) = PlacesOf({rg})
<1> DEFINE r == Registers(rg.area, rg.start, n, payload)
<1>1. n \in Nat /\ rg.start \in Nat /\ rg.start \in Int /\ rg.start + n = rg.end
  BY DEF IsReadGroup
<1>2. Len(payload) = n
  BY <1>1, LengthOfCells
<1>3. r = [place \in {<<rg.area, a>> : a \in rg.start .. rg.end - 1} |->
             payload[place[2] - rg.start + 1]]
  BY <1>1, <1>2 DEF Registers
<1>4. ASSUME NEW place \in DOMAIN r
      PROVE  r[place] = place
  <2>1. PICK a \in rg.start .. rg.end - 1 : place = <<rg.area, a>>
    BY <1>3
  <2> DEFINE i == a - rg.start + 1
  <2>2. i \in 1 .. n /\ rg.start + i - 1 = a
    BY <1>1 DEF IsReadGroup
  <2>3. r[place] = payload[i]
    BY <1>3, <2>1
  <2>4. payload[i] = <<rg.area, rg.start + i - 1>>
    BY <2>2 DEF DeviceCells
  <2> QED
    BY <2>1, <2>2, <2>3, <2>4
<1> QED
  BY <1>2, <1>3, <1>4, PlacesOfOne DEF Right

\* The words of a range of bits.
LEMMA WordsOfBits ==
  ASSUME NEW n \in Nat, n > 0, NEW s \in Nat, NEW e \in Nat, s <= e
  PROVE  /\ (e + n - 1) \div n - s \div n \in Nat
         /\ \A a \in s .. e - 1 :
              /\ a \div n - s \div n \in 0 .. (e + n - 1) \div n - s \div n - 1
              /\ (s \div n) * n + (a \div n - s \div n) * n + (a % n) = a
OBVIOUS

LEMMA McBitsAreTheDevices ==
  ASSUME NEW rg, IsReadGroup(rg), Mc!IsBitArea(rg.area)
  PROVE  LET r == Mc!ReadResult(rg, Mc!Answer(Mc!Request(rg)))
         IN  Right(r) /\ DOMAIN r = PlacesOf({rg})
<1> DEFINE n == WordBits
           first == rg.start \div n
           count == (rg.end + n - 1) \div n - first
           payload == Mc!Answer(Mc!Request(rg))
           word(w) == [b \in 0 .. n - 1 |-> <<rg.area, first * n + (w - 1) * n + b>>]
           r == Mc!ReadResult(rg, payload)
<1>1. n \in Nat /\ n > 0
  BY DeviceReadAssumption
<1>2. rg.start \in Nat /\ rg.end \in Nat /\ rg.start <= rg.end
  BY DEF IsReadGroup
<1> HIDE DEF n
<1>3. /\ first \in Nat /\ count \in Nat
      /\ \A a \in rg.start .. rg.end - 1 :
           /\ a \div n - first \in 0 .. count - 1
           /\ first * n + (a \div n - first) * n + (a % n) = a
           /\ a % n \in 0 .. n - 1
  <2>1. first \in Nat
    BY <1>1, <1>2, Division
  <2>2. \A a \in rg.start .. rg.end - 1 : a % n \in 0 .. n - 1
    BY <1>1, <1>2, Division
  <2> QED
    BY <1>1, <1>2, <2>1, <2>2, WordsOfBits
<1>4. Mc!FirstWord(rg) = first
  BY DEF Mc!FirstWord, n
<1>5. Mc!Request(rg) = [area |-> rg.area, start |-> first * n, count |-> count]
  BY <1>4 DEF Mc!Request, Mc!WordsOf, n
<1> HIDE DEF first, count
<1>6. payload = [w \in 1 .. count |-> word(w)]
  BY <1>5 DEF Mc!Answer, n
<1>7. Len(payload) = count
  BY <1>3, <1>6
<1>8. r = [place \in {<<rg.area, a>> : a \in rg.start .. rg.end - 1} |->
             Mc!BitOf(payload[place[2] \div n - first + 1], place[2] % n)]
  <2>1. {b \in rg.start .. rg.end - 1 : b \div n - first < Len(payload)} =
          rg.start .. rg.end - 1
    BY <1>3, <1>7
  <2> HIDE DEF payload
  <2> QED
    BY <1>4, <2>1 DEF Mc!ReadResult, n
<1> HIDE DEF payload, r
<1>9. ASSUME NEW place \in DOMAIN r
      PROVE  r[place] = place
  <2>1. PICK a \in rg.start .. rg.end - 1 : place = <<rg.area, a>>
    BY <1>8
  <2> DEFINE w == a \div n - first + 1
  <2>2. /\ w \in 1 .. count /\ w - 1 = a \div n - first /\ a % n \in 0 .. n - 1
        /\ first * n + (w - 1) * n + (a % n) = a
    BY <1>3
  <2>3. r[place] = Mc!BitOf(payload[w], a % n)
    BY <1>8, <2>1
  <2> HIDE DEF w
  <2>4. payload[w] = word(w)
    BY <1>6, <2>2
  <2>5. DOMAIN word(w) = 0 .. n - 1 /\ word(w)[a % n] = <<rg.area, a>>
    BY <2>2
  <2> HIDE DEF word
  <2>6. Mc!BitOf(word(w), a % n) = <<rg.area, a>>
    BY <2>5 DEF Mc!BitOf, n
  <2> QED
    BY <2>1, <2>3, <2>4, <2>6
<1> QED
  BY <1>8, <1>9, PlacesOfOne DEF Right, r, payload

LEMMA ProtocolKnown ==
  ASSUME device \in Devices
  PROVE  device.protocol \in Protocols
<1>1. PICK s \in Setups : device = Loaded(s)
  BY DEF Devices
<1>2. device.protocol = s.protocol
  BY <1>1, DeviceReadAssumption DEF Loaded
<1> QED
  BY <1>2, DeviceReadAssumption

\* The answer to its own request gives a read group its cells.
LEMMA AnswerIsRight ==
  ASSUME device \in Devices, NEW rg, IsReadGroup(rg)
  PROVE  LET r == ReadResult(rg, Answer(Request(rg)))
         IN  Right(r) /\ DOMAIN r = PlacesOf({rg})
<1> DEFINE n == rg.end - rg.start
           payload == DeviceCells(rg.area, rg.start, n)
           request == [area |-> rg.area, start |-> rg.start, count |-> n]
<1>1. /\ Len(payload) = n
      /\ Right(Registers(rg.area, rg.start, n, payload))
      /\ DOMAIN Registers(rg.area, rg.start, n, payload) = PlacesOf({rg})
  BY RegistersAreTheDevices
<1>2. Modbus!DeviceCells(request.area, request.start, request.count) = payload
  BY ModbusCells
<1> HIDE DEF n, payload
<1>3. CASE IsModbus(device)
  <2>2. device.protocol \notin {"mc", "fenet", "s7"}
    BY <1>3 DEF IsModbus
  <2>1. Request(rg) = request
    BY <1>3, <2>2 DEF Request, Modbus!Request, n
  <2>3. Answer(Request(rg)) = payload
    BY <1>2, <2>1, <2>2 DEF Answer
  <2>4. ReadResult(rg, payload) = Modbus!Registers(rg.area, rg.start, n, payload)
    BY <1>3, <2>2 DEF ReadResult, Modbus!ReadResult, Modbus!Request, n
  <2>5. ReadResult(rg, payload) = Registers(rg.area, rg.start, n, payload)
    BY <2>4 DEF Modbus!Registers, Registers
  <2> QED
    BY <1>1, <2>3, <2>5
<1>4. CASE device.protocol = "mc"
  <2>1. ~IsModbus(device)
    BY <1>4 DEF IsModbus
  <2>2. Answer(Request(rg)) = Mc!Answer(Mc!Request(rg))
    BY <1>4, <2>1 DEF Answer, Request
  <2>3. \A p : ReadResult(rg, p) = Mc!ReadResult(rg, p)
    BY <1>4, <2>1 DEF ReadResult
  <2>4. CASE Mc!IsBitArea(rg.area)
    BY <2>2, <2>3, <2>4, McBitsAreTheDevices
  <2>5. CASE ~Mc!IsBitArea(rg.area)
    <3>1. Mc!Answer(Mc!Request(rg)) = payload
      BY <2>5, McCells DEF Mc!Answer, Mc!Request, payload, n
    <3>2. Mc!ReadResult(rg, payload) = Mc!Registers(rg.area, rg.start, n, payload)
      BY <2>5 DEF Mc!ReadResult, n
    <3>3. Mc!ReadResult(rg, payload) = Registers(rg.area, rg.start, n, payload)
      BY <3>2 DEF Mc!Registers, Registers
    <3> QED
      BY <1>1, <2>2, <2>3, <3>1, <3>3
  <2> QED
    BY <2>4, <2>5
<1>5. CASE device.protocol = "fenet"
  <2>1. ~IsModbus(device) /\ device.protocol # "mc"
    BY <1>5 DEF IsModbus
  <2>2. Request(rg) = request
    BY <1>5, <2>1 DEF Request, Fenet!Request, n
  <2>3. Answer(Request(rg)) = payload
    BY <1>2, <2>1, <2>2 DEF Answer
  <2>4. ReadResult(rg, payload) = Fenet!Registers(rg.area, rg.start, n, payload)
    BY <1>1, <1>5, <2>1 DEF ReadResult, Fenet!ReadResult
  <2>5. ReadResult(rg, payload) = Registers(rg.area, rg.start, n, payload)
    BY <2>4 DEF Fenet!Registers, Registers
  <2> QED
    BY <1>1, <2>3, <2>5
<1>6. CASE device.protocol = "s7"
  <2>1. ~IsModbus(device) /\ device.protocol # "mc" /\ device.protocol # "fenet"
    BY <1>6 DEF IsModbus
  <2>2. Request(rg) = request
    BY <1>6, <2>1 DEF Request, S7!Request, n
  <2>3. Answer(Request(rg)) = payload
    BY <1>2, <2>1, <2>2 DEF Answer
  <2>4. ReadResult(rg, payload) = S7!Registers(rg.area, rg.start, n, payload)
    BY <1>1, <1>6, <2>1 DEF ReadResult, S7!ReadResult
  <2>5. ReadResult(rg, payload) = Registers(rg.area, rg.start, n, payload)
    BY <2>4 DEF S7!Registers, Registers
  <2> QED
    BY <1>1, <2>3, <2>5
<1> QED
  BY <1>3, <1>4, <1>5, <1>6, ProtocolKnown DEF IsModbus, Protocols

-----------------------------------------------------------------------------
(* The values of a group's tags.                                           *)

\* Every row gets one of these types, whatever its column says.
LEMMA TypeKnown ==
  ASSUME NEW raw_type, NEW data_size
  PROVE  DataType(raw_type, data_size) \in DataTypes
<1>1. \A x \in DOMAIN DirectTypes : DirectTypes[x] \in DataTypes
  BY DEF DirectTypes, DataTypes
<1>2. \A x \in DOMAIN SizedTypes : \A s \in {16, 32, 64} : SizedTypes[x][s] \in DataTypes
  BY DEF SizedTypes, DataTypes
<1>3. (IF data_size \in {32, 64} THEN data_size ELSE 16) \in {16, 32, 64}
  OBVIOUS
<1> QED
  BY <1>1, <1>2, <1>3 DEF DataType, DataTypes

LEMMA TagRow ==
  ASSUME device \in Devices, NEW g \in Groups, NEW t \in device.groups[g]
  PROVE  t.data_type \in DataTypes /\ t.words \in Nat /\ t.colon \in Nat
<1>1. PICK s \in Setups : device = Loaded(s)
  BY DEF Devices
<1>2. device.groups[g] = {TagOf(row) : row \in s.groups[g]}
  BY <1>1, DeviceReadAssumption DEF Loaded
<1>3. PICK row \in s.groups[g] : t = TagOf(row)
  BY <1>2
<1>4. RowTypeOK(row)
  BY DeviceReadAssumption
<1> DEFINE type == DataType(row.data_type, row.data_size)
<1>5. t.data_type = type /\ t.words = row.words /\ t.colon \in {row.words, row.colon}
  BY <1>3, <1>4 DEF TagOf, RowTypeOK
<1> QED
  BY <1>4, <1>5, TypeKnown DEF RowTypeOK

GroupPlanned(h) ==
  /\ AllParse(device, device.groups[h])
  /\ \A rg \in read_groups[h] : IsReadGroup(rg)
  /\ \A t \in Parsed(device, device.groups[h]) : \E rg \in read_groups[h] : Within(t, rg)

LEMMA TagHeld ==
  ASSUME device \in Devices, NEW g \in Groups, GroupPlanned(g),
         NEW t \in device.groups[g], NEW p \in Place(device, t), NEW data
  PROVE  /\ p.address \in Nat
         /\ PlacesOf(read_groups[g]) \subseteq DOMAIN data =>
              Held(data, p.area, p.address, Size(device, t))
<1> DEFINE q == [area |-> p.area, address |-> p.address, size |-> Size(device, t), tag |-> t]
<1>1. q \in Parsed(device, device.groups[g])
  BY DEF Parsed
<1>2. Parsed(device, device.groups[g]) \in TagSets
  BY DeviceReadAssumption
<1>3. q.address \in Nat /\ q.size \in Nat
  BY <1>1, <1>2, ReadPlanAssumption
<1>4. p.address \in Nat /\ Size(device, t) \in Nat
  BY <1>3
<1>5. PICK rg \in read_groups[g] : Within(q, rg) /\ IsReadGroup(rg)
  BY <1>1 DEF GroupPlanned
<1>6. /\ rg.area = p.area /\ rg.start <= p.address
      /\ p.address + Size(device, t) <= rg.end
  BY <1>5 DEF Within
<1>7. ASSUME PlacesOf(read_groups[g]) \subseteq DOMAIN data, NEW i \in 0 .. Size(device, t) - 1
      PROVE  <<p.area, p.address + i>> \in DOMAIN data
  <2>1. p.address + i \in rg.start .. rg.end - 1
    BY <1>4, <1>5, <1>6 DEF IsReadGroup
  <2>2. <<rg.area, p.address + i>> \in PlacesOf(read_groups[g])
    BY <2>1 DEF PlacesOf
  <2> QED
    BY <1>6, <1>7, <2>2
<1> QED
  BY <1>4, <1>7 DEF Held

\* A conclusion of less.
LEMMA IsOwnWhen ==
  ASSUME NEW v, NEW t, NEW meant, NEW held, NEW all, IsOwn(v, t, meant, held), all => held
  PROVE  IsOwn(v, t, meant, all)
BY DEF IsOwn

LEMMA ValuesAreRight ==
  ASSUME device \in Devices, NEW g \in Groups, GroupPlanned(g),
         NEW t \in device.groups[g], Supported(g, t),
         NEW data, Right(data), DOMAIN data \subseteq PlacesOf(read_groups[g]),
         NEW all \in BOOLEAN, all => PlacesOf(read_groups[g]) \subseteq DOMAIN data,
         EndsAtFirstFailure(device) => all
  PROVE  /\ \A v \in Value(t, data) : IsOwn(v, t, Meant(t), all)
         /\ Value(t, data) # {}
<1>1. t.words \in Nat /\ t.colon \in Nat
  BY TagRow
<1>2. PICK p \in Place(device, t) : TRUE
  BY DEF GroupPlanned, AllParse
<1>3. p.address \in Nat /\ (all => Held(data, p.area, p.address, Size(device, t)))
  BY TagHeld
<1>4. CASE IsModbus(device)
  <2>1. device.protocol \notin {"mc", "fenet", "s7"}
    BY <1>4 DEF IsModbus
  <2>2. /\ Place(device, t) = Modbus!ParseAddress(t)
        /\ Size(device, t) = Modbus!RegisterSize(t)
        /\ Value(t, data) = Modbus!ParseValue(device, t, data)
        /\ Meant(t) = Modbus!Meant(device, t)
        /\ Modbus!Supported(device, read_groups[g], t)
    BY <1>4, <2>1 DEF Place, Size, Value, Meant, Supported
  <2>3. ASSUME NEW v \in Value(t, data)
        PROVE  IsOwn(v, t, Meant(t), all)
    <3>1. IsOwn(v, t, Modbus!Meant(device, t),
                Held(data, p.area, p.address, Modbus!RegisterSize(t)))
      BY <1>1, <1>2, <1>3, <2>2, <2>3, ModbusValues
    <3> QED
      BY <1>3, <2>2, <3>1, IsOwnWhen
  <2>4. Value(t, data) # {}
    BY <1>2, <2>2, ModbusFinds
  <2> QED
    BY <2>3, <2>4
<1>5. CASE device.protocol = "mc"
  <2>1. ~IsModbus(device)
    BY <1>5 DEF IsModbus
  <2>2. /\ Place(device, t) = Mc!ParseAddress(device, t)
        /\ Size(device, t) = Mc!RegisterSize(t)
        /\ Value(t, data) = Mc!ExtractValue(device, t, data)
        /\ Meant(t) = Mc!Meant(device, t)
        /\ Mc!Supported(device, read_groups[g], t)
    BY <1>5, <2>1 DEF Place, Size, Value, Meant, Supported
  <2>3. ASSUME NEW v \in Value(t, data)
        PROVE  IsOwn(v, t, Meant(t), all)
    <3>1. IsOwn(v, t, Mc!Meant(device, t),
                Held(data, p.area, p.address, Mc!RegisterSize(t)))
      BY <1>1, <1>2, <1>3, <2>2, <2>3, McValues
    <3> QED
      BY <1>3, <2>2, <3>1, IsOwnWhen
  <2>4. Value(t, data) # {}
    BY <1>2, <2>2, McFinds
  <2> QED
    BY <2>3, <2>4
<1>6. CASE device.protocol = "fenet"
  <2>1. ~IsModbus(device) /\ device.protocol # "mc"
    BY <1>6 DEF IsModbus
  <2>2. /\ Place(device, t) = Fenet!ParseAddress(t)
        /\ Size(device, t) = Fenet!WordSize(t)
        /\ Value(t, data) = Fenet!ParseValue(t, data)
        /\ Meant(t) = Fenet!Meant(t)
        /\ Fenet!Supported(t)
    BY <1>6, <2>1 DEF Place, Size, Value, Meant, Supported
  <2>3. ASSUME NEW v \in Value(t, data)
        PROVE  IsOwn(v, t, Meant(t), all)
    <3>1. IsOwn(v, t, Fenet!Meant(t),
                Held(data, p.area, p.address, Fenet!WordSize(t)))
      BY <1>1, <1>2, <1>3, <2>2, <2>3, FenetValues
    <3> QED
      BY <1>3, <2>2, <3>1, IsOwnWhen
  <2>4. Value(t, data) # {}
    BY <1>2, <2>2, FenetFinds
  <2> QED
    BY <2>3, <2>4
<1>7. CASE device.protocol = "s7"
  <2>1. ~IsModbus(device) /\ device.protocol # "mc" /\ device.protocol # "fenet"
    BY <1>7 DEF IsModbus
  <2>2. /\ Place(device, t) = S7!ParseAddress(t)
        /\ Size(device, t) = S7!ByteSize(t)
        /\ Value(t, data) = S7!ParseValue(t, data)
        /\ Meant(t) = S7!Meant(t)
        /\ S7!Supported(t)
    BY <1>7, <2>1 DEF Place, Size, Value, Meant, Supported
  <2>3. all
    BY <1>7 DEF EndsAtFirstFailure
  <2>4. ASSUME NEW v \in Value(t, data)
        PROVE  IsOwn(v, t, Meant(t), all)
    <3>1. v = S7!Meant(t)
      BY <1>1, <1>2, <1>3, <2>2, <2>3, <2>4, S7Values
    <3> QED
      BY <2>2, <3>1 DEF IsOwn
  <2>5. Value(t, data) # {}
    BY <1>2, <2>2, S7Finds
  <2> QED
    BY <2>4, <2>5
<1> QED
  BY <1>4, <1>5, <1>6, <1>7, ProtocolKnown DEF IsModbus, Protocols

\* A row holds the value it was made of, or none.
LEMMA RowsAreOfTheValue ==
  ASSUME NEW t, NEW v, NEW row \in Rows(t, v)
  PROVE  row.of \in {v, None}
BY DEF Rows, NoValue

\* The column of a value and the one its tag's type says.
LEMMA ColumnOfType ==
  ASSUME NEW t, t.data_type \in DataTypes, RowSupported(t)
  PROVE  /\ OutputType(t) \in DOMAIN Column
         /\ Holds(Column[OutputType(t)], t)
         /\ t.data_type = "STRING" => OutputType(t) = "text"
<1>1. CASE t.data_type \in {"STRING", "BOOL"}
  <2>1. t.format = "" /\ ~t.scaled /\ ~t.decimals
    BY <1>1 DEF RowSupported
  <2>2. OutputType(t) = IF t.data_type = "STRING" THEN "text" ELSE "bool"
    BY <1>1, <2>1 DEF OutputType, FormatOutput, TypeOutput
  <2>3. FinalType(t) = t.data_type
    BY <1>1 DEF FinalType
  <2> QED
    BY <1>1, <2>2, <2>3 DEF Holds, DbColumn, Column
<1>4. ASSUME OutputType(t) = "float", FinalType(t) \in {"FLOAT32", "FLOAT64"}
      PROVE  OutputType(t) \in DOMAIN Column /\ Holds(Column[OutputType(t)], t)
  <2>1. DbColumn(FinalType(t)) = "v_float"
    BY <1>4 DEF DbColumn
  <2>2. "float" \in DOMAIN Column /\ Column["float"] = "v_float"
    BY DEF Column
  <2> QED
    BY <1>4, <2>1, <2>2 DEF Holds
<1>2. CASE t.data_type \notin {"STRING", "BOOL"} /\ t.format # ""
  <2>1. t.format \in {"float32", "float64", "float", "real"}
    BY <1>2 DEF RowSupported
  <2>2. OutputType(t) = "float"
    BY <2>1 DEF OutputType, FormatOutput
  <2>3. FinalType(t) \in {"FLOAT32", "FLOAT64"}
    BY <1>2, <2>1 DEF FinalType
  <2> QED
    BY <1>2, <1>4, <2>2, <2>3
<1>3. CASE t.data_type \notin {"STRING", "BOOL"} /\ t.format = ""
  <2>1. CASE t.scaled \/ t.decimals
    <3>1. OutputType(t) = "float"
      BY <1>3, <2>1 DEF OutputType, FormatOutput
    <3>2. FinalType(t) = "FLOAT32"
      BY <1>3, <2>1 DEF FinalType
    <3> QED
      BY <1>3, <1>4, <3>1, <3>2
  <2>2. CASE ~(t.scaled \/ t.decimals)
    <3>1. OutputType(t) = TypeOutput(t.data_type)
      BY <1>3, <2>2 DEF OutputType, FormatOutput
    <3>2. FinalType(t) = t.data_type
      BY <1>3, <2>2 DEF FinalType
    <3>3. t.data_type \notin {"INT8", "UINT8", "BYTE"}
      BY <2>2 DEF RowSupported
    <3>4. CASE t.data_type \in {"INT16", "UINT16", "WORD", "INT32", "DWORD"}
      BY <3>1, <3>2, <3>4 DEF TypeOutput, Holds, DbColumn, Column
    <3>5. CASE t.data_type \in {"UINT32", "INT64", "UINT64", "LWORD"}
      BY <3>1, <3>2, <3>5 DEF TypeOutput, Holds, DbColumn, Column
    <3>6. CASE t.data_type \in {"FLOAT32", "FLOAT64"}
      BY <3>1, <3>2, <3>6 DEF TypeOutput, Holds, DbColumn, Column
    <3> QED
      BY <1>3, <3>3, <3>4, <3>5, <3>6 DEF DataTypes
  <2> QED
    BY <2>1, <2>2
<1> QED
  BY <1>1, <1>2, <1>3

LEMMA RowHoldsValue ==
  ASSUME NEW t, t.data_type \in DataTypes, RowSupported(t), NEW v, v # None
  PROVE  \E row \in Rows(t, v) : Rows(t, v) = {row} /\ HoldsValue(row, t, v)
<1> DEFINE output == OutputType(t)
           kind == Scaled(t, v)
           row == [column |-> Column[output], of |-> v, kind |-> kind]
<1>1. /\ output \in DOMAIN Column /\ Holds(Column[output], t)
      /\ t.data_type = "STRING" => output = "text"
  BY ColumnOfType
<1>2. output \in {"bool", "int", "bigint", "float", "text"}
  BY <1>1 DEF Column
<1>3. kind = CASE t.data_type = "STRING" -> "text"
               [] t.data_type = "BOOL" -> IF t.bool_invert THEN "opposite" ELSE "bit"
               [] OTHER -> "number"
  BY DEF Scaled, RowSupported
<1>4. kind # "none" /\ (kind = "text" => t.data_type = "STRING")
  BY <1>3
<1> HIDE DEF output, kind
<1>5. Rows(t, v) = {row}
  BY <1>1, <1>2, <1>4 DEF Rows, output, kind
<1>6. HoldsValue(row, t, v)
  BY <1>1, <1>3 DEF HoldsValue
<1> QED
  BY <1>5, <1>6

-----------------------------------------------------------------------------
(* A supported tag means something.                                        *)

LEMMA BackwardsIsSomething ==
  ASSUME NEW s, Len(s) \in Nat, Len(s) > 0
  PROVE  Modbus!Reverse(s) # None /\ Mc!Reverse(s) # None /\ Fenet!Reverse(s) # None
<1> DEFINE r == [i \in 1 .. Len(s) |-> s[(Len(s) - i) + 1]]
<1>1. 1 \in DOMAIN r
  OBVIOUS
<1>2. r # None
  <2> HIDE DEF r
  <2> QED
    BY <1>1 DEF None
<1>3. Modbus!Reverse(s) = r /\ Mc!Reverse(s) = r /\ Fenet!Reverse(s) = r
  BY DEF Modbus!Reverse, Mc!Reverse, Fenet!Reverse
<1> HIDE DEF r
<1> QED
  BY <1>2, <1>3

LEMMA ModbusMeansSomething ==
  ASSUME NEW c, NEW t, t.words \in Nat, t.number \in Int
  PROVE  Modbus!Meant(c, t) # None
<1> DEFINE n == Modbus!Width(t)
           cells == DeviceCells(Modbus!AreaOf[t.letters], t.number, n)
<1>1. n \in Nat /\ n > 0
  BY DEF Modbus!Width
<1>2. Modbus!Meant(c, t) \in {cells, Modbus!Reverse(cells)}
  BY ModbusCells DEF Modbus!Meant, Modbus!InOrder
<1> HIDE DEF n
<1>3. Len(cells) = n /\ cells # None
  BY <1>1, LengthOfCells
<1> HIDE DEF cells
<1> QED
  BY <1>1, <1>2, <1>3, BackwardsIsSomething

LEMMA FenetMeansSomething ==
  ASSUME NEW t, t.words \in Nat, t.number \in Int
  PROVE  Fenet!Meant(t) # None
<1> DEFINE n == Fenet!Width(t)
           cells == DeviceCells(Fenet!Device(t), t.number, n)
<1>1. n \in Nat /\ n > 0
  BY DEF Fenet!Width
<1>2. Fenet!Meant(t) \in {cells, Fenet!Reverse(cells)}
  BY FenetCells DEF Fenet!Meant
<1> HIDE DEF n
<1>3. Len(cells) = n /\ cells # None
  BY <1>1, LengthOfCells
<1> HIDE DEF cells
<1> QED
  BY <1>1, <1>2, <1>3, BackwardsIsSomething

LEMMA S7MeansSomething ==
  ASSUME NEW t, t.byte \in Int, S7!Supported(t), t.words \in Nat
  PROVE  S7!Meant(t) # None
<1> DEFINE area == IF t.area = "" THEN "M" ELSE t.area
<1>1. CASE t.data_type = "BOOL"
  BY <1>1 DEF S7!Meant, None
<1>2. CASE t.data_type = "STRING"
  <2>1. S7!Meant(t) = DeviceCells(area, t.byte + 2, t.actual)
    BY <1>2, S7Cells DEF S7!Meant
  <2>2. t.actual \in Nat /\ t.actual > 0 /\ t.byte + 2 \in Int
    BY <1>2 DEF S7!Supported
  <2>3. \A b \in Int, n \in Nat : n > 0 => DeviceCells(area, b, n) # None
    BY LengthOfCells
  <2>4. DeviceCells(area, t.byte + 2, t.actual) # None
    BY <2>2, <2>3
  <2> QED
    BY <2>1, <2>4
<1>3. CASE t.data_type \notin {"BOOL", "STRING"}
  <2>1. S7!Meant(t) = DeviceCells(area, t.byte, S7!Width(t))
    BY <1>3, S7Cells DEF S7!Meant
  <2>2. S7!Width(t) \in Nat /\ S7!Width(t) > 0
    BY DEF S7!Width
  <2>3. \A n \in Nat : n > 0 => DeviceCells(area, t.byte, n) # None
    BY LengthOfCells
  <2>4. DeviceCells(area, t.byte, S7!Width(t)) # None
    BY <2>2, <2>3
  <2> QED
    BY <2>1, <2>4
<1> QED
  BY <1>1, <1>2, <1>3

LEMMA McMeansSomething ==
  ASSUME NEW c, NEW t, t.words \in Nat, t.colon \in Nat,
         Mc!NumberOf(t.digits, Mc!BaseOf(c, t)) \in Int
  PROVE  Mc!Meant(c, t) # None
<1> DEFINE n == IF t.data_type = "STRING" /\ t.words > 0 THEN t.words
                ELSE Mc!RegisterSize(t)
           address == Mc!NumberOf(t.digits, Mc!BaseOf(c, t))
           cells == DeviceCells(t.device, address, n)
<1>1. n \in Nat /\ n > 0
  BY DEF Mc!RegisterSize, Mc!WordCount
<1>2. Mc!Meant(c, t) \in {cells, <<cells[1] \o <<0>>>>, Mc!Reverse(cells)}
  BY McCells DEF Mc!Meant, Mc!InOrder
<1> HIDE DEF n, address
<1>3. Len(cells) = n /\ cells # None
  BY <1>1, LengthOfCells DEF address
<1>4. \A x : <<x>> # None
  BY DEF None
<1> HIDE DEF cells
<1> QED
  BY <1>1, <1>2, <1>3, <1>4, BackwardsIsSomething

LEMMA MeantSomething ==
  ASSUME device \in Devices, NEW g \in Groups, GroupPlanned(g),
         NEW t \in device.groups[g], Supported(g, t)
  PROVE  Meant(t) # None
<1>1. t.words \in Nat /\ t.colon \in Nat
  BY TagRow
<1>2. PICK p \in Place(device, t) : TRUE
  BY DEF GroupPlanned, AllParse
<1>3. p.address \in Nat
  BY TagHeld
<1>4. CASE IsModbus(device)
  <2>1. device.protocol \notin {"mc", "fenet", "s7"}
    BY <1>4 DEF IsModbus
  <2>2. p \in Modbus!ParseAddress(t) /\ Meant(t) = Modbus!Meant(device, t)
    BY <1>4, <2>1 DEF Place, Meant
  <2>3. t.number \in Int
    BY <1>3, <2>2, ModbusPlace
  <2> QED
    BY <1>1, <2>2, <2>3, ModbusMeansSomething
<1>5. CASE device.protocol = "mc"
  <2>1. ~IsModbus(device)
    BY <1>5 DEF IsModbus
  <2>2. p \in Mc!ParseAddress(device, t) /\ Meant(t) = Mc!Meant(device, t)
    BY <1>5, <2>1 DEF Place, Meant
  <2>3. Mc!NumberOf(t.digits, Mc!BaseOf(device, t)) \in Int
    BY <1>3, <2>2, McPlace
  <2> QED
    BY <1>1, <2>2, <2>3, McMeansSomething
<1>6. CASE device.protocol = "fenet"
  <2>1. ~IsModbus(device) /\ device.protocol # "mc"
    BY <1>6 DEF IsModbus
  <2>2. p \in Fenet!ParseAddress(t) /\ Meant(t) = Fenet!Meant(t)
    BY <1>6, <2>1 DEF Place, Meant
  <2>3. t.number \in Int
    BY <1>3, <2>2, FenetPlace
  <2> QED
    BY <1>1, <2>2, <2>3, FenetMeansSomething
<1>7. CASE device.protocol = "s7"
  <2>1. ~IsModbus(device) /\ device.protocol # "mc" /\ device.protocol # "fenet"
    BY <1>7 DEF IsModbus
  <2>2. p \in S7!ParseAddress(t) /\ Meant(t) = S7!Meant(t) /\ S7!Supported(t)
    BY <1>7, <2>1 DEF Place, Meant, Supported
  <2>3. p.address = t.byte
    BY <2>2, S7Place
  <2>4. t.byte \in Int
    BY <1>3, <2>3
  <2> QED
    BY <1>1, <2>2, <2>4, S7MeansSomething
<1> QED
  BY <1>4, <1>5, <1>6, <1>7, ProtocolKnown DEF IsModbus, Protocols

\* What the processor makes of the right data: the part of ValuesAreOwn and NothingMissing
\* that a collection's result has.
ResultIsRight(g, rows, complete) ==
  \A t \in device.groups[g] : Supported(g, t) =>
    /\ {row.of : row \in rows[t]} \subseteq
         {Meant(t), None} \cup
         (IF t.data_type = "STRING" /\ ~complete
          THEN {SubSeq(Meant(t), 1, n) : n \in 0 .. Len(Meant(t))} ELSE {})
    /\ complete => \E row \in rows[t] : rows[t] = {row} /\ HoldsValue(row, t, Meant(t))

LEMMA ProcessedIsRight ==
  ASSUME device \in Devices, NEW g \in Groups, GroupPlanned(g),
         NEW data, Right(data), DOMAIN data \subseteq PlacesOf(read_groups[g]),
         NEW all \in BOOLEAN, all => PlacesOf(read_groups[g]) \subseteq DOMAIN data,
         EndsAtFirstFailure(device) => all
  PROVE  ResultIsRight(g, Processed(g, data), all)
<1> SUFFICES ASSUME NEW t \in device.groups[g], Supported(g, t)
             PROVE  LET rows == Processed(g, data)[t]
                    IN /\ {row.of : row \in rows} \subseteq
                            {Meant(t), None} \cup
                            (IF t.data_type = "STRING" /\ ~all
                             THEN {SubSeq(Meant(t), 1, n) : n \in 0 .. Len(Meant(t))} ELSE {})
                       /\ all => \E row \in rows : rows = {row} /\ HoldsValue(row, t, Meant(t))
  BY DEF ResultIsRight
<1> DEFINE rows == Processed(g, data)[t]
           cut == IF t.data_type = "STRING" /\ ~all
                  THEN {SubSeq(Meant(t), 1, n) : n \in 0 .. Len(Meant(t))} ELSE {}
<1>1. rows = UNION {Rows(t, v) : v \in Value(t, data) \ {None}}
  BY DEF Processed
<1>2. /\ \A v \in Value(t, data) : IsOwn(v, t, Meant(t), all)
      /\ Value(t, data) # {}
  BY ValuesAreRight
<1>3. Meant(t) # None /\ t.data_type \in DataTypes /\ RowSupported(t)
  <2>1. Meant(t) # None
    BY MeantSomething
  <2>2. t.data_type \in DataTypes
    BY TagRow
  <2> QED
    BY <2>1, <2>2 DEF Supported
<1> HIDE DEF rows
<1>4. ASSUME NEW row \in rows
      PROVE  row.of \in {Meant(t), None} \cup cut
  <2>1. PICK v \in Value(t, data) : row \in Rows(t, v)
    BY <1>1
  <2>2. row.of \in {v, None}
    BY <2>1, RowsAreOfTheValue
  <2>3. v \in {Meant(t), None} \cup cut
    BY <1>2, <2>1 DEF IsOwn
  <2> QED
    BY <2>2, <2>3
<1>5. ASSUME all
      PROVE  \E row \in rows : rows = {row} /\ HoldsValue(row, t, Meant(t))
  <2>1. Value(t, data) = {Meant(t)}
    BY <1>2, <1>5 DEF IsOwn
  <2>2. rows = Rows(t, Meant(t))
    BY <1>1, <1>3, <2>1
  <2> QED
    BY <1>3, <2>2, RowHoldsValue
<1>6. {row.of : row \in rows} \subseteq {Meant(t), None} \cup cut
  BY <1>4
<1> QED
  BY <1>5, <1>6 DEF rows

-----------------------------------------------------------------------------
(* The invariant of the values.                                            *)

Spans == \A rg \in ReadGroups : rg.start <= rg.end

Asked == registering \in Groups => asked = Parsed(device, device.groups[registering])

\* What is registered is planned.
PlansOwn ==
  /\ Spans /\ Asked
  /\ \A h \in Groups : h < registering => GroupPlanned(h)

\* What is owed and has come is of the request of a collection's own read.
Sent(request) == [of : {request}, begun : BOOLEAN]
Came(request) == [part : {"head", "body"}, of : {request}, exception : BOOLEAN]

Mine(g) ==
  /\ owed \in Seq(Sent(Request(ReadGroup(g))))
  /\ stream \in Seq(Came(Request(ReadGroup(g))))

\* It has sent its request and nothing of another can come first.
Sure(g) ==
  /\ pc[g] \in {"read", "head", "body", "refused", "woken"}
  /\ ~work[g].doubtful

StreamOwn == \A g \in Groups : Sure(g) => Mine(g) /\ (ByAnswers => ~given_up)

\* The data of a collection that has read what is not to come any more, or tried to.
HasRead(w, groups) ==
  /\ Right(w.data)
  /\ DOMAIN w.data \subseteq PlacesOf(groups)
  /\ w.failed = 0 => PlacesOf(groups \ w.todo) \subseteq DOMAIN w.data

WorkOf(p, w, groups) ==
  /\ {"data", "failed", "doubtful"} \subseteq DOMAIN w
  /\ w.doubtful \in BOOLEAN /\ w.failed \in Nat
  /\ EndsAtFirstFailure(device) => w.failed = 0
  /\ p # "idle" => w.todo # {}
  /\ p # "idle" /\ ~w.doubtful => HasRead(w, groups)

WorkOwn == \A g \in Groups : WorkOf(pc[g], work[g], read_groups[g])

ResultOf(g, r) ==
  ~r.doubtful => ResultIsRight(g, r.rows, r.complete)

ResultsOwn ==
  /\ DOMAIN result = Groups
  /\ \A g \in Groups :
       /\ ~Running => result[g].doubtful
       /\ ResultOf(g, result[g])

OwnInv == PlansOwn /\ StreamOwn /\ WorkOwn /\ ResultsOwn

LEMMA SameMeaning ==
  ASSUME UNCHANGED <<device, read_groups>>, NEW g, NEW t
  PROVE  /\ Supported(g, t)' = Supported(g, t)
         /\ Meant(t)' = Meant(t)
<1>1. Supported(g, t)' = Supported(g, t)
  BY DEF Supported, IsModbus
<1>2. Meant(t)' = Meant(t)
  BY DEF Meant, IsModbus
<1> QED
  BY <1>1, <1>2

LEMMA SameResult ==
  ASSUME UNCHANGED <<device, read_groups>>, NEW g, NEW r, ResultOf(g, r)
  PROVE  ResultOf(g, r)'
<1>1. \A t : (Supported(g, t)' = Supported(g, t)) /\ (Meant(t)' = Meant(t))
  BY SameMeaning
<1> QED
  BY <1>1 DEF ResultOf, ResultIsRight

LEMMA SameResults ==
  ASSUME UNCHANGED <<registered, result>>, ResultsOwn
  PROVE  ResultsOwn'
<1>1. UNCHANGED <<device, registering, read_groups>>
  BY DEF registered
<1>2. \A g, r : ResultOf(g, r) => ResultOf(g, r)'
  BY <1>1, SameResult
<1>3. (Running' = Running) /\ result' = result
  BY <1>1 DEF Running
<1> QED
  BY <1>2, <1>3 DEF ResultsOwn

LEMMA SameRequest ==
  ASSUME NEW g, device' = device, work'[g].todo = work[g].todo
  PROVE  Request(ReadGroup(g))' = Request(ReadGroup(g))
<1>1. ReadGroup(g)' = ReadGroup(g)
  BY DEF ReadGroup
<1> QED
  BY <1>1 DEF Request, IsModbus

LEMMA SamePlans ==
  ASSUME UNCHANGED <<planVars, registered>>, PlansOwn
  PROVE  PlansOwn'
<1>1. UNCHANGED <<device, registering, read_groups, asked, closed, current>>
  BY DEF registered, planVars
<1> QED
  BY <1>1 DEF PlansOwn, Spans, Asked, ReadGroups, GroupPlanned

\* The stream and what is owed have only lost pieces.
Less ==
  \A S : /\ owed \in Seq(S) => owed' \in Seq(S)
         /\ stream \in Seq(S) => stream' \in Seq(S)

LEMMA LessLeft ==
  ASSUME \/ owed' = owed
         \/ owed' = <<>>
         \/ owed # <<>> /\ owed' = Tail(owed),
         \/ stream' = stream
         \/ stream' = <<>>
         \/ stream # <<>> /\ stream' = Tail(stream)
         \/ stream' \in Rests
  PROVE  Less
<1> SUFFICES ASSUME NEW S
             PROVE  /\ owed \in Seq(S) => owed' \in Seq(S)
                    /\ stream \in Seq(S) => stream' \in Seq(S)
  BY DEF Less
<1>1. \A s \in Seq(S) : s # <<>> => Tail(s) \in Seq(S)
  BY HeadTailProperties
<1>2. <<>> \in Seq(S)
  BY EmptySeq
<1>3. owed \in Seq(S) => owed' \in Seq(S)
  BY <1>1, <1>2
<1>4. ASSUME stream \in Seq(S), stream' \in Rests  PROVE stream' \in Seq(S)
  <2>1. PICK i \in 2 .. Len(stream) + 1 : stream' = SubSeq(stream, i, Len(stream))
    BY <1>4 DEF Rests
  <2>2. Len(stream) \in Nat
    BY <1>4, LenProperties
  <2>3. CASE i = Len(stream) + 1
    BY <2>1, <2>2, <2>3, <1>2, SubSeqEmpty
  <2>4. CASE i \in 1 .. Len(stream)
    BY <1>4, <2>1, <2>2, <2>4, SubSeqProperties
  <2> QED
    BY <2>1, <2>2, <2>3, <2>4
<1> QED
  BY <1>1, <1>2, <1>3, <1>4

\* Whoever was sure of its answer and still is.
LEMMA StreamKept ==
  ASSUME StreamOwn, device' = device, Less,
         \A h \in Groups :
           Sure(h)' => /\ Sure(h)
                       /\ work'[h].todo = work[h].todo
                       /\ ByAnswers => ~given_up'
  PROVE  StreamOwn'
<1> SUFFICES ASSUME NEW h \in Groups, Sure(h)'
             PROVE  Mine(h)' /\ ((ByAnswers)' => ~given_up')
  BY DEF StreamOwn
<1>1. Sure(h) /\ work'[h].todo = work[h].todo /\ (ByAnswers => ~given_up')
  OBVIOUS
<1>2. Mine(h)
  BY <1>1 DEF StreamOwn
<1>3. Request(ReadGroup(h))' = Request(ReadGroup(h))
  BY <1>1, SameRequest
<1>4. Mine(h)'
  BY <1>2, <1>3 DEF Mine, Less, Sent, Came
<1> QED
  BY <1>1, <1>4 DEF ByAnswers

-----------------------------------------------------------------------------
(* A read that ends.                                                       *)

\* What a read that is not doubtful brings: its own registers, all of them if it is one.
GoodRead(rg, ok, registers) ==
  /\ Right(registers)
  /\ DOMAIN registers \subseteq PlacesOf({rg})
  /\ ok => PlacesOf({rg}) \subseteq DOMAIN registers

LEMMA NothingRead ==
  ASSUME NEW rg
  PROVE  GoodRead(rg, FALSE, <<>>)
<1>1. DOMAIN <<>> = {}
  OBVIOUS
<1> QED
  BY <1>1 DEF GoodRead, Right

LEMMA HasReadMore ==
  ASSUME NEW w, NEW v, NEW groups, w.todo \subseteq groups, NEW rg \in w.todo,
         NEW ok \in BOOLEAN, NEW registers, GoodRead(rg, ok, registers),
         HasRead(w, groups), w.failed \in Nat,
         v.todo = w.todo \ {rg}, v.data = Update(w.data, registers),
         v.failed = w.failed + (IF ok THEN 0 ELSE 1)
  PROVE  HasRead(v, groups)
<1>1. DOMAIN v.data = DOMAIN registers \cup DOMAIN w.data
  BY DEF Update
<1>2. Right(v.data)
  BY DEF Update, Right, HasRead, GoodRead
<1>3. PlacesOf({rg}) \subseteq PlacesOf(groups)
  BY DEF PlacesOf
<1>4. DOMAIN v.data \subseteq PlacesOf(groups)
  BY <1>1, <1>3 DEF HasRead, GoodRead
<1>5. ASSUME v.failed = 0  PROVE PlacesOf(groups \ v.todo) \subseteq DOMAIN v.data
  <2>1. ok /\ w.failed = 0
    BY <1>5
  <2>2. groups \ v.todo = (groups \ w.todo) \cup {rg}
    OBVIOUS
  <2>3. PlacesOf(groups \ v.todo) = PlacesOf(groups \ w.todo) \cup PlacesOf({rg})
    BY <2>2 DEF PlacesOf
  <2> QED
    BY <1>1, <2>1, <2>3 DEF HasRead, GoodRead
<1> QED
  BY <1>2, <1>4, <1>5 DEF HasRead

\* A collection that has begun and one that is over.
LEMMA NothingDone ==
  ASSUME NEW groups
  PROVE  /\ WorkOf("idle", NoWork, groups)
         /\ \A p, w : /\ groups # {}
                      /\ w = [NoWork EXCEPT !.todo = groups]
                      => WorkOf(p, w, groups)
<1>1. WorkOf("idle", NoWork, groups)
  BY DEF WorkOf, NoWork
<1>2. ASSUME groups # {}, NEW p, NEW w, w = [NoWork EXCEPT !.todo = groups]
      PROVE  WorkOf(p, w, groups)
  <2>1. /\ {"data", "failed", "doubtful"} \subseteq DOMAIN w
        /\ w.todo = groups /\ w.data = <<>> /\ w.failed = 0 /\ w.doubtful = FALSE
    BY <1>2 DEF NoWork
  <2>2. PlacesOf(groups \ groups) = {}
    BY DEF PlacesOf
  <2>3. DOMAIN w.data = {}
    BY <2>1
  <2>4. HasRead(w, groups)
    BY <2>1, <2>2, <2>3 DEF HasRead, Right
  <2>5. w.doubtful \in BOOLEAN
    BY <2>1
  <2>6. w.failed \in Nat /\ w.todo # {}
    BY <1>2, <2>1
  <2> QED
    BY <2>1, <2>4, <2>5, <2>6 DEF WorkOf
<1> QED
  BY <1>1, <1>2

LEMMA ReadDone ==
  ASSUME IInv, OwnInv, NEW g \in Groups, pc[g] # "idle",
         NEW ok \in BOOLEAN, NEW registers, NEW s, EndRead(g, ok, registers, s),
         UNCHANGED registered,
         ~work[g].doubtful => GoodRead(ReadGroup(g), ok, registers)
  PROVE  /\ WorkOwn' /\ ResultsOwn'
         /\ pc'[g] \in {"idle", "lock"}
         /\ \A h \in Groups : h # g => pc'[h] = pc[h] /\ work'[h] = work[h]
<1> DEFINE w == [work[g] EXCEPT !.todo = @ \ {ReadGroup(g)},
                                !.data = Update(@, registers),
                                !.failed = @ + (IF ok THEN 0 ELSE 1)]
           fails == \/ ~ok /\ EndsAtFirstFailure(device)
                    \/ w.todo = {} /\ w.failed = Cardinality(read_groups[g])
           r == [rows |-> Processed(g, w.data), complete |-> w.failed = 0,
                 doubtful |-> w.doubtful]
<1>1. \/ /\ ~fails /\ w.todo # {}
         /\ pc' = [pc EXCEPT ![g] = "lock"] /\ work' = [work EXCEPT ![g] = w]
         /\ result' = result
      \/ Idle(g) /\ result' = result
      \/ ~fails /\ w.todo = {} /\ Idle(g) /\ result' = [result EXCEPT ![g] = r]
  BY Zenon DEF EndRead
<1>2. /\ device' = device /\ registering' = registering /\ read_groups' = read_groups
  BY DEF registered
<1>3. /\ WorkOf(pc[g], work[g], read_groups[g]) /\ device \in Devices
      /\ "todo" \in DOMAIN work[g] /\ work[g].todo \subseteq read_groups[g]
      /\ pc \in [Groups -> Places] /\ DOMAIN work = Groups /\ Running
  BY DEF OwnInv, WorkOwn, IInv, Worked
<1>4. GroupPlanned(g)
  <2>1. g < registering
    BY <1>3, DeviceReadAssumption DEF Running, Groups, IInv, Worked
  <2> QED
    BY <2>1 DEF OwnInv, PlansOwn
<1>5. ReadGroup(g) \in work[g].todo
  <2>1. work[g].todo # {}
    BY <1>3 DEF WorkOf
  <2> QED
    BY <2>1 DEF ReadGroup
<1>6. /\ DOMAIN w = DOMAIN work[g] /\ w.todo = work[g].todo \ {ReadGroup(g)}
      /\ w.data = Update(work[g].data, registers)
      /\ w.failed = work[g].failed + (IF ok THEN 0 ELSE 1)
      /\ w.doubtful = work[g].doubtful
  BY <1>3 DEF WorkOf
<1> HIDE DEF w
<1>7. ASSUME ~w.doubtful  PROVE HasRead(w, read_groups[g])
  <2>1. ~work[g].doubtful
    BY <1>6, <1>7
  <2>2. HasRead(work[g], read_groups[g]) /\ work[g].failed \in Nat
    BY <1>3, <2>1 DEF WorkOf
  <2> QED
    BY <1>3, <1>5, <1>6, <2>1, <2>2, HasReadMore
<1>8. w.failed \in Nat /\ w.doubtful \in BOOLEAN
  <2>1. work[g].failed \in Nat /\ work[g].doubtful \in BOOLEAN
    BY <1>3 DEF WorkOf
  <2>2. w.failed \in Nat
    BY <1>6, <2>1
  <2> QED
    BY <1>6, <2>1, <2>2
<1>9. ~fails => (EndsAtFirstFailure(device) => w.failed = 0)
  <2>1. EndsAtFirstFailure(device) => work[g].failed = 0
    BY <1>3 DEF WorkOf
  <2> QED
    BY <1>6, <2>1
<1>10. ASSUME ~fails, w.todo # {}
       PROVE  WorkOf("lock", w, read_groups[g])
  BY <1>3, <1>6, <1>7, <1>8, <1>9, <1>10 DEF WorkOf
<1>11. ASSUME ~fails, w.todo = {}
       PROVE  ResultOf(g, r)
  <2>1. SUFFICES ASSUME ~w.doubtful
                 PROVE  ResultIsRight(g, Processed(g, w.data), w.failed = 0)
    BY DEF ResultOf
  <2> DEFINE all == w.failed = 0
  <2>2. /\ Right(w.data) /\ DOMAIN w.data \subseteq PlacesOf(read_groups[g])
        /\ all => PlacesOf(read_groups[g] \ w.todo) \subseteq DOMAIN w.data
    BY <1>7, <2>1 DEF HasRead
  <2>3. read_groups[g] \ w.todo = read_groups[g]
    BY <1>11
  <2>4. all \in BOOLEAN /\ (all => PlacesOf(read_groups[g]) \subseteq DOMAIN w.data)
    BY <2>2, <2>3
  <2>5. EndsAtFirstFailure(device) => all
    BY <1>9, <1>11
  <2> HIDE DEF all
  <2> QED
    BY <1>3, <1>4, <2>2, <2>4, <2>5, ProcessedIsRight DEF all
<1> HIDE DEF fails, r
<1>12. ASSUME Idle(g)
       PROVE  /\ \A h \in Groups : pc'[h] = IF h = g THEN "idle" ELSE pc[h]
              /\ \A h \in Groups : work'[h] = IF h = g THEN NoWork ELSE work[h]
              /\ WorkOwn'
  <2>1. pc' = [pc EXCEPT ![g] = "idle"] /\ work' = [work EXCEPT ![g] = NoWork]
    BY <1>12 DEF Idle
  <2>2. /\ \A h \in Groups : pc'[h] = IF h = g THEN "idle" ELSE pc[h]
        /\ \A h \in Groups : work'[h] = IF h = g THEN NoWork ELSE work[h]
    BY <1>3, <2>1
  <2>3. WorkOf("idle", NoWork, read_groups[g])
    BY NothingDone
  <2> QED
    BY <1>2, <2>2, <2>3 DEF OwnInv, WorkOwn, WorkOf, EndsAtFirstFailure
<1>13. CASE /\ ~fails /\ w.todo # {}
            /\ pc' = [pc EXCEPT ![g] = "lock"] /\ work' = [work EXCEPT ![g] = w]
            /\ result' = result
  <2>1. /\ \A h \in Groups : pc'[h] = IF h = g THEN "lock" ELSE pc[h]
        /\ \A h \in Groups : work'[h] = IF h = g THEN w ELSE work[h]
    BY <1>3, <1>13
  <2>2. WorkOwn'
    BY <1>2, <1>10, <1>13, <2>1 DEF OwnInv, WorkOwn, WorkOf, EndsAtFirstFailure
  <2>3. ResultsOwn'
    BY <1>13, SameResults DEF OwnInv
  <2> QED
    BY <2>1, <2>2, <2>3
<1>14. CASE Idle(g) /\ result' = result
  <2>1. ResultsOwn'
    BY <1>14, SameResults DEF OwnInv
  <2> QED
    BY <1>12, <1>14, <2>1
<1>15. CASE ~fails /\ w.todo = {} /\ Idle(g) /\ result' = [result EXCEPT ![g] = r]
  <2>1. \A h \in Groups : result'[h] = IF h = g THEN r ELSE result[h]
    BY <1>15 DEF OwnInv, ResultsOwn
  <2>2. \A h \in Groups : ResultOf(h, result'[h])
    BY <1>11, <1>15, <2>1 DEF OwnInv, ResultsOwn
  <2>3. \A h, x : ResultOf(h, x) => ResultOf(h, x)'
    BY <1>2, SameResult
  <2>4. \A h \in Groups : ResultOf(h, result[h])'
    BY <2>2, <2>3
  <2>5. ResultsOwn'
    BY <1>2, <1>3, <1>15, <2>4 DEF OwnInv, ResultsOwn, Running
  <2> QED
    BY <1>12, <1>15, <2>5
<1> QED
  BY <1>1, <1>13, <1>14, <1>15

LEMMA ReadEndsOwn ==
  ASSUME IInv, OwnInv, NEW g \in Groups, pc[g] # "idle",
         NEW ok \in BOOLEAN, NEW registers, NEW s, EndRead(g, ok, registers, s),
         UNCHANGED <<planVars, registered>>, Less,
         ~work[g].doubtful => GoodRead(ReadGroup(g), ok, registers),
         ByAnswers /\ pc[g] = "lock" => MaySend(g)
  PROVE  OwnInv'
<1>1. UNCHANGED registered /\ device' = device
  BY DEF registered
<1>2. /\ WorkOwn' /\ ResultsOwn' /\ pc'[g] \in {"idle", "lock"}
      /\ \A h \in Groups : h # g => pc'[h] = pc[h] /\ work'[h] = work[h]
  BY <1>1, ReadDone
<1>3. ByAnswers => \A h \in Groups : h # g => ~Waits(h)
  BY NobodyElseWaits DEF IInv
<1>4. ASSUME NEW h \in Groups, Sure(h)'
      PROVE  /\ Sure(h) /\ work'[h].todo = work[h].todo
             /\ ByAnswers => ~given_up'
  <2>1. h # g
    BY <1>2, <1>4 DEF Sure
  <2>2. pc'[h] = pc[h] /\ work'[h] = work[h]
    BY <1>2, <2>1
  <2>3. Sure(h)
    BY <1>4, <2>2 DEF Sure
  <2>4. ~ByAnswers
    BY <1>3, <2>1, <2>3 DEF Sure, Waits
  <2> QED
    BY <2>2, <2>3, <2>4
<1>5. StreamOwn'
  BY <1>1, <1>4, StreamKept DEF OwnInv
<1>6. PlansOwn'
  BY SamePlans DEF OwnInv
<1> QED
  BY <1>2, <1>5, <1>6 DEF OwnInv

LEMMA FailsOwn ==
  ASSUME IInv, OwnInv, NEW g \in Groups, pc[g] # "idle", NEW s, ReadFails(g, s),
         UNCHANGED <<planVars, registered>>, Less,
         ByAnswers /\ pc[g] = "lock" => MaySend(g)
  PROVE  OwnInv'
<1>1. EndRead(g, FALSE, <<>>, s)
  BY DEF ReadFails
<1>2. GoodRead(ReadGroup(g), FALSE, <<>>)
  BY NothingRead
<1> QED
  BY <1>1, <1>2, ReadEndsOwn

LEMMA GivesOwn ==
  ASSUME IInv, OwnInv, NEW g \in Groups, pc[g] \notin {"idle", "lock"},
         NEW payload, ReadGives(g, payload),
         ~work[g].doubtful => payload = Answer(Request(ReadGroup(g))),
         UNCHANGED <<planVars, registered>>, Less
  PROVE  OwnInv'
<1> DEFINE registers == ReadResult(ReadGroup(g), payload)
<1>1. EndRead(g, TRUE, registers, state)
  BY DEF ReadGives
<1>2. device \in Devices /\ IsReadGroup(ReadGroup(g))
  <2>1. /\ device \in Devices /\ Running /\ registering \in 0 .. NumGroups + 1
        /\ WorkOf(pc[g], work[g], read_groups[g])
        /\ work[g].todo \subseteq read_groups[g]
    BY DEF OwnInv, WorkOwn, IInv, Worked
  <2>2. g < registering
    BY <2>1, DeviceReadAssumption DEF Running, Groups
  <2>3. ReadGroup(g) \in read_groups[g]
    <3>1. work[g].todo # {}
      BY <2>1 DEF WorkOf
    <3> QED
      BY <2>1, <3>1 DEF ReadGroup
  <2> QED
    BY <2>1, <2>2, <2>3 DEF OwnInv, PlansOwn, GroupPlanned
<1>3. ASSUME ~work[g].doubtful
      PROVE  GoodRead(ReadGroup(g), TRUE, registers)
  <2>1. registers = ReadResult(ReadGroup(g), Answer(Request(ReadGroup(g))))
    BY <1>3
  <2> HIDE DEF registers
  <2>2. Right(registers) /\ DOMAIN registers = PlacesOf({ReadGroup(g)})
    BY <1>2, <2>1, AnswerIsRight
  <2> QED
    BY <2>2 DEF GoodRead
<1> HIDE DEF registers
<1> QED
  BY <1>1, <1>3, ReadEndsOwn

\* A collection's work but for a doubt that may have come up.
Doubts(w, v) ==
  /\ {"data", "failed", "doubtful"} \subseteq DOMAIN v
  /\ v.todo = w.todo /\ v.data = w.data /\ v.failed = w.failed
  /\ v.doubtful \in BOOLEAN
  /\ w.doubtful => v.doubtful

LEMMA DoubtsKeep ==
  ASSUME NEW p, NEW q, NEW w, NEW v, NEW groups,
         WorkOf(p, w, groups), Doubts(w, v), p = "idle" => q = "idle"
  PROVE  WorkOf(q, v, groups)
<1>1. HasRead(w, groups) => HasRead(v, groups)
  BY DEF HasRead, Doubts
<1>2. /\ v.failed \in Nat
      /\ EndsAtFirstFailure(device) => v.failed = 0
      /\ q # "idle" => v.todo # {}
  BY DEF WorkOf, Doubts
<1>3. q # "idle" /\ ~v.doubtful => HasRead(v, groups)
  BY <1>1 DEF WorkOf, Doubts
<1> QED
  BY <1>2, <1>3 DEF WorkOf, Doubts

LEMMA SameDoubts ==
  ASSUME NEW p, NEW w, NEW groups, WorkOf(p, w, groups)
  PROVE  Doubts(w, w)
BY DEF WorkOf, Doubts

LEMMA MovesOwn ==
  ASSUME IInv, OwnInv, UNCHANGED <<planVars, registered, result>>,
         \A h \in Groups : Doubts(work[h], work'[h]) /\ (pc[h] = "idle" => pc'[h] = "idle")
  PROVE  PlansOwn' /\ WorkOwn' /\ ResultsOwn'
<1>1. UNCHANGED <<registered, device, read_groups>>
  BY DEF registered
<1>2. \A h \in Groups : WorkOf(pc'[h], work'[h], read_groups[h])
  BY DoubtsKeep DEF OwnInv, WorkOwn
<1>3. WorkOwn'
  BY <1>1, <1>2 DEF WorkOwn, WorkOf, EndsAtFirstFailure
<1> QED
  BY <1>3, SamePlans, SameResults DEF OwnInv

\* Nothing of a collection's work changes.
LEMMA WaitsOwn ==
  ASSUME IInv, OwnInv, UNCHANGED <<planVars, registered, result, work>>,
         \A h \in Groups :
           /\ pc[h] = "idle" => pc'[h] = "idle"
           /\ Sure(h)' => Sure(h) /\ (ByAnswers => ~given_up'),
         Less
  PROVE  OwnInv'
<1>1. \A h \in Groups : Doubts(work[h], work'[h])
  BY SameDoubts DEF OwnInv, WorkOwn
<1>2. PlansOwn' /\ WorkOwn' /\ ResultsOwn'
  BY <1>1, MovesOwn
<1>3. StreamOwn'
  BY StreamKept DEF OwnInv, registered
<1> QED
  BY <1>2, <1>3 DEF OwnInv

-----------------------------------------------------------------------------
(* The steps, for the invariant of the values.                             *)

LEMMA StartsOwn == Init => OwnInv
<1> SUFFICES ASSUME Init  PROVE OwnInv
  OBVIOUS
<1>1. \A g \in Groups : work[g] = NoWork /\ pc[g] = "idle" /\ result[g] = NoResult
  BY DEF Init
<1>2. PlansOwn
  BY DEF Init, PlansOwn, Spans, ReadGroups, Asked, Groups
<1>3. StreamOwn
  BY <1>1 DEF StreamOwn, Sure
<1>4. WorkOwn
  BY <1>1, NothingDone DEF WorkOwn
<1>5. ResultsOwn
  BY <1>1 DEF ResultsOwn, ResultOf, NoResult, Init
<1> QED
  BY <1>2, <1>3, <1>4, <1>5 DEF OwnInv

LEMMA PlansKeepOwn ==
  ASSUME IInv, OwnInv, Plans
  PROVE  OwnInv'
<1>1. /\ PlanNext /\ UNCHANGED <<registered, pc, work, result, owed, stream, given_up>>
  BY DEF Plans, transport
<1>2. UNCHANGED <<device, registering, read_groups>>
  BY <1>1 DEF registered
<1>3. /\ asked' = asked /\ PlanTypeOK /\ Ahead
      /\ \A rg \in closed \cup current : rg.start <= rg.end
  BY <1>1 DEF PlanNext, Extend, Open, Finish, OwnInv, PlansOwn, Spans, ReadGroups, IInv, PInv
<1>4. Spans'
  <2>1. ASSUME NEW t \in pending, Extend(t)  PROVE Spans'
    <3>1. PICK g \in current : current' = {AddTag(g, t)} /\ closed' = closed
      BY <2>1 DEF Extend
    <3>2. g.start \in Nat /\ g.end \in Nat /\ g.start <= g.end
      BY <1>3 DEF PlanTypeOK, ReadGroups
    <3>3. t.address \in Nat /\ t.size \in Nat
      BY <1>3, TagType DEF PlanTypeOK
    <3>4. AddTag(g, t).start <= AddTag(g, t).end
      BY <3>2, <3>3 DEF AddTag, Later
    <3> QED
      BY <1>3, <3>1, <3>4 DEF Spans, ReadGroups
  <2>2. ASSUME NEW t \in pending, Open(t)  PROVE Spans'
    <3>1. t.address \in Nat /\ t.size \in Nat
      BY <1>3, TagType DEF PlanTypeOK
    <3>2. GroupOf(t).start <= GroupOf(t).end
      BY <3>1 DEF GroupOf
    <3> QED
      BY <1>3, <2>2, <3>2 DEF Spans, ReadGroups, Open
  <2>3. ASSUME Finish  PROVE Spans'
    BY <1>3, <2>3 DEF Spans, ReadGroups, Finish
  <2> QED
    BY <1>1, <2>1, <2>2, <2>3 DEF PlanNext
<1>5. PlansOwn'
  BY <1>2, <1>3, <1>4 DEF OwnInv, PlansOwn, Asked, GroupPlanned
<1>6. StreamOwn'
  <2>1. Less
    BY <1>1, LessLeft
  <2> QED
    BY <1>1, <1>2, <2>1, StreamKept DEF OwnInv, StreamOwn, Sure
<1>7. WorkOwn'
  BY <1>1, <1>2 DEF OwnInv, WorkOwn, WorkOf, EndsAtFirstFailure
<1>8. ResultsOwn'
  BY <1>1, SameResults DEF OwnInv
<1> QED
  BY <1>5, <1>6, <1>7, <1>8 DEF OwnInv

LEMMA RegisteredOwn ==
  ASSUME IInv, OwnInv, Registered
  PROVE  OwnInv'
<1>1. /\ registering \in Groups /\ pending = {} /\ current = {}
      /\ AllParse(device, device.groups[registering])
      /\ read_groups' = [read_groups EXCEPT ![registering] = closed]
      /\ registering' = registering + 1
      /\ asked' = IF registering + 1 \in Groups
                  THEN Parsed(device, device.groups[registering + 1]) ELSE {}
      /\ closed' = {} /\ current' = current
      /\ device' = device /\ pc' = pc /\ work' = work /\ result' = result
  BY DEF Registered, Registering, Planned, transport
<1>2. \A h \in Groups : pc[h] = "idle" /\ ~Running
  BY <1>1, NobodyBusy DEF IInv
<1>3. Spans' /\ Asked'
  BY <1>1 DEF Spans, ReadGroups, Asked
<1>4. ASSUME NEW h \in Groups, h < registering'
      PROVE  GroupPlanned(h)'
  <2>1. CASE h = registering
    <3>1. read_groups'[h] = closed
      BY <1>1, <2>1 DEF IInv, Worked
    <3>2. PlanCovers /\ PlanTypeOK /\ Spans /\ asked = Parsed(device, device.groups[h])
      BY <1>1, <2>1 DEF IInv, PInv, OwnInv, PlansOwn, Asked
    <3>3. \A rg \in closed : IsReadGroup(rg)
      BY <3>2 DEF IsReadGroup, PlanTypeOK, ReadGroups, Spans
    <3>4. \A t \in Parsed(device, device.groups[h]) : \E rg \in closed : Within(t, rg)
      BY <1>1, <3>2 DEF PlanCovers, ReadGroups
    <3> QED
      BY <1>1, <2>1, <3>1, <3>3, <3>4 DEF GroupPlanned
  <2>2. CASE h # registering
    <3>1. read_groups'[h] = read_groups[h]
      BY <1>1, <2>2 DEF IInv, Worked
    <3>2. h < registering
      BY <1>1, <1>4, <2>2, DeviceReadAssumption DEF Groups
    <3>3. GroupPlanned(h)
      BY <3>2 DEF OwnInv, PlansOwn
    <3> QED
      BY <1>1, <3>1, <3>3 DEF GroupPlanned
  <2> QED
    BY <2>1, <2>2
<1>5. PlansOwn'
  BY <1>3, <1>4 DEF PlansOwn
<1>6. StreamOwn'
  BY <1>1, <1>2 DEF StreamOwn, Sure
<1>7. WorkOwn'
  BY <1>1, <1>2 DEF OwnInv, WorkOwn, WorkOf, EndsAtFirstFailure
<1>8. ResultsOwn'
  BY <1>1, <1>2 DEF OwnInv, ResultsOwn, ResultOf
<1> QED
  BY <1>5, <1>6, <1>7, <1>8 DEF OwnInv

LEMMA RegistrationRaisesOwn ==
  ASSUME IInv, OwnInv, RegistrationRaises
  PROVE  OwnInv'
<1>1. /\ registering \in Groups /\ registering' = 0
      /\ UNCHANGED <<planVars, device, read_groups, pc, work, result>>
  BY DEF RegistrationRaises, Registering, transport
<1>2. \A h \in Groups : pc[h] = "idle" /\ ~Running
  BY <1>1, NobodyBusy DEF IInv
<1>3. PlansOwn'
  BY <1>1 DEF OwnInv, PlansOwn, Spans, ReadGroups, Asked, planVars, Groups
<1>4. StreamOwn'
  BY <1>1, <1>2 DEF StreamOwn, Sure
<1>5. WorkOwn'
  BY <1>1, <1>2 DEF OwnInv, WorkOwn, WorkOf, EndsAtFirstFailure
<1>6. ResultsOwn'
  BY <1>1, <1>2 DEF OwnInv, ResultsOwn, ResultOf
<1> QED
  BY <1>3, <1>4, <1>5, <1>6 DEF OwnInv

\* With a new connection nobody is sure of an answer.
LEMMA FreshIsCut ==
  ASSUME NEW pcs, Fresh(pcs), \A h \in Groups : ~Waits(h) => pcs[h] \in {pc[h], "lock"},
         NEW h \in Groups
  PROVE  ~Sure(h)'
<1>1. pc'[h] = IF Waits(h) THEN "cut" ELSE pcs[h]
  BY DEF Fresh
<1> QED
  BY <1>1 DEF Sure, Waits

LEMMA BeginOwn ==
  ASSUME IInv, OwnInv, NEW g \in Groups, Begin(g)
  PROVE  OwnInv'
<1>1. /\ pc[g] = "idle" /\ read_groups[g] # {} /\ Running
      /\ result' = [result EXCEPT ![g] = NoResult]
      /\ UNCHANGED <<planVars, registered>>
      /\ \/ /\ StartsWork(g)
            /\ pc' = [pc EXCEPT ![g] = "lock"]
            /\ UNCHANGED <<owed, stream, given_up>>
         \/ /\ StartsWork(g)
            /\ Fresh([pc EXCEPT ![g] = "lock"])
         \/ UNCHANGED <<pc, work, owed, stream, given_up>>
  BY DEF Begin, transport
<1>2. UNCHANGED <<device, registering, read_groups>>
  BY <1>1 DEF registered
<1>3. PlansOwn'
  BY <1>1, SamePlans DEF OwnInv
<1>4. ResultsOwn'
  <2>1. \A h \in Groups : result'[h] = IF h = g THEN NoResult ELSE result[h]
    BY <1>1 DEF OwnInv, ResultsOwn
  <2>2. \A h \in Groups : ResultOf(h, result'[h])
    BY <2>1 DEF OwnInv, ResultsOwn, ResultOf, NoResult
  <2>3. \A h, x : ResultOf(h, x) => ResultOf(h, x)'
    BY <1>2, SameResult
  <2>4. \A h \in Groups : ResultOf(h, result[h])'
    BY <2>2, <2>3
  <2> QED
    BY <1>1, <1>2, <2>4 DEF OwnInv, ResultsOwn, Running
<1>5. ASSUME StartsWork(g),
             \A h \in Groups : h # g /\ pc[h] = "idle" => pc'[h] = "idle"
      PROVE  WorkOwn'
  <2> DEFINE w == [NoWork EXCEPT !.todo = read_groups[g]]
  <2>1. work' = [work EXCEPT ![g] = w]
    BY <1>5 DEF StartsWork
  <2>2. \A p : WorkOf(p, w, read_groups[g])
    BY <1>1, NothingDone
  <2> HIDE DEF w
  <2>3. \A h \in Groups : work'[h] = IF h = g THEN w ELSE work[h]
    BY <2>1 DEF IInv, Worked
  <2>4. \A h \in Groups : WorkOf(pc'[h], work'[h], read_groups[h])
    BY <1>5, <2>2, <2>3 DEF OwnInv, WorkOwn, WorkOf
  <2> QED
    BY <1>2, <2>4 DEF WorkOwn, WorkOf, EndsAtFirstFailure
<1>6. CASE /\ StartsWork(g) /\ pc' = [pc EXCEPT ![g] = "lock"]
           /\ UNCHANGED <<owed, stream, given_up>>
  <2>1. /\ \A h \in Groups : pc'[h] = IF h = g THEN "lock" ELSE pc[h]
        /\ \A h \in Groups : h # g => work'[h] = work[h]
    BY <1>6 DEF StartsWork, IInv, Worked
  <2>2. WorkOwn'
    BY <1>5, <1>6, <2>1
  <2>3. \A h \in Groups :
          Sure(h)' => Sure(h) /\ work'[h].todo = work[h].todo /\ (ByAnswers => ~given_up')
    BY <1>6, <2>1 DEF Sure, OwnInv, StreamOwn
  <2>4. Less
    BY <1>6, LessLeft
  <2>5. StreamOwn'
    BY <1>2, <2>3, <2>4, StreamKept DEF OwnInv
  <2> QED
    BY <1>3, <1>4, <2>2, <2>5 DEF OwnInv
<1>7. CASE StartsWork(g) /\ Fresh([pc EXCEPT ![g] = "lock"])
  <2> DEFINE pcs == [pc EXCEPT ![g] = "lock"]
  <2>1. \A h \in Groups : pcs[h] = IF h = g THEN "lock" ELSE pc[h]
    BY DEF IInv, Worked
  <2>2. Fresh(pcs)
    BY <1>7
  <2> HIDE DEF pcs
  <2>3. \A h \in Groups : ~Sure(h)'
    BY <2>1, <2>2, FreshIsCut
  <2>4. StreamOwn'
    BY <2>3 DEF StreamOwn
  <2>5. \A h \in Groups : h # g /\ pc[h] = "idle" => pc'[h] = "idle"
    BY <2>1, <2>2 DEF Fresh, Waits
  <2>6. WorkOwn'
    BY <1>5, <1>7, <2>5
  <2> QED
    BY <1>3, <1>4, <2>4, <2>6 DEF OwnInv
<1>8. CASE UNCHANGED <<pc, work, owed, stream, given_up>>
  <2>1. WorkOwn'
    BY <1>2, <1>8 DEF OwnInv, WorkOwn, WorkOf, EndsAtFirstFailure
  <2>2. Less
    BY <1>8, LessLeft
  <2>3. StreamOwn'
    BY <1>2, <1>8, <2>2, StreamKept DEF OwnInv, StreamOwn, Sure
  <2> QED
    BY <1>3, <1>4, <2>1, <2>3 DEF OwnInv
<1> QED
  BY <1>1, <1>6, <1>7, <1>8

LEMMA ReconnectsOwn ==
  ASSUME IInv, OwnInv, Reconnects
  PROVE  OwnInv'
<1>1. Fresh(pc) /\ UNCHANGED <<planVars, registered, work, result>>
  BY DEF Reconnects
<1>2. \A h \in Groups : ~Sure(h)'
  BY <1>1, FreshIsCut
<1>3. \A h \in Groups : pc[h] = "idle" => pc'[h] = "idle"
  BY <1>1 DEF Fresh, Waits
<1>4. \A h \in Groups : Doubts(work[h], work'[h])
  BY <1>1, SameDoubts DEF OwnInv, WorkOwn
<1>5. PlansOwn' /\ WorkOwn' /\ ResultsOwn'
  BY <1>1, <1>3, <1>4, MovesOwn
<1> QED
  BY <1>2, <1>5 DEF OwnInv, StreamOwn

LEMMA GroupTimesOutOwn ==
  ASSUME IInv, OwnInv, NEW g \in Groups, GroupTimesOut(g)
  PROVE  OwnInv'
<1>1. /\ pc[g] # "idle" /\ Idle(g)
      /\ given_up' = (given_up \/ (Waits(g) /\ GivenUp))
      /\ UNCHANGED <<planVars, registered, result, owed, stream>>
  BY DEF GroupTimesOut
<1>2. UNCHANGED <<device, registering, read_groups>>
  BY <1>1 DEF registered
<1>3. /\ \A h \in Groups : pc'[h] = IF h = g THEN "idle" ELSE pc[h]
      /\ \A h \in Groups : work'[h] = IF h = g THEN NoWork ELSE work[h]
  BY <1>1 DEF Idle, IInv, Worked
<1>4. WorkOwn'
  BY <1>2, <1>3, NothingDone DEF OwnInv, WorkOwn, WorkOf, EndsAtFirstFailure
<1>5. ASSUME NEW h \in Groups, Sure(h)'
      PROVE  Sure(h) /\ work'[h].todo = work[h].todo /\ (ByAnswers => ~given_up')
  <2>1. h # g /\ Sure(h)
    BY <1>3, <1>5 DEF Sure
  <2>2. ASSUME ByAnswers  PROVE ~given_up'
    <3>1. ~given_up
      BY <2>1, <2>2 DEF OwnInv, StreamOwn
    <3>2. Waits(h) /\ HasRequestLock(device)
      BY <2>1, <2>2 DEF Sure, Waits, ByAnswers, HasRequestLock
    <3>3. lock[1] = h
      BY <3>2 DEF IInv, Locked, Waits
    <3>4. ~Waits(g)
      BY <2>1, <3>2, <3>3, OneWaits DEF IInv
    <3> QED
      BY <1>1, <3>1, <3>4
  <2> QED
    BY <1>3, <2>1, <2>2
<1>6. Less
  BY <1>1, LessLeft
<1>7. StreamOwn'
  BY <1>2, <1>5, <1>6, StreamKept DEF OwnInv
<1> QED
  BY <1>1, <1>4, <1>7, SamePlans, SameResults DEF OwnInv

\* Whoever sends a request with nothing in front of it.
LEMMA AskedOwn ==
  ASSUME NEW g \in Groups, device' = device, work'[g].todo = work[g].todo,
         owed = <<>>, owed' \in {Ask(g), owed}, stream' = <<>>
  PROVE  Mine(g)'
<1> DEFINE request == Request(ReadGroup(g))
           x == [of |-> request, begun |-> FALSE]
<1>1. Request(ReadGroup(g))' = request
  BY SameRequest
<1>2. x \in Sent(request)
  BY DEF Sent
<1>3. owed' \in {Append(<<>>, x), <<>>}
  BY DEF Ask
<1> HIDE DEF request, x
<1>4. Append(<<>>, x) = <<x>> /\ <<x>> \in Seq({x})
  BY One
<1>5. <<x>> \in Seq(Sent(request))
  BY <1>2
<1>6. owed' \in Seq(Sent(request))
  BY <1>3, <1>4, <1>5, EmptySeq
<1>7. stream' \in Seq(Came(request))
  BY EmptySeq
<1> QED
  BY <1>1, <1>6, <1>7 DEF Mine, Sent, Came

LEMMA SendsOwn ==
  ASSUME IInv, OwnInv, NEW g \in Groups, Sends(g)
  PROVE  OwnInv'
<1>1. /\ pc[g] = "lock" /\ MaySend(g) /\ device.protocol \notin {"fenet", "s7"}
      /\ UNCHANGED <<planVars, registered>>
      /\ \/ ReadFails(g, state) /\ UNCHANGED <<owed, stream>>
         \/ /\ pc' = [pc EXCEPT ![g] = "head"]
            /\ work' = [work EXCEPT ![g].doubtful = @ \/ Exposed]
            /\ owed' \in {Ask(g), owed}
            /\ stream' = IF device.protocol = "rtu" THEN <<>> ELSE stream
            /\ UNCHANGED <<result, given_up>>
  BY DEF Sends
<1>2. device' = device
  BY <1>1 DEF registered
<1>3. CASE ReadFails(g, state) /\ UNCHANGED <<owed, stream>>
  <2>1. Less
    BY <1>3, LessLeft
  <2> QED
    BY <1>1, <1>3, <2>1, FailsOwn
<1>4. CASE /\ pc' = [pc EXCEPT ![g] = "head"]
           /\ work' = [work EXCEPT ![g].doubtful = @ \/ Exposed]
           /\ owed' \in {Ask(g), owed}
           /\ stream' = IF device.protocol = "rtu" THEN <<>> ELSE stream
           /\ UNCHANGED <<result, given_up>>
  <2> DEFINE w == [work[g] EXCEPT !.doubtful = @ \/ Exposed]
  <2>1. WorkOf(pc[g], work[g], read_groups[g]) /\ DOMAIN work = Groups
    BY DEF OwnInv, WorkOwn, IInv, Worked
  <2>2. \A h \in Groups : pc'[h] = IF h = g THEN "head" ELSE pc[h]
    BY <1>4 DEF IInv, Worked
  <2>3. \A h \in Groups : work'[h] = IF h = g THEN w ELSE work[h]
    BY <1>4, <2>1
  <2>4. /\ DOMAIN w = DOMAIN work[g] /\ w.todo = work[g].todo
        /\ w.data = work[g].data /\ w.failed = work[g].failed
        /\ w.doubtful = (work[g].doubtful \/ Exposed)
    BY <2>1 DEF WorkOf
  <2> HIDE DEF w
  <2>5. w.doubtful \in BOOLEAN
    BY <2>4
  <2>6. Doubts(work[g], w)
    BY <2>1, <2>4, <2>5 DEF WorkOf, Doubts
  <2>7. \A h \in Groups : Doubts(work[h], work'[h]) /\ (pc[h] = "idle" => pc'[h] = "idle")
    BY <1>1, <2>2, <2>3, <2>6, SameDoubts DEF OwnInv, WorkOwn
  <2>8. PlansOwn' /\ WorkOwn' /\ ResultsOwn'
    BY <1>1, <1>4, <2>7, MovesOwn
  <2>9. HasRequestLock(device) /\ lock[1] = g
    <3>1. HasRequestLock(device)
      BY <1>1 DEF HasRequestLock
    <3> QED
      BY <1>1, <3>1, FirstInLock DEF IInv
  <2>10. ASSUME NEW h \in Groups, Sure(h)'
         PROVE  Mine(h)' /\ (ByAnswers => ~given_up')
    <3>1. h = g
      <4>1. ASSUME h # g  PROVE FALSE
        <5>1. ~Waits(h)
          BY <2>9, <4>1, OneWaits DEF IInv
        <5> QED
          BY <2>2, <2>10, <4>1, <5>1 DEF Sure, Waits
      <4> QED
        BY <4>1
    <3>2. ~Exposed
      BY <2>3, <2>4, <2>10, <3>1 DEF Sure
    <3>3. CASE device.protocol = "rtu"
      <4>1. owed = <<>> /\ stream' = <<>> /\ ~ByAnswers
        BY <1>4, <3>2, <3>3 DEF Exposed, ByAnswers
      <4> QED
        BY <1>2, <1>4, <2>3, <2>4, <3>1, <4>1, AskedOwn
    <3>4. CASE device.protocol # "rtu"
      <4>1. ~given_up
        BY <1>1, <3>2, <3>4 DEF Exposed
      <4>2. ByAnswers
        BY <1>1, <3>4, ProtocolKnown DEF ByAnswers, Protocols, IInv, Worked
      <4>3. owed = <<>> /\ stream' = <<>>
        BY <1>1, <1>4, <4>1, <4>2, <3>4, NothingOwed
      <4> QED
        BY <1>2, <1>4, <2>3, <2>4, <3>1, <4>1, <4>3, AskedOwn
    <3> QED
      BY <3>3, <3>4
  <2>11. StreamOwn'
    BY <1>2, <2>10 DEF StreamOwn, ByAnswers
  <2> QED
    BY <2>8, <2>11 DEF OwnInv
<1> QED
  BY <1>1, <1>3, <1>4

\* Bytes taken for an answer, which only one who is not sure of it would not notice.
LEMMA MisreadOwn ==
  ASSUME IInv, OwnInv, NEW g \in Groups, pc[g] \in {"head", "body", "refused"},
         Misreads(g), UNCHANGED <<planVars, registered, owed>>,
         ~(ByAnswers /\ ~given_up)
  PROVE  OwnInv'
<1> DEFINE garbage == [i \in 1 .. Request(ReadGroup(g)).count |-> <<"garbage", i>>]
<1>1. /\ stream' \in Rests
      /\ \/ ReadFails(g, state)
         \/ device.protocol \in {"tcp", "mc"} /\ ReadGives(g, garbage)
  BY DEF Misreads
<1> HIDE DEF garbage
<1>2. Less
  BY <1>1, LessLeft
<1>3. CASE ReadFails(g, state)
  BY <1>2, <1>3, FailsOwn
<1>4. CASE device.protocol \in {"tcp", "mc"} /\ ReadGives(g, garbage)
  <2>1. work[g].doubtful
    BY <1>4 DEF OwnInv, StreamOwn, Sure, ByAnswers
  <2> QED
    BY <1>2, <1>4, <2>1, GivesOwn
<1> QED
  BY <1>1, <1>3, <1>4

\* In step, the piece that has come is the one that is waited for.
LEMMA RightPiece ==
  ASSUME IInv, NEW g \in Groups, ByAnswers, ~given_up, stream # <<>>
  PROVE  /\ pc[g] = "head" => Head(stream).part = "head"
         /\ pc[g] = "body" => Head(stream).part = "body"
         /\ pc[g] = "refused" => Len(stream) = 1
<1>1. ASSUME Waits(g)  PROVE Expected(pc[g], owed, stream)
  BY <1>1, Finds
<1>2. ASSUME pc[g] = "head"  PROVE Head(stream).part = "head"
  <2>1. Alone(stream, "head") \/ Whole(stream)
    BY <1>1, <1>2 DEF Expected, Waits
  <2> QED
    BY <2>1, AloneTaken, WholeTaken
<1>3. ASSUME pc[g] \in {"body", "refused"}
      PROVE  Head(stream).part = "body" /\ Len(stream) = 1
  <2>1. Alone(stream, "body")
    BY <1>1, <1>3 DEF Expected, Waits
  <2> QED
    BY <2>1, AloneTaken
<1> QED
  BY <1>2, <1>3

LEMMA ReadsHeadOwn ==
  ASSUME IInv, OwnInv, NEW g \in Groups, ReadsHead(g)
  PROVE  OwnInv'
<1> DEFINE p == IF Head(stream).exception /\ device.protocol = "rtu_over_tcp"
                THEN "refused" ELSE "body"
<1>1. /\ pc[g] = "head" /\ stream # <<>>
      /\ UNCHANGED <<planVars, registered, owed, given_up>>
      /\ \/ /\ stream' = Tail(stream) /\ pc' = [pc EXCEPT ![g] = p]
            /\ UNCHANGED <<work, result>>
         \/ Head(stream).part = "body" /\ Misreads(g)
  BY DEF ReadsHead
<1> HIDE DEF p
<1>2. CASE /\ stream' = Tail(stream) /\ pc' = [pc EXCEPT ![g] = p]
           /\ UNCHANGED <<work, result>>
  <2>1. \A h \in Groups : pc'[h] = IF h = g THEN p ELSE pc[h]
    BY <1>2 DEF IInv, Worked
  <2>2. \A h \in Groups :
          /\ pc[h] = "idle" => pc'[h] = "idle"
          /\ Sure(h)' => Sure(h) /\ (ByAnswers => ~given_up')
    BY <1>1, <1>2, <2>1 DEF Sure, OwnInv, StreamOwn
  <2>3. Less
    BY <1>1, <1>2, LessLeft
  <2> QED
    BY <1>1, <1>2, <2>2, <2>3, WaitsOwn
<1>3. CASE Head(stream).part = "body" /\ Misreads(g)
  <2>1. ~(ByAnswers /\ ~given_up)
    BY <1>1, <1>3, RightPiece
  <2> QED
    BY <1>1, <1>3, <2>1, MisreadOwn
<1> QED
  BY <1>1, <1>2, <1>3

\* The request of the piece in front.
LEMMA CameFrom ==
  ASSUME NEW request, stream \in Seq(Came(request)), stream # <<>>
  PROVE  Head(stream).of = request /\ stream[1].of = request
<1>1. Head(stream) = stream[1] /\ Head(stream) \in Came(request)
  BY HeadTailProperties
<1> QED
  BY <1>1 DEF Came

LEMMA ReadsBodyOwn ==
  ASSUME IInv, OwnInv, NEW g \in Groups, ReadsBody(g)
  PROVE  OwnInv'
<1>1. /\ pc[g] = "body" /\ stream # <<>>
      /\ UNCHANGED <<planVars, registered, owed>>
      /\ \/ stream' = Tail(stream) /\ Outcome(g, Head(stream))
         \/ Head(stream).part = "head" /\ Misreads(g)
  BY DEF ReadsBody
<1>2. CASE stream' = Tail(stream) /\ Outcome(g, Head(stream))
  <2>1. Less
    BY <1>1, <1>2, LessLeft
  <2>2. ReadFails(g, state) \/ ReadGives(g, Answer(Head(stream).of))
    BY <1>2 DEF Outcome
  <2>3. CASE ReadFails(g, state)
    BY <1>1, <2>1, <2>3, FailsOwn
  <2>4. CASE ReadGives(g, Answer(Head(stream).of))
    <3>1. ASSUME ~work[g].doubtful
          PROVE  Head(stream).of = Request(ReadGroup(g))
      <4>1. Mine(g)
        BY <1>1, <3>1 DEF OwnInv, StreamOwn, Sure
      <4> QED
        BY <1>1, <4>1, CameFrom DEF Mine
    <3>2. ~work[g].doubtful => Answer(Head(stream).of) = Answer(Request(ReadGroup(g)))
      BY <3>1
    <3> QED
      BY <1>1, <2>1, <2>4, <3>2, GivesOwn
  <2> QED
    BY <2>2, <2>3, <2>4
<1>3. CASE Head(stream).part = "head" /\ Misreads(g)
  <2>1. ~(ByAnswers /\ ~given_up)
    BY <1>1, <1>3, RightPiece
  <2> QED
    BY <1>1, <1>3, <2>1, MisreadOwn
<1> QED
  BY <1>1, <1>2, <1>3

LEMMA ReadsPastExceptionOwn ==
  ASSUME IInv, OwnInv, NEW g \in Groups, ReadsPastException(g)
  PROVE  OwnInv'
<1>1. /\ pc[g] = "refused" /\ Len(stream) > 1 /\ Misreads(g)
      /\ UNCHANGED <<planVars, registered, owed>>
  BY DEF ReadsPastException
<1>2. ~(ByAnswers /\ ~given_up)
  <2> SUFFICES ASSUME ByAnswers, ~given_up  PROVE FALSE
    OBVIOUS
  <2>1. stream # <<>>
    BY <1>1
  <2>2. Len(stream) = 1
    BY <1>1, <2>1, RightPiece
  <2> QED
    BY <1>1, <2>2
<1> QED
  BY <1>1, <1>2, MisreadOwn

LEMMA SendsFenetOwn ==
  ASSUME IInv, OwnInv, NEW g \in Groups, SendsFenet(g)
  PROVE  OwnInv'
<1>1. /\ pc[g] = "lock" /\ device.protocol = "fenet"
      /\ UNCHANGED <<planVars, registered, stream, given_up>>
      /\ \/ ReadFails(g, state) /\ UNCHANGED owed
         \/ /\ pc' = [pc EXCEPT ![g] = "read"]
            /\ work' = [h \in Groups |->
                 [work[h] EXCEPT !.doubtful = @ \/ (h = g /\ Exposed) \/ (h # g /\ Waits(h))]]
            /\ owed' \in {Ask(g), owed}
            /\ UNCHANGED result
  BY DEF SendsFenet
<1>2. device' = device /\ ~ByAnswers
  BY <1>1 DEF registered, ByAnswers
<1>3. CASE ReadFails(g, state) /\ UNCHANGED owed
  <2>1. Less
    BY <1>1, <1>3, LessLeft
  <2> QED
    BY <1>1, <1>2, <1>3, <2>1, FailsOwn
<1>4. CASE /\ pc' = [pc EXCEPT ![g] = "read"]
           /\ work' = [h \in Groups |->
                [work[h] EXCEPT !.doubtful = @ \/ (h = g /\ Exposed) \/ (h # g /\ Waits(h))]]
           /\ owed' \in {Ask(g), owed}
           /\ UNCHANGED result
  <2>1. \A h \in Groups : pc'[h] = IF h = g THEN "read" ELSE pc[h]
    BY <1>4 DEF IInv, Worked
  <2>2. ASSUME NEW h \in Groups
        PROVE  /\ Doubts(work[h], work'[h])
               /\ work'[h].todo = work[h].todo
               /\ work'[h].doubtful =
                    (work[h].doubtful \/ (h = g /\ Exposed) \/ (h # g /\ Waits(h)))
    <3> DEFINE doubt == work[h].doubtful \/ (h = g /\ Exposed) \/ (h # g /\ Waits(h))
    <3>1. WorkOf(pc[h], work[h], read_groups[h])
      BY DEF OwnInv, WorkOwn
    <3>2. work'[h] = [work[h] EXCEPT !.doubtful = doubt]
      BY <1>4
    <3>3. doubt \in BOOLEAN /\ (work[h].doubtful => doubt)
      OBVIOUS
    <3> HIDE DEF doubt
    <3>4. /\ DOMAIN work'[h] = DOMAIN work[h] /\ work'[h].todo = work[h].todo
          /\ work'[h].data = work[h].data /\ work'[h].failed = work[h].failed
          /\ work'[h].doubtful = doubt
      BY <3>1, <3>2 DEF WorkOf
    <3>5. Doubts(work[h], work'[h])
      BY <3>1, <3>3, <3>4 DEF WorkOf, Doubts
    <3> QED
      BY <3>4, <3>5 DEF doubt
  <2>3. PlansOwn' /\ WorkOwn' /\ ResultsOwn'
    BY <1>1, <1>4, <2>1, <2>2, MovesOwn
  <2>4. ASSUME NEW h \in Groups, Sure(h)'  PROVE Mine(h)'
    <3>1. h = g
      BY <2>1, <2>2, <2>4 DEF Sure, Waits
    <3>2. ~Exposed
      BY <2>2, <2>4, <3>1 DEF Sure
    <3>3. owed = <<>> /\ stream' = <<>>
      BY <1>1, <3>2 DEF Exposed
    <3> QED
      BY <1>2, <1>4, <2>2, <3>1, <3>3, AskedOwn
  <2>5. StreamOwn'
    BY <1>2, <2>4 DEF StreamOwn, ByAnswers
  <2> QED
    BY <2>3, <2>5 DEF OwnInv
<1> QED
  BY <1>1, <1>3, <1>4

LEMMA WaitsForDataOwn ==
  ASSUME IInv, OwnInv, NEW g \in Groups, WaitsForData(g)
  PROVE  OwnInv'
<1>1. /\ pc[g] = "read"
      /\ UNCHANGED <<planVars, registered, owed, stream, given_up>>
      /\ \/ pc' = [pc EXCEPT ![g] = "head"] /\ UNCHANGED <<work, result>>
         \/ ReadFails(g, state)
  BY DEF WaitsForData, transport
<1>2. Less
  BY <1>1, LessLeft
<1>3. CASE ReadFails(g, state)
  BY <1>1, <1>2, <1>3, FailsOwn
<1>4. CASE pc' = [pc EXCEPT ![g] = "head"] /\ UNCHANGED <<work, result>>
  <2>1. \A h \in Groups : pc'[h] = IF h = g THEN "head" ELSE pc[h]
    BY <1>4 DEF IInv, Worked
  <2>2. \A h \in Groups :
          /\ pc[h] = "idle" => pc'[h] = "idle"
          /\ Sure(h)' => Sure(h) /\ (ByAnswers => ~given_up')
    BY <1>1, <1>4, <2>1 DEF Sure, OwnInv, StreamOwn
  <2> QED
    BY <1>1, <1>2, <1>4, <2>2, WaitsOwn
<1> QED
  BY <1>1, <1>3, <1>4

LEMMA ReadsChunkOwn ==
  ASSUME IInv, OwnInv, NEW g \in Groups, ReadsChunk(g)
  PROVE  OwnInv'
<1>1. /\ pc[g] \in {"read", "woken"} /\ stream' = <<>>
      /\ UNCHANGED <<planVars, registered, owed>>
      /\ \/ ReadFails(g, state)
         \/ Len(stream) > 1 /\ ReadGives(g, Answer(stream[1].of))
  BY DEF ReadsChunk
<1>2. Less
  BY <1>1, LessLeft
<1>3. CASE ReadFails(g, state)
  BY <1>1, <1>2, <1>3, FailsOwn
<1>4. CASE Len(stream) > 1 /\ ReadGives(g, Answer(stream[1].of))
  <2>1. ASSUME ~work[g].doubtful
        PROVE  stream[1].of = Request(ReadGroup(g))
    <3>1. Mine(g)
      BY <1>1, <2>1 DEF OwnInv, StreamOwn, Sure
    <3>2. stream # <<>>
      BY <1>4
    <3> QED
      BY <3>1, <3>2, CameFrom DEF Mine
  <2>2. ~work[g].doubtful => Answer(stream[1].of) = Answer(Request(ReadGroup(g)))
    BY <2>1
  <2> QED
    BY <1>1, <1>2, <1>4, <2>2, GivesOwn
<1> QED
  BY <1>1, <1>3, <1>4

LEMMA CallsOwn ==
  ASSUME IInv, OwnInv, NEW g \in Groups, Calls(g)
  PROVE  OwnInv'
<1>1. /\ pc[g] = "lock" /\ pc' = [pc EXCEPT ![g] = "call"]
      /\ UNCHANGED <<planVars, registered, owed, stream, given_up, work, result>>
  BY DEF Calls, transport
<1>2. Less
  BY <1>1, LessLeft
<1>3. \A h \in Groups : pc'[h] = IF h = g THEN "call" ELSE pc[h]
  BY <1>1 DEF IInv, Worked
<1>4. \A h \in Groups :
        /\ pc[h] = "idle" => pc'[h] = "idle"
        /\ Sure(h)' => Sure(h) /\ (ByAnswers => ~given_up')
  BY <1>1, <1>3 DEF Sure, OwnInv, StreamOwn
<1> QED
  BY <1>1, <1>2, <1>4, WaitsOwn

LEMMA CallReturnsOwn ==
  ASSUME IInv, OwnInv, NEW g \in Groups, CallReturns(g)
  PROVE  OwnInv'
<1>1. /\ pc[g] = "call" /\ UNCHANGED <<planVars, registered, owed, stream>>
      /\ ReadFails(g, state) \/ ReadGives(g, Answer(Request(ReadGroup(g))))
  BY DEF CallReturns
<1>2. Less
  BY <1>1, LessLeft
<1>3. CASE ReadFails(g, state)
  BY <1>1, <1>2, <1>3, FailsOwn
<1>4. CASE ReadGives(g, Answer(Request(ReadGroup(g))))
  BY <1>1, <1>2, <1>4, GivesOwn
<1> QED
  BY <1>1, <1>3, <1>4

LEMMA TimesOutOwn ==
  ASSUME IInv, OwnInv, NEW g \in Groups, TimesOut(g)
  PROVE  OwnInv'
<1> DEFINE s == IF device.protocol = "fenet" THEN "ERROR" ELSE state
<1>1. /\ pc[g] \in {"head", "body", "refused"}
      /\ UNCHANGED <<planVars, registered, owed, stream>> /\ ReadFails(g, s)
  BY DEF TimesOut
<1>2. Less
  BY <1>1, LessLeft
<1> HIDE DEF s
<1> QED
  BY <1>1, <1>2, FailsOwn

LEMMA ConnectionLostOwn ==
  ASSUME IInv, OwnInv, NEW g \in Groups, ConnectionLost(g)
  PROVE  OwnInv'
<1>1. /\ pc[g] \notin {"idle", "lock"}
      /\ UNCHANGED <<planVars, registered, owed, stream>> /\ ReadFails(g, state)
  BY DEF ConnectionLost, Waits
<1>2. Less
  BY <1>1, LessLeft
<1> QED
  BY <1>1, <1>2, FailsOwn

-----------------------------------------------------------------------------
(* The device and the network.                                             *)

LEMMA NetworkOwn ==
  ASSUME IInv, OwnInv, UNCHANGED <<planVars, registered, pc, work, result, given_up>>, Less
  PROVE  OwnInv'
<1>1. \A h \in Groups :
        /\ pc[h] = "idle" => pc'[h] = "idle"
        /\ Sure(h)' => Sure(h) /\ (ByAnswers => ~given_up')
  BY DEF Sure, OwnInv, StreamOwn
<1> QED
  BY <1>1, WaitsOwn

LEMMA OrphanReadsOwn ==
  ASSUME IInv, OwnInv, OrphanReads
  PROVE  OwnInv'
<1>1. /\ UNCHANGED <<planVars, registered, pc, work, result, given_up, owed>>
      /\ stream' = stream \/ (stream # <<>> /\ stream' = Tail(stream))
  BY DEF OrphanReads
<1>2. Less
  BY <1>1, LessLeft
<1> QED
  BY <1>1, <1>2, NetworkOwn

LEMMA LosesOwn ==
  ASSUME IInv, OwnInv, Loses
  PROVE  OwnInv'
<1>1. /\ UNCHANGED <<planVars, registered, pc, work, result, given_up, stream>>
      /\ owed # <<>> /\ owed' = Tail(owed)
  BY DEF Loses
<1>2. Less
  BY <1>1, LessLeft
<1> QED
  BY <1>1, <1>2, NetworkOwn

LEMMA LinkBreaksOwn ==
  ASSUME IInv, OwnInv, LinkBreaks
  PROVE  OwnInv'
<1>1. /\ UNCHANGED <<planVars, registered, pc, work, result, given_up>>
      /\ owed' = <<>> /\ stream' = <<>>
  BY DEF LinkBreaks
<1>2. Less
  BY <1>1, LessLeft
<1> QED
  BY <1>1, <1>2, NetworkOwn

\* What arrives is of what was owed.
LEMMA ArrivalOwn ==
  ASSUME IInv, OwnInv, NEW pieces, Arrive(pieces),
         UNCHANGED <<planVars, registered, work, result, given_up>>,
         \A request : owed \in Seq(Sent(request)) =>
           owed' \in Seq(Sent(request)) /\ pieces \in Seq(Came(request))
  PROVE  OwnInv'
<1>1. /\ stream' = stream \o pieces
      /\ \A h \in Groups : pc'[h] \in {pc[h], "woken"} /\ (pc'[h] = "woken" => pc[h] \in {"head", "woken"})
  BY DEF Arrive
<1>2. device' = device
  BY DEF registered
<1>3. \A h \in Groups : Doubts(work[h], work'[h])
  BY SameDoubts DEF OwnInv, WorkOwn
<1>4. PlansOwn' /\ WorkOwn' /\ ResultsOwn'
  BY <1>1, <1>3, MovesOwn
<1>5. ASSUME NEW h \in Groups, Sure(h)'
      PROVE  Mine(h)' /\ (ByAnswers => ~given_up')
  <2> DEFINE request == Request(ReadGroup(h))
  <2>1. Sure(h)
    BY <1>1, <1>5 DEF Sure
  <2>2. /\ owed \in Seq(Sent(request)) /\ stream \in Seq(Came(request))
        /\ ByAnswers => ~given_up
    BY <2>1 DEF OwnInv, StreamOwn, Mine
  <2>3. Request(ReadGroup(h))' = request
    BY <1>2, SameRequest
  <2> HIDE DEF request
  <2>4. owed' \in Seq(Sent(request)) /\ pieces \in Seq(Came(request))
    BY <2>2
  <2>5. stream' \in Seq(Came(request))
    BY <1>1, <2>2, <2>4, ConcatProperties
  <2> QED
    BY <2>2, <2>3, <2>4, <2>5 DEF Mine, Sent, Came
<1>6. StreamOwn'
  BY <1>2, <1>5 DEF StreamOwn, ByAnswers
<1> QED
  BY <1>4, <1>6 DEF OwnInv

\* The request a device answers next.
LEMMA OwedFor ==
  ASSUME NEW request, owed \in Seq(Sent(request)), owed # <<>>
  PROVE  /\ Head(owed).of = request
         /\ Tail(owed) \in Seq(Sent(request))
         /\ [owed EXCEPT ![1].begun = TRUE] \in Seq(Sent(request))
<1>1. /\ Head(owed) = owed[1] /\ Head(owed) \in Sent(request)
      /\ Tail(owed) \in Seq(Sent(request))
  BY HeadTailProperties
<1> DEFINE x == [owed[1] EXCEPT !.begun = TRUE]
<1>2. x \in Sent(request)
  BY <1>1 DEF Sent
<1>3. [owed EXCEPT ![1].begun = TRUE] = [owed EXCEPT ![1] = x]
  OBVIOUS
<1> HIDE DEF x
<1>4. 1 \in 1 .. Len(owed)
  BY LenProperties
<1>5. [owed EXCEPT ![1] = x] \in Seq(Sent(request))
  BY <1>2, <1>4, ExceptSeq
<1> QED
  BY <1>1, <1>3, <1>5 DEF Sent

LEMMA AnswersOwn ==
  ASSUME IInv, OwnInv, NEW exception \in BOOLEAN, Answers(exception)
  PROVE  OwnInv'
<1> DEFINE of == Head(owed).of
           head == <<Piece("head", of, exception)>>
           body == <<Piece("body", of, exception)>>
           pieces == (IF Head(owed).begun THEN <<>> ELSE head) \o body
<1>1. /\ owed # <<>> /\ Arrive(pieces) /\ owed' = Tail(owed)
      /\ UNCHANGED <<planVars, registered, work, result, given_up>>
  BY DEF Answers
<1>2. ASSUME NEW request, owed \in Seq(Sent(request))
      PROVE  owed' \in Seq(Sent(request)) /\ pieces \in Seq(Came(request))
  <2>1. of = request /\ owed' \in Seq(Sent(request))
    BY <1>1, <1>2, OwedFor
  <2>2. \A part \in {"head", "body"} : Piece(part, of, exception) \in Came(request)
    BY <2>1 DEF Piece, Came
  <2> HIDE DEF of
  <2>3. head \in Seq(Came(request)) /\ body \in Seq(Came(request))
    BY <2>2
  <2> HIDE DEF head, body
  <2>4. pieces \in Seq(Came(request))
    BY <2>3, ConcatProperties, EmptySeq
  <2> QED
    BY <2>1, <2>4
<1> HIDE DEF pieces
<1> QED
  BY <1>1, <1>2, ArrivalOwn

LEMMA AnswersInPartOwn ==
  ASSUME IInv, OwnInv, AnswersInPart
  PROVE  OwnInv'
<1> DEFINE x == Piece("head", Head(owed).of, FALSE)
<1>1. /\ owed # <<>> /\ Arrive(<<x>>) /\ owed' = [owed EXCEPT ![1].begun = TRUE]
      /\ UNCHANGED <<planVars, registered, work, result, given_up>>
  BY DEF AnswersInPart
<1>2. ASSUME NEW request, owed \in Seq(Sent(request))
      PROVE  owed' \in Seq(Sent(request)) /\ <<x>> \in Seq(Came(request))
  <2>1. Head(owed).of = request /\ owed' \in Seq(Sent(request))
    BY <1>1, <1>2, OwedFor
  <2>2. x \in Came(request)
    BY <2>1 DEF Piece, Came
  <2> HIDE DEF x
  <2> QED
    BY <2>1, <2>2
<1> HIDE DEF x
<1> QED
  BY <1>1, <1>2, ArrivalOwn

LEMMA StutterOwn ==
  ASSUME IInv, OwnInv, UNCHANGED vars
  PROVE  OwnInv'
<1>1. UNCHANGED <<planVars, registered, pc, work, result, given_up, owed, stream>>
  BY DEF vars, transport
<1>2. Less
  BY <1>1, LessLeft
<1> QED
  BY <1>1, <1>2, NetworkOwn

LEMMA OwnInvariance == Spec => []OwnInv
<1>1. IInv /\ OwnInv /\ [Next]_vars => OwnInv'
  <2> SUFFICES ASSUME IInv, OwnInv, [Next]_vars  PROVE OwnInv'
    OBVIOUS
  <2>1. ASSUME NEW g \in Groups, Reads(g)  PROVE OwnInv'
    BY <2>1, SendsOwn, ReadsHeadOwn, ReadsBodyOwn, ReadsPastExceptionOwn DEF Reads
  <2>2. ASSUME NEW g \in Groups, ReadsFenet(g)  PROVE OwnInv'
    BY <2>2, SendsFenetOwn, WaitsForDataOwn, ReadsChunkOwn DEF ReadsFenet
  <2>3. ASSUME NEW g \in Groups, ReadsS7(g)  PROVE OwnInv'
    BY <2>3, CallsOwn, CallReturnsOwn DEF ReadsS7
  <2>4. CASE Plans \/ Registered \/ RegistrationRaises
    BY <2>4, PlansKeepOwn, RegisteredOwn, RegistrationRaisesOwn
  <2>5. CASE \E g \in Groups : Begin(g) \/ Reads(g) \/ ReadsFenet(g) \/ ReadsS7(g)
    BY <2>1, <2>2, <2>3, <2>5, BeginOwn
  <2>6. CASE \E g \in Groups : TimesOut(g) \/ ConnectionLost(g) \/ GroupTimesOut(g)
    BY <2>6, TimesOutOwn, ConnectionLostOwn, GroupTimesOutOwn
  <2>7. CASE Reconnects \/ OrphanReads
    BY <2>7, ReconnectsOwn, OrphanReadsOwn
  <2>8. CASE \/ \E exception \in BOOLEAN : Answers(exception)
             \/ AnswersInPart \/ Loses \/ LinkBreaks
    BY <2>8, AnswersOwn, AnswersInPartOwn, LosesOwn, LinkBreaksOwn
  <2>9. CASE UNCHANGED vars
    BY <2>9, StutterOwn
  <2> QED
    BY <2>4, <2>5, <2>6, <2>7, <2>8, <2>9 DEF Next
<1> QED
  BY <1>1, StartsOwn, Invariance, PTL DEF Spec
-----------------------------------------------------------------------------
(* The theorems.                                                           *)

\* The types: the failures in a row stay bounded although each collection under way can
\* still add one to them after the limit is reached (_collection_loop, _do_collect), and
\* the lock is never queued for twice.
THEOREM TypeCorrect == Spec => []TypeOK
<1>1. IInv => TypeOK
  <2> SUFFICES ASSUME IInv  PROVE TypeOK
    OBVIOUS
  <2>1. failures \in 0 .. MaxFailures + NumGroups
    <3>1. /\ failures \in Nat /\ failures + Cardinality(Busy) < MaxFailures + NumGroups
          /\ Cardinality(Busy) \in Nat /\ MaxFailures \in Nat /\ NumGroups \in Nat
      BY BusyFinite DEF IInv, FailuresBounded
    <3> QED
      BY <3>1
  <2>2. lock \in Seq(Groups) /\ Len(lock) <= NumGroups
    <3> DEFINE B == ToSet(lock)
    <3>1. lock \in Seq(Groups) /\ Distinct(lock)
      BY DEF IInv, Locked
    <3>2. B \in SUBSET Groups
      BY <3>1 DEF ToSet
    <3>3. Cardinality(B) = Len(lock)
      BY <3>1, MemberCount
    <3> HIDE DEF B
    <3> QED
      BY <3>1, <3>2, <3>3, FewGroups
  <2>3. /\ orphans \in 0 .. MaxFaults /\ given_up \in BOOLEAN /\ faults \in 0 .. MaxFaults
        /\ link \in {"open", "eof", "closed"}
    BY DeviceReadAssumption DEF IInv, Transport
  <2>4. state \in {"CONNECTED", "ERROR"}
    BY DEF IInv, FailuresBounded
  <2> QED
    BY <2>1, <2>2, <2>3, <2>4 DEF IInv, Worked, TypeOK, Places
<1> QED
  BY <1>1, Invariance, PTL

\* Modbus TCP, RTU over TCP and MC read their stream answer by answer: between two reads
\* nothing is left in it and nothing is owed, until a request is given up
\* (send_request of modbus/collector.py and mc_protocol/collector.py).
THEOREM StreamStaysInStep == Spec => []StaysInStep
<1>1. IInv => StaysInStep
  BY DEF IInv, InStep, StaysInStep, ByAnswers, Nothing
<1> QED
  BY <1>1, Invariance, PTL

\* Every tag of a device's groups is in a read group that is planned for it, however the
\* groups' tags are registered one after the other (_optimize_read_groups).
THEOREM DeviceTagsAreRead == Spec => []PlanCovers
<1>1. IInv => PlanCovers
  BY DEF IInv, PInv
<1> QED
  BY <1>1, Invariance, PTL

\* And no read group asks for more than one request of its protocol may
\* (_optimize_read_groups).
THEOREM DeviceRequestsFit == Spec => []WithinLimits
<1>1. IInv => WithinLimits
  BY DEF IInv, PInv
<1> QED
  BY <1>1, Invariance, PTL

\* The values. In every collection without a doubt, a supported tag's rows are made of the
\* content of its own registers, or a cut string's: although its registers were merged with
\* other tags', read over gaps, cut out of an answer that carries no address, put beside
\* those of the group's other reads, and found again by a processor that parses the address
\* once more (_read_group, _do_collect and the processors' parse_value).
THEOREM TagsGetTheirOwnValues == Spec => []ValuesAreOwn
<1>1. OwnInv => ValuesAreOwn
  BY DEF OwnInv, ResultsOwn, ResultOf, ResultIsRight, ValuesAreOwn, CutString
<1> QED
  BY <1>1, OwnInvariance, PTL

\* And when every read of such a collection succeeded, each supported tag has its one row,
\* which holds its value in the column its type says (_do_collect, BaseProcessor.process).
THEOREM CompleteCollectionsMissNothing == Spec => []NothingMissing
<1>1. OwnInv => NothingMissing
  BY DEF OwnInv, ResultsOwn, ResultOf, ResultIsRight, NothingMissing, HasItsValue
<1> QED
  BY <1>1, OwnInvariance, PTL
=============================================================================
