------------------------------ MODULE ReadPlan ------------------------------
(***************************************************************************)
(* How a collector turns the tags of a collection group into read          *)
(* requests: the loop of _create_read_groups, which the Modbus, MC, FEnet  *)
(* and S7 collectors share.  The tags of one area (register type, device,  *)
(* data block) are taken by rising address; the next one extends the       *)
(* current read group when the gap and the size allow it and opens a new   *)
(* read group otherwise.  A step is one iteration of that loop.            *)
(*                                                                         *)
(* A rule gives an area its limits.  Its unit is 1, but for MC bit devices,*)
(* which are addressed in bits and read in words.                          *)
(***************************************************************************)
EXTENDS Integers

CONSTANTS
  Areas,    \* register types, devices or data blocks of the device
  Rules,    \* the functions from areas to limits that planning can meet
  TagSets   \* the sets of parsed tags that planning can meet

RuleOf == [gap : Int, limit : Nat, unit : Nat \ {0}]

ASSUME ReadPlanAssumption ==
  /\ Rules \subseteq [Areas -> RuleOf]
  /\ \A S \in TagSets : \A t \in S :
       /\ t.area \in Areas
       /\ t.address \in Nat
       /\ t.size \in Nat \ {0}

VARIABLES
  rule,      \* max_gap, max_points and the unit of each area
  asked,     \* the tags to be read, each with area, address and size
  pending,   \* those the loop has not reached
  current,   \* current_group, in a set that is empty before the first one
  closed     \* groups: the read groups that are finished

planVars == <<rule, asked, pending, current, closed>>

-----------------------------------------------------------------------------
(* Read groups *)

Later(a, b) == IF a > b THEN a ELSE b

\* The units that begin before x, and the unit x lies in.
UnitsUpTo(x, unit) == (x + unit - 1) \div unit
UnitOf(x, unit) == x \div unit

\* register_count, point_count, word_count or byte_count of a range.
Points(start, end, unit) == UnitsUpTo(end, unit) - UnitOf(start, unit)

GroupOf(t) ==
  [area |-> t.area, start |-> t.address, end |-> t.address + t.size, tags |-> {t}]

\* A mistake: a read group ends with its last tag.
AddTagEndsWithIt(g, t) ==
  [area |-> g.area, start |-> g.start,
   end |-> t.address + t.size, tags |-> g.tags \cup {t}]

AddTag(g, t) ==
  [area |-> g.area, start |-> g.start,
   end |-> Later(g.end, t.address + t.size), tags |-> g.tags \cup {t}]

\* A mistake: the size of a read group is tested without the new tag.
JoinsBySizeSoFar(g, t) ==
  /\ UnitOf(t.address, rule[t.area].unit) - UnitsUpTo(g.end, rule[t.area].unit)
       <= rule[t.area].gap
  /\ Points(g.start, g.end, rule[t.area].unit) <= rule[t.area].limit

\* The test of the loop: the gap to the group, and the group's size with the tag.
Joins(g, t) ==
  /\ UnitOf(t.address, rule[t.area].unit) - UnitsUpTo(g.end, rule[t.area].unit)
       <= rule[t.area].gap
  /\ Points(g.start, t.address + t.size, rule[t.area].unit) <= rule[t.area].limit

-----------------------------------------------------------------------------
(* The loop *)

ReadGroups == closed \cup current

Planned == pending = {} /\ current = {}

\* t comes next: the areas one after the other, each by rising address.
IsNext(t) ==
  /\ t \in pending
  /\ \A u \in pending : u.area = t.area => t.address <= u.address
  /\ \A g \in current : \A u \in pending : u.area = g.area => t.area = g.area

Extend(t) ==
  /\ IsNext(t)
  /\ \E g \in current :
       /\ g.area = t.area
       /\ Joins(g, t)
       /\ current' = {AddTag(g, t)}
  /\ pending' = pending \ {t}
  /\ UNCHANGED <<rule, asked, closed>>

Open(t) ==
  /\ IsNext(t)
  /\ \A g \in current : g.area = t.area => ~Joins(g, t)
  /\ closed' = closed \cup current
  /\ current' = {GroupOf(t)}
  /\ pending' = pending \ {t}
  /\ UNCHANGED <<rule, asked>>

Finish ==
  /\ pending = {}
  /\ current # {}
  /\ closed' = closed \cup current
  /\ current' = {}
  /\ UNCHANGED <<rule, asked, pending>>

PlanInit ==
  /\ rule \in Rules
  /\ asked \in TagSets
  /\ pending = asked
  /\ current = {}
  /\ closed = {}

PlanNext == (\E t \in pending : Extend(t) \/ Open(t)) \/ Finish

PlanSpec == PlanInit /\ [][PlanNext]_planVars

-----------------------------------------------------------------------------
(* Properties *)

\* The values the loop's variables take, a read group being of one area.
PlanTypeOK ==
  /\ rule \in [Areas -> RuleOf]
  /\ asked \in TagSets
  /\ pending \subseteq asked
  /\ ReadGroups \subseteq [area : Areas, start : Nat, end : Nat, tags : SUBSET asked]
  /\ \A g, h \in current : g = h

Within(t, g) ==
  /\ t \in g.tags
  /\ g.area = t.area
  /\ g.start <= t.address
  /\ t.address + t.size <= g.end

\* Every tag the loop has passed lies, with all the registers its value needs, inside
\* a read group of its own area: a loop that drops the last group, or ends a group with
\* its last tag instead of its longest, would leave a tag without a value.
PlanCovers == \A t \in asked \ pending : \E g \in ReadGroups : Within(t, g)

\* No request asks for more than the protocol allows, as long as no single tag does: the
\* size is tested with the new tag, and an earlier one may reach further.
WithinLimits ==
  (\A t \in asked :
     Points(t.address, t.address + t.size, rule[t.area].unit) <= rule[t.area].limit)
  => \A g \in ReadGroups : Points(g.start, g.end, rule[g.area].unit) <= rule[g.area].limit
=============================================================================
