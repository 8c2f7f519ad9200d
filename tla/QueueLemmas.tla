---------------------------- MODULE QueueLemmas -----------------------------
(***************************************************************************)
(* Lemmas on waiting queues without duplicates: what appending at the end, *)
(* taking the head and removing somebody from the middle do to them.       *)
(***************************************************************************)
EXTENDS
  SequencesExt, SequenceTheorems, FiniteSetTheorems, WellFoundedInduction, Integers, TLAPS

\* Whether x waits in s, and whether nobody waits in it twice.
Queued(s, x) == \E i \in 1 .. Len(s) : s[i] = x
Distinct(s) == \A i, j \in 1 .. Len(s) : s[i] = s[j] => i = j

\* An empty queue has nobody in it.
LEMMA EmptyQueue ==
  /\ Distinct(<<>>)
  /\ \A x : ~Queued(<<>>, x)
BY DEF Distinct, Queued

\* A queue that nobody waits in is empty.
LEMMA NobodyQueued ==
  ASSUME NEW S, NEW s \in Seq(S), \A x \in S : ~Queued(s, x)
  PROVE  s = <<>>
<1> SUFFICES ASSUME s # <<>>  PROVE FALSE
  OBVIOUS
<1>1. Head(s) \in S /\ Len(s) \in Nat \ {0}
  BY EmptySeq, HeadTailProperties
<1> QED
  BY <1>1 DEF Queued

\* Whoever queues stands at the end, behind all that queued before.
LEMMA AppendQueue ==
  ASSUME NEW S, NEW s \in Seq(S), NEW x \in S, Distinct(s), ~Queued(s, x)
  PROVE  /\ Append(s, x) \in Seq(S)
         /\ Append(s, x) # <<>>
         /\ Distinct(Append(s, x))
         /\ \A y : Queued(Append(s, x), y) <=> Queued(s, y) \/ y = x
         /\ s # <<>> => Append(s, x)[1] = s[1]
<1>1. /\ Append(s, x) \in Seq(S)
      /\ Append(s, x) # <<>>
      /\ Len(Append(s, x)) = Len(s) + 1
      /\ \A i \in 1 .. Len(s) : Append(s, x)[i] = s[i]
      /\ Append(s, x)[Len(s) + 1] = x
  BY AppendProperties
<1>2. Len(s) \in Nat
  BY LenProperties
<1>3. Distinct(Append(s, x))
  BY <1>1, <1>2 DEF Distinct, Queued
<1>4. \A y : Queued(Append(s, x), y) <=> Queued(s, y) \/ y = x
  BY <1>1, <1>2 DEF Queued
<1>5. s # <<>> => Append(s, x)[1] = s[1]
  BY <1>1, EmptySeq
<1> QED
  BY <1>1, <1>3, <1>4, <1>5

\* When the first one leaves, the others stay in their order.
LEMMA TailQueue ==
  ASSUME NEW S, NEW s \in Seq(S), s # <<>>, Distinct(s)
  PROVE  /\ Tail(s) \in Seq(S)
         /\ Head(s) \in S /\ Head(s) = s[1]
         /\ Queued(s, s[1])
         /\ Distinct(Tail(s))
         /\ \A y : Queued(Tail(s), y) <=> Queued(s, y) /\ y # s[1]
<1>1. /\ Head(s) \in S
      /\ Tail(s) \in Seq(S)
      /\ Len(Tail(s)) = Len(s) - 1
      /\ \A i \in 1 .. Len(Tail(s)) : Tail(s)[i] = s[i + 1]
  BY HeadTailProperties
<1>2. Len(s) \in Nat \ {0}
  BY EmptySeq, LenProperties
<1>3. Head(s) = s[1]
  BY <1>2
<1>4. Distinct(Tail(s))
  <2> SUFFICES ASSUME NEW i \in 1 .. Len(Tail(s)), NEW j \in 1 .. Len(Tail(s)),
                      Tail(s)[i] = Tail(s)[j]
               PROVE  i = j
    BY DEF Distinct
  <2> QED
    BY <1>1, <1>2 DEF Distinct
<1>5. ASSUME NEW y
      PROVE  Queued(Tail(s), y) <=> Queued(s, y) /\ y # s[1]
  <2>1. ASSUME Queued(Tail(s), y)  PROVE Queued(s, y) /\ y # s[1]
    BY <2>1, <1>1, <1>2 DEF Queued, Distinct
  <2>2. ASSUME Queued(s, y), y # s[1]  PROVE Queued(Tail(s), y)
    <3>1. PICK i \in 1 .. Len(s) : s[i] = y
      BY <2>2 DEF Queued
    <3>2. i - 1 \in 1 .. Len(Tail(s)) /\ Tail(s)[i - 1] = s[i]
      BY <3>1, <2>2, <1>1, <1>2
    <3> QED
      BY <3>1, <3>2 DEF Queued
  <2> QED
    BY <2>1, <2>2
<1>6. Queued(s, s[1])
  BY <1>2 DEF Queued
<1> QED
  BY <1>1, <1>3, <1>4, <1>5, <1>6

\* Where RemoveFirst cuts.
LEMMA Position ==
  ASSUME NEW S, NEW s \in Seq(S), Distinct(s), NEW k \in 1 .. Len(s)
  PROVE  RemoveFirst(s, s[k]) = SubSeq(s, 1, k - 1) \o SubSeq(s, k + 1, Len(s))
<1>1. {i \in 1 .. Len(s) : s[i] = s[k]} = {k}
  BY DEF Distinct
<1>2. SelectInSeq(s, LAMBDA v : v = s[k]) = k
  BY <1>1 DEF SelectInSeq, Min
<1> QED
  BY <1>2 DEF RemoveFirst, RemoveAt

\* Who gives up waiting is gone, and the others stay in their order.
LEMMA RemoveQueue ==
  ASSUME NEW S, NEW s \in Seq(S), Distinct(s), NEW x
  PROVE  /\ RemoveFirst(s, x) \in Seq(S)
         /\ Distinct(RemoveFirst(s, x))
         /\ \A y : Queued(RemoveFirst(s, x), y) <=> Queued(s, y) /\ y # x
         /\ s # <<>> /\ x # s[1] =>
              RemoveFirst(s, x) # <<>> /\ RemoveFirst(s, x)[1] = s[1]
<1>1. Len(s) \in Nat /\ \A i \in 1 .. Len(s) : s[i] \in S
  BY LenProperties, ElementOfSeq
<1>2. CASE ~Queued(s, x)
  <2>1. RemoveFirst(s, x) = s
    BY <1>2 DEF RemoveFirst, Queued
  <2> QED
    BY <2>1, <1>2
<1>3. CASE Queued(s, x)
  <2>1. PICK k \in 1 .. Len(s) : s[k] = x
    BY <1>3 DEF Queued
  <2> DEFINE a == SubSeq(s, 1, k - 1)
             b == SubSeq(s, k + 1, Len(s))
             r == a \o b
  <2>2. RemoveFirst(s, x) = r
    BY <2>1, Position
  <2>3. /\ a \in Seq(S) /\ Len(a) = k - 1
        /\ \A i \in 1 .. k - 1 : a[i] = s[i]
    BY <1>1, <2>1, SubSeqProperties
  <2>4. /\ b \in Seq(S) /\ Len(b) = Len(s) - k
        /\ \A i \in 1 .. Len(s) - k : b[i] = s[k + i]
    <3>1. \A i \in k + 1 .. Len(s) : s[i] \in S
      BY <1>1, <2>1
    <3>2. /\ b \in Seq(S)
          /\ Len(b) = IF k + 1 <= Len(s) THEN Len(s) - (k + 1) + 1 ELSE 0
          /\ \A i \in 1 .. Len(s) - (k + 1) + 1 : b[i] = s[k + 1 + i - 1]
      BY <3>1, <1>1, <2>1, SubSeqProperties
    <3> QED
      BY <3>2, <1>1, <2>1
  <2> HIDE DEF a, b
  <2>5. /\ r \in Seq(S) /\ Len(r) = Len(s) - 1
        /\ \A i \in 1 .. Len(s) - 1 : r[i] = IF i < k THEN s[i] ELSE s[i + 1]
    <3>1. /\ r \in Seq(S)
          /\ Len(r) = Len(a) + Len(b)
          /\ \A i \in 1 .. Len(a) + Len(b) :
               r[i] = IF i <= Len(a) THEN a[i] ELSE b[i - Len(a)]
      BY <2>3, <2>4, ConcatProperties
    <3> HIDE DEF r
    <3>2. Len(r) = Len(s) - 1
      BY <3>1, <2>3, <2>4, <1>1, <2>1
    <3>3. ASSUME NEW i \in 1 .. Len(s) - 1
          PROVE  r[i] = IF i < k THEN s[i] ELSE s[i + 1]
      <4>1. i \in 1 .. Len(a) + Len(b) /\ Len(a) = k - 1
        BY <2>3, <2>4, <1>1, <2>1
      <4>2. r[i] = IF i <= Len(a) THEN a[i] ELSE b[i - Len(a)]
        BY <4>1, <3>1
      <4>3. CASE i < k
        BY <4>1, <4>2, <4>3, <2>3, <1>1, <2>1
      <4>4. CASE ~(i < k)
        <5>1. r[i] = b[i - (k - 1)] /\ i - (k - 1) \in 1 .. Len(s) - k
          BY <4>1, <4>2, <4>4, <1>1, <2>1
        <5>2. b[i - (k - 1)] = s[k + (i - (k - 1))]
          BY <5>1, <2>4
        <5> QED
          BY <5>1, <5>2, <4>4, <1>1, <2>1
      <4> QED
        BY <4>3, <4>4
    <3> QED
      BY <3>1, <3>2, <3>3
  <2> HIDE DEF r
  <2>6. Distinct(r)
    <3> SUFFICES ASSUME NEW i \in 1 .. Len(r), NEW j \in 1 .. Len(r), r[i] = r[j]
                 PROVE  i = j
      BY DEF Distinct
    <3>1. s[IF i < k THEN i ELSE i + 1] = s[IF j < k THEN j ELSE j + 1]
      BY <2>5, <1>1, <2>1
    <3> QED
      BY <3>1, <2>5, <1>1, <2>1 DEF Distinct
  <2>7. ASSUME NEW y, Queued(r, y)  PROVE Queued(s, y) /\ y # x
    <3>1. PICK i \in 1 .. Len(r) : r[i] = y
      BY <2>7 DEF Queued
    <3>2. CASE i < k
      BY <3>1, <3>2, <2>5, <1>1, <2>1 DEF Distinct, Queued
    <3>3. CASE ~(i < k)
      BY <3>1, <3>3, <2>5, <1>1, <2>1 DEF Distinct, Queued
    <3> QED
      BY <3>2, <3>3
  <2>8. ASSUME NEW y, Queued(s, y), y # x  PROVE Queued(r, y)
    <3>1. PICK i \in 1 .. Len(s) : s[i] = y
      BY <2>8 DEF Queued
    <3>2. CASE i < k
      <4>1. i \in 1 .. Len(r) /\ r[i] = y
        BY <3>1, <3>2, <2>5, <1>1, <2>1
      <4> QED
        BY <4>1 DEF Queued
    <3>3. CASE ~(i < k)
      <4>1. i - 1 \in 1 .. Len(r) /\ r[i - 1] = y
        BY <3>1, <3>3, <2>8, <2>5, <1>1, <2>1
      <4> QED
        BY <4>1 DEF Queued
    <3> QED
      BY <3>2, <3>3
  <2>9. s # <<>> /\ x # s[1] => r # <<>> /\ r[1] = s[1]
    <3> SUFFICES ASSUME x # s[1]  PROVE r # <<>> /\ r[1] = s[1]
      OBVIOUS
    <3>1. k > 1 /\ Len(r) > 0 /\ r[1] = s[1]
      BY <2>5, <1>1, <2>1
    <3> QED
      BY <3>1, EmptySeq
  <2> QED
    BY <2>2, <2>5, <2>6, <2>7, <2>8, <2>9
<1> QED
  BY <1>2, <1>3

\* What is in a sequence after an element has been appended, wanted twice or not.
LEMMA AppendElements ==
  ASSUME NEW S, NEW s \in Seq(S), NEW x \in S
  PROVE  /\ Append(s, x) \in Seq(S)
         /\ Append(s, x) # <<>>
         /\ \A y : Queued(Append(s, x), y) <=> Queued(s, y) \/ y = x
<1>1. /\ Append(s, x) \in Seq(S)
      /\ Append(s, x) # <<>>
      /\ Len(Append(s, x)) = Len(s) + 1
      /\ \A i \in 1 .. Len(s) : Append(s, x)[i] = s[i]
      /\ Append(s, x)[Len(s) + 1] = x
  BY AppendProperties
<1>2. Len(s) \in Nat
  BY LenProperties
<1> QED
  BY <1>1, <1>2 DEF Queued

\* What is in a concatenation.
LEMMA ConcatElements ==
  ASSUME NEW S, NEW s \in Seq(S), NEW t \in Seq(S)
  PROVE  /\ s \o t \in Seq(S) /\ Len(s \o t) = Len(s) + Len(t)
         /\ \A y : Queued(s \o t, y) <=> Queued(s, y) \/ Queued(t, y)
<1> DEFINE r == s \o t
<1>1. /\ r \in Seq(S) /\ Len(r) = Len(s) + Len(t)
      /\ \A i \in 1 .. Len(s) + Len(t) : r[i] = IF i <= Len(s) THEN s[i] ELSE t[i - Len(s)]
  BY ConcatProperties
<1>2. Len(s) \in Nat /\ Len(t) \in Nat
  BY LenProperties
<1> HIDE DEF r
<1>3. ASSUME NEW y, Queued(r, y)  PROVE Queued(s, y) \/ Queued(t, y)
  <2>1. PICK i \in 1 .. Len(r) : r[i] = y
    BY <1>3 DEF Queued
  <2>2. CASE i <= Len(s)
    BY <2>1, <2>2, <1>1, <1>2 DEF Queued
  <2>3. CASE ~(i <= Len(s))
    <3>1. i - Len(s) \in 1 .. Len(t) /\ t[i - Len(s)] = y
      BY <2>1, <2>3, <1>1, <1>2
    <3> QED
      BY <3>1 DEF Queued
  <2> QED
    BY <2>2, <2>3
<1>4. ASSUME NEW y, Queued(s, y)  PROVE Queued(r, y)
  <2>1. PICK i \in 1 .. Len(s) : s[i] = y
    BY <1>4 DEF Queued
  <2>2. i \in 1 .. Len(r) /\ r[i] = y
    BY <2>1, <1>1, <1>2
  <2> QED
    BY <2>2 DEF Queued
<1>5. ASSUME NEW y, Queued(t, y)  PROVE Queued(r, y)
  <2>1. PICK i \in 1 .. Len(t) : t[i] = y
    BY <1>5 DEF Queued
  <2>2. Len(s) + i \in 1 .. Len(r) /\ r[Len(s) + i] = y
    <3>1. /\ Len(s) + i \in 1 .. Len(s) + Len(t) /\ ~(Len(s) + i <= Len(s))
          /\ Len(s) + i - Len(s) = i
      BY <1>2, <2>1
    <3> QED
      BY <3>1, <2>1, <1>1
  <2> QED
    BY <2>2 DEF Queued
<1> QED
  BY <1>1, <1>3, <1>4, <1>5 DEF r

\* One queue behind another.
LEMMA ConcatQueue ==
  ASSUME NEW S, NEW s \in Seq(S), NEW t \in Seq(S), Distinct(s), Distinct(t),
         \A x \in S : ~(Queued(s, x) /\ Queued(t, x))
  PROVE  /\ s \o t \in Seq(S)
         /\ Distinct(s \o t)
         /\ \A y : Queued(s \o t, y) <=> Queued(s, y) \/ Queued(t, y)
<1> DEFINE r == s \o t
<1>1. /\ r \in Seq(S) /\ Len(r) = Len(s) + Len(t)
      /\ \A i \in 1 .. Len(s) + Len(t) : r[i] = IF i <= Len(s) THEN s[i] ELSE t[i - Len(s)]
  BY ConcatProperties
<1>2. Len(s) \in Nat /\ Len(t) \in Nat
  BY LenProperties
<1> HIDE DEF r
<1>3. \A i \in 1 .. Len(s) : s[i] \in S /\ Queued(s, s[i])
  BY ElementOfSeq DEF Queued
<1>4. \A i \in 1 .. Len(t) : t[i] \in S /\ Queued(t, t[i])
  BY ElementOfSeq DEF Queued
<1>5. Distinct(r)
  <2> SUFFICES ASSUME NEW i \in 1 .. Len(r), NEW j \in 1 .. Len(r), r[i] = r[j]
               PROVE  i = j
    BY DEF Distinct
  <2>1. /\ i <= Len(s) => i \in 1 .. Len(s) /\ r[i] = s[i]
        /\ ~(i <= Len(s)) => i - Len(s) \in 1 .. Len(t) /\ r[i] = t[i - Len(s)]
    BY <1>1, <1>2
  <2>2. /\ j <= Len(s) => j \in 1 .. Len(s) /\ r[j] = s[j]
        /\ ~(j <= Len(s)) => j - Len(s) \in 1 .. Len(t) /\ r[j] = t[j - Len(s)]
    BY <1>1, <1>2
  <2>3. CASE i <= Len(s) /\ j <= Len(s)
    BY <2>1, <2>2, <2>3 DEF Distinct
  <2>4. CASE ~(i <= Len(s)) /\ ~(j <= Len(s))
    <3>1. i - Len(s) = j - Len(s)
      BY <2>1, <2>2, <2>4 DEF Distinct
    <3> QED
      BY <3>1, <1>1, <1>2
  <2>5. CASE i <= Len(s) /\ ~(j <= Len(s))
    BY <2>1, <2>2, <2>5, <1>3, <1>4
  <2>6. CASE ~(i <= Len(s)) /\ j <= Len(s)
    BY <2>1, <2>2, <2>6, <1>3, <1>4
  <2> QED
    BY <2>3, <2>4, <2>5, <2>6
<1>6. \A y : Queued(r, y) <=> Queued(s, y) \/ Queued(t, y)
  BY ConcatElements DEF r
<1> QED
  BY <1>1, <1>5, <1>6 DEF r

\* A queue cut in two.
LEMMA CutQueue ==
  ASSUME NEW S, NEW s \in Seq(S), NEW m \in 0 .. Len(s)
  PROVE  LET a == SubSeq(s, 1, m)
             b == SubSeq(s, m + 1, Len(s))
         IN  /\ a \in Seq(S) /\ Len(a) = m
             /\ b \in Seq(S) /\ Len(b) = Len(s) - m
             /\ \A i \in 1 .. m : a[i] = s[i]
             /\ \A i \in 1 .. Len(s) - m : b[i] = s[m + i]
             /\ \A y : Queued(s, y) <=> Queued(a, y) \/ Queued(b, y)
             /\ Distinct(s) =>
                  Distinct(a) /\ Distinct(b) /\ \A y : ~(Queued(a, y) /\ Queued(b, y))
<1> DEFINE a == SubSeq(s, 1, m)
           b == SubSeq(s, m + 1, Len(s))
<1>1. Len(s) \in Nat /\ m \in Nat /\ m <= Len(s) /\ \A i \in 1 .. Len(s) : s[i] \in S
  BY LenProperties, ElementOfSeq
<1>2. /\ a \in Seq(S) /\ Len(a) = m
      /\ \A i \in 1 .. m : a[i] = s[i]
  <2>1. /\ a \in Seq(S)
        /\ Len(a) = IF 1 <= m THEN m - 1 + 1 ELSE 0
        /\ \A i \in 1 .. m - 1 + 1 : a[i] = s[1 + i - 1]
    <3>1. \A i \in 1 .. m : s[i] \in S
      BY <1>1
    <3> QED
      BY <3>1, <1>1, SubSeqProperties
  <2> QED
    BY <2>1, <1>1
<1>3. /\ b \in Seq(S) /\ Len(b) = Len(s) - m
      /\ \A i \in 1 .. Len(s) - m : b[i] = s[m + i]
  <2>1. /\ b \in Seq(S)
        /\ Len(b) = IF m + 1 <= Len(s) THEN Len(s) - (m + 1) + 1 ELSE 0
        /\ \A i \in 1 .. Len(s) - (m + 1) + 1 : b[i] = s[m + 1 + i - 1]
    <3>1. \A i \in m + 1 .. Len(s) : s[i] \in S
      BY <1>1
    <3> QED
      BY <3>1, <1>1, SubSeqProperties
  <2> QED
    BY <2>1, <1>1
<1> HIDE DEF a, b
<1>4. ASSUME NEW y, Queued(s, y)  PROVE Queued(a, y) \/ Queued(b, y)
  <2>1. PICK i \in 1 .. Len(s) : s[i] = y
    BY <1>4 DEF Queued
  <2>2. CASE i <= m
    BY <2>1, <2>2, <1>1, <1>2 DEF Queued
  <2>3. CASE ~(i <= m)
    <3>1. i - m \in 1 .. Len(b) /\ m + (i - m) = i
      BY <2>1, <2>3, <1>1, <1>3
    <3>2. b[i - m] = y
      BY <2>1, <3>1, <1>1, <1>3
    <3> QED
      BY <3>1, <3>2 DEF Queued
  <2> QED
    BY <2>2, <2>3
<1>5. \A y : Queued(a, y) => Queued(s, y)
  BY <1>1, <1>2 DEF Queued
<1>6. ASSUME NEW y, Queued(b, y)  PROVE Queued(s, y)
  <2>1. PICK i \in 1 .. Len(s) - m : b[i] = y
    BY <1>6, <1>3 DEF Queued
  <2>2. m + i \in 1 .. Len(s) /\ s[m + i] = y
    BY <2>1, <1>1, <1>3
  <2> QED
    BY <2>2 DEF Queued
<1>7. ASSUME Distinct(s)
      PROVE  Distinct(a) /\ Distinct(b) /\ \A y : ~(Queued(a, y) /\ Queued(b, y))
  <2>1. Distinct(a)
    BY <1>1, <1>2, <1>7 DEF Distinct
  <2>2. Distinct(b)
    <3> SUFFICES ASSUME NEW i \in 1 .. Len(s) - m, NEW j \in 1 .. Len(s) - m, b[i] = b[j]
                 PROVE  i = j
      BY <1>3 DEF Distinct
    <3>1. /\ m + i \in 1 .. Len(s) /\ m + j \in 1 .. Len(s)
          /\ s[m + i] = s[m + j]
      BY <1>1, <1>3
    <3>2. m + i = m + j
      BY <3>1, <1>7 DEF Distinct
    <3> QED
      BY <3>2, <1>1
  <2>3. ASSUME NEW y, Queued(a, y), Queued(b, y)  PROVE FALSE
    <3>1. PICK i \in 1 .. m : a[i] = y
      BY <2>3, <1>2 DEF Queued
    <3>2. PICK j \in 1 .. Len(s) - m : b[j] = y
      BY <2>3, <1>3 DEF Queued
    <3>3. /\ i \in 1 .. Len(s) /\ m + j \in 1 .. Len(s) /\ i # m + j
          /\ s[i] = s[m + j]
      BY <3>1, <3>2, <1>1, <1>2, <1>3
    <3> QED
      BY <3>3, <1>7 DEF Distinct
  <2> QED
    BY <2>1, <2>2, <2>3
<1> QED
  BY <1>2, <1>3, <1>4, <1>5, <1>6, <1>7 DEF a, b
-----------------------------------------------------------------------------
(* The same about the set of those who wait.                               *)

LEMMA Members ==
  ASSUME NEW S, NEW s \in Seq(S)
  PROVE  /\ \A x : x \in ToSet(s) <=> Queued(s, x)
         /\ ToSet(s) \subseteq S
<1>1. DOMAIN s = 1 .. Len(s) /\ \A i \in 1 .. Len(s) : s[i] \in S
  BY LenProperties, ElementOfSeq
<1> QED
  BY <1>1 DEF ToSet, Queued

LEMMA NoMembers ==
  /\ ToSet(<<>>) = {} /\ Distinct(<<>>) /\ Len(<<>>) = 0
  /\ \A S : <<>> \in Seq(S)
<1>1. \A S : <<>> \in Seq(S) /\ Len(<<>>) = 0
  BY EmptySeq
<1>2. ToSet(<<>>) = {}
  BY <1>1, EmptyQueue, Members
<1> QED
  BY <1>1, <1>2, EmptyQueue

LEMMA OneMember ==
  ASSUME NEW S, NEW x \in S
  PROVE  <<x>> \in Seq(S) /\ Len(<<x>>) = 1 /\ <<x>>[1] = x /\ ToSet(<<x>>) = {x} /\ Distinct(<<x>>)
<1>1. <<x>> \in Seq(S) /\ Len(<<x>>) = 1 /\ DOMAIN <<x>> = {1} /\ <<x>>[1] = x
  OBVIOUS
<1> QED
  BY <1>1 DEF ToSet, Distinct

LEMMA MembersOfBoth ==
  ASSUME NEW S, NEW s \in Seq(S), NEW t \in Seq(S)
  PROVE  /\ s \o t \in Seq(S) /\ Len(s \o t) = Len(s) + Len(t)
         /\ ToSet(s \o t) = ToSet(s) \cup ToSet(t)
         /\ Distinct(s) /\ Distinct(t) /\ ToSet(s) \cap ToSet(t) = {}
              => Distinct(s \o t)
<1>1. /\ s \o t \in Seq(S) /\ Len(s \o t) = Len(s) + Len(t)
      /\ \A y : Queued(s \o t, y) <=> Queued(s, y) \/ Queued(t, y)
  BY ConcatElements
<1>2. \A y : /\ y \in ToSet(s) <=> Queued(s, y)
             /\ y \in ToSet(t) <=> Queued(t, y)
             /\ y \in ToSet(s \o t) <=> Queued(s \o t, y)
  BY <1>1, Members
<1>3. ASSUME Distinct(s), Distinct(t), ToSet(s) \cap ToSet(t) = {}
      PROVE  Distinct(s \o t)
  BY <1>2, <1>3, ConcatQueue
<1> QED
  BY <1>1, <1>2, <1>3

LEMMA MembersOfParts ==
  ASSUME NEW S, NEW s \in Seq(S), NEW m \in 0 .. Len(s)
  PROVE  LET a == SubSeq(s, 1, m)
             b == SubSeq(s, m + 1, Len(s))
         IN  /\ a \in Seq(S) /\ Len(a) = m
             /\ b \in Seq(S) /\ Len(b) = Len(s) - m
             /\ ToSet(s) = ToSet(a) \cup ToSet(b)
             /\ Distinct(s) => /\ Distinct(a) /\ Distinct(b)
                               /\ ToSet(a) \cap ToSet(b) = {}
<1> DEFINE a == SubSeq(s, 1, m)
           b == SubSeq(s, m + 1, Len(s))
<1>1. /\ a \in Seq(S) /\ Len(a) = m
      /\ b \in Seq(S) /\ Len(b) = Len(s) - m
      /\ \A y : Queued(s, y) <=> Queued(a, y) \/ Queued(b, y)
      /\ Distinct(s) => Distinct(a) /\ Distinct(b) /\ \A y : ~(Queued(a, y) /\ Queued(b, y))
  BY CutQueue
<1> HIDE DEF a, b
<1>2. \A y : /\ y \in ToSet(s) <=> Queued(s, y)
             /\ y \in ToSet(a) <=> Queued(a, y)
             /\ y \in ToSet(b) <=> Queued(b, y)
  BY <1>1, Members
<1> QED
  BY <1>1, <1>2 DEF a, b

\* No more different ones wait than there are places, and just as many if nobody waits twice.
LEMMA MemberCount ==
  ASSUME NEW S, NEW s \in Seq(S)
  PROVE  /\ IsFiniteSet(ToSet(s)) /\ Cardinality(ToSet(s)) <= Len(s)
         /\ Distinct(s) => Cardinality(ToSet(s)) = Len(s)
<1> DEFINE D == 1 .. Len(s)
           T == ToSet(s)
<1>1. Len(s) \in Nat /\ D = DOMAIN s /\ s \in [D -> S]
  BY LenProperties
<1>2. T = {s[i] : i \in D}
  BY <1>1 DEF ToSet
<1>3. s \in [D -> T]
  BY <1>1, <1>2
<1>4. s \in Surjection(D, T)
  BY <1>2, <1>3 DEF Surjection
<1>5. IsFiniteSet(D) /\ Cardinality(D) = Len(s)
  <2>1. 1 \in Int /\ Len(s) \in Int
    BY <1>1
  <2>2. /\ IsFiniteSet(D)
        /\ Cardinality(D) = IF 1 > Len(s) THEN 0 ELSE Len(s) - 1 + 1
    BY <2>1, FS_Interval
  <2> QED
    BY <1>1, <2>2
<1>6. Distinct(s) => s \in Injection(D, T)
  BY <1>3 DEF Distinct, Injection, IsInjective
<1> HIDE DEF D, T
<1>7. /\ IsFiniteSet(T) /\ Cardinality(T) <= Cardinality(D)
      /\ Cardinality(T) = Cardinality(D) <=> s \in Injection(D, T)
  BY <1>4, <1>5, FS_Surjection
<1> QED
  BY <1>5, <1>6, <1>7 DEF T

\* A queue that loses e places at one end loses at most e of those who wait in it.
LEMMA TrimmedQueue ==
  ASSUME NEW S, NEW s \in Seq(S), NEW e \in 0 .. Len(s), NEW t,
         t = SubSeq(s, e + 1, Len(s)) \/ t = SubSeq(s, 1, Len(s) - e)
  PROVE  /\ t \in Seq(S) /\ Len(t) = Len(s) - e
         /\ ToSet(t) \subseteq ToSet(s)
         /\ Distinct(s) => Distinct(t)
         /\ IsFiniteSet(ToSet(s) \ ToSet(t)) /\ Cardinality(ToSet(s) \ ToSet(t)) <= e
<1>1. Len(s) \in Nat
  BY LenProperties
<1> DEFINE m == Len(s) - e
<1>2. m \in 0 .. Len(s) /\ Len(s) - m = e
  BY <1>1
<1>3. PICK u \in Seq(S) :
        /\ t \in Seq(S) /\ Len(t) = Len(s) - e
        /\ Len(u) = e
        /\ ToSet(s) = ToSet(t) \cup ToSet(u)
        /\ Distinct(s) => Distinct(t)
  <2>1. CASE t = SubSeq(s, e + 1, Len(s))
    <3>1. /\ SubSeq(s, 1, e) \in Seq(S) /\ Len(SubSeq(s, 1, e)) = e
          /\ t \in Seq(S) /\ Len(t) = Len(s) - e
          /\ ToSet(s) = ToSet(SubSeq(s, 1, e)) \cup ToSet(t)
          /\ Distinct(s) => Distinct(t)
      BY <2>1, MembersOfParts
    <3> QED
      BY <3>1
  <2>2. CASE t = SubSeq(s, 1, Len(s) - e)
    <3> HIDE DEF m
    <3>1. t = SubSeq(s, 1, m)
      BY <2>2 DEF m
    <3>2. /\ SubSeq(s, m + 1, Len(s)) \in Seq(S) /\ Len(SubSeq(s, m + 1, Len(s))) = e
          /\ t \in Seq(S) /\ Len(t) = m
          /\ ToSet(s) = ToSet(t) \cup ToSet(SubSeq(s, m + 1, Len(s)))
          /\ Distinct(s) => Distinct(t)
      BY <3>1, <1>2, MembersOfParts
    <3> QED
      BY <3>2 DEF m
  <2> QED
    BY <2>1, <2>2
<1>4. IsFiniteSet(ToSet(u)) /\ Cardinality(ToSet(u)) <= e
  BY <1>3, MemberCount
<1>5. ToSet(s) \ ToSet(t) \in SUBSET ToSet(u)
  BY <1>3
<1>6. /\ IsFiniteSet(ToSet(s) \ ToSet(t))
      /\ Cardinality(ToSet(s) \ ToSet(t)) <= Cardinality(ToSet(u))
  BY <1>4, <1>5, FS_Subset
<1>7. Cardinality(ToSet(s) \ ToSet(t)) \in Nat /\ Cardinality(ToSet(u)) \in Nat
  BY <1>4, <1>6, FS_CardinalityType
<1> QED
  BY <1>1, <1>3, <1>4, <1>6, <1>7
-----------------------------------------------------------------------------
(* Sequences of numbers in ascending order.                                *)

Sorted(s) == \A i, j \in 1 .. Len(s) : i < j => s[i] < s[j]
Below(S, T) == \A x \in S, y \in T : x < y

\* In a sorted sequence nothing occurs twice.
LEMMA SortedIsDistinct ==
  ASSUME NEW S, S \subseteq Int, NEW s \in Seq(S), Sorted(s)
  PROVE  Distinct(s)
<1>1. Len(s) \in Nat /\ \A i \in 1 .. Len(s) : s[i] \in Int
  BY ElementOfSeq, LenProperties
<1> SUFFICES ASSUME NEW i \in 1 .. Len(s), NEW j \in 1 .. Len(s), s[i] = s[j]
             PROVE  i = j
  BY DEF Distinct
<1>2. ~(i < j) /\ ~(j < i)
  BY <1>1 DEF Sorted
<1> QED
  BY <1>1, <1>2

\* A sorted sequence cut in two.
LEMMA SortedParts ==
  ASSUME NEW S, S \subseteq Int, NEW s \in Seq(S), Sorted(s), NEW m \in 0 .. Len(s)
  PROVE  LET a == SubSeq(s, 1, m)
             b == SubSeq(s, m + 1, Len(s))
         IN  Sorted(a) /\ Sorted(b) /\ Below(ToSet(a), ToSet(b))
<1> DEFINE a == SubSeq(s, 1, m)
           b == SubSeq(s, m + 1, Len(s))
<1>1. /\ a \in Seq(S) /\ Len(a) = m
      /\ b \in Seq(S) /\ Len(b) = Len(s) - m
      /\ \A i \in 1 .. m : a[i] = s[i]
      /\ \A i \in 1 .. Len(s) - m : b[i] = s[m + i]
  BY CutQueue
<1>2. Len(s) \in Nat /\ m \in Nat /\ m <= Len(s)
  BY LenProperties
<1> HIDE DEF a, b
<1>3. Sorted(a)
  BY <1>1, <1>2 DEF Sorted
<1>4. Sorted(b)
  <2> SUFFICES ASSUME NEW i \in 1 .. Len(s) - m, NEW j \in 1 .. Len(s) - m, i < j
               PROVE  b[i] < b[j]
    BY <1>1 DEF Sorted
  <2>1. m + i \in 1 .. Len(s) /\ m + j \in 1 .. Len(s) /\ m + i < m + j
    BY <1>2
  <2>2. s[m + i] < s[m + j]
    BY <2>1 DEF Sorted
  <2> QED
    BY <2>2, <1>1
<1>5. Below(ToSet(a), ToSet(b))
  <2> SUFFICES ASSUME NEW x \in ToSet(a), NEW y \in ToSet(b)  PROVE x < y
    BY DEF Below
  <2>1. Queued(a, x) /\ Queued(b, y)
    BY <1>1, Members
  <2>2. PICK i \in 1 .. m : x = s[i]
    BY <2>1, <1>1 DEF Queued
  <2>3. PICK j \in 1 .. Len(s) - m : y = s[m + j]
    BY <2>1, <1>1 DEF Queued
  <2>4. i \in 1 .. Len(s) /\ m + j \in 1 .. Len(s) /\ i < m + j
    BY <1>2
  <2> QED
    BY <2>2, <2>3, <2>4 DEF Sorted
<1> QED
  BY <1>3, <1>4, <1>5 DEF a, b

\* One sorted sequence behind another.
LEMMA SortedBoth ==
  ASSUME NEW S, S \subseteq Int, NEW s \in Seq(S), NEW t \in Seq(S), Sorted(s), Sorted(t),
         Below(ToSet(s), ToSet(t))
  PROVE  Sorted(s \o t)
<1> DEFINE r == s \o t
<1>1. /\ Len(r) = Len(s) + Len(t)
      /\ \A i \in 1 .. Len(s) + Len(t) : r[i] = IF i <= Len(s) THEN s[i] ELSE t[i - Len(s)]
  BY ConcatProperties
<1>2. Len(s) \in Nat /\ Len(t) \in Nat
  BY LenProperties
<1>3. /\ \A i \in 1 .. Len(s) : s[i] \in ToSet(s)
      /\ \A i \in 1 .. Len(t) : t[i] \in ToSet(t)
  BY Members DEF Queued
<1> HIDE DEF r
<1> SUFFICES ASSUME NEW i \in 1 .. Len(r), NEW j \in 1 .. Len(r), i < j  PROVE r[i] < r[j]
  BY DEF Sorted, r
<1>4. CASE j <= Len(s)
  <2>1. r[i] = s[i] /\ r[j] = s[j] /\ i \in 1 .. Len(s) /\ j \in 1 .. Len(s)
    BY <1>1, <1>2, <1>4
  <2> QED
    BY <2>1 DEF Sorted
<1>5. CASE i > Len(s)
  <2>1. /\ r[i] = t[i - Len(s)] /\ r[j] = t[j - Len(s)]
        /\ i - Len(s) \in 1 .. Len(t) /\ j - Len(s) \in 1 .. Len(t)
        /\ i - Len(s) < j - Len(s)
    BY <1>1, <1>2, <1>5
  <2> QED
    BY <2>1 DEF Sorted
<1>6. CASE i <= Len(s) /\ j > Len(s)
  <2>1. /\ r[i] = s[i] /\ r[j] = t[j - Len(s)]
        /\ i \in 1 .. Len(s) /\ j - Len(s) \in 1 .. Len(t)
    BY <1>1, <1>2, <1>6
  <2> QED
    BY <2>1, <1>3 DEF Below
<1> QED
  BY <1>4, <1>5, <1>6, <1>1, <1>2

\* The empty sequence is in order with whatever is behind it.
LEMMA NothingBefore ==
  ASSUME NEW S, NEW s \in Seq(S)
  PROVE  Sorted(<<>>) /\ Below(ToSet(<<>>), ToSet(s))
BY NoMembers DEF Sorted, Below
-----------------------------------------------------------------------------
(* The least and the greatest of some numbers.                             *)

LEMMA Least ==
  ASSUME NEW T, T \subseteq Nat, T # {}
  PROVE  \E x \in T : \A y \in T : x <= y
<1> DEFINE R == OpToRel(<, Nat)
<1>1. IsWellFoundedOn(R, Nat)
  BY NatLessThanWellFounded
<1>2. PICK x \in T : \A y \in T : <<y, x>> \notin R
  <2> HIDE DEF R
  <2> QED
    BY <1>1, WFMin
<1>3. ASSUME NEW y \in T PROVE x <= y
  <2>1. <<y, x>> \notin R
    BY <1>2
  <2>2. x \in Nat /\ y \in Nat
    OBVIOUS
  <2>3. y < x => <<y, x>> \in R
    BY <2>2 DEF OpToRel
  <2> HIDE DEF R
  <2> QED
    BY <2>1, <2>2, <2>3
<1> QED
  BY <1>3

LEMMA Greatest ==
  ASSUME NEW n \in Nat, NEW S, S \subseteq 0 .. n, S # {}
  PROVE  \E x \in S : \A y \in S : y <= x
<1> DEFINE T == {n - x : x \in S}
<1>1. T \subseteq Nat /\ T # {}
  <2>1. \A x \in S : x \in Nat /\ n - x \in Nat
    OBVIOUS
  <2> QED
    BY <2>1
<1>2. PICK m \in T : \A k \in T : m <= k
  BY <1>1, Least
<1>3. n - m \in S
  BY <1>2
<1>4. \A y \in S : y <= n - m
  BY <1>2
<1> QED
  BY <1>3, <1>4
=============================================================================
