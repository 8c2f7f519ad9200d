-------------------------- MODULE BufferUseProofs ---------------------------
(***************************************************************************)
(* The safety of BufferUse for every capacity, batch size, threshold,      *)
(* overflow policy and number of items.                                    *)
(*                                                                         *)
(* The inductive invariant IInv is what the runs check of one step at a    *)
(* time plus the one fact that ties the deque to its producer: nothing in  *)
(* the deque or in the consumer's hands is newer than the last item made,  *)
(* so that a fresh item continues the order.                               *)
(*                                                                         *)
(* The second part is about losses.  Accounting speaks of numbers,         *)
(* LossIsCounted of items; LInv joins them.                                *)
(***************************************************************************)
EXTENDS BufferUse, SequenceTheorems, FiniteSetTheorems, TLAPS

Sorted(s) == \A i, j \in 1 .. Len(s) : i < j => s[i] < s[j]
Below(s, t) == \A i \in 1 .. Len(s), j \in 1 .. Len(t) : s[i] < t[j]
UpTo(s, n) == \A i \in 1 .. Len(s) : s[i] <= n

IInv ==
  /\ TypeOK
  /\ SizeBound
  /\ Accounting
  /\ FifoOrder
  /\ AlarmArmed
  /\ UpTo(buffer, produced)
  /\ UpTo(taken, produced)
-----------------------------------------------------------------------------
(* Sequences of numbers.                                                   *)

LEMMA PartOfSeq ==
  ASSUME NEW s \in Seq(Nat), NEW m \in Nat \ {0}, NEW n \in Nat, n <= Len(s)
  PROVE  /\ SubSeq(s, m, n) \in Seq(Nat)
         /\ Len(SubSeq(s, m, n)) = IF m <= n THEN n - m + 1 ELSE 0
         /\ \A i \in 1 .. Len(SubSeq(s, m, n)) :
              m + i - 1 \in 1 .. n /\ SubSeq(s, m, n)[i] = s[m + i - 1]
<1>1. Len(s) \in Nat
  BY LenProperties
<1>2. \A i \in m .. n : s[i] \in Nat
  BY <1>1, ElementOfSeq
<1>3. /\ SubSeq(s, m, n) \in Seq(Nat)
      /\ Len(SubSeq(s, m, n)) = IF m <= n THEN n - m + 1 ELSE 0
      /\ \A i \in 1 .. n - m + 1 : SubSeq(s, m, n)[i] = s[m + i - 1]
  BY <1>2, SubSeqProperties
<1>4. QED
  BY <1>1, <1>3

LEMMA SortedPart ==
  ASSUME NEW s \in Seq(Nat), Sorted(s),
         NEW m \in Nat \ {0}, NEW n \in Nat, n <= Len(s)
  PROVE  Sorted(SubSeq(s, m, n))
<1> DEFINE t == SubSeq(s, m, n)
<1>1. Len(s) \in Nat /\ Len(t) \in Nat
  BY LenProperties, PartOfSeq
<1>2. \A i \in 1 .. Len(t) : m + i - 1 \in 1 .. Len(s) /\ t[i] = s[m + i - 1]
  BY <1>1, PartOfSeq
<1> SUFFICES ASSUME NEW i \in 1 .. Len(t), NEW j \in 1 .. Len(t), i < j
             PROVE  t[i] < t[j]
  BY DEF Sorted
<1>3. m + i - 1 < m + j - 1
  BY <1>1
<1>4. s[m + i - 1] < s[m + j - 1]
  BY <1>2, <1>3 DEF Sorted
<1>5. QED
  BY <1>2, <1>4

LEMMA UpToPart ==
  ASSUME NEW s \in Seq(Nat), NEW k \in Nat, UpTo(s, k),
         NEW m \in Nat \ {0}, NEW n \in Nat, n <= Len(s)
  PROVE  UpTo(SubSeq(s, m, n), k)
<1> DEFINE t == SubSeq(s, m, n)
<1>1. Len(s) \in Nat /\ Len(t) \in Nat
  BY LenProperties, PartOfSeq
<1>2. \A i \in 1 .. Len(t) : m + i - 1 \in 1 .. Len(s) /\ t[i] = s[m + i - 1]
  BY <1>1, PartOfSeq
<1> SUFFICES ASSUME NEW i \in 1 .. Len(t)
             PROVE  t[i] <= k
  BY DEF UpTo
<1>3. s[m + i - 1] <= k
  BY <1>2 DEF UpTo
<1>4. QED
  BY <1>2, <1>3

LEMMA BelowPart ==
  ASSUME NEW r \in Seq(Nat), NEW s \in Seq(Nat), Below(r, s),
         NEW m \in Nat \ {0}, NEW n \in Nat, n <= Len(s)
  PROVE  Below(r, SubSeq(s, m, n))
<1> DEFINE t == SubSeq(s, m, n)
<1>1. Len(s) \in Nat /\ Len(t) \in Nat
  BY LenProperties, PartOfSeq
<1>2. \A i \in 1 .. Len(t) : m + i - 1 \in 1 .. Len(s) /\ t[i] = s[m + i - 1]
  BY <1>1, PartOfSeq
<1> SUFFICES ASSUME NEW i \in 1 .. Len(r), NEW j \in 1 .. Len(t)
             PROVE  r[i] < t[j]
  BY DEF Below
<1>3. r[i] < s[m + j - 1]
  BY <1>2 DEF Below
<1>4. QED
  BY <1>2, <1>3

LEMMA SortedConcat ==
  ASSUME NEW s \in Seq(Nat), NEW t \in Seq(Nat), Sorted(s), Sorted(t), Below(s, t)
  PROVE  Sorted(s \o t)
<1> DEFINE u == s \o t
<1>1. Len(s) \in Nat /\ Len(t) \in Nat
  BY LenProperties
<1>2. /\ Len(u) = Len(s) + Len(t)
      /\ \A i \in 1 .. Len(s) + Len(t) :
           u[i] = IF i <= Len(s) THEN s[i] ELSE t[i - Len(s)]
  BY ConcatProperties
<1> SUFFICES ASSUME NEW i \in 1 .. Len(u), NEW j \in 1 .. Len(u), i < j
             PROVE  u[i] < u[j]
  BY DEF Sorted
<1> HIDE DEF u
<1>3. CASE j <= Len(s)
  <2>1. u[i] = s[i] /\ u[j] = s[j] /\ i \in 1 .. Len(s) /\ j \in 1 .. Len(s)
    BY <1>1, <1>2, <1>3
  <2>2. QED
    BY <2>1 DEF Sorted
<1>4. CASE i <= Len(s) /\ j > Len(s)
  <2>1. /\ u[i] = s[i] /\ u[j] = t[j - Len(s)]
        /\ i \in 1 .. Len(s) /\ j - Len(s) \in 1 .. Len(t)
    BY <1>1, <1>2, <1>4
  <2>2. QED
    BY <2>1 DEF Below
<1>5. CASE i > Len(s)
  <2>1. /\ u[i] = t[i - Len(s)] /\ u[j] = t[j - Len(s)]
        /\ i - Len(s) \in 1 .. Len(t) /\ j - Len(s) \in 1 .. Len(t)
        /\ i - Len(s) < j - Len(s)
    BY <1>1, <1>2, <1>5
  <2>2. QED
    BY <2>1 DEF Sorted
<1>6. QED
  BY <1>1, <1>2, <1>3, <1>4, <1>5

LEMMA UpToConcat ==
  ASSUME NEW s \in Seq(Nat), NEW t \in Seq(Nat), NEW k \in Nat, UpTo(s, k), UpTo(t, k)
  PROVE  UpTo(s \o t, k)
<1> DEFINE u == s \o t
<1>1. Len(s) \in Nat /\ Len(t) \in Nat
  BY LenProperties
<1>2. /\ Len(u) = Len(s) + Len(t)
      /\ \A i \in 1 .. Len(s) + Len(t) :
           u[i] = IF i <= Len(s) THEN s[i] ELSE t[i - Len(s)]
  BY ConcatProperties
<1> SUFFICES ASSUME NEW i \in 1 .. Len(u)
             PROVE  u[i] <= k
  BY DEF UpTo
<1> HIDE DEF u
<1>3. CASE i <= Len(s)
  <2>1. u[i] = s[i] /\ i \in 1 .. Len(s)
    BY <1>1, <1>2, <1>3
  <2>2. QED
    BY <2>1 DEF UpTo
<1>4. CASE i > Len(s)
  <2>1. u[i] = t[i - Len(s)] /\ i - Len(s) \in 1 .. Len(t)
    BY <1>1, <1>2, <1>4
  <2>2. QED
    BY <2>1 DEF UpTo
<1>5. QED
  BY <1>1, <1>2, <1>3, <1>4

LEMMA BelowConcat ==
  ASSUME NEW r \in Seq(Nat), NEW s \in Seq(Nat), NEW t \in Seq(Nat),
         Below(r, s), Below(r, t)
  PROVE  Below(r, s \o t)
<1> DEFINE u == s \o t
<1>1. Len(s) \in Nat /\ Len(t) \in Nat
  BY LenProperties
<1>2. /\ Len(u) = Len(s) + Len(t)
      /\ \A i \in 1 .. Len(s) + Len(t) :
           u[i] = IF i <= Len(s) THEN s[i] ELSE t[i - Len(s)]
  BY ConcatProperties
<1> SUFFICES ASSUME NEW i \in 1 .. Len(r), NEW j \in 1 .. Len(u)
             PROVE  r[i] < u[j]
  BY DEF Below
<1> HIDE DEF u
<1>3. CASE j <= Len(s)
  <2>1. u[j] = s[j] /\ j \in 1 .. Len(s)
    BY <1>1, <1>2, <1>3
  <2>2. QED
    BY <2>1 DEF Below
<1>4. CASE j > Len(s)
  <2>1. u[j] = t[j - Len(s)] /\ j - Len(s) \in 1 .. Len(t)
    BY <1>1, <1>2, <1>4
  <2>2. QED
    BY <2>1 DEF Below
<1>5. QED
  BY <1>1, <1>2, <1>3, <1>4
-----------------------------------------------------------------------------
(* The operators of DataBuffer.                                            *)

LEMMA ExcessProperties ==
  ASSUME NEW n \in 0 .. MaxSize, NEW k \in Nat
  PROVE  /\ Excess(n, k) \in 0 .. k
         /\ n + k - Excess(n, k) \in 0 .. MaxSize
BY DataBufferAssumption DEF Excess

\* What is left of a sequence that loses e elements at one end.
LEMMA TrimmedProperties ==
  ASSUME NEW s \in Seq(Nat), NEW e \in 0 .. Len(s), NEW t,
         t = SubSeq(s, e + 1, Len(s)) \/ t = SubSeq(s, 1, Len(s) - e)
  PROVE  /\ t \in Seq(Nat)
         /\ Len(t) = Len(s) - e
         /\ Sorted(s) => Sorted(t)
         /\ \A k \in Nat : UpTo(s, k) => UpTo(t, k)
         /\ \A r \in Seq(Nat) : Below(r, s) => Below(r, t)
<1>1. Len(s) \in Nat
  BY LenProperties
<1>2. /\ e + 1 \in Nat \ {0} /\ 1 \in Nat \ {0} /\ Len(s) - e \in Nat
      /\ Len(s) <= Len(s) /\ Len(s) - e <= Len(s)
  BY <1>1
<1>3. CASE t = SubSeq(s, e + 1, Len(s))
  <2>1. Len(t) = IF e + 1 <= Len(s) THEN Len(s) - (e + 1) + 1 ELSE 0
    BY <1>1, <1>2, <1>3, PartOfSeq
  <2>2. t \in Seq(Nat) /\ (Sorted(s) => Sorted(t))
    BY <1>1, <1>2, <1>3, PartOfSeq, SortedPart
  <2>3. \A k \in Nat : UpTo(s, k) => UpTo(t, k)
    BY <1>1, <1>2, <1>3, UpToPart
  <2>4. \A r \in Seq(Nat) : Below(r, s) => Below(r, t)
    BY <1>1, <1>2, <1>3, BelowPart
  <2>5. QED
    BY <1>1, <2>1, <2>2, <2>3, <2>4
<1>4. CASE t = SubSeq(s, 1, Len(s) - e)
  <2>1. Len(t) = IF 1 <= Len(s) - e THEN Len(s) - e - 1 + 1 ELSE 0
    BY <1>1, <1>2, <1>4, PartOfSeq
  <2>2. t \in Seq(Nat) /\ (Sorted(s) => Sorted(t))
    BY <1>1, <1>2, <1>4, PartOfSeq, SortedPart
  <2>3. \A k \in Nat : UpTo(s, k) => UpTo(t, k)
    BY <1>1, <1>2, <1>4, UpToPart
  <2>4. \A r \in Seq(Nat) : Below(r, s) => Below(r, t)
    BY <1>1, <1>2, <1>4, BelowPart
  <2>5. QED
    BY <1>1, <2>1, <2>2, <2>3, <2>4
<1>5. QED
  BY <1>3, <1>4

\* A put keeps the deque's order, if what it adds is in order and newer than
\* all that is there.
LEMMA AfterPutProperties ==
  ASSUME buffer \in Seq(Nat), Len(buffer) \in 0 .. MaxSize,
         NEW items \in Seq(Nat)
  PROVE  /\ AfterPut(items) \in Seq(Nat)
         /\ Len(AfterPut(items))
              = Len(buffer) + Len(items) - Excess(Len(buffer), Len(items))
         /\ Sorted(buffer) /\ Sorted(items) /\ Below(buffer, items)
              => Sorted(AfterPut(items))
         /\ \A k \in Nat : UpTo(buffer, k) /\ UpTo(items, k) => UpTo(AfterPut(items), k)
         /\ \A r \in Seq(Nat) :
              Below(r, buffer) /\ Below(r, items) => Below(r, AfterPut(items))
<1> DEFINE excess == Excess(Len(buffer), Len(items))
           all == buffer \o items
<1>1. Len(items) \in Nat /\ Len(buffer) \in Nat
  BY LenProperties
<1>2. all \in Seq(Nat) /\ Len(all) = Len(buffer) + Len(items)
  BY ConcatProperties
<1>3. excess \in 0 .. Len(items)
  BY <1>1, ExcessProperties
<1>4. \/ AfterPut(items) = SubSeq(all, excess + 1, Len(all))
      \/ AfterPut(items) = SubSeq(all, 1, Len(all) - excess)
  BY DEF AfterPut
<1>5. /\ Sorted(buffer) /\ Sorted(items) /\ Below(buffer, items) => Sorted(all)
      /\ \A k \in Nat : UpTo(buffer, k) /\ UpTo(items, k) => UpTo(all, k)
      /\ \A r \in Seq(Nat) : Below(r, buffer) /\ Below(r, items) => Below(r, all)
  BY SortedConcat, UpToConcat, BelowConcat
<1> HIDE DEF excess, all
<1>6. excess \in 0 .. Len(all)
  BY <1>1, <1>2, <1>3
<1>7. /\ AfterPut(items) \in Seq(Nat)
      /\ Len(AfterPut(items)) = Len(all) - excess
      /\ Sorted(all) => Sorted(AfterPut(items))
      /\ \A k \in Nat : UpTo(all, k) => UpTo(AfterPut(items), k)
      /\ \A r \in Seq(Nat) : Below(r, all) => Below(r, AfterPut(items))
  BY <1>2, <1>4, <1>6, TrimmedProperties
<1>8. Len(AfterPut(items)) = Len(buffer) + Len(items) - excess
  BY <1>1, <1>2, <1>3, <1>7
<1>9. QED
  BY <1>5, <1>7, <1>8 DEF excess

\* The same of put_front, if what it adds is in order and older.
LEMMA AfterPutFrontProperties ==
  ASSUME buffer \in Seq(Nat), Len(buffer) \in 0 .. MaxSize,
         NEW items \in Seq(Nat)
  PROVE  /\ AfterPutFront(items) \in Seq(Nat)
         /\ Len(AfterPutFront(items))
              = Len(buffer) + Len(items) - Excess(Len(buffer), Len(items))
         /\ Sorted(buffer) /\ Sorted(items) /\ Below(items, buffer)
              => Sorted(AfterPutFront(items))
         /\ \A k \in Nat :
              UpTo(buffer, k) /\ UpTo(items, k) => UpTo(AfterPutFront(items), k)
<1> DEFINE excess == Excess(Len(buffer), Len(items))
           all == items \o buffer
<1>1. Len(items) \in Nat /\ Len(buffer) \in Nat
  BY LenProperties
<1>2. all \in Seq(Nat) /\ Len(all) = Len(buffer) + Len(items)
  <2>1. all \in Seq(Nat) /\ Len(all) = Len(items) + Len(buffer)
    BY ConcatProperties
  <2>2. QED
    BY <1>1, <2>1
<1>3. excess \in 0 .. Len(items)
  BY <1>1, ExcessProperties
<1>4. \/ AfterPutFront(items) = SubSeq(all, excess + 1, Len(all))
      \/ AfterPutFront(items) = SubSeq(all, 1, Len(all) - excess)
  BY DEF AfterPutFront
<1>5. /\ Sorted(buffer) /\ Sorted(items) /\ Below(items, buffer) => Sorted(all)
      /\ \A k \in Nat : UpTo(buffer, k) /\ UpTo(items, k) => UpTo(all, k)
  BY SortedConcat, UpToConcat
<1> HIDE DEF excess, all
<1>6. excess \in 0 .. Len(all)
  BY <1>1, <1>2, <1>3
<1>7. /\ AfterPutFront(items) \in Seq(Nat)
      /\ Len(AfterPutFront(items)) = Len(all) - excess
      /\ Sorted(all) => Sorted(AfterPutFront(items))
      /\ \A k \in Nat : UpTo(all, k) => UpTo(AfterPutFront(items), k)
  BY <1>2, <1>4, <1>6, TrimmedProperties
<1>8. Len(AfterPutFront(items)) = Len(buffer) + Len(items) - excess
  BY <1>1, <1>2, <1>3, <1>7
<1>9. QED
  BY <1>5, <1>7, <1>8 DEF excess

\* get_batch cuts the deque in two.
LEMMA BatchProperties ==
  ASSUME buffer \in Seq(Nat), NEW size \in Nat
  PROVE  /\ BatchLen(size) \in 0 .. Len(buffer)
         /\ Batch(size) \in Seq(Nat)
         /\ Len(Batch(size)) = BatchLen(size)
         /\ SubSeq(buffer, BatchLen(size) + 1, Len(buffer)) \in Seq(Nat)
         /\ Len(SubSeq(buffer, BatchLen(size) + 1, Len(buffer)))
              = Len(buffer) - BatchLen(size)
         /\ Sorted(buffer) =>
              /\ Sorted(Batch(size))
              /\ Sorted(SubSeq(buffer, BatchLen(size) + 1, Len(buffer)))
              /\ Below(Batch(size), SubSeq(buffer, BatchLen(size) + 1, Len(buffer)))
         /\ \A k \in Nat : UpTo(buffer, k) =>
              /\ UpTo(Batch(size), k)
              /\ UpTo(SubSeq(buffer, BatchLen(size) + 1, Len(buffer)), k)
<1> DEFINE b == BatchLen(size)
           rest == SubSeq(buffer, b + 1, Len(buffer))
<1>1. Len(buffer) \in Nat
  BY LenProperties
<1>2. b \in 0 .. Len(buffer)
  BY <1>1 DEF BatchLen
<1>3. Batch(size) = SubSeq(buffer, 1, b)
  BY DEF Batch
<1> HIDE DEF b
<1>4. /\ b + 1 \in Nat \ {0} /\ b \in Nat /\ b <= Len(buffer)
      /\ Len(buffer) <= Len(buffer)
  BY <1>1, <1>2
<1>5. /\ Batch(size) \in Seq(Nat)
      /\ Len(Batch(size)) = b
      /\ \A i \in 1 .. Len(Batch(size)) : Batch(size)[i] = buffer[i]
  BY <1>1, <1>2, <1>3, <1>4, PartOfSeq
<1>6. /\ rest \in Seq(Nat)
      /\ Len(rest) = Len(buffer) - b
      /\ \A i \in 1 .. Len(rest) : b + i \in 1 .. Len(buffer) /\ rest[i] = buffer[b + i]
  BY <1>1, <1>2, <1>4, PartOfSeq
<1>7. Sorted(buffer) => Sorted(Batch(size)) /\ Sorted(rest)
  BY <1>1, <1>3, <1>4, SortedPart
<1>8. \A k \in Nat : UpTo(buffer, k) => UpTo(Batch(size), k) /\ UpTo(rest, k)
  BY <1>1, <1>3, <1>4, UpToPart
<1>9. Sorted(buffer) => Below(Batch(size), rest)
  <2> SUFFICES ASSUME Sorted(buffer),
                      NEW i \in 1 .. Len(Batch(size)), NEW j \in 1 .. Len(rest)
               PROVE  Batch(size)[i] < rest[j]
    BY DEF Below
  <2>1. /\ Batch(size)[i] = buffer[i] /\ rest[j] = buffer[b + j]
        /\ i \in 1 .. Len(buffer) /\ b + j \in 1 .. Len(buffer) /\ i < b + j
    BY <1>1, <1>2, <1>5, <1>6
  <2>2. QED
    BY <2>1 DEF Sorted
<1>10. QED
  BY <1>2, <1>5, <1>6, <1>7, <1>8, <1>9 DEF b
-----------------------------------------------------------------------------
(* The actions.                                                            *)

\* The items the producer makes continue the order.
LEMMA FreshProperties ==
  ASSUME produced \in Nat, NEW k \in Nat
  PROVE  /\ Fresh(k) \in Seq(Nat)
         /\ Len(Fresh(k)) = k
         /\ Sorted(Fresh(k))
         /\ UpTo(Fresh(k), produced + k)
         /\ \A s \in Seq(Nat) : UpTo(s, produced) => Below(s, Fresh(k))
<1>1. /\ Fresh(k) \in [1 .. k -> Nat]
      /\ \A i \in 1 .. k : Fresh(k)[i] = produced + i
  BY DEF Fresh
<1>2. Fresh(k) \in Seq(Nat) /\ Len(Fresh(k)) = k
  <2>1. Fresh(k) \in Seq(Nat)
    BY <1>1
  <2>2. QED
    BY <1>1, <2>1, LenProperties
<1>3. Sorted(Fresh(k)) /\ UpTo(Fresh(k), produced + k)
  BY <1>1, <1>2 DEF Sorted, UpTo
<1>4. ASSUME NEW s \in Seq(Nat), UpTo(s, produced)
      PROVE  Below(s, Fresh(k))
  <2> SUFFICES ASSUME NEW i \in 1 .. Len(s), NEW j \in 1 .. Len(Fresh(k))
               PROVE  s[i] < Fresh(k)[j]
    BY DEF Below
  <2>1. s[i] <= produced /\ s[i] \in Nat
    BY <1>4, ElementOfSeq, LenProperties DEF UpTo
  <2>2. Fresh(k)[j] = produced + j /\ j \in Nat \ {0}
    BY <1>1, <1>2
  <2>3. QED
    BY <2>1, <2>2
<1>5. QED
  BY <1>2, <1>3, <1>4

\* IInv in the words of this module.
LEMMA InvariantParts ==
  FifoOrder <=> Sorted(buffer) /\ Sorted(taken) /\ Below(taken, buffer)
BY DEF FifoOrder, Sorted, Below

LEMMA InvariantPartsNext ==
  FifoOrder' <=> Sorted(buffer') /\ Sorted(taken') /\ Below(taken', buffer')
BY DEF FifoOrder, Sorted, Below

\* The lengths an invariant state has.
LEMMA Lengths ==
  ASSUME IInv
  PROVE  /\ buffer \in Seq(Nat) /\ taken \in Seq(Nat)
         /\ Len(buffer) \in 0 .. MaxSize /\ Len(taken) \in Nat
         /\ MaxSize \in Nat /\ ThresholdSize \in Nat
<1>1. buffer \in Seq(Nat) /\ taken \in Seq(Nat)
  BY DEF IInv, TypeOK, BufferTypeOK
<1>2. Len(buffer) \in Nat /\ Len(taken) \in Nat
  BY <1>1, LenProperties
<1>3. QED
  BY <1>1, <1>2, DataBufferAssumption DEF IInv, SizeBound

LEMMA InitInvariant == Init => IInv
<1> SUFFICES ASSUME Init PROVE IInv
  OBVIOUS
<1>1. buffer = <<>> /\ taken = <<>> /\ produced = 0
  BY DEF Init, BufferInit
<1>2. buffer \in Seq(Nat) /\ taken \in Seq(Nat) /\ Len(buffer) = 0 /\ Len(taken) = 0
  BY <1>1, EmptySeq
<1>3. TypeOK
  <2>1. drop_oldest \in BOOLEAN /\ threshold_notified \in BOOLEAN
    BY DataBufferAssumption, Zenon DEF Init, BufferInit
  <2>2. max_size_reached \in 0 .. MaxSize
    BY DataBufferAssumption DEF Init, BufferInit
  <2>3. /\ total_put \in Nat /\ total_get \in Nat /\ total_overflow \in Nat
        /\ produced \in Nat /\ returned \in Nat /\ erased \in Nat
    BY DEF Init, BufferInit
  <2>4. QED
    BY <1>2, <2>1, <2>2, <2>3 DEF Init, TypeOK, BufferTypeOK
<1>4. SizeBound /\ Accounting /\ AlarmArmed
  BY <1>2, DataBufferAssumption
  DEF Init, BufferInit, SizeBound, Accounting, AlarmArmed
<1>5. FifoOrder /\ UpTo(buffer, produced) /\ UpTo(taken, produced)
  BY <1>2 DEF FifoOrder, UpTo
<1>6. QED
  BY <1>3, <1>4, <1>5 DEF IInv

LEMMA ProduceInvariant ==
  ASSUME IInv, NEW k \in 1 .. MaxItems, Produce(k)
  PROVE  IInv'
<1> DEFINE n == Len(buffer)
           excess == Excess(n, k)
<1>1. k \in Nat \ {0} /\ produced \in Nat
  BY BufferUseAssumption DEF IInv, TypeOK
<1>2. /\ Fresh(k) \in Seq(Nat)
      /\ Len(Fresh(k)) = k
      /\ Sorted(Fresh(k))
      /\ UpTo(Fresh(k), produced + k)
      /\ Below(buffer, Fresh(k))
      /\ Below(taken, Fresh(k))
  BY <1>1, FreshProperties, Lengths DEF IInv
<1>3. excess \in 0 .. k /\ n + k - excess \in 0 .. MaxSize /\ n \in 0 .. MaxSize
  BY <1>1, ExcessProperties, Lengths
<1>4. buffer' = AfterPut(Fresh(k)) /\ taken' = taken /\ produced' = produced + k
  BY DEF Produce, PutMany
<1>5. /\ buffer' \in Seq(Nat)
      /\ Len(buffer') = n + k - excess
      /\ Sorted(buffer')
      /\ Below(taken, buffer')
      /\ \A m \in Nat : UpTo(buffer, m) /\ UpTo(Fresh(k), m) => UpTo(buffer', m)
  BY <1>2, <1>4, AfterPutProperties, InvariantParts, Lengths DEF IInv
<1>6. UpTo(buffer', produced') /\ UpTo(taken', produced')
  <2>1. UpTo(buffer, produced + k) /\ UpTo(taken, produced + k)
    <3>1. \A s \in Seq(Nat) : UpTo(s, produced) => UpTo(s, produced + k)
      <4> SUFFICES ASSUME NEW s \in Seq(Nat), UpTo(s, produced), NEW i \in 1 .. Len(s)
                   PROVE  s[i] <= produced + k
        BY DEF UpTo
      <4>1. s[i] \in Nat /\ s[i] <= produced
        BY ElementOfSeq, LenProperties DEF UpTo
      <4>2. QED
        BY <1>1, <4>1
    <3>2. QED
      BY <3>1, Lengths DEF IInv
  <2>2. QED
    BY <1>1, <1>2, <1>4, <1>5, <2>1
<1>7. FifoOrder'
  BY <1>4, <1>5, InvariantParts, InvariantPartsNext DEF IInv
<1>8. AcceptedCount(Fresh(k)) = IF drop_oldest THEN k ELSE k - excess
  BY <1>2 DEF AcceptedCount
<1> HIDE DEF excess, n
<1>9. TypeOK'
  <2>1. accepted' \in SUBSET Nat
    <3>1. AcceptedCount(Fresh(k)) \in Nat
      BY <1>1, <1>3, <1>8
    <3>2. {produced + i : i \in 1 .. AcceptedCount(Fresh(k))} \in SUBSET Nat
      BY <1>1, <3>1
    <3>3. QED
      BY <3>2 DEF Produce, IInv, TypeOK
  <2>2. total_put' \in Nat /\ total_overflow' \in Nat
    <3>1. total_put \in Nat /\ total_overflow \in Nat /\ excess \in Nat /\ k - excess \in Nat
      BY <1>1, <1>3 DEF IInv, TypeOK, BufferTypeOK
    <3>2. /\ total_put' = total_put + (IF drop_oldest THEN k ELSE k - excess)
          /\ total_overflow' = total_overflow + (IF drop_oldest THEN excess ELSE 0)
      BY <1>2, <1>8 DEF Produce, PutMany, n, excess
    <3>3. QED
      BY <1>1, <3>1, <3>2
  <2>3. max_size_reached' \in 0 .. MaxSize
    <3>1. Len(AfterPut(Fresh(k))) \in 0 .. MaxSize
      BY <1>3, <1>4, <1>5
    <3>2. max_size_reached \in 0 .. MaxSize
      BY DEF IInv, TypeOK, BufferTypeOK
    <3>3. \/ max_size_reached' = Len(AfterPut(Fresh(k)))
          \/ max_size_reached' = max_size_reached
      BY Zenon DEF Produce, PutMany
    <3>4. QED
      BY <3>1, <3>2, <3>3
  <2>4. threshold_notified' \in BOOLEAN
    BY Zenon DEF Produce, PutMany
  <2>5. QED
    BY <1>1, <1>4, <1>5, <2>1, <2>2, <2>3, <2>4
    DEF Produce, PutMany, IInv, TypeOK, BufferTypeOK
<1>10. SizeBound'
  BY <1>3, <1>5 DEF SizeBound
<1>11. Accounting'
  <2>1. total_put' = total_put + (IF drop_oldest THEN k ELSE k - excess)
    BY <1>8 DEF Produce, PutMany
  <2>2. total_overflow' = total_overflow + (IF drop_oldest THEN excess ELSE 0)
    BY <1>2 DEF Produce, PutMany, n, excess
  <2>3. returned' = returned /\ total_get' = total_get /\ erased' = erased
    BY DEF Produce, PutMany
  <2>4. /\ total_put \in Nat /\ total_get \in Nat /\ total_overflow \in Nat
        /\ returned \in Nat /\ erased \in Nat
    BY DEF IInv, TypeOK, BufferTypeOK
  <2>5. total_put + returned = n + total_get + total_overflow + erased
    BY DEF IInv, Accounting, n
  <2>6. QED
    BY <1>1, <1>3, <1>5, <2>1, <2>2, <2>3, <2>4, <2>5 DEF Accounting
<1>12. AlarmArmed'
  <2>1. threshold_notified' =>
          threshold_notified \/ Len(buffer') >= ThresholdSize
    BY <1>4, Zenon DEF Produce, PutMany
  <2>2. threshold_notified => n >= ThresholdSize
    BY DEF IInv, AlarmArmed, n
  <2>3. n >= ThresholdSize => Len(buffer') >= ThresholdSize
    BY <1>1, <1>3, <1>5, Lengths
  <2>4. QED
    BY <2>1, <2>2, <2>3 DEF AlarmArmed
<1>13. QED
  BY <1>6, <1>7, <1>9, <1>10, <1>11, <1>12 DEF IInv

LEMMA TakeInvariant ==
  ASSUME IInv, NEW size \in 1 .. BatchSize, Take(size)
  PROVE  IInv'
<1> DEFINE n == Len(buffer)
           b == BatchLen(size)
<1>1. size \in Nat /\ n \in Nat /\ n <= MaxSize /\ MaxSize \in Nat
  BY Lengths, DataBufferAssumption
<1>2. /\ buffer' = SubSeq(buffer, b + 1, Len(buffer)) /\ taken' = Batch(size)
      /\ produced' = produced
  BY DEF Take, GetBatch
<1>3. /\ b \in 0 .. n
      /\ taken' \in Seq(Nat) /\ Len(taken') = b
      /\ buffer' \in Seq(Nat) /\ Len(buffer') = n - b
  BY <1>1, <1>2, BatchProperties, Lengths
<1>4. Sorted(buffer) /\ UpTo(buffer, produced) /\ produced \in Nat
  BY InvariantParts DEF IInv, TypeOK
<1>5. FifoOrder' /\ UpTo(buffer', produced') /\ UpTo(taken', produced')
  BY <1>1, <1>2, <1>4, BatchProperties, InvariantPartsNext, Lengths
<1>6. total_get' = total_get + b
  BY DEF Take, GetBatch
<1>7. threshold_notified' = (threshold_notified /\ n - b >= ThresholdSize)
  BY DEF Take, GetBatch
<1> HIDE DEF n, b
<1>8. TypeOK'
  <2>1. threshold_notified' \in BOOLEAN
    BY <1>7
  <2>2. total_get' \in Nat
    BY <1>1, <1>3, <1>6 DEF IInv, TypeOK, BufferTypeOK
  <2>3. QED
    BY <1>3, <2>1, <2>2 DEF Take, GetBatch, IInv, TypeOK, BufferTypeOK
<1>9. SizeBound'
  BY <1>1, <1>3 DEF SizeBound
<1>10. Accounting'
  <2>1. /\ total_put' = total_put /\ total_overflow' = total_overflow
        /\ returned' = returned /\ erased' = erased
    BY DEF Take, GetBatch
  <2>2. /\ total_put \in Nat /\ total_get \in Nat /\ total_overflow \in Nat
        /\ returned \in Nat /\ erased \in Nat
    BY DEF IInv, TypeOK, BufferTypeOK
  <2>3. total_put + returned = n + total_get + total_overflow + erased
    BY DEF IInv, Accounting, n
  <2>4. QED
    BY <1>1, <1>3, <1>6, <2>1, <2>2, <2>3 DEF Accounting
<1>11. AlarmArmed'
  BY <1>3, <1>7 DEF AlarmArmed
<1>12. QED
  BY <1>5, <1>8, <1>9, <1>10, <1>11 DEF IInv

LEMMA TakeAllInvariant ==
  ASSUME IInv, TakeAll
  PROVE  IInv'
<1>1. /\ buffer' = <<>> /\ taken' = buffer /\ produced' = produced
      /\ Len(buffer) \in Nat /\ buffer \in Seq(Nat)
  BY Lengths DEF TakeAll, GetAll
<1>2. buffer' \in Seq(Nat) /\ Len(buffer') = 0
  BY <1>1, EmptySeq
<1>3. TypeOK'
  <2>1. threshold_notified' \in BOOLEAN
    BY DEF TakeAll, GetAll
  <2>2. total_get' \in Nat
    BY <1>1 DEF TakeAll, GetAll, IInv, TypeOK, BufferTypeOK
  <2>3. QED
    BY <1>1, <1>2, <2>1, <2>2 DEF TakeAll, GetAll, IInv, TypeOK, BufferTypeOK
<1>4. SizeBound' /\ AlarmArmed'
  BY <1>2, Lengths DEF TakeAll, GetAll, SizeBound, AlarmArmed
<1>5. Accounting'
  BY <1>1, <1>2 DEF TakeAll, GetAll, IInv, TypeOK, BufferTypeOK, Accounting
<1>6. FifoOrder' /\ UpTo(buffer', produced') /\ UpTo(taken', produced')
  BY <1>1, <1>2 DEF IInv, FifoOrder, UpTo
<1>7. QED
  BY <1>3, <1>4, <1>5, <1>6 DEF IInv

LEMMA ConfirmInvariant ==
  ASSUME IInv, Confirm
  PROVE  IInv'
<1>1. taken' = <<>> /\ produced' = produced /\ UNCHANGED bufferVars
  BY DEF Confirm
<1>2. taken' \in Seq(Nat) /\ Len(taken') = 0
  BY <1>1, EmptySeq
<1>3. TypeOK'
  <2>1. ToSet(taken) \in SUBSET Nat
    BY Lengths, ElementOfSeq, LenProperties DEF ToSet
  <2>2. QED
    BY <1>1, <1>2, <2>1 DEF Confirm, bufferVars, stats, IInv, TypeOK, BufferTypeOK
<1>4. SizeBound' /\ AlarmArmed' /\ Accounting'
  BY <1>1 DEF Confirm, bufferVars, stats, IInv, SizeBound, AlarmArmed, Accounting
<1>5. FifoOrder' /\ UpTo(buffer', produced') /\ UpTo(taken', produced')
  BY <1>1, <1>2 DEF bufferVars, IInv, FifoOrder, UpTo
<1>6. QED
  BY <1>3, <1>4, <1>5 DEF IInv

LEMMA ReturnInvariant ==
  ASSUME IInv, Return
  PROVE  IInv'
<1> DEFINE n == Len(buffer)
           k == Len(taken)
           excess == Excess(n, k)
<1>1. /\ buffer' = AfterPutFront(taken) /\ taken' = <<>> /\ produced' = produced
      /\ n \in 0 .. MaxSize /\ k \in Nat /\ MaxSize \in Nat /\ ThresholdSize \in Nat
  BY Lengths DEF Return, PutFront
<1>2. taken' \in Seq(Nat) /\ Len(taken') = 0
  BY <1>1, EmptySeq
<1>3. excess \in 0 .. k /\ n + k - excess \in 0 .. MaxSize
  BY <1>1, ExcessProperties
<1>4. produced \in Nat
  BY DEF IInv, TypeOK
<1>5. /\ buffer' \in Seq(Nat)
      /\ Len(buffer') = n + k - excess
      /\ Sorted(buffer')
      /\ UpTo(buffer', produced)
  BY <1>1, <1>4, AfterPutFrontProperties, InvariantParts, Lengths DEF IInv
<1>6. FifoOrder' /\ UpTo(buffer', produced') /\ UpTo(taken', produced')
  BY <1>1, <1>2, <1>5 DEF FifoOrder, Sorted, UpTo
<1>7. /\ total_overflow' = total_overflow + (IF drop_oldest THEN excess ELSE 0)
      /\ returned' = returned + (IF drop_oldest THEN k ELSE k - excess)
      /\ total_put' = total_put /\ total_get' = total_get /\ erased' = erased
      /\ threshold_notified' = threshold_notified
  BY DEF Return, PutFront, FrontCount
<1>8. /\ total_put \in Nat /\ total_get \in Nat /\ total_overflow \in Nat
      /\ returned \in Nat /\ erased \in Nat
  BY DEF IInv, TypeOK, BufferTypeOK
<1>9. /\ total_put + returned = n + total_get + total_overflow + erased
      /\ threshold_notified => n >= ThresholdSize
  BY DEF IInv, Accounting, AlarmArmed
<1> HIDE DEF n, k, excess
<1>10. TypeOK'
  <2>1. total_overflow' \in Nat /\ returned' \in Nat
    BY <1>1, <1>3, <1>7, <1>8
  <2>2. QED
    BY <1>2, <1>5, <2>1 DEF Return, PutFront, IInv, TypeOK, BufferTypeOK
<1>11. SizeBound'
  BY <1>3, <1>5 DEF SizeBound
<1>12. Accounting'
  BY <1>1, <1>3, <1>5, <1>7, <1>8, <1>9 DEF Accounting
<1>13. AlarmArmed'
  BY <1>1, <1>3, <1>5, <1>7, <1>9 DEF AlarmArmed
<1>14. QED
  BY <1>6, <1>10, <1>11, <1>12, <1>13 DEF IInv

LEMMA EraseInvariant ==
  ASSUME IInv, Erase
  PROVE  IInv'
<1>1. /\ buffer' = <<>> /\ taken' = taken /\ produced' = produced
      /\ Len(buffer) \in Nat /\ buffer \in Seq(Nat)
  BY Lengths DEF Erase, Clear
<1>2. buffer' \in Seq(Nat) /\ Len(buffer') = 0
  BY <1>1, EmptySeq
<1>3. TypeOK'
  <2>1. ToSet(buffer) \in SUBSET Nat
    BY Lengths, ElementOfSeq, LenProperties DEF ToSet
  <2>2. threshold_notified' \in BOOLEAN
    BY DEF Erase, Clear
  <2>3. erased' \in Nat
    BY <1>1 DEF Erase, IInv, TypeOK
  <2>4. QED
    BY <1>1, <1>2, <2>1, <2>2, <2>3
    DEF Erase, Clear, stats, IInv, TypeOK, BufferTypeOK
<1>4. SizeBound' /\ AlarmArmed'
  BY <1>2, Lengths DEF Erase, Clear, SizeBound, AlarmArmed
<1>5. Accounting'
  BY <1>1, <1>2
  DEF Erase, Clear, stats, IInv, TypeOK, BufferTypeOK, Accounting
<1>6. FifoOrder' /\ UpTo(buffer', produced') /\ UpTo(taken', produced')
  BY <1>1, <1>2 DEF IInv, FifoOrder, UpTo
<1>7. QED
  BY <1>3, <1>4, <1>5, <1>6 DEF IInv

LEMMA StutterInvariant ==
  ASSUME IInv, UNCHANGED vars
  PROVE  IInv'
BY DEF vars, bufferVars, stats, clientVars, IInv, TypeOK, BufferTypeOK, SizeBound,
       Accounting, FifoOrder, AlarmArmed, UpTo
-----------------------------------------------------------------------------
(* The theorems.                                                           *)

\* IInv holds of every state that a buffer and its two clients reach.
THEOREM Invariance == Spec => []IInv
<1>1. Init => IInv
  BY InitInvariant
<1>2. IInv /\ [Next]_vars => IInv'
  <2> SUFFICES ASSUME IInv, [Next]_vars PROVE IInv'
    OBVIOUS
  <2>1. ASSUME NEW k \in 1 .. MaxItems, Produce(k) PROVE IInv'
    BY <2>1, ProduceInvariant
  <2>2. ASSUME NEW size \in 1 .. BatchSize, Take(size) PROVE IInv'
    BY <2>2, TakeInvariant
  <2>3. CASE TakeAll
    BY <2>3, TakeAllInvariant
  <2>4. CASE Confirm
    BY <2>4, ConfirmInvariant
  <2>5. CASE Return
    BY <2>5, ReturnInvariant
  <2>6. CASE Erase
    BY <2>6, EraseInvariant
  <2>7. CASE UNCHANGED vars
    BY <2>7, StutterInvariant
  <2>8. QED
    BY <2>1, <2>2, <2>3, <2>4, <2>5, <2>6, <2>7 DEF Next
<1>3. QED
  BY <1>1, <1>2, PTL DEF Spec

\* Every variable keeps its type, whatever the capacity and the policy: the
\* maximum the statistics report is never more than max_size (buffer.py:268-269).
THEOREM TypeCorrect == Spec => []TypeOK
<1>1. IInv => TypeOK
  BY DEF IInv
<1>2. QED
  BY <1>1, Invariance, PTL

\* No mixture of puts and batches put back makes the deque outgrow max_size
\* (buffer.py:223-230 and 250-263).
THEOREM NeverTooLong == Spec => []SizeBound
<1>1. IInv => SizeBound
  BY DEF IInv
<1>2. QED
  BY <1>1, Invariance, PTL

\* What went in is what is there, was handed out, was counted as overflow or
\* was erased: the statistics get_stats() reports never drift apart.
THEOREM StatisticsAddUp == Spec => []Accounting
<1>1. IInv => Accounting
  BY DEF IInv
<1>2. QED
  BY <1>1, Invariance, PTL

\* The deque stays in production order, and behind what the consumer holds,
\* through failed batches put back (buffer.py:206-237).
THEOREM FirstInFirstOut == Spec => []FifoOrder
<1>1. IInv => FifoOrder
  BY DEF IInv
<1>2. QED
  BY <1>1, Invariance, PTL

\* The threshold alarm is armed whenever the deque is below the threshold
\* (buffer.py:322-324, 346, 372, 376-387).
THEOREM AlarmIsArmed == Spec => []AlarmArmed
<1>1. IInv => AlarmArmed
  BY DEF IInv
<1>2. QED
  BY <1>1, Invariance, PTL
-----------------------------------------------------------------------------
(* With drop_oldest no item disappears that total_overflow does not count. *)
(* LInv: each item made is at most in one of the three places where items  *)
(* are (the deque, the consumer's hands, gone), and the number of items    *)
(* that are gone is what was handed out or erased, less what is still held *)
(* and what came back.                                                     *)

Held == ToSet(buffer) \cup ToSet(taken)

LInv ==
  /\ Held \subseteq 1 .. produced
  /\ gone \subseteq 1 .. produced
  /\ gone \cap Held = {}
  /\ drop_oldest =>
       /\ accepted = 1 .. produced
       /\ total_put = produced
       /\ Cardinality(gone) + returned + Len(taken) = erased + total_get
-----------------------------------------------------------------------------
(* The elements of a sequence of numbers.                                  *)

LEMMA ElementsOf ==
  ASSUME NEW s \in Seq(Nat)
  PROVE  ToSet(s) = {s[i] : i \in 1 .. Len(s)}
<1>1. DOMAIN s = 1 .. Len(s)
  BY LenProperties
<1>2. QED
  BY <1>1 DEF ToSet

\* An ordered sequence has as many elements as its length.
LEMMA SortedElements ==
  ASSUME NEW s \in Seq(Nat), Sorted(s)
  PROVE  IsFiniteSet(ToSet(s)) /\ Cardinality(ToSet(s)) = Len(s)
<1> DEFINE S == 1 .. Len(s)
           T == ToSet(s)
<1>1. Len(s) \in Nat /\ s \in [S -> Nat]
  BY LenProperties
<1>2. T = {s[i] : i \in S}
  BY ElementsOf
<1>3. s \in [S -> T]
  BY <1>1, <1>2
<1>4. s \in Surjection(S, T)
  BY <1>2, <1>3 DEF Surjection
<1>5. s \in Injection(S, T)
  <2>1. ASSUME NEW i \in S, NEW j \in S, s[i] = s[j] PROVE i = j
    <3>1. s[i] \in Nat /\ s[j] \in Nat
      BY <1>1
    <3>2. ~(i < j) /\ ~(j < i)
      BY <2>1, <3>1 DEF Sorted
    <3>3. QED
      BY <3>2
  <2>2. QED
    BY <1>3, <2>1 DEF Injection, IsInjective
<1>6. IsFiniteSet(S) /\ Cardinality(S) = Len(s)
  <2>1. 1 \in Int /\ Len(s) \in Int
    BY <1>1
  <2>2. /\ IsFiniteSet(S)
        /\ Cardinality(S) = IF 1 > Len(s) THEN 0 ELSE Len(s) - 1 + 1
    BY <2>1, FS_Interval
  <2>3. QED
    BY <1>1, <2>2
<1>7. QED
  BY <1>4, <1>5, <1>6, FS_Surjection

LEMMA BelowDisjoint ==
  ASSUME NEW s \in Seq(Nat), NEW t \in Seq(Nat), Below(s, t)
  PROVE  ToSet(s) \cap ToSet(t) = {}
<1> SUFFICES ASSUME NEW x \in ToSet(s), x \in ToSet(t)
             PROVE  FALSE
  OBVIOUS
<1>1. PICK i \in 1 .. Len(s) : x = s[i]
  BY ElementsOf
<1>2. PICK j \in 1 .. Len(t) : x = t[j]
  BY ElementsOf
<1>3. s[i] < t[j]
  BY DEF Below
<1>4. s[i] \in Nat /\ t[j] \in Nat
  BY ElementOfSeq, LenProperties
<1>5. QED
  BY <1>1, <1>2, <1>3, <1>4

LEMMA ElementsPart ==
  ASSUME NEW s \in Seq(Nat), NEW m \in Nat \ {0}, NEW n \in Nat, n <= Len(s)
  PROVE  ToSet(SubSeq(s, m, n)) \subseteq ToSet(s)
<1> DEFINE t == SubSeq(s, m, n)
<1>1. Len(s) \in Nat
  BY LenProperties
<1>2. t \in Seq(Nat)
  BY PartOfSeq
<1>3. ToSet(t) = {t[i] : i \in 1 .. Len(t)}
  BY <1>2, ElementsOf
<1> HIDE DEF t
<1> SUFFICES ASSUME NEW i \in 1 .. Len(t)
             PROVE  t[i] \in ToSet(s)
  BY <1>3 DEF t
<1>4. m + i - 1 \in 1 .. Len(s) /\ t[i] = s[m + i - 1]
  BY <1>1, PartOfSeq DEF t
<1>5. QED
  BY <1>4, ElementsOf

LEMMA ElementsConcat ==
  ASSUME NEW s \in Seq(Nat), NEW t \in Seq(Nat)
  PROVE  ToSet(s \o t) \subseteq ToSet(s) \cup ToSet(t)
<1> DEFINE u == s \o t
<1>1. Len(s) \in Nat /\ Len(t) \in Nat
  BY LenProperties
<1>2. /\ u \in Seq(Nat)
      /\ Len(u) = Len(s) + Len(t)
      /\ \A i \in 1 .. Len(s) + Len(t) :
           u[i] = IF i <= Len(s) THEN s[i] ELSE t[i - Len(s)]
  BY ConcatProperties
<1>3. ToSet(u) = {u[i] : i \in 1 .. Len(u)}
  BY <1>2, ElementsOf
<1> HIDE DEF u
<1> SUFFICES ASSUME NEW i \in 1 .. Len(u)
             PROVE  u[i] \in ToSet(s) \cup ToSet(t)
  BY <1>3 DEF u
<1>4. CASE i <= Len(s)
  <2>1. u[i] = s[i] /\ i \in 1 .. Len(s)
    BY <1>1, <1>2, <1>4
  <2>2. QED
    BY <2>1, ElementsOf
<1>5. CASE i > Len(s)
  <2>1. u[i] = t[i - Len(s)] /\ i - Len(s) \in 1 .. Len(t)
    BY <1>1, <1>2, <1>5
  <2>2. QED
    BY <2>1, ElementsOf
<1>6. QED
  BY <1>1, <1>2, <1>4, <1>5

\* A sequence that loses e elements at one end has no new ones.
LEMMA ElementsTrimmed ==
  ASSUME NEW s \in Seq(Nat), NEW e \in 0 .. Len(s), NEW t,
         t = SubSeq(s, e + 1, Len(s)) \/ t = SubSeq(s, 1, Len(s) - e)
  PROVE  ToSet(t) \subseteq ToSet(s)
<1>1. Len(s) \in Nat
  BY LenProperties
<1>2. /\ e + 1 \in Nat \ {0} /\ 1 \in Nat \ {0} /\ Len(s) - e \in Nat
      /\ Len(s) <= Len(s) /\ Len(s) - e <= Len(s)
  BY <1>1
<1>3. QED
  BY <1>1, <1>2, ElementsPart

\* Neither put nor put_front brings in an item of its own.
LEMMA ElementsAfterPut ==
  ASSUME buffer \in Seq(Nat), Len(buffer) \in 0 .. MaxSize,
         NEW items \in Seq(Nat)
  PROVE  /\ ToSet(AfterPut(items)) \subseteq ToSet(buffer) \cup ToSet(items)
         /\ ToSet(AfterPutFront(items)) \subseteq ToSet(buffer) \cup ToSet(items)
<1> DEFINE excess == Excess(Len(buffer), Len(items))
           back == buffer \o items
           front == items \o buffer
<1>1. Len(items) \in Nat /\ Len(buffer) \in Nat
  BY LenProperties
<1>2. /\ back \in Seq(Nat) /\ Len(back) = Len(buffer) + Len(items)
      /\ front \in Seq(Nat) /\ Len(front) = Len(items) + Len(buffer)
  BY ConcatProperties
<1>3. excess \in 0 .. Len(items)
  BY <1>1, ExcessProperties
<1>4. /\ \/ AfterPut(items) = SubSeq(back, excess + 1, Len(back))
         \/ AfterPut(items) = SubSeq(back, 1, Len(back) - excess)
      /\ \/ AfterPutFront(items) = SubSeq(front, excess + 1, Len(front))
         \/ AfterPutFront(items) = SubSeq(front, 1, Len(front) - excess)
  BY DEF AfterPut, AfterPutFront
<1>5. /\ ToSet(back) \subseteq ToSet(buffer) \cup ToSet(items)
      /\ ToSet(front) \subseteq ToSet(buffer) \cup ToSet(items)
  BY ElementsConcat
<1> HIDE DEF excess, back, front
<1>6. excess \in 0 .. Len(back) /\ excess \in 0 .. Len(front)
  BY <1>1, <1>2, <1>3
<1>7. /\ ToSet(AfterPut(items)) \subseteq ToSet(back)
      /\ ToSet(AfterPutFront(items)) \subseteq ToSet(front)
  BY <1>2, <1>4, <1>6, ElementsTrimmed
<1>8. QED
  BY <1>5, <1>7
-----------------------------------------------------------------------------
(* The actions.                                                            *)

\* What LInv adds, with drop_oldest: the numbers.
Counted ==
  /\ accepted = 1 .. produced
  /\ total_put = produced
  /\ Cardinality(gone) + returned + Len(taken) = erased + total_get

\* What is finite, what is a number, and what is apart from what.
LEMMA Facts ==
  ASSUME IInv, LInv
  PROVE  /\ buffer \in Seq(Nat) /\ taken \in Seq(Nat)
         /\ Len(buffer) \in 0 .. MaxSize /\ Len(taken) \in Nat
         /\ produced \in Nat /\ returned \in Nat /\ erased \in Nat /\ total_get \in Nat
         /\ IsFiniteSet(gone) /\ Cardinality(gone) \in Nat
         /\ IsFiniteSet(ToSet(buffer)) /\ Cardinality(ToSet(buffer)) = Len(buffer)
         /\ IsFiniteSet(ToSet(taken)) /\ Cardinality(ToSet(taken)) = Len(taken)
         /\ ToSet(taken) \cap ToSet(buffer) = {}
<1>1. /\ buffer \in Seq(Nat) /\ taken \in Seq(Nat)
      /\ Len(buffer) \in 0 .. MaxSize /\ Len(taken) \in Nat
  BY Lengths
<1>2. produced \in Nat /\ returned \in Nat /\ erased \in Nat /\ total_get \in Nat
  BY DEF IInv, TypeOK, BufferTypeOK
<1>3. Sorted(buffer) /\ Sorted(taken) /\ Below(taken, buffer)
  BY InvariantParts DEF IInv
<1>4. IsFiniteSet(1 .. produced)
  BY <1>2, FS_Interval
<1>5. IsFiniteSet(gone) /\ Cardinality(gone) \in Nat
  BY <1>4, FS_Subset, FS_CardinalityType DEF LInv
<1>6. QED
  BY <1>1, <1>2, <1>3, <1>5, SortedElements, BelowDisjoint

\* What disjoint finite sets count together.
LEMMA DisjointUnion ==
  ASSUME NEW S, NEW T, IsFiniteSet(S), IsFiniteSet(T), S \cap T = {}
  PROVE  /\ IsFiniteSet(S \cup T)
         /\ Cardinality(S \cup T) = Cardinality(S) + Cardinality(T)
<1>1. Cardinality(S) \in Nat /\ Cardinality(T) \in Nat
  BY FS_CardinalityType
<1>2. Cardinality(S \cap T) = 0
  BY FS_EmptySet
<1>3. /\ IsFiniteSet(S \cup T)
      /\ Cardinality(S \cup T) = Cardinality(S) + Cardinality(T) - Cardinality(S \cap T)
  BY FS_Union
<1>4. QED
  BY <1>1, <1>2, <1>3

LEMMA ElementsOfEmpty == ToSet(<<>>) = {}
BY DEF ToSet

LEMMA InitLoss == Init => LInv
<1> SUFFICES ASSUME Init PROVE LInv
  OBVIOUS
<1>1. /\ buffer = <<>> /\ taken = <<>> /\ produced = 0 /\ gone = {} /\ accepted = {}
      /\ total_put = 0 /\ total_get = 0 /\ returned = 0 /\ erased = 0
  BY DEF Init, BufferInit
<1>2. Held = {} /\ 1 .. produced = {}
  BY <1>1, ElementsOfEmpty DEF Held
<1>3. Len(taken) = 0 /\ Cardinality(gone) = 0
  BY <1>1, EmptySeq, FS_EmptySet
<1>4. QED
  BY <1>1, <1>2, <1>3 DEF LInv

LEMMA ProduceLoss ==
  ASSUME IInv, LInv, NEW k \in 1 .. MaxItems, Produce(k)
  PROVE  LInv'
<1>1. k \in Nat \ {0} /\ produced \in Nat /\ produced' = produced + k
  BY BufferUseAssumption, Facts DEF Produce
<1>2. Fresh(k) \in Seq(Nat) /\ Len(Fresh(k)) = k
  BY <1>1, FreshProperties
<1>3. ToSet(Fresh(k)) = {produced + i : i \in 1 .. k}
  BY <1>1, <1>2, ElementsOf DEF Fresh
<1>4. ToSet(buffer') \subseteq ToSet(buffer) \cup ToSet(Fresh(k))
  BY <1>2, Facts, ElementsAfterPut DEF Produce, PutMany
<1>5. taken' = taken /\ gone' = gone
  BY DEF Produce
<1>6. ToSet(Fresh(k)) \subseteq 1 .. produced + k
  BY <1>1, <1>3
<1>7. ToSet(Fresh(k)) \cap (1 .. produced) = {}
  BY <1>1, <1>3
<1>8. 1 .. produced \subseteq 1 .. produced'
  BY <1>1
<1>9. Held' \subseteq Held \cup ToSet(Fresh(k))
  BY <1>4, <1>5 DEF Held
<1>10. Held' \subseteq 1 .. produced' /\ gone' \subseteq 1 .. produced'
  BY <1>1, <1>5, <1>6, <1>8, <1>9 DEF LInv
<1>11. gone' \cap Held' = {}
  BY <1>5, <1>7, <1>9 DEF LInv
<1>12. ASSUME drop_oldest' PROVE Counted'
  <2>1. drop_oldest /\ Counted
    BY <1>12 DEF Produce, PutMany, LInv, Counted
  <2>2. AcceptedCount(Fresh(k)) = k
    BY <1>2, <2>1 DEF AcceptedCount
  <2>3. accepted' = (1 .. produced) \cup {produced + i : i \in 1 .. k}
    BY <2>1, <2>2 DEF Produce, Counted
  <2>4. accepted' = 1 .. produced'
    <3>1. ASSUME NEW m \in 1 .. produced + k, m \notin 1 .. produced
          PROVE  m \in {produced + i : i \in 1 .. k}
      <4>1. m - produced \in 1 .. k /\ m = produced + (m - produced)
        BY <1>1, <3>1
      <4>2. QED
        BY <4>1
    <3>2. QED
      BY <1>1, <1>3, <1>6, <1>8, <2>3, <3>1
  <2>5. total_put' = produced'
    BY <1>1, <2>1, <2>2 DEF Produce, PutMany, Counted
  <2>6. returned' = returned /\ erased' = erased /\ total_get' = total_get
    BY DEF Produce, PutMany
  <2>7. QED
    BY <1>5, <2>1, <2>4, <2>5, <2>6 DEF Counted
<1>13. QED
  BY <1>10, <1>11, <1>12 DEF LInv, Counted

LEMMA TakeLoss ==
  ASSUME IInv, LInv, NEW size \in 1 .. BatchSize, Take(size)
  PROVE  LInv'
<1> DEFINE b == BatchLen(size)
<1>1. /\ size \in Nat /\ Len(buffer) \in Nat /\ buffer \in Seq(Nat)
  BY DataBufferAssumption, Facts
<1>2. /\ buffer' = SubSeq(buffer, b + 1, Len(buffer))
      /\ taken' = SubSeq(buffer, 1, b) /\ taken = <<>>
  BY DEF Take, GetBatch, Batch
<1>3. b \in 0 .. Len(buffer) /\ Len(taken') = b
  BY <1>1, <1>2, BatchProperties DEF Batch
<1>4. /\ b + 1 \in Nat \ {0} /\ 1 \in Nat \ {0} /\ b \in Nat /\ b <= Len(buffer)
      /\ Len(buffer) <= Len(buffer)
  BY <1>1, <1>3
<1> HIDE DEF b
<1>5. ToSet(buffer') \subseteq ToSet(buffer) /\ ToSet(taken') \subseteq ToSet(buffer)
  BY <1>1, <1>2, <1>4, ElementsPart
<1>6. Held' \subseteq Held
  BY <1>5 DEF Held
<1>7. produced' = produced /\ gone' = gone /\ total_get' = total_get + b
  BY DEF Take, GetBatch, b
<1>8. ASSUME drop_oldest' PROVE Counted'
  <2>1. Counted
    BY <1>8 DEF Take, GetBatch, LInv, Counted
  <2>2. Len(taken) = 0
    BY <1>2, EmptySeq
  <2>3. /\ returned' = returned /\ erased' = erased
        /\ accepted' = accepted /\ total_put' = total_put
    BY DEF Take, GetBatch
  <2>4. Cardinality(gone) + returned + b = erased + total_get + b
    BY <1>4, <2>1, <2>2, Facts DEF Counted
  <2>5. QED
    BY <1>3, <1>4, <1>7, <2>1, <2>3, <2>4, Facts DEF Counted
<1>9. QED
  BY <1>6, <1>7, <1>8 DEF LInv, Counted

LEMMA TakeAllLoss ==
  ASSUME IInv, LInv, TakeAll
  PROVE  LInv'
<1>1. /\ buffer' = <<>> /\ taken' = buffer /\ taken = <<>>
      /\ produced' = produced /\ gone' = gone /\ total_get' = total_get + Len(buffer)
  BY DEF TakeAll, GetAll
<1>2. Held' \subseteq Held
  BY <1>1, ElementsOfEmpty DEF Held
<1>3. ASSUME drop_oldest' PROVE Counted'
  <2>1. Counted
    BY <1>3 DEF TakeAll, GetAll, LInv, Counted
  <2>2. Len(taken) = 0
    BY <1>1, EmptySeq
  <2>3. /\ returned' = returned /\ erased' = erased
        /\ accepted' = accepted /\ total_put' = total_put
    BY DEF TakeAll, GetAll
  <2>4. Cardinality(gone) + returned = erased + total_get
    BY <2>1, <2>2, Facts DEF Counted
  <2>5. QED
    BY <1>1, <2>1, <2>3, <2>4, Facts DEF Counted
<1>4. QED
  BY <1>1, <1>2, <1>3 DEF LInv, Counted

LEMMA ConfirmLoss ==
  ASSUME IInv, LInv, Confirm
  PROVE  LInv'
<1>1. /\ buffer' = buffer /\ taken' = <<>> /\ produced' = produced
      /\ gone' = gone \cup ToSet(taken)
  BY DEF Confirm, bufferVars
<1>2. Held' = ToSet(buffer)
  BY <1>1, ElementsOfEmpty DEF Held
<1>3. /\ Held' \subseteq 1 .. produced' /\ gone' \subseteq 1 .. produced'
      /\ gone' \cap Held' = {}
  BY <1>1, <1>2, Facts DEF LInv, Held
<1>4. Cardinality(gone') = Cardinality(gone) + Len(taken)
  BY <1>1, Facts, DisjointUnion DEF LInv, Held
<1>5. ASSUME drop_oldest' PROVE Counted'
  <2>1. Counted
    BY <1>5 DEF Confirm, bufferVars, LInv, Counted
  <2>2. Len(taken') = 0
    BY <1>1, EmptySeq
  <2>3. /\ returned' = returned /\ erased' = erased /\ total_get' = total_get
        /\ accepted' = accepted /\ total_put' = total_put
    BY DEF Confirm, bufferVars, stats
  <2>4. QED
    BY <1>1, <1>4, <2>1, <2>2, <2>3, Facts DEF Counted
<1>6. QED
  BY <1>3, <1>5 DEF LInv, Counted

LEMMA ReturnLoss ==
  ASSUME IInv, LInv, Return
  PROVE  LInv'
<1>1. /\ buffer' = AfterPutFront(taken) /\ taken' = <<>> /\ produced' = produced
      /\ gone' = gone /\ drop_oldest' = drop_oldest
  BY DEF Return, PutFront
<1>2. ToSet(buffer') \subseteq ToSet(buffer) \cup ToSet(taken)
  BY <1>1, Facts, ElementsAfterPut
<1>3. Held' \subseteq Held
  BY <1>1, <1>2, ElementsOfEmpty DEF Held
<1>4. ASSUME drop_oldest PROVE Counted'
  <2>1. Counted
    BY <1>4 DEF LInv, Counted
  <2>2. Len(taken') = 0
    BY <1>1, EmptySeq
  <2>3. /\ returned' = returned + Len(taken)
        /\ erased' = erased /\ total_get' = total_get
        /\ accepted' = accepted /\ total_put' = total_put
    BY <1>4 DEF Return, PutFront, FrontCount
  <2>4. QED
    BY <1>1, <2>1, <2>2, <2>3, Facts DEF Counted
<1>5. QED
  BY <1>1, <1>3, <1>4 DEF LInv, Counted

LEMMA EraseLoss ==
  ASSUME IInv, LInv, Erase
  PROVE  LInv'
<1>1. /\ buffer' = <<>> /\ taken' = taken /\ produced' = produced
      /\ gone' = gone \cup ToSet(buffer)
  BY DEF Erase, Clear
<1>2. Held' = ToSet(taken)
  BY <1>1, ElementsOfEmpty DEF Held
<1>3. /\ Held' \subseteq 1 .. produced' /\ gone' \subseteq 1 .. produced'
      /\ gone' \cap Held' = {}
  BY <1>1, <1>2, Facts DEF LInv, Held
<1>4. Cardinality(gone') = Cardinality(gone) + Len(buffer)
  BY <1>1, Facts, DisjointUnion DEF LInv, Held
<1>5. ASSUME drop_oldest' PROVE Counted'
  <2>1. Counted
    BY <1>5 DEF Erase, Clear, LInv, Counted
  <2>2. /\ returned' = returned /\ erased' = erased + Len(buffer)
        /\ total_get' = total_get
        /\ accepted' = accepted /\ total_put' = total_put
    BY DEF Erase, Clear, stats
  <2>3. Cardinality(gone) + Len(buffer) + returned + Len(taken)
          = erased + Len(buffer) + total_get
    <3>1. Cardinality(gone) + returned + Len(taken) = erased + total_get
      BY <2>1 DEF Counted
    <3>2. /\ Len(buffer) \in Nat /\ Len(taken) \in Nat /\ Cardinality(gone) \in Nat
          /\ returned \in Nat /\ erased \in Nat /\ total_get \in Nat
      BY Facts
    <3>3. QED
      BY <3>1, <3>2
  <2>4. Len(taken') = Len(taken)
    BY <1>1
  <2>5. Cardinality(gone') + returned' + Len(taken') = erased' + total_get'
    BY <1>4, <2>2, <2>3, <2>4
  <2>6. QED
    BY <1>1, <2>1, <2>2, <2>5 DEF Counted
<1>6. QED
  BY <1>3, <1>5 DEF LInv, Counted

LEMMA StutterLoss ==
  ASSUME LInv, UNCHANGED vars
  PROVE  LInv'
BY DEF vars, bufferVars, stats, clientVars, LInv, Held, ToSet
-----------------------------------------------------------------------------
(* The theorems.                                                           *)

\* The parts of an invariant state count what was made.
LEMMA NothingUncounted ==
  ASSUME IInv, LInv
  PROVE  LossIsCounted
<1> SUFFICES ASSUME drop_oldest PROVE Cardinality(Missing) = total_overflow
  BY DEF LossIsCounted
<1> DEFINE S == ToSet(buffer) \cup ToSet(taken)
           T == S \cup gone
<1>1. Counted
  BY DEF LInv, Counted
<1>2. IsFiniteSet(S) /\ Cardinality(S) = Len(buffer) + Len(taken)
  BY Facts, DisjointUnion
<1>3. S \cap gone = {} /\ T \subseteq 1 .. produced
  BY DEF LInv, Held
<1> HIDE DEF S
<1>4. Cardinality(T) = Len(buffer) + Len(taken) + Cardinality(gone)
  BY <1>2, <1>3, Facts, DisjointUnion
<1>5. Missing = (1 .. produced) \ T
  BY <1>1 DEF Missing, Counted, S
<1>6. IsFiniteSet(1 .. produced) /\ Cardinality(1 .. produced) = produced
  <2>1. 1 \in Int /\ produced \in Int
    BY Facts
  <2>2. /\ IsFiniteSet(1 .. produced)
        /\ Cardinality(1 .. produced) = IF 1 > produced THEN 0 ELSE produced - 1 + 1
    BY <2>1, FS_Interval
  <2>3. QED
    BY <2>2, Facts
<1> HIDE DEF T
<1>7. Cardinality(Missing) = produced - Cardinality(T)
  <2>1. (1 .. produced) \cap T = T
    BY <1>3
  <2>2. Cardinality((1 .. produced) \ T)
          = Cardinality(1 .. produced) - Cardinality((1 .. produced) \cap T)
    BY <1>6, FS_Difference
  <2>3. QED
    BY <1>5, <1>6, <2>1, <2>2
<1>8. /\ total_put + returned = Len(buffer) + total_get + total_overflow + erased
      /\ total_put \in Nat /\ total_overflow \in Nat
  BY DEF IInv, Accounting, TypeOK, BufferTypeOK
<1>9. total_put = produced /\ Cardinality(gone) + returned + Len(taken) = erased + total_get
  BY <1>1 DEF Counted
<1>10. /\ Len(buffer) \in Nat /\ Len(taken) \in Nat /\ Cardinality(gone) \in Nat
       /\ returned \in Nat /\ erased \in Nat /\ total_get \in Nat
  BY Facts
<1>11. produced + returned = Len(buffer) + total_get + total_overflow + erased
  BY <1>8, <1>9
<1>12. produced - (Len(buffer) + Len(taken) + Cardinality(gone)) = total_overflow
  BY <1>8, <1>9, <1>10, <1>11
<1>13. QED
  BY <1>4, <1>7, <1>12

\* LInv holds of every state that a buffer and its two clients reach.
THEOREM LossInvariance == Spec => []LInv
<1>1. Init => LInv
  BY InitLoss
<1>2. IInv /\ LInv /\ [Next]_vars => LInv'
  <2> SUFFICES ASSUME IInv, LInv, [Next]_vars PROVE LInv'
    OBVIOUS
  <2>1. ASSUME NEW k \in 1 .. MaxItems, Produce(k) PROVE LInv'
    BY <2>1, ProduceLoss
  <2>2. ASSUME NEW size \in 1 .. BatchSize, Take(size) PROVE LInv'
    BY <2>2, TakeLoss
  <2>3. CASE TakeAll
    BY <2>3, TakeAllLoss
  <2>4. CASE Confirm
    BY <2>4, ConfirmLoss
  <2>5. CASE Return
    BY <2>5, ReturnLoss
  <2>6. CASE Erase
    BY <2>6, EraseLoss
  <2>7. CASE UNCHANGED vars
    BY <2>7, StutterLoss
  <2>8. QED
    BY <2>1, <2>2, <2>3, <2>4, <2>5, <2>6, <2>7 DEF Next
<1>3. QED
  BY <1>1, <1>2, Invariance, PTL DEF Spec

\* With drop_oldest, the items that are nowhere any more though a put accepted
\* them are as many as total_overflow says, from whichever end they were
\* dropped (buffer.py:223-228, 250-260): no loss is silent.
THEOREM NoSilentOverflow == Spec => []LossIsCounted
<1>1. IInv /\ LInv => LossIsCounted
  BY NothingUncounted
<1>2. QED
  BY <1>1, Invariance, LossInvariance, PTL
=============================================================================
