------------------------- MODULE SegmentGrowthProofs -------------------------
(***************************************************************************)
(* Proofs about the growth of the segments in ShmMessage: of sums over     *)
(* lists and over Builders, by the inductions of SetInduction.             *)
(***************************************************************************)
EXTENDS ShmMessageProofs, SetInduction

\* The capacities in a list, as numbers to be added up.
CapsOf(list) == [i \in Nat |-> IF i \in 1 .. Len(list) THEN list[i].cap ELSE 0]

\* TotalCap is the running sum of them.
LEMMA TotalCapIsSum ==
  ASSUME NEW list \in Seq(Segment)
  PROVE  /\ TotalCap(list) \in Nat
         /\ \E f : IsRunningSum(f, CapsOf(list), Len(list)) /\ TotalCap(list) = f[Len(list)]
<1> DEFINE len == Len(list)
           Adds(f) == f = [n \in 0 .. len |-> IF n = 0 THEN 0 ELSE f[n - 1] + list[n].cap]
           sum == CHOOSE f : Adds(f)
<1>1. len \in Nat /\ \A i \in 1 .. len : list[i].cap \in Nat
  <2>1. len \in Nat
    OBVIOUS
  <2>2. ASSUME NEW i \in 1 .. len PROVE list[i].cap \in Nat
    <3>1. list[i] \in Segment
      BY ElementOf
    <3> QED BY <3>1 DEF Segment
  <2> QED BY <2>1, <2>2
<1>2. CapsOf(list) \in [Nat -> Nat] /\ \A i \in 1 .. len : CapsOf(list)[i] = list[i].cap
  BY <1>1 DEF CapsOf
<1>3. PICK f \in [0 .. len -> Nat] : IsRunningSum(f, CapsOf(list), len)
  BY <1>1, <1>2, RunningSumExists
<1>4. TotalCap(list) = sum[len]
  BY DEF TotalCap
<1> HIDE DEF len
<1>5. Adds(f)
  <2> DEFINE h == [n \in 0 .. len |-> IF n = 0 THEN 0 ELSE f[n - 1] + list[n].cap]
  <2>1. \A n \in 0 .. len : f[n] = h[n]
    <3> TAKE n \in 0 .. len
    <3>1. CASE n = 0
      BY <3>1, <1>3 DEF IsRunningSum
    <3>2. CASE n # 0
      <4>1. n \in 1 .. len
        BY <1>1, <3>2
      <4> QED BY <1>2, <1>3, <3>2, <4>1 DEF IsRunningSum
    <3> QED BY <3>1, <3>2
  <2> QED BY <2>1
<1>6. Adds(sum)
  BY <1>5
<1>7. IsRunningSum(sum, CapsOf(list), len)
  <2>1. \A n \in 0 .. len : sum[n] = IF n = 0 THEN 0 ELSE sum[n - 1] + list[n].cap
    <3> HIDE DEF sum
    <3> QED BY <1>6
  <2> HIDE DEF sum
  <2>2. sum[0] = 0
    BY <1>1, <2>1
  <2>3. \A i \in 1 .. len : sum[i] = sum[i - 1] + CapsOf(list)[i]
    BY <1>1, <1>2, <2>1
  <2> QED BY <2>2, <2>3 DEF IsRunningSum
<1> HIDE DEF sum
<1>8. f[len] = sum[len]
  BY <1>1, <1>3, <1>7, RunningSumUnique
<1> QED BY <1>1, <1>3, <1>4, <1>8 DEF len

LEMMA TotalCapAppend ==
  ASSUME NEW list \in Seq(Segment), NEW seg \in Segment
  PROVE  TotalCap(list) \in Nat /\ TotalCap(Append(list, seg)) = TotalCap(list) + seg.cap
<1> DEFINE len == Len(list)
           longer == Append(list, seg)
<1>1. len \in Nat /\ longer \in Seq(Segment) /\ Len(longer) = len + 1
  OBVIOUS
<1>2. \A i \in 1 .. len : CapsOf(longer)[i] = CapsOf(list)[i]
  BY DEF CapsOf
<1>3. CapsOf(longer)[len + 1] = seg.cap
  BY <1>1 DEF CapsOf
<1>4. PICK f : IsRunningSum(f, CapsOf(list), len) /\ TotalCap(list) = f[len]
  BY TotalCapIsSum
<1>5. PICK g :
        IsRunningSum(g, CapsOf(longer), len + 1) /\ TotalCap(longer) = g[len + 1]
  BY <1>1, TotalCapIsSum
<1> HIDE DEF longer, len
<1>6. g[len] = f[len]
  <2>1. len \in Nat /\ len <= len + 1 /\ len \in 0 .. len /\ len + 1 \in Nat
    BY <1>1
  <2>2. \A i \in 0 .. len : g[i] = f[i]
    BY <1>2, <1>4, <1>5, <2>1, RunningSumUnique
  <2> QED BY <2>1, <2>2
<1>7. g[len + 1] = g[len] + seg.cap
  BY <1>1, <1>3, <1>5 DEF IsRunningSum
<1>8. TotalCap(list) \in Nat
  BY TotalCapIsSum
<1> QED BY <1>4, <1>5, <1>6, <1>7, <1>8 DEF longer

LEMMA TotalCapOfCaps ==
  ASSUME NEW list \in Seq(Segment), NEW other \in Seq(Segment), Len(list) = Len(other),
         \A i \in 1 .. Len(list) : list[i].cap = other[i].cap
  PROVE  TotalCap(list) = TotalCap(other)
<1>1. CapsOf(list) = CapsOf(other)
  BY DEF CapsOf
<1>2. PICK f :
        IsRunningSum(f, CapsOf(list), Len(list)) /\ TotalCap(list) = f[Len(list)]
  BY TotalCapIsSum
<1>3. PICK g :
        IsRunningSum(g, CapsOf(list), Len(list)) /\ TotalCap(other) = g[Len(list)]
  BY <1>1, TotalCapIsSum
<1>4. f[Len(list)] = g[Len(list)]
  BY <1>2, <1>3, RunningSumUnique
<1> QED BY <1>2, <1>3, <1>4

LEMMA TotalCapEmpty == TotalCap(<<>>) = 0
<1>1. <<>> \in Seq(Segment) /\ Len(<<>>) = 0
  BY EmptySeq
<1> QED BY <1>1, TotalCapIsSum DEF IsRunningSum

\* So does the total of the first n segments depend on their capacities only.
LEMMA TotalCapBefore ==
  ASSUME NEW list \in Seq(Segment), NEW other \in Seq(Segment),
         NEW n \in Nat, n <= Len(list), n <= Len(other),
         \A i \in 1 .. n : list[i].cap = other[i].cap
  PROVE  TotalCap(SubSeq(list, 1, n)) = TotalCap(SubSeq(other, 1, n))
<1>1. ASSUME NEW s \in Seq(Segment), n <= Len(s)
      PROVE  /\ SubSeq(s, 1, n) \in Seq(Segment)
             /\ Len(SubSeq(s, 1, n)) = n
             /\ \A i \in 1 .. n : SubSeq(s, 1, n)[i] = s[i]
  <2>1. \A i \in 1 .. n : s[i] \in Segment
    BY <1>1
  <2>2. (IF 1 <= n THEN n - 1 + 1 ELSE 0) = n /\ n - 1 + 1 = n
    OBVIOUS
  <2> QED BY <2>1, <2>2, SubSeqProperties
<1> DEFINE l == SubSeq(list, 1, n)
           o == SubSeq(other, 1, n)
<1>2. /\ l \in Seq(Segment) /\ Len(l) = n /\ \A i \in 1 .. n : l[i] = list[i]
      /\ o \in Seq(Segment) /\ Len(o) = n /\ \A i \in 1 .. n : o[i] = other[i]
  BY <1>1
<1> HIDE DEF l, o
<1>3. TotalCap(l) = TotalCap(o)
  BY <1>2, TotalCapOfCaps
<1> QED BY <1>3 DEF l, o

\* SegmentsGrow of one list.
Grows(list) ==
  \A i \in 1 .. Len(list) : list[i].cap >= FirstSegmentSz + TotalCap(SubSeq(list, 1, i - 1))

LEMMA GrowsOfCaps ==
  ASSUME NEW list \in Seq(Segment), NEW other \in Seq(Segment), Len(list) = Len(other),
         \A i \in 1 .. Len(list) : list[i].cap = other[i].cap, Grows(list)
  PROVE  Grows(other)
<1> SUFFICES ASSUME NEW i \in 1 .. Len(list)
             PROVE  other[i].cap >= FirstSegmentSz + TotalCap(SubSeq(other, 1, i - 1))
  BY DEF Grows
<1>1. i - 1 \in Nat /\ i - 1 <= Len(list) /\ \A j \in 1 .. i - 1 : j \in 1 .. Len(list)
  OBVIOUS
<1>2. TotalCap(SubSeq(list, 1, i - 1)) = TotalCap(SubSeq(other, 1, i - 1))
  BY <1>1, TotalCapBefore
<1> QED BY <1>2 DEF Grows

LEMMA GrowsAppend ==
  ASSUME NEW list \in Seq(Segment), NEW seg \in Segment, Grows(list),
         seg.cap >= FirstSegmentSz + TotalCap(list)
  PROVE  Grows(Append(list, seg))
<1> DEFINE longer == Append(list, seg)
           len == Len(list)
<1>1. /\ longer \in Seq(Segment) /\ len \in Nat /\ Len(longer) = len + 1
      /\ \A i \in 1 .. len : longer[i] = list[i]
      /\ longer[len + 1] = seg
  BY Appended
<1> HIDE DEF longer
<1> SUFFICES ASSUME NEW i \in 1 .. len + 1
             PROVE  longer[i].cap >= FirstSegmentSz + TotalCap(SubSeq(longer, 1, i - 1))
  BY <1>1 DEF Grows, longer
<1>2. /\ i - 1 \in Nat /\ i - 1 <= len /\ i - 1 <= Len(longer)
      /\ \A j \in 1 .. i - 1 : j \in 1 .. len
  BY <1>1
<1>3. TotalCap(SubSeq(longer, 1, i - 1)) = TotalCap(SubSeq(list, 1, i - 1))
  BY <1>1, <1>2, TotalCapBefore
<1>4. CASE i = len + 1
  <2>1. i - 1 = len /\ SubSeq(list, 1, len) = list
    BY <1>1, <1>4, SubSeqFull
  <2> QED BY <1>1, <1>3, <1>4, <2>1
<1>5. CASE i # len + 1
  <2>1. i \in 1 .. len
    BY <1>1, <1>5
  <2> QED BY <1>1, <1>3, <2>1 DEF Grows
<1> QED BY <1>4, <1>5

\* m_segment_sz counts all the segments of the list, or more when they are gone.
SegmentSzCounts ==
  \A b \in Builder : segment_sz[b] >= FirstSegmentSz + TotalCap(segs[b])

GrowthInv == SegmentSzCounts /\ \A b \in Builder : Grows(segs[b])

\* Only allocateSegment() changes m_segment_sz.
LEMMA SegmentSzStays ==
  ASSUME [Next]_vars, ~ \E b \in Builder, n \in LeafSz : AllocateSegment(b, n)
  PROVE  UNCHANGED segment_sz
<1> USE DEF poolVars, msgVars
<1>1. ASSUME NEW b \in Builder,
             BuilderCtor(b) \/ BuilderDtor(b) \/ BuilderCrash(b) \/ Reclaim(b)
      PROVE  UNCHANGED segment_sz
  BY <1>1 DEF BuilderCtor, BuilderDtor, BuilderCrash, Reclaim
<1>2. ASSUME NEW b \in Builder, NEW n \in LeafSz, Mutate(b, n)
      PROVE  UNCHANGED segment_sz
  BY <1>2 DEF Mutate
<1>3. ASSUME NEW b \in Builder, NEW m \in Message, BeginEmission(b, m)
      PROVE  UNCHANGED segment_sz
  BY <1>3 DEF BeginEmission
<1>4. ASSUME NEW m \in Message, NEW given \in BOOLEAN, Deserialize(m, given)
      PROVE  UNCHANGED segment_sz
  BY <1>4 DEF Deserialize, SetMsg
<1>5. ASSUME NEW m \in Message,
             \/ AdjustSegment(m) \/ LendSegments(m) \/ LendFails(m) \/ EmitTop(m)
             \/ Lose(m) \/ Receive(m) \/ DeserializeFails(m)
             \/ TraverseSegment(m) \/ FinishTraversal(m)
             \/ ReaderDtor(m) \/ ReaderCrash(m)
      PROVE  UNCHANGED segment_sz
  <2>1. CASE AdjustSegment(m) \/ LendSegments(m) \/ LendFails(m) \/ TraverseSegment(m)
    BY <2>1 DEF AdjustSegment, LendSegments, LendFails, TraverseSegment
  <2>2. CASE \/ Lose(m) \/ Receive(m) \/ DeserializeFails(m) \/ FinishTraversal(m)
             \/ ReaderDtor(m) \/ ReaderCrash(m)
    <3>1. \E state : SetMsg(m, state)
      BY <2>2, Zenon DEF Lose, Receive, DeserializeFails, FinishTraversal, ReaderDtor, ReaderCrash
    <3> QED BY <3>1 DEF SetMsg
  <2>3. CASE EmitTop(m)
    BY <2>3, Zenon DEF EmitTop
  <2> QED BY <1>5, <2>1, <2>2, <2>3
<1>6. CASE UNCHANGED vars
  BY <1>6 DEF vars
<1>7. CASE Next
  <2>1. CASE \E b \in Builder, n \in LeafSz : Mutate(b, n) \/ AllocateSegment(b, n)
    <3>1. \E b \in Builder, n \in LeafSz : Mutate(b, n)
      BY <2>1
    <3> QED BY <1>2, <3>1
  <2>2. CASE \E m \in Message, given \in BOOLEAN : Deserialize(m, given)
    BY <1>4, <2>2
  <2>3. CASE \E b \in Builder, m \in Message : BeginEmission(b, m)
    BY <1>3, <2>3
  <2>4. CASE \E b \in Builder : BuilderCtor(b) \/ BuilderDtor(b) \/ BuilderCrash(b) \/ Reclaim(b)
    BY <1>1, <2>4
  <2> QED BY <1>5, <1>7, <2>1, <2>2, <2>3, <2>4 DEF Next
<1> QED BY <1>6, <1>7

\* The capacities in a list change only when it gets a new segment, or goes.
SameCaps(list, other) ==
  Len(other) = Len(list) /\ \A i \in 1 .. Len(list) : other[i].cap = list[i].cap

LEMMA CapacitiesKept ==
  ASSUME TypeOK, Sharing, OneEmission, Fresh, [Next]_vars, NEW c \in Builder
  PROVE  \/ \E n \in LeafSz : AllocateSegment(c, n)
         \/ Reclaim(c)
         \/ SameCaps(segs[c], segs'[c])
<1>1. CASE segs'[c] = segs[c]
  BY <1>1 DEF SameCaps
<1>2. ASSUME NEW b \in Builder, Reclaim(b), b # c
      PROVE  segs'[c] = segs[c]
  BY <1>2 DEF Reclaim, TypeOK
<1>3. ASSUME NEW b \in Builder, NEW n \in LeafSz, AllocateSegment(b, n), b # c
      PROVE  segs'[c] = segs[c]
  BY <1>3 DEF AllocateSegment, TypeOK
<1>4. ASSUME NEW b \in Builder, NEW n \in LeafSz, Mutate(b, n)
      PROVE  SameCaps(segs[c], segs'[c])
  <2>1. CASE c # b
    <3>1. segs'[c] = segs[c]
      BY <1>4, <2>1, MutateDoes
    <3> QED BY <3>1 DEF SameCaps
  <2>2. CASE c = b
    <3>1. Len(segs'[c]) = Len(segs[c])
      BY <1>4, <2>2, MutateDoes
    <3>2. \A i \in 1 .. Len(segs[c]) : segs'[c][i].cap = segs[c][i].cap
      BY <1>4, <2>2, MutateDoes
    <3> QED BY <3>1, <3>2 DEF SameCaps
  <2> QED BY <2>1, <2>2
<1>5. ASSUME NEW m \in Message, AdjustSegment(m)
      PROVE  SameCaps(segs[c], segs'[c])
  <2>1. CASE c = of[m]
    <3>1. Len(segs'[c]) = Len(segs[c])
      BY <1>5, <2>1, AdjustDoes
    <3>2. \A i \in 1 .. Len(segs[c]) : segs'[c][i].cap = segs[c][i].cap
      BY <1>5, <2>1, AdjustDoes
    <3> QED BY <3>1, <3>2 DEF SameCaps
  <2>2. CASE c # of[m]
    <3>1. segs'[c] = segs[c]
      BY <1>5, <2>2, AdjustDoes
    <3> QED BY <3>1 DEF SameCaps
  <2> QED BY <2>1, <2>2
<1> QED BY <1>1, <1>2, <1>3, <1>4, <1>5, StepKinds

LEMMA GrowthStep ==
  ASSUME TypeOK, TypeOK', Sharing, OneEmission, Fresh, GrowthInv, [Next]_vars
  PROVE  GrowthInv'
<1> SUFFICES ASSUME NEW c \in Builder
             PROVE  /\ segment_sz'[c] >= FirstSegmentSz + TotalCap(segs'[c])
                    /\ Grows(segs'[c])
  BY DEF GrowthInv, SegmentSzCounts
<1>1. /\ segs[c] \in Seq(Segment) /\ segs'[c] \in Seq(Segment)
      /\ segment_sz[c] \in Nat /\ FirstSegmentSz \in Nat
      /\ TotalCap(segs[c]) \in Nat
      /\ segment_sz[c] >= FirstSegmentSz + TotalCap(segs[c]) /\ Grows(segs[c])
  <2>1. segs[c] \in Seq(Segment) /\ segs'[c] \in Seq(Segment) /\ segment_sz[c] \in Nat
    BY DEF TypeOK
  <2> QED BY <2>1, TotalCapIsSum, MessageAssumption DEF GrowthInv, SegmentSzCounts
\* The capacities are what they were.
<1>2. ASSUME UNCHANGED segment_sz, Len(segs'[c]) = Len(segs[c]),
             \A i \in 1 .. Len(segs[c]) : segs'[c][i].cap = segs[c][i].cap
      PROVE  /\ segment_sz'[c] >= FirstSegmentSz + TotalCap(segs'[c])
             /\ Grows(segs'[c])
  <2>1. TotalCap(segs'[c]) = TotalCap(segs[c])
    BY <1>1, <1>2, TotalCapOfCaps
  <2>2. Grows(segs'[c])
    BY <1>1, <1>2, GrowsOfCaps
  <2> QED BY <1>1, <1>2, <2>1, <2>2
<1>3. CASE \E b \in Builder, n \in LeafSz : AllocateSegment(b, n)
  <2>1. PICK b \in Builder, n \in LeafSz : AllocateSegment(b, n)
    BY <1>3
  <2>2. CASE c # b
    <3>1. segs'[c] = segs[c] /\ segment_sz'[c] = segment_sz[c]
      BY <2>1, <2>2 DEF AllocateSegment, TypeOK
    <3> QED BY <1>1, <3>1
  <2>3. CASE c = b
    <3> DEFINE sz == SegmentSzFor(b, n)
               seg == [cap |-> sz, size |-> sz, used |-> n]
    <3>1. segs'[c] = Append(segs[c], seg) /\ segment_sz'[c] = segment_sz[c] + sz
      BY <2>1, <2>3 DEF AllocateSegment, NextSegmentSz, TypeOK
    <3>2. n \in Nat /\ sz \in Nat /\ sz >= segment_sz[c]
      BY <1>1, <2>3, MessageAssumption DEF SegmentSzFor
    <3> HIDE DEF sz
    <3>3. seg \in Segment /\ seg.cap = sz
      BY <3>2 DEF Segment
    <3>4. seg.cap >= FirstSegmentSz + TotalCap(segs[c])
      BY <1>1, <3>2, <3>3
    <3> HIDE DEF seg
    <3>5. Grows(segs'[c])
      BY <1>1, <3>1, <3>3, <3>4, GrowsAppend
    <3>6. TotalCap(segs'[c]) = TotalCap(segs[c]) + sz
      BY <1>1, <3>1, <3>3, TotalCapAppend
    <3> QED BY <1>1, <3>1, <3>2, <3>5, <3>6
  <2> QED BY <2>2, <2>3
<1>4. CASE ~ \E b \in Builder, n \in LeafSz : AllocateSegment(b, n)
  <2>1. UNCHANGED segment_sz
    BY <1>4, SegmentSzStays
  <2>2. CASE Reclaim(c)
    <3>1. segs'[c] = <<>> /\ Len(segs'[c]) = 0 /\ 1 .. Len(segs'[c]) = {}
      BY <2>2 DEF Reclaim, TypeOK
    <3>2. Grows(segs'[c])
      BY <3>1 DEF Grows
    <3> QED BY <1>1, <2>1, <3>1, <3>2, TotalCapEmpty
  <2>3. CASE SameCaps(segs[c], segs'[c])
    BY <1>2, <2>1, <2>3 DEF SameCaps
  <2> QED BY <1>4, <2>2, <2>3, CapacitiesKept
<1> QED BY <1>3, <1>4

LEMMA GrowthAlways == Spec => [](IInv /\ GrowthInv)
<1>1. Init => GrowthInv
  <2> SUFFICES ASSUME Init, NEW b \in Builder
               PROVE  segment_sz[b] >= FirstSegmentSz + TotalCap(segs[b]) /\ Grows(segs[b])
    BY DEF GrowthInv, SegmentSzCounts
  <2>1. segs[b] = <<>> /\ segment_sz[b] = FirstSegmentSz /\ 1 .. Len(segs[b]) = {}
    BY DEF Init
  <2> QED BY <2>1, TotalCapEmpty, MessageAssumption DEF Grows
<1>2. IInv /\ GrowthInv /\ [Next]_vars => GrowthInv'
  BY GrowthStep, TypeStep DEF IInv
<1> QED BY Inductive, <1>1, <1>2, PTL DEF Spec

\* A new segment is as large as all those before it and SUGGESTED_FIRST_SEGMENT_WORDS
\* together, for any leaves, any number of segments, and whatever lend() resizes.
THEOREM SegmentsAlwaysGrow == Spec => []SegmentsGrow
<1>1. IInv /\ GrowthInv => SegmentsGrow
  <2> SUFFICES ASSUME IInv, GrowthInv, NEW b \in Builder, NEW i \in DOMAIN segs[b]
               PROVE  segs[b][i].cap >= FirstSegmentSz + TotalCap(SubSeq(segs[b], 1, i - 1))
    BY DEF SegmentsGrow
  <2>1. DOMAIN segs[b] = 1 .. Len(segs[b])
    BY DEF IInv, TypeOK
  <2> QED BY <2>1 DEF GrowthInv, Grows
<1> QED BY GrowthAlways, <1>1, PTL

-----------------------------------------------------------------------------

\* The recursive definition defines what it says.
LEMMA LeastTotalIs ==
  /\ LeastTotal[0] = FirstSegmentSz
  /\ \A n \in Nat : LeastTotal[n] \in Nat /\ LeastTotal[n + 1] = 2 * LeastTotal[n]
<1> DEFINE Is(f) == f = [n \in Nat |-> IF n = 0 THEN FirstSegmentSz ELSE 2 * f[n - 1]]
           twice == [k \in Nat |-> 2 * k]
<1>1. FirstSegmentSz \in Nat
  BY MessageAssumption
<1>2. PICK f : IteratesForEver(f, twice, FirstSegmentSz, Nat)
  <2>1. LeadsBackTo(twice, Nat)
    BY DEF LeadsBackTo
  <2> HIDE DEF twice
  <2> QED BY <1>1, <2>1, IterationExists
<1>3. Is(f)
  <2> USE DEF IteratesForEver
  <2> DEFINE h == [n \in Nat |-> IF n = 0 THEN FirstSegmentSz ELSE 2 * f[n - 1]]
  <2>1. ASSUME NEW n \in Nat PROVE f[n] = h[n]
    <3>1. CASE n = 0
      BY <1>2, <3>1
    <3>2. CASE n # 0
      <4>1. n - 1 \in Nat /\ n - 1 + 1 = n
        BY <3>2
      <4>2. f[n - 1] \in Nat /\ f[n - 1 + 1] = twice[f[n - 1]]
        BY <1>2, <4>1
      <4> QED BY <3>2, <4>1, <4>2
    <3> QED BY <3>1, <3>2
  <2> QED BY <1>2, <2>1
<1>4. LeastTotal = CHOOSE g : Is(g)
  BY DEF LeastTotal
<1>5. Is(LeastTotal)
  BY <1>3, <1>4
<1>6. \A n \in Nat : LeastTotal[n] = IF n = 0 THEN FirstSegmentSz ELSE 2 * LeastTotal[n - 1]
  BY <1>5
<1> DEFINE P == {n \in Nat : LeastTotal[n] \in Nat}
<1>7. 0 \in P
  BY <1>1, <1>6
<1>8. ASSUME NEW n \in Nat PROVE LeastTotal[n + 1] = 2 * LeastTotal[n]
  <2>1. n + 1 \in Nat /\ n + 1 # 0 /\ n + 1 - 1 = n
    OBVIOUS
  <2> QED BY <1>6, <2>1
<1>9. ASSUME NEW n \in Nat, n \in P PROVE n + 1 \in P
  BY <1>8, <1>9
<1> HIDE DEF P
<1>10. \A n \in Nat : n \in P
  BY <1>7, <1>9, NatInductionOnSet
<1> QED BY <1>6, <1>8, <1>10 DEF P

\* The first segments of a list, and the next one.
LEMMA AppendedBefore ==
  ASSUME NEW list \in Seq(Segment), NEW n \in Nat, n + 1 <= Len(list)
  PROVE  /\ SubSeq(list, 1, n) \in Seq(Segment)
         /\ SubSeq(list, 1, n + 1) = Append(SubSeq(list, 1, n), list[n + 1])
OBVIOUS

\* Each segment of a list doubles what the list takes.
LEMMA GrowsDoubles ==
  ASSUME NEW list \in Seq(Segment), Grows(list)
  PROVE  LeastTotal[Len(list)] <= FirstSegmentSz + TotalCap(list)
<1> DEFINE Before(n) == SubSeq(list, 1, n)
           P == {n \in Nat : n <= Len(list) =>
                               LeastTotal[n] <= FirstSegmentSz + TotalCap(Before(n))}
<1>1. FirstSegmentSz \in Nat /\ Len(list) \in Nat
  BY MessageAssumption
<1>2. 0 \in P
  <2>1. Before(0) = <<>>
    BY SubSeqEmpty
  <2>2. LeastTotal[0] = FirstSegmentSz /\ TotalCap(Before(0)) = 0
    BY <2>1, LeastTotalIs, TotalCapEmpty
  <2> HIDE DEF Before
  <2> QED BY <1>1, <2>2
<1>3. ASSUME NEW n \in Nat, n \in P PROVE n + 1 \in P
  <2> SUFFICES ASSUME n + 1 <= Len(list)
               PROVE  LeastTotal[n + 1] <= FirstSegmentSz + TotalCap(Before(n + 1))
    OBVIOUS
  <2> DEFINE least == LeastTotal[n]
             total == TotalCap(Before(n))
             seg == list[n + 1]
  <2>1. n + 1 \in 1 .. Len(list) /\ n + 1 - 1 = n
    BY <1>1
  <2>2. seg \in Segment /\ seg.cap \in Nat
    <3>1. list[n + 1] \in Segment
      BY <2>1, ElementOf
    <3> QED BY <3>1 DEF Segment
  <2>3. Before(n) \in Seq(Segment) /\ Before(n + 1) = Append(Before(n), seg)
    BY <2>1, AppendedBefore
  <2>4. total \in Nat /\ TotalCap(Before(n + 1)) = total + seg.cap
    BY <2>2, <2>3, TotalCapAppend
  <2>5. seg.cap >= FirstSegmentSz + total
    BY <2>1 DEF Grows
  <2>6. least <= FirstSegmentSz + total
    BY <1>3, <2>1
  <2>7. least \in Nat /\ LeastTotal[n + 1] = 2 * least
    BY LeastTotalIs
  <2> HIDE DEF least, total, seg
  <2> QED BY <1>1, <2>2, <2>4, <2>5, <2>6, <2>7
<1> HIDE DEF P
<1>4. Len(list) \in P
  BY <1>1, <1>2, <1>3, NatInductionOnSet
<1>5. Before(Len(list)) = list
  BY SubSeqFull
<1> HIDE DEF Before
<1>6. Len(list) <= Len(list)
  BY <1>1
<1> QED BY <1>4, <1>5, <1>6 DEF P

-----------------------------------------------------------------------------

\* What each list takes, and all of them.
Totals == [b \in Builder |-> TotalCap(segs[b])]

Added(g) ==
  CHOOSE sum : sum = [s \in SUBSET Builder |->
                        IF s = {} THEN 0 ELSE g[AnyOf(s)] + sum[s \ {AnyOf(s)}]]

LEMMA AddedIsSum ==
  ASSUME NEW g, \A b \in Builder : g[b] \in Nat
  PROVE  IsSetSum(Added(g), g, Builder)
<1> DEFINE Is(f) == f = [s \in SUBSET Builder |->
                           IF s = {} THEN 0 ELSE g[AnyOf(s)] + f[s \ {AnyOf(s)}]]
<1>1. PICK f \in [SUBSET Builder -> Nat] : IsSetSum(f, g, Builder)
  BY MessageAssumption, SetSumExists
<1>2. Is(f)
  BY <1>1 DEF IsSetSum
<1>3. Is(Added(g))
  BY <1>2 DEF Added
<1> HIDE DEF Added
<1> QED BY <1>3 DEF IsSetSum

LEMMA AddedZero ==
  ASSUME NEW g, \A b \in Builder : g[b] = 0
  PROVE  Added(g)[Builder] = 0
<1> DEFINE P == {s \in SUBSET Builder : Added(g)[s] = 0}
<1>1. IsSetSum(Added(g), g, Builder)
  BY AddedIsSum
<1>2. ASSUME NEW s \in SUBSET Builder, \A x \in s : s \ {x} \in P
      PROVE  s \in P
  <2>1. CASE s = {}
    BY <1>1, <2>1 DEF IsSetSum
  <2>2. CASE s # {}
    <3>1. AnyOf(s) \in s
      BY <2>2 DEF AnyOf
    <3>2. Added(g)[s \ {AnyOf(s)}] = 0 /\ g[AnyOf(s)] = 0
      BY <1>2, <3>1
    <3>3. Added(g)[s] = g[AnyOf(s)] + Added(g)[s \ {AnyOf(s)}]
      BY <1>1, <2>2 DEF IsSetSum
    <3> QED BY <3>2, <3>3
  <2> QED BY <2>1, <2>2
<1> HIDE DEF P
<1>3. \A s \in SUBSET Builder : s \in P
  BY <1>2, SubsetInduction, MessageAssumption
<1> QED BY <1>3 DEF P

\* PoolUse, by the definitions of the community modules.
LEMMA PoolUseIs == PoolUse = Added(Totals)[Builder]
<1> DEFINE F(sum) == [s \in SUBSET Builder |->
                        IF s = {} THEN 0 ELSE TotalCap(segs[AnyOf(s)]) + sum[s \ {AnyOf(s)}]]
           G(sum) == [s \in SUBSET Builder |->
                        IF s = {} THEN 0 ELSE Totals[AnyOf(s)] + sum[s \ {AnyOf(s)}]]
<1>1. PoolUse = (CHOOSE sum : sum = F(sum))[Builder]
  BY DEF PoolUse, MapThenSumSet, MapThenFoldSet, AnyOf
<1>2. \A s \in SUBSET Builder : s # {} => Totals[AnyOf(s)] = TotalCap(segs[AnyOf(s)])
  BY DEF AnyOf, Totals
<1>3. \A sum : F(sum) = G(sum)
  BY <1>2
<1>4. Added(Totals) = CHOOSE sum : sum = G(sum)
  BY DEF Added
<1> HIDE DEF F, G
<1>5. (CHOOSE sum : sum = F(sum)) = (CHOOSE sum : sum = G(sum))
  BY <1>3
<1> QED BY <1>1, <1>4, <1>5

LEMMA PoolUseIsNext == PoolUse' = Added(Totals')[Builder]
<1>1. (PoolUse = Added(Totals)[Builder])'
  BY PoolUseIs, PTL
<1> QED BY <1>1 DEF Added

\* A list takes no more than all of them.
LEMMA PoolUseBounds ==
  TypeOK => PoolUse \in Nat /\ \A b \in Builder : TotalCap(segs[b]) <= PoolUse
<1> SUFFICES ASSUME TypeOK
             PROVE  PoolUse \in Nat /\ \A b \in Builder : TotalCap(segs[b]) <= PoolUse
  OBVIOUS
<1>1. \A b \in Builder : Totals[b] = TotalCap(segs[b]) /\ Totals[b] \in Nat
  BY TotalCapIsSum DEF TypeOK, Totals
<1>2. IsSetSum(Added(Totals), Totals, Builder)
  BY <1>1, AddedIsSum
<1> HIDE DEF Totals
<1> QED BY <1>1, <1>2, PoolUseIs, SetSumBounds, MessageAssumption

\* When one list changes by so much, so does what all take.
LEMMA PoolUseChange ==
  ASSUME TypeOK, TypeOK', NEW b \in Builder, NEW d \in Int,
         TotalCap(segs'[b]) = TotalCap(segs[b]) + d,
         \A c \in Builder \ {b} : TotalCap(segs'[c]) = TotalCap(segs[c])
  PROVE  PoolUse' = PoolUse + d
<1>1. \A c \in Builder : /\ Totals[c] = TotalCap(segs[c]) /\ Totals[c] \in Nat
                         /\ Totals'[c] = TotalCap(segs'[c]) /\ Totals'[c] \in Nat
  <2>1. \A c \in Builder : segs[c] \in Seq(Segment) /\ segs'[c] \in Seq(Segment)
    BY DEF TypeOK
  <2> QED BY <2>1, TotalCapIsSum DEF Totals
<1>2. PICK g : g = Totals
  OBVIOUS
<1>3. PICK h : h = Totals'
  OBVIOUS
<1>4. \A c \in Builder : g[c] \in Nat /\ h[c] \in Nat /\ h[c] = IF c = b THEN g[c] + d ELSE g[c]
  BY <1>1, <1>2, <1>3
<1>5. PoolUse = Added(g)[Builder] /\ PoolUse' = Added(h)[Builder]
  BY <1>2, <1>3, PoolUseIs, PoolUseIsNext
<1>6. IsSetSum(Added(g), g, Builder) /\ IsSetSum(Added(h), h, Builder)
  BY <1>4, AddedIsSum
<1> HIDE DEF Totals
<1> QED BY <1>4, <1>5, <1>6, SetSumChange, MessageAssumption

\* The lists stay within the pool.
PoolFits == PoolUse <= PoolSz

LEMMA PoolFitsStep ==
  ASSUME TypeOK, TypeOK', Sharing, OneEmission, Fresh, PoolFits, [Next]_vars
  PROVE  PoolFits'
<1>1. /\ \A c \in Builder : segs[c] \in Seq(Segment) /\ segs'[c] \in Seq(Segment)
      /\ \A c \in Builder : TotalCap(segs[c]) \in Nat /\ segment_sz[c] \in Nat
      /\ PoolUse \in Nat /\ PoolSz \in Nat
      /\ PoolUse <= PoolSz
  <2>1. \A c \in Builder : /\ segs[c] \in Seq(Segment) /\ segs'[c] \in Seq(Segment)
                           /\ segment_sz[c] \in Nat
    BY DEF TypeOK
  <2> QED BY <2>1, TotalCapIsSum, PoolUseBounds, MessageAssumption DEF PoolFits
<1>2. ASSUME NEW b \in Builder, NEW n \in LeafSz, AllocateSegment(b, n)
      PROVE  PoolFits'
  <2> DEFINE sz == SegmentSzFor(b, n)
             seg == [cap |-> sz, size |-> sz, used |-> n]
  <2>1. /\ segs' = [segs EXCEPT ![b] = Append(@, seg)]
        /\ PoolUse + sz <= PoolSz
    BY <1>2 DEF AllocateSegment
  <2>2. n \in Nat /\ sz \in Nat
    BY <1>1, MessageAssumption DEF SegmentSzFor
  <2> HIDE DEF sz
  <2>3. seg \in Segment /\ seg.cap = sz
    BY <2>2 DEF Segment
  <2>4. segs'[b] = Append(segs[b], seg) /\ \A c \in Builder \ {b} : segs'[c] = segs[c]
    BY <2>1 DEF TypeOK
  <2> HIDE DEF seg
  <2>5. TotalCap(segs'[b]) = TotalCap(segs[b]) + sz
    BY <1>1, <2>3, <2>4, TotalCapAppend
  <2>6. PoolUse' = PoolUse + sz
    <3>1. sz \in Int /\ \A c \in Builder \ {b} : TotalCap(segs'[c]) = TotalCap(segs[c])
      BY <2>2, <2>4
    <3> QED BY <2>5, <3>1, PoolUseChange
  <2> QED BY <2>1, <2>6 DEF PoolFits
<1>3. ASSUME NEW b \in Builder, Reclaim(b)
      PROVE  PoolFits'
  <2>1. segs'[b] = <<>> /\ \A c \in Builder \ {b} : segs'[c] = segs[c]
    BY <1>3 DEF Reclaim, TypeOK
  <2> DEFINE d == 0 - TotalCap(segs[b])
  <2>2. d \in Int /\ TotalCap(segs[b]) + d = 0 /\ PoolUse + d <= PoolSz
    BY <1>1
  <2> HIDE DEF d
  <2>3. PoolUse' = PoolUse + d
    BY <2>1, <2>2, TotalCapEmpty, PoolUseChange
  <2> QED BY <2>2, <2>3 DEF PoolFits
<1>4. ASSUME \A b \in Builder : SameCaps(segs[b], segs'[b])
      PROVE  PoolFits'
  <2>1. \A c \in Builder : TotalCap(segs'[c]) = TotalCap(segs[c])
    BY <1>1, <1>4, TotalCapOfCaps DEF SameCaps
  <2>2. Totals' = Totals
    BY <2>1 DEF Totals
  <2>3. PoolUse' = PoolUse
    BY <2>2, PoolUseIs, PoolUseIsNext
  <2> QED BY <1>1, <2>3 DEF PoolFits
<1> QED BY <1>2, <1>3, <1>4, CapacitiesKept

\* As few segments as the pool's size has doublings of the first one, whatever is
\* added, and in pieces however small.
THEOREM SegmentsAreFew == Spec => []SegmentsStayFew
<1>1. Init => PoolFits
  <2> SUFFICES ASSUME Init PROVE PoolFits
    OBVIOUS
  <2>1. \A b \in Builder : segs[b] = <<>>
    BY DEF Init
  <2>2. \A b \in Builder : Totals[b] = 0
    BY <2>1, TotalCapEmpty DEF Totals
  <2>3. PoolUse = 0
    BY <2>2, PoolUseIs, AddedZero
  <2> QED BY <2>3, MessageAssumption DEF PoolFits
<1>2. IInv /\ IInv' /\ PoolFits /\ [Next]_vars => PoolFits'
  BY PoolFitsStep DEF IInv
<1>3. IInv /\ GrowthInv /\ PoolFits => SegmentsStayFew
  <2> SUFFICES ASSUME IInv, GrowthInv, PoolFits, NEW b \in Builder
               PROVE  LeastTotal[Len(segs[b])] <= FirstSegmentSz + PoolSz
    BY DEF SegmentsStayFew
  <2>1. segs[b] \in Seq(Segment) /\ Grows(segs[b])
    BY DEF IInv, TypeOK, GrowthInv
  <2>2. LeastTotal[Len(segs[b])] <= FirstSegmentSz + TotalCap(segs[b])
    BY <2>1, GrowsDoubles
  <2>3. TotalCap(segs[b]) <= PoolUse /\ PoolUse \in Nat /\ TotalCap(segs[b]) \in Nat
    BY <2>1, PoolUseBounds, TotalCapIsSum DEF IInv
  <2>4. LeastTotal[Len(segs[b])] \in Nat
    <3>1. Len(segs[b]) \in Nat
      BY <2>1
    <3> QED BY <3>1, LeastTotalIs
  <2> QED BY <2>2, <2>3, <2>4, MessageAssumption DEF PoolFits
<1> QED BY Inductive, GrowthAlways, <1>1, <1>2, <1>3, PTL DEF Spec
=============================================================================
