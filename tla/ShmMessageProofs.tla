-------------------------- MODULE ShmMessageProofs --------------------------
(***************************************************************************)
(* Proofs about ShmMessage: for any number of builders, emissions and      *)
(* segments, a Reader finds the list it was sent, and in it all that was   *)
(* emitted, whatever the Builder does meanwhile.                           *)
(***************************************************************************)
EXTENDS ShmMessage, SequenceTheorems, TLAPS

\* The emission has a share, in this state for ever or until ~Reader().
Counted(m) ==
  msg[m] \in {"lent", "in flight", "lost", "received", "traversing", "open", "failed",
              "aborted", "crashed"}

\* The Builder keeps its share till its destructor.
HasHandle(b) == builder[b] \in {"live", "emitting", "crashed"}

\* Who owns a list: its Builder, and the emissions of it that were counted.
HandleOwns == \A b \in Builder : HasHandle(b) => b \in owners[b]

OwnedLives == \A b \in Builder : owners[b] # {} => b \in live

BuilderOwns == \A b, c \in Builder : c \in owners[b] => c = b /\ HasHandle(b)

\* A Reader that never borrowed the list released nothing.
Owed(m) == Counted(m) \/ (msg[m] = "done" /\ view[m] = <<>>)

MessageOwns == \A b \in Builder, m \in Message : m \in owners[b] => of[m] = b /\ Owed(m)

CountedOwns == \A m \in Message : Counted(m) => of[m] \in Builder /\ m \in owners[of[m]]

Sharing == HandleOwns /\ OwnedLives /\ BuilderOwns /\ MessageOwns /\ CountedOwns

\* A Builder emits one message at a time, and is not mutated meanwhile.
OneEmission ==
  /\ \A m \in Message : msg[m] \in {"adjusting", "lent"} =>
       of[m] \in Builder /\ builder[of[m]] \in {"emitting", "crashed"}
  /\ \A m, n \in Message :
       /\ msg[m] \in {"adjusting", "lent"} /\ msg[n] \in {"adjusting", "lent"}
       /\ of[m] = of[n]
       => m = n

\* What is not begun is empty.
Fresh ==
  \A m \in Message :
    /\ msg[m] = "unused" => emitted[m] = <<>>
    /\ msg[m] \notin {"traversing", "open", "done", "crashed"} => view[m] = <<>>

\* Sizes and uses never fall below what was emitted; in the loop of lend() they
\* are the same.
Covers(m) ==
  /\ Len(emitted[m]) <= Len(segs[of[m]])
  /\ \A i \in 1 .. Len(emitted[m]) :
       /\ segs[of[m]][i].used >= emitted[m][i]
       /\ segs[of[m]][i].size >= emitted[m][i]

Exact(m) ==
  \A i \in 1 .. Len(emitted[m]) :
    segs[of[m]][i].used = emitted[m][i] /\ segs[of[m]][i].size = emitted[m][i]

Covered ==
  \A m \in Message :
    /\ msg[m] = "adjusting" \/ Counted(m) => Covers(m)
    /\ msg[m] = "adjusting" => Exact(m)

\* What a Reader noted of the segments emitted is enough, and all there when it is
\* at the end.
Noted(m) ==
  \A i \in 1 .. Len(view[m]) : i <= Len(emitted[m]) => view[m][i] >= emitted[m][i]

Viewed ==
  \A m \in Message :
    Borrowed(m) => Noted(m) /\ (msg[m] = "open" => Len(view[m]) >= Len(emitted[m]))

\* Used(of[m]) = emitted[m], element by element.
AsEmitted(m) ==
  /\ Len(emitted[m]) = Len(segs[of[m]])
  /\ \A i \in 1 .. Len(emitted[m]) : segs[of[m]][i].used = emitted[m][i]

\* While nothing was added since the emission no size moved, whoever else looked
\* at the list and however often it was emitted again.
SizesSame(m) == \A i \in 1 .. Len(emitted[m]) : segs[of[m]][i].size = emitted[m][i]

SeenSame(m) ==
  /\ Len(view[m]) <= Len(emitted[m])
  /\ \A i \in 1 .. Len(view[m]) : view[m][i] = emitted[m][i]

SizesStay ==
  \A m \in Message :
    Counted(m) /\ AsEmitted(m) =>
      /\ SizesSame(m)
      /\ Borrowed(m) => SeenSame(m) /\ (msg[m] = "open" => Len(view[m]) = Len(emitted[m]))

IInv ==
  /\ TypeOK
  /\ Sharing
  /\ OneEmission
  /\ Fresh
  /\ Covered
  /\ Viewed
  /\ ReaderStaysInside
  /\ SizesStay

-----------------------------------------------------------------------------

\* capnp and resize() stay within what was allocated.
InCapacity(list) ==
  \A i \in 1 .. Len(list) : list[i].used \in 1 .. list[i].cap /\ list[i].size \in 1 .. list[i].cap

\* What appending to a list and changing one element of it do.
LEMMA Appended ==
  ASSUME NEW S, NEW s \in Seq(S), NEW e \in S
  PROVE  /\ Append(s, e) \in Seq(S)
         /\ Len(s) \in Nat
         /\ Len(Append(s, e)) = Len(s) + 1
         /\ \A i \in 1 .. Len(s) : Append(s, e)[i] = s[i]
         /\ Append(s, e)[Len(s) + 1] = e
         /\ DOMAIN Append(s, e) = 1 .. Len(s) + 1
OBVIOUS

LEMMA ElementOf ==
  ASSUME NEW S, NEW s \in Seq(S), NEW i \in 1 .. Len(s)
  PROVE  s[i] \in S
OBVIOUS

LEMMA Replaced ==
  ASSUME NEW S, NEW s \in Seq(S), NEW i \in 1 .. Len(s), NEW e \in S
  PROVE  /\ [s EXCEPT ![i] = e] \in Seq(S)
         /\ Len([s EXCEPT ![i] = e]) = Len(s)
         /\ \A j \in 1 .. Len(s) : [s EXCEPT ![i] = e][j] = IF j = i THEN e ELSE s[j]
         /\ DOMAIN [s EXCEPT ![i] = e] = 1 .. Len(s)
OBVIOUS

\* A leaf that fits changes the use of the last segment, and nothing else.
LEMMA MutateDoes ==
  ASSUME TypeOK, NEW b \in Builder, NEW n \in LeafSz, Mutate(b, n)
  PROVE  LET last == Len(segs[b]) IN
         /\ last \in 1 .. Len(segs[b])
         /\ segs' \in [Builder -> Seq(Segment)]
         /\ Len(segs'[b]) = Len(segs[b])
         /\ DOMAIN segs'[b] = 1 .. Len(segs[b])
         /\ \A c \in Builder \ {b} : segs'[c] = segs[c]
         /\ \A i \in 1 .. Len(segs[b]) : i # last => segs'[b][i] = segs[b][i]
         /\ segs'[b][last].cap = segs[b][last].cap
         /\ segs'[b][last].size = segs[b][last].size
         /\ segs'[b][last].used = segs[b][last].used + n
         /\ n \in Nat \ {0}
         /\ InCapacity(segs'[b])
<1> DEFINE last == Len(segs[b])
           seg == segs[b][last]
           e == [seg EXCEPT !.used = @ + n]
<1>1. /\ segs \in [Builder -> Seq(Segment)]
      /\ segs[b] \in Seq(Segment)
      /\ segs[b] # <<>>
      /\ n \in Nat \ {0}
      /\ last \in 1 .. Len(segs[b])
  BY MessageAssumption DEF TypeOK, Mutate, HasRoom
<1>2. /\ seg \in Segment
      /\ e \in Segment
      /\ e.cap = seg.cap /\ e.size = seg.size /\ e.used = seg.used + n
  <2>1. seg \in Segment
    BY <1>1, ElementOf
  <2>2. n \in Nat
    BY <1>1
  <2> HIDE DEF seg
  <2> QED BY <2>1, <2>2 DEF Segment
<1>3. segs' = [segs EXCEPT ![b] = [segs[b] EXCEPT ![last] = e]]
  BY DEF Mutate
<1>4. segs'[b] = [segs[b] EXCEPT ![last] = e]
  BY <1>1, <1>3
<1>5. seg.used + n <= seg.cap
  BY <1>1 DEF Mutate, HasRoom, Last
<1> HIDE DEF last, seg, e
<1>6. /\ segs'[b] \in Seq(Segment)
      /\ Len(segs'[b]) = Len(segs[b])
      /\ DOMAIN segs'[b] = 1 .. Len(segs[b])
      /\ \A j \in 1 .. Len(segs[b]) : segs'[b][j] = IF j = last THEN e ELSE segs[b][j]
  BY <1>1, <1>2, <1>4, Replaced
<1>7. segs' \in [Builder -> Seq(Segment)] /\ \A c \in Builder \ {b} : segs'[c] = segs[c]
  BY <1>1, <1>3, <1>4, <1>6
<1>8. InCapacity(segs'[b])
  <2>1. ASSUME NEW i \in 1 .. Len(segs[b])
        PROVE  segs'[b][i].used \in 1 .. segs'[b][i].cap /\ segs'[b][i].size \in 1 .. segs'[b][i].cap
    <3>1. /\ segs[b][i].used \in 1 .. segs[b][i].cap
          /\ segs[b][i].size \in 1 .. segs[b][i].cap
      <4>1. i \in DOMAIN segs[b]
        BY <1>1
      <4> QED BY <4>1 DEF TypeOK
    <3>2. segs[b][i].cap \in Nat
      <4>1. segs[b][i] \in Segment
        BY <1>1, ElementOf
      <4> QED BY <4>1 DEF Segment
    <3>3. CASE i = last
      BY <1>1, <1>2, <1>5, <1>6, <3>1, <3>2, <3>3 DEF seg
    <3> QED BY <1>6, <3>1, <3>3
  <2> QED BY <1>6, <2>1 DEF InCapacity
<1> QED BY <1>1, <1>2, <1>6, <1>7, <1>8 DEF last, seg

\* A leaf that does not is in a segment of its own, at the end.
LEMMA AllocateDoes ==
  ASSUME TypeOK, NEW b \in Builder, NEW n \in LeafSz, AllocateSegment(b, n)
  PROVE  LET idx == Len(segs[b]) + 1 IN
         /\ segs' \in [Builder -> Seq(Segment)]
         /\ segment_sz' \in [Builder -> Nat]
         /\ Len(segs'[b]) = idx
         /\ DOMAIN segs'[b] = 1 .. idx
         /\ \A c \in Builder \ {b} : segs'[c] = segs[c]
         /\ \A i \in 1 .. Len(segs[b]) : segs'[b][i] = segs[b][i]
         /\ InCapacity(segs'[b])
<1> DEFINE sz == SegmentSzFor(b, n)
           e == [cap |-> sz, size |-> sz, used |-> n]
<1>1. /\ segs[b] \in Seq(Segment)
      /\ n \in Nat \ {0}
      /\ segment_sz[b] \in Nat
  BY MessageAssumption DEF TypeOK
<1>2. sz \in Nat /\ n <= sz /\ sz # 0
  BY <1>1 DEF SegmentSzFor
<1>3. segs' = [segs EXCEPT ![b] = Append(segs[b], e)]
  BY DEF AllocateSegment
<1>4. segment_sz' \in [Builder -> Nat]
  BY <1>1, <1>2 DEF AllocateSegment, NextSegmentSz, TypeOK
<1> HIDE DEF sz
<1>5. e \in Segment /\ e.used \in 1 .. e.cap /\ e.size \in 1 .. e.cap
  BY <1>1, <1>2 DEF Segment
<1> HIDE DEF e
<1>6. segs'[b] = Append(segs[b], e) /\ \A c \in Builder \ {b} : segs'[c] = segs[c]
  BY <1>3 DEF TypeOK
<1>7. /\ segs'[b] \in Seq(Segment)
      /\ Len(segs'[b]) = Len(segs[b]) + 1
      /\ DOMAIN segs'[b] = 1 .. Len(segs[b]) + 1
      /\ \A i \in 1 .. Len(segs[b]) : segs'[b][i] = segs[b][i]
      /\ segs'[b][Len(segs[b]) + 1] = e
  BY <1>1, <1>5, <1>6, Appended
<1>8. segs' \in [Builder -> Seq(Segment)]
  BY <1>3, <1>7, <1>6 DEF TypeOK
<1>9. InCapacity(segs'[b])
  <2>1. \A i \in 1 .. Len(segs[b]) :
          segs[b][i].used \in 1 .. segs[b][i].cap /\ segs[b][i].size \in 1 .. segs[b][i].cap
    <3>1. DOMAIN segs[b] = 1 .. Len(segs[b])
      BY <1>1
    <3> QED BY <3>1 DEF TypeOK
  <2>2. Len(segs[b]) \in Nat
    BY <1>1
  <2>3. \A i \in 1 .. Len(segs[b]) + 1 : i \in 1 .. Len(segs[b]) \/ i = Len(segs[b]) + 1
    BY <2>2
  <2> QED BY <1>5, <1>7, <2>1, <2>3 DEF InCapacity
<1> QED BY <1>4, <1>6, <1>7, <1>8, <1>9

\* A step of the loop in lend() makes one segment's size its use, which it records.
LEMMA AdjustDoes ==
  ASSUME TypeOK, OneEmission, NEW m \in Message, AdjustSegment(m)
  PROVE  LET b == of[m]
             idx == Len(emitted[m]) + 1 IN
         /\ b \in Builder
         /\ idx \in 1 .. Len(segs[b])
         /\ segs' \in [Builder -> Seq(Segment)]
         /\ Len(segs'[b]) = Len(segs[b])
         /\ DOMAIN segs'[b] = 1 .. Len(segs[b])
         /\ \A c \in Builder \ {b} : segs'[c] = segs[c]
         /\ \A i \in 1 .. Len(segs[b]) :
              /\ segs'[b][i].cap = segs[b][i].cap
              /\ segs'[b][i].used = segs[b][i].used
              /\ segs'[b][i].size = IF i = idx THEN segs[b][i].used ELSE segs[b][i].size
         /\ InCapacity(segs'[b])
         /\ emitted' \in [Message -> Seq(Nat)]
         /\ \A k \in Message \ {m} : emitted'[k] = emitted[k]
         /\ Len(emitted'[m]) = idx
         /\ \A i \in 1 .. Len(emitted[m]) : emitted'[m][i] = emitted[m][i]
         /\ emitted'[m][idx] = segs[b][idx].used
<1> DEFINE b == of[m]
           idx == Len(emitted[m]) + 1
           seg == segs[b][idx]
           e == [seg EXCEPT !.size = seg.used]
<1>1. /\ b \in Builder
      /\ segs \in [Builder -> Seq(Segment)]
      /\ segs[b] \in Seq(Segment)
      /\ emitted \in [Message -> Seq(Nat)]
      /\ emitted[m] \in Seq(Nat)
      /\ idx \in 1 .. Len(segs[b])
  BY DEF TypeOK, OneEmission, AdjustSegment, Emitting
<1>2. /\ seg \in Segment
      /\ e \in Segment
      /\ e.cap = seg.cap /\ e.size = seg.used /\ e.used = seg.used /\ seg.used \in Nat
  <2>1. seg \in Segment
    BY <1>1, ElementOf
  <2> HIDE DEF seg
  <2> QED BY <2>1 DEF Segment
<1>3. segs' = [segs EXCEPT ![b] = [segs[b] EXCEPT ![idx] = e]]
  BY DEF AdjustSegment, Resized
<1>4. emitted' = [emitted EXCEPT ![m] = Append(emitted[m], seg.used)]
  BY DEF AdjustSegment
<1>5. segs'[b] = [segs[b] EXCEPT ![idx] = e] /\ emitted'[m] = Append(emitted[m], seg.used)
  BY <1>1, <1>3, <1>4
<1> HIDE DEF b, seg, e
<1>6. /\ segs'[b] \in Seq(Segment)
      /\ Len(segs'[b]) = Len(segs[b])
      /\ DOMAIN segs'[b] = 1 .. Len(segs[b])
      /\ \A j \in 1 .. Len(segs[b]) : segs'[b][j] = IF j = idx THEN e ELSE segs[b][j]
  BY <1>1, <1>2, <1>5, Replaced
<1>7. /\ emitted'[m] \in Seq(Nat)
      /\ Len(emitted'[m]) = idx
      /\ \A i \in 1 .. Len(emitted[m]) : emitted'[m][i] = emitted[m][i]
      /\ emitted'[m][idx] = seg.used
  BY <1>1, <1>2, <1>5, Appended
<1>8. segs' \in [Builder -> Seq(Segment)] /\ \A c \in Builder \ {b} : segs'[c] = segs[c]
  BY <1>1, <1>3, <1>5, <1>6
<1>9. emitted' \in [Message -> Seq(Nat)] /\ \A k \in Message \ {m} : emitted'[k] = emitted[k]
  BY <1>1, <1>4, <1>5, <1>7
<1> HIDE DEF idx
<1>10. \A i \in 1 .. Len(segs[b]) :
         /\ segs'[b][i].cap = segs[b][i].cap
         /\ segs'[b][i].used = segs[b][i].used
         /\ segs'[b][i].size = IF i = idx THEN segs[b][i].used ELSE segs[b][i].size
  BY <1>2, <1>6 DEF seg
<1>11. InCapacity(segs'[b])
  <2>1. \A i \in 1 .. Len(segs[b]) :
          segs[b][i].used \in 1 .. segs[b][i].cap /\ segs[b][i].size \in 1 .. segs[b][i].cap
    <3>1. DOMAIN segs[b] = 1 .. Len(segs[b])
      BY <1>1
    <3> QED BY <1>1, <3>1 DEF TypeOK
  <2> QED BY <1>6, <1>10, <2>1 DEF InCapacity
<1> QED BY <1>1, <1>6, <1>7, <1>8, <1>9, <1>10, <1>11 DEF b, idx, seg

\* A step of the loop in deserialization() notes one segment's size.
LEMMA TraverseDoes ==
  ASSUME TypeOK, Sharing, NEW m \in Message, TraverseSegment(m)
  PROVE  LET b == of[m]
             idx == Len(view[m]) + 1 IN
         /\ b \in Builder
         /\ idx \in 1 .. Len(segs[b])
         /\ view' \in [Message -> Seq(Nat)]
         /\ \A k \in Message \ {m} : view'[k] = view[k]
         /\ Len(view'[m]) = idx
         /\ \A i \in 1 .. Len(view[m]) : view'[m][i] = view[m][i]
         /\ view'[m][idx] = segs[b][idx].size
<1> DEFINE b == of[m]
           idx == Len(view[m]) + 1
           sz == segs[b][idx].size
<1>1. /\ b \in Builder
      /\ segs[b] \in Seq(Segment)
      /\ view[m] \in Seq(Nat)
      /\ idx \in 1 .. Len(segs[b])
  <2>1. b \in Builder
    BY DEF Sharing, CountedOwns, Counted, TraverseSegment
  <2>2. segs[b] \in Seq(Segment) /\ view[m] \in Seq(Nat)
    BY <2>1 DEF TypeOK
  <2> QED BY <2>1, <2>2 DEF TraverseSegment
<1>2. sz \in Nat
  <2>1. segs[b][idx] \in Segment
    BY <1>1, ElementOf
  <2> QED BY <2>1 DEF Segment
<1>3. view' = [view EXCEPT ![m] = Append(view[m], sz)]
  BY DEF TraverseSegment
<1> HIDE DEF sz
<1>4. view'[m] = Append(view[m], sz) /\ \A k \in Message \ {m} : view'[k] = view[k]
  BY <1>3 DEF TypeOK
<1>5. /\ view'[m] \in Seq(Nat)
      /\ Len(view'[m]) = idx
      /\ \A i \in 1 .. Len(view[m]) : view'[m][i] = view[m][i]
      /\ view'[m][idx] = sz
  BY <1>1, <1>2, <1>4, Appended
<1>6. view' \in [Message -> Seq(Nat)]
  BY <1>3, <1>5 DEF TypeOK
<1> QED BY <1>1, <1>4, <1>5, <1>6 DEF sz

-----------------------------------------------------------------------------

LEMMA SegsType ==
  ASSUME TypeOK, NEW b \in Builder,
         segs' \in [Builder -> Seq(Segment)],
         InCapacity(segs'[b]),
         \A c \in Builder \ {b} : segs'[c] = segs[c]
  PROVE  \A c \in Builder : \A i \in DOMAIN segs'[c] :
           segs'[c][i].used \in 1 .. segs'[c][i].cap /\ segs'[c][i].size \in 1 .. segs'[c][i].cap
<1> SUFFICES ASSUME NEW c \in Builder, NEW i \in DOMAIN segs'[c]
             PROVE  segs'[c][i].used \in 1 .. segs'[c][i].cap /\ segs'[c][i].size \in 1 .. segs'[c][i].cap
  OBVIOUS
<1>1. CASE c = b
  <2>1. DOMAIN segs'[b] = 1 .. Len(segs'[b])
    OBVIOUS
  <2> QED BY <1>1, <2>1 DEF InCapacity
<1>2. CASE c # b
  <2>1. segs'[c] = segs[c]
    BY <1>2
  <2> QED BY <2>1 DEF TypeOK
<1> QED BY <1>1, <1>2

LEMMA TypeStep ==
  ASSUME TypeOK, Sharing, OneEmission, [Next]_vars
  PROVE  TypeOK'
<1> USE DEF MsgState, msgVars, poolVars
<1>1. ASSUME NEW b \in Builder, BuilderCtor(b)
      PROVE  TypeOK'
  BY <1>1 DEF TypeOK, BuilderCtor, Pool!Create
<1>2. ASSUME NEW b \in Builder, BuilderDtor(b)
      PROVE  TypeOK'
  BY <1>2 DEF TypeOK, BuilderDtor, Pool!DropOwner
<1>3. ASSUME NEW b \in Builder, BuilderCrash(b)
      PROVE  TypeOK'
  BY <1>3 DEF TypeOK, BuilderCrash
<1>4. ASSUME NEW b \in Builder, Reclaim(b)
      PROVE  TypeOK'
  <2>1. <<>> \in Seq(Segment)
    BY EmptySeq
  <2>2. /\ segs' \in [Builder -> Seq(Segment)] /\ segs'[b] = <<>>
        /\ \A c \in Builder \ {b} : segs'[c] = segs[c]
    BY <1>4, <2>1 DEF TypeOK, Reclaim
  <2>3. InCapacity(segs'[b])
    BY <2>2, EmptySeq DEF InCapacity
  <2> QED BY <1>4, <2>2, <2>3, SegsType DEF TypeOK, Reclaim, Pool!Reclaim
<1>5. ASSUME NEW b \in Builder, NEW n \in LeafSz, Mutate(b, n)
      PROVE  TypeOK'
  <2>1. /\ segs' \in [Builder -> Seq(Segment)] /\ InCapacity(segs'[b])
        /\ \A c \in Builder \ {b} : segs'[c] = segs[c]
    BY <1>5, MutateDoes
  <2> QED BY <1>5, <2>1, SegsType DEF TypeOK, Mutate
<1>6. ASSUME NEW b \in Builder, NEW n \in LeafSz, AllocateSegment(b, n)
      PROVE  TypeOK'
  <2>1. /\ segs' \in [Builder -> Seq(Segment)] /\ InCapacity(segs'[b])
        /\ \A c \in Builder \ {b} : segs'[c] = segs[c]
        /\ segment_sz' \in [Builder -> Nat]
    BY <1>6, AllocateDoes
  <2> QED BY <1>6, <2>1, SegsType DEF TypeOK, AllocateSegment
<1>7. ASSUME NEW b \in Builder, NEW m \in Message, BeginEmission(b, m)
      PROVE  TypeOK'
  BY <1>7 DEF TypeOK, BeginEmission
<1>8. ASSUME NEW m \in Message, NEW given \in BOOLEAN, Deserialize(m, given)
      PROVE  TypeOK'
  BY <1>8 DEF TypeOK, Deserialize, SetMsg
<1>9. ASSUME NEW m \in Message, AdjustSegment(m)
      PROVE  TypeOK'
  <2>1. /\ of[m] \in Builder
        /\ segs' \in [Builder -> Seq(Segment)] /\ InCapacity(segs'[of[m]])
        /\ \A c \in Builder \ {of[m]} : segs'[c] = segs[c]
        /\ emitted' \in [Message -> Seq(Nat)]
    BY <1>9, AdjustDoes
  <2> QED BY <1>9, <2>1, SegsType DEF TypeOK, AdjustSegment
<1>10. ASSUME NEW m \in Message, LendSegments(m)
       PROVE  TypeOK'
  BY <1>10 DEF TypeOK, LendSegments, Lend, Pool!AddOwner
<1>11. ASSUME NEW m \in Message, LendFails(m)
       PROVE  TypeOK'
  <2>1. <<>> \in Seq(Nat)
    BY EmptySeq
  <2> QED BY <1>11, <2>1 DEF TypeOK, LendFails
<1>12. ASSUME NEW m \in Message, EmitTop(m)
       PROVE  TypeOK'
  BY <1>12 DEF TypeOK, EmitTop
<1>13. ASSUME NEW m \in Message,
              Lose(m) \/ Receive(m) \/ DeserializeFails(m) \/ FinishTraversal(m) \/ ReaderCrash(m)
       PROVE  TypeOK'
  <2>1. PICK state \in MsgState : SetMsg(m, state) /\ UNCHANGED <<poolVars, segs, view>>
    BY <1>13 DEF Lose, Receive, DeserializeFails, FinishTraversal, ReaderCrash
  <2> QED BY <2>1 DEF TypeOK, SetMsg
<1>14. ASSUME NEW m \in Message, TraverseSegment(m)
       PROVE  TypeOK'
  <2>1. view' \in [Message -> Seq(Nat)]
    BY <1>14, TraverseDoes
  <2> QED BY <1>14, <2>1 DEF TypeOK, TraverseSegment
<1>15. ASSUME NEW m \in Message, ReaderDtor(m)
       PROVE  TypeOK'
  <2>1. of[m] \in Builder
    BY <1>15 DEF Sharing, CountedOwns, Counted, ReaderDtor
  <2>2. live' = live /\ owners' \in [Builder -> SUBSET (Builder \cup Message)]
    <3>1. CASE Borrowed(m)
      <4>1. Pool!DropOwner(of[m], m)
        BY <1>15, <3>1 DEF ReaderDtor
      <4> QED BY <2>1, <4>1 DEF TypeOK, Pool!DropOwner
    <3>2. CASE ~Borrowed(m)
      <4>1. UNCHANGED <<live, owners>>
        BY <1>15, <3>2 DEF ReaderDtor
      <4> QED BY <4>1 DEF TypeOK
    <3> QED BY <3>1, <3>2
  <2> QED BY <1>15, <2>2 DEF TypeOK, ReaderDtor, SetMsg
<1>16. CASE UNCHANGED vars
  BY <1>16 DEF TypeOK, vars
<1> QED BY <1>1, <1>2, <1>3, <1>4, <1>5, <1>6, <1>7, <1>8, <1>9, <1>10, <1>11, <1>12,
           <1>13, <1>14, <1>15, <1>16 DEF Next

-----------------------------------------------------------------------------

\* Only the Builder's handle, and emissions that were counted, own a list.
LEMMA SharingStep ==
  ASSUME TypeOK, Sharing, OneEmission, Fresh, [Next]_vars
  PROVE  Sharing'
<1> USE DEF msgVars, poolVars, Sharing
<1>1. ASSUME NEW b \in Builder, BuilderCtor(b)
      PROVE  Sharing'
  <2>1. owners[b] = {}
    BY <1>1 DEF OwnedLives, BuilderCtor, Pool!Create
  <2>2. /\ owners'[b] = {b} /\ \A c \in Builder \ {b} : owners'[c] = owners[c]
        /\ builder'[b] = "live" /\ \A c \in Builder \ {b} : builder'[c] = builder[c]
        /\ live' = live \cup {b}
        /\ UNCHANGED msgVars
    BY <1>1 DEF TypeOK, BuilderCtor, Pool!Create
  <2>3. HandleOwns'
    BY <2>2 DEF HandleOwns, HasHandle
  <2>4. OwnedLives'
    BY <2>2 DEF OwnedLives
  <2>5. BuilderOwns'
    BY <2>2 DEF BuilderOwns, HasHandle
  <2>6. MessageOwns'
    <3>1. \A c \in Builder, m \in Message : m \in owners'[c] => m \in owners[c]
      BY <2>2, MessageAssumption
    <3> QED BY <2>2, <3>1 DEF MessageOwns, Owed, Counted
  <2>7. CountedOwns'
    BY <2>1, <2>2 DEF CountedOwns, Counted
  <2> QED BY <2>3, <2>4, <2>5, <2>6, <2>7
<1>2. ASSUME NEW b \in Builder, BuilderDtor(b)
      PROVE  Sharing'
  <2>1. /\ owners'[b] = owners[b] \ {b} /\ \A c \in Builder \ {b} : owners'[c] = owners[c]
        /\ builder'[b] = "destroyed" /\ \A c \in Builder \ {b} : builder'[c] = builder[c]
        /\ UNCHANGED <<live, msgVars>>
    BY <1>2 DEF TypeOK, BuilderDtor, Pool!DropOwner
  <2>2. HandleOwns'
    BY <2>1 DEF HandleOwns, HasHandle
  <2>3. OwnedLives'
    BY <2>1 DEF OwnedLives
  <2>4. BuilderOwns'
    BY <2>1 DEF BuilderOwns, HasHandle
  <2>5. MessageOwns'
    <3>1. \A c \in Builder, m \in Message : m \in owners'[c] => m \in owners[c]
      BY <2>1
    <3> QED BY ZenonT(40), <2>1, <3>1 DEF MessageOwns, Owed, Counted
  <2>6. CountedOwns'
    BY <2>1, MessageAssumption DEF CountedOwns, Counted
  <2> QED BY <2>2, <2>3, <2>4, <2>5, <2>6
<1>3. ASSUME NEW b \in Builder, BuilderCrash(b)
      PROVE  Sharing'
  <2>1. /\ builder[b] \in {"live", "emitting"} /\ builder'[b] = "crashed"
        /\ \A c \in Builder \ {b} : builder'[c] = builder[c]
        /\ UNCHANGED <<live, owners, msgVars>>
    BY <1>3 DEF TypeOK, BuilderCrash
  <2>2. HandleOwns' /\ OwnedLives' /\ MessageOwns' /\ CountedOwns'
    BY ZenonT(40), <2>1 DEF HandleOwns, OwnedLives, MessageOwns, CountedOwns, HasHandle, Owed, Counted
  <2>3. BuilderOwns'
    BY <2>1 DEF BuilderOwns, HasHandle
  <2> QED BY <2>2, <2>3
<1>4. ASSUME NEW b \in Builder, Reclaim(b)
      PROVE  Sharing'
  <2>1. owners[b] = {} /\ live' = live \ {b}
        /\ UNCHANGED <<owners, builder, msgVars>>
    BY <1>4 DEF Reclaim, Pool!Reclaim, Pool!NoOwners
  <2> QED BY ZenonT(40), <2>1 DEF HandleOwns, OwnedLives, BuilderOwns, MessageOwns, CountedOwns, HasHandle, Owed, Counted
<1>5. ASSUME NEW b \in Builder, NEW n \in LeafSz, Mutate(b, n) \/ AllocateSegment(b, n)
      PROVE  Sharing'
  <2>1. UNCHANGED <<poolVars, builder, msgVars>>
    BY <1>5 DEF Mutate, AllocateSegment
  <2> QED BY <2>1 DEF HandleOwns, OwnedLives, BuilderOwns, MessageOwns, CountedOwns, HasHandle, Owed, Counted
<1>6. ASSUME NEW b \in Builder, NEW m \in Message, BeginEmission(b, m)
      PROVE  Sharing'
  <2>1. /\ builder[b] = "live" /\ builder'[b] = "emitting"
        /\ \A c \in Builder \ {b} : builder'[c] = builder[c]
        /\ msg[m] = "unused" /\ msg'[m] = "adjusting"
        /\ \A k \in Message \ {m} : msg'[k] = msg[k] /\ of'[k] = of[k]
        /\ UNCHANGED <<live, owners, emitted, view>>
    BY <1>6 DEF TypeOK, BeginEmission
  <2>2. HandleOwns' /\ OwnedLives' /\ BuilderOwns'
    BY <2>1 DEF HandleOwns, OwnedLives, BuilderOwns, HasHandle
  <2>3. /\ ~Counted(m) /\ ~Owed(m) /\ ~Counted(m)'
        /\ \A k \in Message \ {m} : (Counted(k)' <=> Counted(k)) /\ (Owed(k)' <=> Owed(k))
    BY <2>1 DEF Counted, Owed
  <2>4. MessageOwns'
    BY <2>1, <2>3 DEF MessageOwns
  <2>5. CountedOwns'
    BY <2>1, <2>3 DEF CountedOwns
  <2> QED BY <2>2, <2>4, <2>5
\* A message goes from one state to another, of which both have a share.
<1>7. ASSUME NEW m \in Message, NEW state \in MsgState, SetMsg(m, state), UNCHANGED <<poolVars, view>>,
             Counted(m), state \notin {"unused", "adjusting", "done"}
      PROVE  Sharing'
  <2>1. /\ msg'[m] = state /\ \A k \in Message \ {m} : msg'[k] = msg[k]
        /\ UNCHANGED <<live, owners, builder, of, view>>
    BY <1>7 DEF TypeOK, SetMsg
  <2>2. HandleOwns' /\ OwnedLives' /\ BuilderOwns'
    BY <2>1 DEF HandleOwns, OwnedLives, BuilderOwns, HasHandle
  <2>3. \A k \in Message : (Counted(k)' <=> Counted(k)) /\ (Owed(k)' <=> Owed(k))
    <3>1. Counted(m) /\ Counted(m)'
      BY <1>7, <2>1 DEF Counted, MsgState
    <3> QED BY <2>1, <3>1 DEF Counted, Owed
  <2>4. MessageOwns'
    BY <2>1, <2>3 DEF MessageOwns
  <2>5. CountedOwns'
    BY <2>1, <2>3 DEF CountedOwns
  <2> QED BY <2>2, <2>4, <2>5
<1>8. ASSUME NEW m \in Message, NEW given \in BOOLEAN, Deserialize(m, given)
      PROVE  Sharing'
  <2>1. Counted(m)
    BY <1>8 DEF Deserialize, Counted
  <2>2. PICK state \in {"traversing", "aborted"} : SetMsg(m, state) /\ UNCHANGED <<poolVars, view>>
    BY <1>8 DEF Deserialize
  <2> QED BY <1>7, <2>1, <2>2 DEF MsgState
<1>9. ASSUME NEW m \in Message, AdjustSegment(m)
      PROVE  Sharing'
  <2>1. UNCHANGED <<poolVars, builder, msg, of, view>>
    BY <1>9 DEF AdjustSegment
  <2> QED BY <2>1 DEF HandleOwns, OwnedLives, BuilderOwns, MessageOwns, CountedOwns, HasHandle, Owed, Counted
<1>10. ASSUME NEW m \in Message, LendSegments(m)
       PROVE  Sharing'
  <2> DEFINE b == of[m]
  <2>1. b \in Builder
    BY <1>10 DEF OneEmission, LendSegments, AllAdjusted, Emitting
  <2>2. /\ b \in owners[b]
        /\ owners'[b] = owners[b] \cup {m} /\ \A c \in Builder \ {b} : owners'[c] = owners[c]
        /\ msg[m] = "adjusting" /\ msg'[m] = "lent"
        /\ \A k \in Message \ {m} : msg'[k] = msg[k]
        /\ UNCHANGED <<live, builder, of, view>>
    BY <1>10, <2>1 DEF TypeOK, LendSegments, AllAdjusted, Emitting, Lend, Pool!AddOwner
  <2> HIDE DEF b
  <2>3. HandleOwns'
    BY <2>2 DEF HandleOwns, HasHandle
  <2>4. OwnedLives'
    BY <2>2 DEF OwnedLives
  <2>5. BuilderOwns'
    <3>1. \A c, d \in Builder : d \in owners'[c] => d \in owners[c]
      BY <2>1, <2>2, MessageAssumption
    <3> QED BY <2>2, <3>1 DEF BuilderOwns, HasHandle
  <2>6. /\ Counted(m)' /\ Owed(m)'
        /\ \A k \in Message \ {m} : (Counted(k)' <=> Counted(k)) /\ (Owed(k)' <=> Owed(k))
    BY <2>2 DEF Counted, Owed
  <2>7. MessageOwns'
    BY <2>1, <2>2, <2>6 DEF MessageOwns, b
  <2>8. CountedOwns'
    BY <2>1, <2>2, <2>6 DEF CountedOwns, b
  <2> QED BY <2>3, <2>4, <2>5, <2>7, <2>8
<1>11. ASSUME NEW m \in Message, LendFails(m)
       PROVE  Sharing'
  <2>1. of[m] \in Builder /\ builder[of[m]] = "emitting"
    BY <1>11 DEF OneEmission, LendFails, AllAdjusted, Emitting
  <2>2. /\ builder'[of[m]] = "live" /\ \A c \in Builder \ {of[m]} : builder'[c] = builder[c]
        /\ msg[m] = "adjusting" /\ msg'[m] = "unused"
        /\ \A k \in Message \ {m} : msg'[k] = msg[k] /\ of'[k] = of[k]
        /\ UNCHANGED <<live, owners, view>>
    BY <1>11, <2>1 DEF TypeOK, LendFails, AllAdjusted, Emitting
  <2>3. HandleOwns' /\ OwnedLives' /\ BuilderOwns'
    BY <2>1, <2>2 DEF HandleOwns, OwnedLives, BuilderOwns, HasHandle
  <2>4. /\ ~Counted(m) /\ ~Owed(m) /\ ~Counted(m)'
        /\ \A k \in Message \ {m} : (Counted(k)' <=> Counted(k)) /\ (Owed(k)' <=> Owed(k))
    BY <2>2 DEF Counted, Owed
  <2>5. MessageOwns'
    BY <2>2, <2>4 DEF MessageOwns
  <2>6. CountedOwns'
    BY <2>2, <2>4 DEF CountedOwns
  <2> QED BY <2>3, <2>5, <2>6
<1>12. ASSUME NEW m \in Message, EmitTop(m)
       PROVE  Sharing'
  <2>1. of[m] \in Builder /\ builder[of[m]] = "emitting" /\ msg[m] = "lent"
    BY <1>12 DEF OneEmission, EmitTop, Emitting
  <2>2. /\ builder'[of[m]] = "live" /\ \A c \in Builder \ {of[m]} : builder'[c] = builder[c]
        /\ msg'[m] \in {"in flight", "lost"}
        /\ \A k \in Message \ {m} : msg'[k] = msg[k]
        /\ UNCHANGED <<live, owners, of, view>>
    BY <1>12, <2>1 DEF TypeOK, EmitTop
  <2>3. HandleOwns' /\ OwnedLives' /\ BuilderOwns'
    BY <2>1, <2>2 DEF HandleOwns, OwnedLives, BuilderOwns, HasHandle
  <2>4. \A k \in Message : (Counted(k)' <=> Counted(k)) /\ (Owed(k)' <=> Owed(k))
    BY <2>1, <2>2 DEF Counted, Owed
  <2>5. MessageOwns'
    BY <2>2, <2>4 DEF MessageOwns
  <2>6. CountedOwns'
    BY <2>2, <2>4 DEF CountedOwns
  <2> QED BY <2>3, <2>5, <2>6
<1>13. ASSUME NEW m \in Message,
              Lose(m) \/ Receive(m) \/ DeserializeFails(m) \/ FinishTraversal(m) \/ ReaderCrash(m)
       PROVE  Sharing'
  <2>1. Counted(m)
    BY <1>13 DEF Counted, Lose, Receive, DeserializeFails, FinishTraversal, ReaderCrash
  <2>2. PICK state \in {"lost", "received", "failed", "open", "crashed"} :
          SetMsg(m, state) /\ UNCHANGED <<poolVars, view>>
    BY <1>13 DEF Lose, Receive, DeserializeFails, FinishTraversal, ReaderCrash
  <2> QED BY <1>7, <2>1, <2>2 DEF MsgState
<1>14. ASSUME NEW m \in Message, TraverseSegment(m)
       PROVE  Sharing'
  <2>1. /\ \A k \in Message \ {m} : view'[k] = view[k]
        /\ msg[m] = "traversing"
        /\ UNCHANGED <<live, owners, builder, msg, of>>
    BY <1>14, TraverseDoes DEF TraverseSegment
  <2>2. HandleOwns' /\ OwnedLives' /\ BuilderOwns' /\ CountedOwns'
    BY <2>1 DEF HandleOwns, OwnedLives, BuilderOwns, CountedOwns, HasHandle, Owed, Counted
  <2>3. \A k \in Message : Owed(k) => Owed(k)'
    BY <2>1 DEF Counted, Owed
  <2>4. MessageOwns'
    BY <2>1, <2>3 DEF MessageOwns
  <2> QED BY <2>2, <2>4
<1>15. ASSUME NEW m \in Message, ReaderDtor(m)
       PROVE  Sharing'
  <2> DEFINE b == of[m]
  <2>1. b \in Builder /\ m \in owners[b] /\ Counted(m)
    BY <1>15 DEF CountedOwns, Counted, ReaderDtor
  <2>2. /\ owners'[b] = IF Borrowed(m) THEN owners[b] \ {m} ELSE owners[b]
        /\ \A c \in Builder \ {b} : owners'[c] = owners[c]
        /\ ~Borrowed(m) => msg[m] \in {"received", "failed"}
        /\ msg'[m] = "done" /\ \A k \in Message \ {m} : msg'[k] = msg[k]
        /\ UNCHANGED <<live, builder, of, view>>
    BY <1>15, <2>1 DEF TypeOK, ReaderDtor, Borrowed, SetMsg, Pool!DropOwner
  <2> HIDE DEF b
  <2>3. HandleOwns'
    BY <2>1, <2>2, MessageAssumption DEF HandleOwns, HasHandle
  <2>4. OwnedLives'
    BY <2>1, <2>2 DEF OwnedLives
  <2>5. \A c \in Builder : owners'[c] \subseteq owners[c]
    BY <2>1, <2>2
  <2>6. BuilderOwns'
    BY <2>2, <2>5 DEF BuilderOwns, HasHandle
  <2>7. MessageOwns'
    <3> SUFFICES ASSUME NEW c \in Builder, NEW k \in Message, k \in owners'[c]
                 PROVE  of[k] = c /\ Owed(k)'
      BY <2>2 DEF MessageOwns
    <3>1. k \in owners[c] /\ of[k] = c /\ Owed(k)
      BY <2>5 DEF MessageOwns
    <3>2. CASE k # m
      BY <2>2, <3>1, <3>2 DEF Owed, Counted
    <3>3. CASE k = m
      <4>1. c = b
        BY <3>1, <3>3 DEF b
      <4>2. ~Borrowed(m)
        BY <2>1, <2>2, <3>3, <4>1
      <4>3. view[m] = <<>>
        BY <2>2, <4>2 DEF Fresh
      <4> QED BY <2>2, <3>1, <3>3, <4>3 DEF Owed
    <3> QED BY <3>2, <3>3
  <2>8. CountedOwns'
    BY <2>1, <2>2 DEF CountedOwns, Counted, b
  <2> QED BY <2>3, <2>4, <2>6, <2>7, <2>8
<1>16. CASE UNCHANGED vars
  BY <1>16 DEF HandleOwns, OwnedLives, BuilderOwns, MessageOwns, CountedOwns, HasHandle, Owed, Counted, vars
<1> QED BY <1>1, <1>2, <1>3, <1>4, <1>5, <1>6, <1>8, <1>9, <1>10, <1>11, <1>12, <1>13, <1>14,
           <1>15, <1>16 DEF Next

\* Emitting is one thing at a time.
LEMMA OneEmissionStep ==
  ASSUME TypeOK, Sharing, OneEmission, [Next]_vars
  PROVE  OneEmission'
<1> USE MessageAssumption
<1> USE DEF msgVars, poolVars
<1>1. ASSUME NEW b \in Builder, BuilderCtor(b) \/ BuilderDtor(b) \/ BuilderCrash(b)
      PROVE  OneEmission'
  BY <1>1 DEF TypeOK, OneEmission, BuilderCtor, BuilderDtor, BuilderCrash
<1>2. ASSUME NEW b \in Builder, Reclaim(b)
      PROVE  OneEmission'
  BY <1>2 DEF OneEmission, Reclaim
<1>3. ASSUME NEW b \in Builder, NEW n \in LeafSz, Mutate(b, n) \/ AllocateSegment(b, n)
      PROVE  OneEmission'
  BY <1>3 DEF OneEmission, Mutate, AllocateSegment
<1>4. ASSUME NEW b \in Builder, NEW m \in Message, BeginEmission(b, m)
      PROVE  OneEmission'
  BY <1>4 DEF TypeOK, OneEmission, BeginEmission
<1>5. ASSUME NEW m \in Message, NEW given \in BOOLEAN, Deserialize(m, given)
      PROVE  OneEmission'
  BY <1>5 DEF TypeOK, OneEmission, Deserialize, SetMsg
<1>6. ASSUME NEW m \in Message, AdjustSegment(m) \/ TraverseSegment(m)
      PROVE  OneEmission'
  BY <1>6 DEF OneEmission, AdjustSegment, TraverseSegment
<1>7. ASSUME NEW m \in Message, LendSegments(m)
      PROVE  OneEmission'
  BY <1>7 DEF TypeOK, OneEmission, LendSegments, AllAdjusted, Emitting
<1>8. ASSUME NEW m \in Message, LendFails(m)
      PROVE  OneEmission'
  BY <1>8 DEF TypeOK, OneEmission, LendFails, AllAdjusted, Emitting
<1>9. ASSUME NEW m \in Message, EmitTop(m)
      PROVE  OneEmission'
  BY <1>9 DEF TypeOK, OneEmission, EmitTop, Emitting
<1>10. ASSUME NEW m \in Message,
              Lose(m) \/ Receive(m) \/ DeserializeFails(m) \/ FinishTraversal(m)
              \/ ReaderDtor(m) \/ ReaderCrash(m)
       PROVE  OneEmission'
  BY ZenonT(40), <1>10 DEF TypeOK, OneEmission, SetMsg, Lose, Receive, DeserializeFails, FinishTraversal,
               ReaderDtor, ReaderCrash
<1>11. CASE UNCHANGED vars
  BY <1>11 DEF OneEmission, vars
<1> QED BY <1>1, <1>2, <1>3, <1>4, <1>5, <1>6, <1>7, <1>8, <1>9, <1>10, <1>11 DEF Next

\* A message begins with nothing emitted and nothing seen.
LEMMA FreshStep ==
  ASSUME TypeOK, Sharing, OneEmission, Fresh, [Next]_vars
  PROVE  Fresh'
<1> USE DEF msgVars, poolVars
<1>1. ASSUME NEW b \in Builder, BuilderCtor(b) \/ BuilderDtor(b) \/ BuilderCrash(b) \/ Reclaim(b)
      PROVE  Fresh'
  BY <1>1 DEF Fresh, BuilderCtor, BuilderDtor, BuilderCrash, Reclaim
<1>2. ASSUME NEW b \in Builder, NEW n \in LeafSz, Mutate(b, n) \/ AllocateSegment(b, n)
      PROVE  Fresh'
  BY <1>2 DEF Fresh, Mutate, AllocateSegment
<1>3. ASSUME NEW b \in Builder, NEW m \in Message, BeginEmission(b, m)
      PROVE  Fresh'
  BY <1>3 DEF TypeOK, Fresh, BeginEmission
<1>4. ASSUME NEW m \in Message, NEW given \in BOOLEAN, Deserialize(m, given)
      PROVE  Fresh'
  BY <1>4 DEF TypeOK, Fresh, Deserialize, SetMsg
<1>5. ASSUME NEW m \in Message, AdjustSegment(m)
      PROVE  Fresh'
  <2>1. \A k \in Message \ {m} : emitted'[k] = emitted[k]
    BY <1>5, AdjustDoes
  <2> QED BY <1>5, <2>1 DEF Fresh, AdjustSegment, Emitting
<1>6. ASSUME NEW m \in Message, TraverseSegment(m)
      PROVE  Fresh'
  <2>1. \A k \in Message \ {m} : view'[k] = view[k]
    BY <1>6, TraverseDoes
  <2> QED BY <1>6, <2>1 DEF Fresh, TraverseSegment
<1>7. ASSUME NEW m \in Message, LendSegments(m)
      PROVE  Fresh'
  BY <1>7 DEF TypeOK, Fresh, LendSegments, AllAdjusted, Emitting
<1>8. ASSUME NEW m \in Message, LendFails(m)
      PROVE  Fresh'
  BY <1>8 DEF TypeOK, Fresh, LendFails, AllAdjusted, Emitting
<1>9. ASSUME NEW m \in Message, EmitTop(m)
      PROVE  Fresh'
  BY <1>9 DEF TypeOK, Fresh, EmitTop, Emitting
<1>10. ASSUME NEW m \in Message,
              Lose(m) \/ Receive(m) \/ DeserializeFails(m) \/ FinishTraversal(m)
              \/ ReaderDtor(m) \/ ReaderCrash(m)
       PROVE  Fresh'
  BY <1>10 DEF TypeOK, Fresh, SetMsg, Lose, Receive, DeserializeFails, FinishTraversal,
               ReaderDtor, ReaderCrash
<1>11. CASE UNCHANGED vars
  BY <1>11 DEF Fresh, vars
<1> QED BY <1>1, <1>2, <1>3, <1>4, <1>5, <1>6, <1>7, <1>8, <1>9, <1>10, <1>11 DEF Next

-----------------------------------------------------------------------------

\* What becomes of a message in a step that touches neither list nor emission.
Continues(m) ==
  /\ msg'[m] = "adjusting" =>
       \/ emitted'[m] = <<>>
       \/ msg[m] = "adjusting" /\ of'[m] = of[m] /\ emitted'[m] = emitted[m]
  /\ Counted(m)' =>
       /\ of'[m] = of[m] /\ emitted'[m] = emitted[m]
       /\ Counted(m) \/ (msg[m] = "adjusting" /\ AllAdjusted(m))
  /\ Borrowed(m)' =>
       \/ view'[m] = view[m] /\ Borrowed(m) /\ (msg'[m] = "open" => msg[m] = "open")
       \/ view'[m] = <<>> /\ msg'[m] = "traversing" /\ Counted(m)
       \/ TraverseSegment(m)
       \/ FinishTraversal(m) /\ view'[m] = view[m]

\* Four actions change a list, or what is recorded of one.
LEMMA StepKinds ==
  ASSUME TypeOK, Sharing, OneEmission, Fresh, [Next]_vars
  PROVE  \/ \E b \in Builder : Reclaim(b)
         \/ \E b \in Builder, n \in LeafSz : Mutate(b, n) \/ AllocateSegment(b, n)
         \/ \E m \in Message : AdjustSegment(m)
         \/ UNCHANGED segs /\ \A m \in Message : Continues(m)
<1> USE DEF msgVars, poolVars
<1> DEFINE Goal == UNCHANGED segs /\ \A m \in Message : Continues(m)
<1>1. ASSUME NEW b \in Builder, BuilderCtor(b) \/ BuilderDtor(b) \/ BuilderCrash(b)
      PROVE  Goal
  <2>1. UNCHANGED <<segs, msg, of, emitted, view>>
    BY <1>1 DEF BuilderCtor, BuilderDtor, BuilderCrash
  <2> QED BY <2>1 DEF Continues, Counted, Borrowed
<1>2. ASSUME NEW b \in Builder, NEW m \in Message, BeginEmission(b, m)
      PROVE  Goal
  <2>1. /\ msg[m] = "unused" /\ msg'[m] = "adjusting"
        /\ \A k \in Message \ {m} : msg'[k] = msg[k] /\ of'[k] = of[k]
        /\ UNCHANGED <<segs, emitted, view>>
    BY <1>2 DEF TypeOK, BeginEmission
  <2>2. emitted[m] = <<>>
    BY <2>1 DEF Fresh
  <2> QED BY <2>1, <2>2 DEF Continues, Counted, Borrowed
<1>3. ASSUME NEW m \in Message, NEW given \in BOOLEAN, Deserialize(m, given)
      PROVE  Goal
  <2>1. /\ msg[m] = "received" /\ msg'[m] \in {"traversing", "aborted"}
        /\ \A k \in Message \ {m} : msg'[k] = msg[k]
        /\ UNCHANGED <<segs, of, emitted, view>>
    BY <1>3 DEF TypeOK, Deserialize, SetMsg
  <2>2. view[m] = <<>>
    BY <2>1 DEF Fresh
  <2> QED BY <2>1, <2>2 DEF Continues, Counted, Borrowed
<1>4. ASSUME NEW m \in Message, LendSegments(m)
      PROVE  Goal
  <2>1. /\ msg[m] = "adjusting" /\ msg'[m] = "lent" /\ AllAdjusted(m)
        /\ \A k \in Message \ {m} : msg'[k] = msg[k]
        /\ UNCHANGED <<segs, of, emitted, view>>
    BY <1>4 DEF TypeOK, LendSegments, AllAdjusted, Emitting
  <2> QED BY <2>1 DEF Continues, Counted, Borrowed
<1>5. ASSUME NEW m \in Message, LendFails(m)
      PROVE  Goal
  <2>1. /\ msg[m] = "adjusting" /\ msg'[m] = "unused"
        /\ \A k \in Message \ {m} : msg'[k] = msg[k] /\ of'[k] = of[k] /\ emitted'[k] = emitted[k]
        /\ UNCHANGED <<segs, view>>
    BY <1>5 DEF TypeOK, LendFails, AllAdjusted, Emitting
  <2> QED BY <2>1 DEF Continues, Counted, Borrowed
<1>6. ASSUME NEW m \in Message, EmitTop(m)
      PROVE  Goal
  <2>1. /\ msg[m] = "lent" /\ msg'[m] \in {"in flight", "lost"}
        /\ \A k \in Message \ {m} : msg'[k] = msg[k]
        /\ UNCHANGED <<segs, of, emitted, view>>
    BY <1>6 DEF TypeOK, EmitTop, Emitting
  <2> QED BY <2>1 DEF Continues, Counted, Borrowed
<1>7. ASSUME NEW m \in Message,
             Lose(m) \/ Receive(m) \/ DeserializeFails(m) \/ ReaderDtor(m) \/ ReaderCrash(m)
      PROVE  Goal
  <2>1. /\ msg[m] \in {"in flight", "received", "traversing", "open", "failed"}
        /\ msg'[m] \in {"lost", "received", "failed", "done", "crashed"}
        /\ \A k \in Message \ {m} : msg'[k] = msg[k]
        /\ UNCHANGED <<segs, of, emitted, view>>
    BY <1>7 DEF TypeOK, SetMsg, Lose, Receive, DeserializeFails, ReaderDtor, ReaderCrash
  <2> QED BY <2>1 DEF Continues, Counted, Borrowed
<1>8. ASSUME NEW m \in Message, FinishTraversal(m)
      PROVE  Goal
  <2>1. /\ msg[m] = "traversing" /\ msg'[m] = "open"
        /\ \A k \in Message \ {m} : msg'[k] = msg[k]
        /\ UNCHANGED <<segs, of, emitted, view>>
    BY <1>8 DEF TypeOK, SetMsg, FinishTraversal
  <2> QED BY <1>8, <2>1 DEF Continues, Counted, Borrowed
<1>9. ASSUME NEW m \in Message, TraverseSegment(m)
      PROVE  Goal
  <2>1. /\ msg[m] = "traversing"
        /\ \A k \in Message \ {m} : view'[k] = view[k]
        /\ UNCHANGED <<segs, msg, of, emitted>>
    BY <1>9, TraverseDoes DEF TraverseSegment
  <2> QED BY <1>9, <2>1 DEF Continues, Counted, Borrowed
<1>10. ASSUME UNCHANGED vars
       PROVE  Goal
  BY <1>10 DEF vars, Continues, Counted, Borrowed
<1> HIDE DEF Goal
<1>11. \/ \E b \in Builder : Reclaim(b)
       \/ \E b \in Builder, n \in LeafSz : Mutate(b, n) \/ AllocateSegment(b, n)
       \/ \E m \in Message : AdjustSegment(m)
       \/ Goal
  BY <1>1, <1>2, <1>3, <1>4, <1>5, <1>6, <1>7, <1>8, <1>9, <1>10 DEF Next
<1> QED BY <1>11 DEF Goal

\* No emission is of a list that may go.
LEMMA ReclaimSpares ==
  ASSUME TypeOK, Sharing, OneEmission, NEW b \in Builder, Reclaim(b),
         NEW m \in Message, msg[m] = "adjusting" \/ Counted(m)
  PROVE  of[m] \in Builder /\ of[m] # b /\ segs'[of[m]] = segs[of[m]] /\ UNCHANGED msgVars
<1>1. owners[b] = {} /\ UNCHANGED msgVars
  BY DEF Reclaim, Pool!Reclaim, Pool!NoOwners
<1>2. CASE Counted(m)
  <2>1. of[m] \in Builder /\ of[m] # b
    BY <1>1, <1>2 DEF Sharing, CountedOwns
  <2> QED BY <1>1, <2>1 DEF Reclaim, TypeOK
<1>3. CASE msg[m] = "adjusting"
  <2>1. of[m] \in Builder /\ HasHandle(of[m])
    BY <1>3 DEF OneEmission, HasHandle
  <2>2. of[m] # b
    BY <1>1, <2>1 DEF Sharing, HandleOwns
  <2> QED BY <1>1, <2>1, <2>2 DEF Reclaim, TypeOK
<1> QED BY <1>2, <1>3

\* What is emitted stays in the list.
LEMMA CoveredStep ==
  ASSUME TypeOK, Sharing, OneEmission, Fresh, Covered, [Next]_vars
  PROVE  Covered'
<1> USE DEF msgVars, poolVars
<1> SUFFICES ASSUME NEW k \in Message
             PROVE  /\ (msg[k] = "adjusting" \/ Counted(k))' => Covers(k)'
                    /\ msg'[k] = "adjusting" => Exact(k)'
  BY DEF Covered
<1>1. /\ emitted[k] \in Seq(Nat) /\ Len(emitted[k]) \in Nat
      /\ \A i \in 1 .. Len(emitted[k]) : emitted[k][i] \in Nat
      /\ \A b \in Builder : /\ segs[b] \in Seq(Segment) /\ Len(segs[b]) \in Nat
                            /\ \A i \in 1 .. Len(segs[b]) : segs[b][i] \in Segment
  <2>1. emitted[k] \in Seq(Nat) /\ \A b \in Builder : segs[b] \in Seq(Segment)
    BY DEF TypeOK
  <2> QED BY <2>1, ElementOf
<1>2. CASE \E b \in Builder : Reclaim(b)
  <2>1. PICK b \in Builder : Reclaim(b)
    BY <1>2
  <2>2. UNCHANGED msgVars
    BY <2>1 DEF Reclaim
  <2>3. ASSUME msg[k] = "adjusting" \/ Counted(k)
        PROVE  segs'[of[k]] = segs[of[k]]
    BY <2>1, <2>3, ReclaimSpares
  <2>4. (msg[k] = "adjusting" \/ Counted(k))' => msg[k] = "adjusting" \/ Counted(k)
    BY <2>2 DEF Counted
  <2> QED BY <2>2, <2>3, <2>4 DEF Covered, Covers, Exact
<1>3. CASE \E b \in Builder, n \in LeafSz : Mutate(b, n) \/ AllocateSegment(b, n)
  <2>1. PICK b \in Builder, n \in LeafSz : Mutate(b, n) \/ AllocateSegment(b, n)
    BY <1>3
  <2>2. UNCHANGED msgVars /\ builder[b] = "live"
    BY <2>1 DEF Mutate, AllocateSegment
  <2>3. \A c \in Builder \ {b} : segs'[c] = segs[c]
    BY <2>1, MutateDoes, AllocateDoes
  <2>4. /\ Len(segs'[b]) >= Len(segs[b])
        /\ \A i \in 1 .. Len(segs[b]) : /\ segs'[b][i].used \in Nat
                                        /\ segs'[b][i].used >= segs[b][i].used
                                        /\ segs'[b][i].size = segs[b][i].size
    <3>1. \A i \in 1 .. Len(segs[b]) : segs[b][i].used \in Nat
      BY <1>1 DEF Segment
    <3>2. CASE Mutate(b, n)
      <4> DEFINE last == Len(segs[b])
      <4>1. /\ Len(segs'[b]) = last
            /\ \A i \in 1 .. last : i # last => segs'[b][i] = segs[b][i]
            /\ last \in 1 .. last
            /\ segs'[b][last].size = segs[b][last].size
            /\ segs'[b][last].used = segs[b][last].used + n
            /\ n \in Nat
        BY <3>2, MutateDoes
      <4>2. last \in Nat
        BY <1>1
      <4> HIDE DEF last
      <4>3. \A i \in 1 .. last : /\ segs'[b][i].used \in Nat
                                /\ segs'[b][i].used >= segs[b][i].used
                                /\ segs'[b][i].size = segs[b][i].size
        <5> TAKE i \in 1 .. last
        <5>1. segs[b][i].used \in Nat
          BY <3>1 DEF last
        <5>2. CASE i = last
          BY <4>1, <5>1, <5>2
        <5>3. CASE i # last
          BY <4>1, <5>1, <5>3
        <5> QED BY <5>2, <5>3
      <4> QED BY <4>1, <4>2, <4>3 DEF last
    <3>3. CASE AllocateSegment(b, n)
      <4>1. /\ Len(segs'[b]) = Len(segs[b]) + 1
            /\ \A i \in 1 .. Len(segs[b]) : segs'[b][i] = segs[b][i]
        BY <3>3, AllocateDoes
      <4>2. \A i \in 1 .. Len(segs[b]) : segs'[b][i].used >= segs[b][i].used
        BY <3>1, <4>1
      <4> QED BY <1>1, <3>1, <4>1, <4>2
    <3> QED BY <2>1, <3>2, <3>3
  <2>5. ASSUME (msg[k] = "adjusting" \/ Counted(k))'
        PROVE  Covers(k)'
    <3>1. Covers(k) /\ of[k] \in Builder
      BY <2>2, <2>5 DEF Covered, Counted, Sharing, CountedOwns, OneEmission
    <3>2. CASE of[k] = b
      <4>1. \A i \in 1 .. Len(emitted[k]) : i \in 1 .. Len(segs[b])
        BY <1>1, <3>1, <3>2 DEF Covers
      <4>2. \A i \in 1 .. Len(emitted[k]) :
              segs'[b][i].used >= emitted[k][i] /\ segs'[b][i].size >= emitted[k][i]
        <5> TAKE i \in 1 .. Len(emitted[k])
        <5>1. /\ segs[b][i].used \in Nat /\ emitted[k][i] \in Nat
              /\ segs[b][i].used >= emitted[k][i] /\ segs[b][i].size >= emitted[k][i]
          BY <1>1, <3>1, <3>2, <4>1 DEF Covers, Segment
        <5> QED BY SMTT(30), <2>4, <4>1, <5>1
      <4>3. Len(segs'[b]) >= Len(emitted[k])
        BY <1>1, <2>4, <3>1, <3>2 DEF Covers
      <4> QED BY <2>2, <3>2, <4>2, <4>3 DEF Covers
    <3>3. CASE of[k] # b
      BY <2>2, <2>3, <3>1, <3>3 DEF Covers
    <3> QED BY <3>2, <3>3
  <2>6. ASSUME msg'[k] = "adjusting"
        PROVE  Exact(k)'
    <3>1. of[k] \in Builder /\ of[k] # b /\ Exact(k)
      BY <2>2, <2>6 DEF OneEmission, Covered
    <3> QED BY <2>2, <2>3, <3>1 DEF Exact
  <2> QED BY <2>5, <2>6
<1>4. CASE \E m \in Message : AdjustSegment(m)
  <2>1. PICK m \in Message : AdjustSegment(m)
    BY <1>4
  <2> DEFINE b == of[m]
             idx == Len(emitted[m]) + 1
  <2>2. msg[m] = "adjusting" /\ UNCHANGED <<msg, of>>
    BY <2>1 DEF AdjustSegment, Emitting
  <2>3. /\ b \in Builder /\ idx \in 1 .. Len(segs[b])
        /\ Len(segs'[b]) = Len(segs[b])
        /\ \A c \in Builder \ {b} : segs'[c] = segs[c]
        /\ \A i \in 1 .. Len(segs[b]) :
             /\ segs'[b][i].used = segs[b][i].used
             /\ segs'[b][i].size = IF i = idx THEN segs[b][i].used ELSE segs[b][i].size
        /\ \A l \in Message \ {m} : emitted'[l] = emitted[l]
        /\ Len(emitted'[m]) = idx
        /\ \A i \in 1 .. Len(emitted[m]) : emitted'[m][i] = emitted[m][i]
        /\ emitted'[m][idx] = segs[b][idx].used
    BY <2>1, AdjustDoes
  <2> HIDE DEF b
  <2>4. CASE k = m
    <3>1. Covers(m) /\ Exact(m)
      BY <2>2 DEF Covered
    <3>2. \A i \in 1 .. idx : i \in 1 .. Len(segs[b]) /\ (i \in 1 .. Len(emitted[m]) \/ i = idx)
      BY <1>1, <2>3, <2>4
    <3>3. \A i \in 1 .. idx :
            segs'[b][i].used = emitted'[m][i] /\ segs'[b][i].size = emitted'[m][i]
      <4> TAKE i \in 1 .. idx
      <4>1. CASE i = idx
        BY <2>3, <4>1
      <4>2. CASE i # idx
        BY <2>3, <3>1, <3>2, <4>2 DEF Exact, b
      <4> QED BY <4>1, <4>2
    <3>4. Exact(m)'
      BY <2>2, <2>3, <3>3 DEF Exact, b
    <3>5. Covers(m)'
      <4>1. \A i \in 1 .. idx : segs[b][i].used \in Nat /\ segs'[b][i].used = segs[b][i].used
        BY <1>1, <2>3, <3>2 DEF Segment
      <4>2. idx <= Len(segs[b])
        BY <2>3
      <4>3. \A i \in 1 .. idx :
              segs'[b][i].used >= emitted'[m][i] /\ segs'[b][i].size >= emitted'[m][i]
        BY <3>3, <4>1
      <4> HIDE DEF idx
      <4> QED BY <2>2, <2>3, <4>2, <4>3 DEF Covers, b
    <3> QED BY <2>4, <3>4, <3>5
  <2>5. CASE k # m
    <3>1. msg[k] = "adjusting" => of[k] # b
      BY <2>2, <2>5 DEF OneEmission, b
    <3>2. emitted'[k] = emitted[k]
      BY <2>3, <2>5
    <3>3. ASSUME msg'[k] = "adjusting"
          PROVE  Exact(k)'
      <4>1. segs'[of[k]] = segs[of[k]] /\ Exact(k)
        BY <2>2, <2>3, <3>1, <3>3 DEF Covered, OneEmission
      <4> QED BY <2>2, <3>2, <4>1 DEF Exact
    <3>4. ASSUME (msg[k] = "adjusting" \/ Counted(k))'
          PROVE  Covers(k)'
      <4>1. Covers(k) /\ of[k] \in Builder
        BY <2>2, <3>4 DEF Covered, Counted, Sharing, CountedOwns, OneEmission
      <4>2. CASE of[k] = b
        <5>1. \A i \in 1 .. Len(emitted[k]) : i \in 1 .. Len(segs[b])
          BY <1>1, <4>1, <4>2, <2>3 DEF Covers
        <5> HIDE DEF idx
        <5>2. \A i \in 1 .. Len(emitted[k]) :
                segs'[b][i].used >= emitted[k][i] /\ segs'[b][i].size >= emitted[k][i]
          BY <2>3, <4>1, <4>2, <5>1 DEF Covers
        <5>3. Len(emitted[k]) <= Len(segs'[b])
          BY <2>3, <4>1, <4>2 DEF Covers
        <5> QED BY <2>2, <3>2, <4>2, <5>2, <5>3 DEF Covers
      <4>3. CASE of[k] # b
        <5>1. segs'[of[k]] = segs[of[k]]
          BY <2>3, <4>1, <4>3
        <5> QED BY <2>2, <3>2, <4>1, <5>1 DEF Covers
      <4> QED BY <4>2, <4>3
    <3> QED BY <3>3, <3>4
  <2> QED BY <2>4, <2>5
<1>5. CASE UNCHANGED segs /\ \A m \in Message : Continues(m)
  <2>1. ASSUME msg'[k] = "adjusting"
        PROVE  Exact(k)' /\ Covers(k)'
    <3>1. CASE emitted'[k] = <<>>
      <4>1. Len(emitted'[k]) = 0
        BY <3>1
      <4>2. 1 .. Len(emitted'[k]) = {}
        BY <4>1
      <4>3. Len(segs'[of'[k]]) \in Nat
        <5>1. of'[k] \in Builder
          BY <2>1, OneEmissionStep DEF OneEmission
        <5> QED BY <1>1, <1>5, <5>1
      <4> QED BY <4>1, <4>2, <4>3 DEF Exact, Covers
    <3>2. CASE msg[k] = "adjusting" /\ of'[k] = of[k] /\ emitted'[k] = emitted[k]
      BY <1>5, <3>2 DEF Covered, Exact, Covers
    <3> QED BY <1>5, <2>1, <3>1, <3>2 DEF Continues
  <2>2. ASSUME Counted(k)'
        PROVE  Covers(k)'
    <3>1. of'[k] = of[k] /\ emitted'[k] = emitted[k] /\ (msg[k] = "adjusting" \/ Counted(k))
      BY <1>5, <2>2 DEF Continues
    <3> QED BY <1>5, <3>1 DEF Covered, Covers
  <2> QED BY <2>1, <2>2 DEF Counted
<1> QED BY <1>2, <1>3, <1>4, <1>5, StepKinds

\* A Reader is never behind what was emitted.
LEMMA ViewedStep ==
  ASSUME TypeOK, Sharing, OneEmission, Fresh, Covered, Viewed, [Next]_vars
  PROVE  Viewed'
<1> USE DEF msgVars, poolVars
<1> SUFFICES ASSUME NEW k \in Message, Borrowed(k)'
             PROVE  Noted(k)' /\ (msg'[k] = "open" => Len(view'[k]) >= Len(emitted'[k]))
  BY DEF Viewed
<1>1. CASE \/ \E b \in Builder : Reclaim(b)
           \/ \E b \in Builder, n \in LeafSz : Mutate(b, n) \/ AllocateSegment(b, n)
  <2>1. UNCHANGED msgVars
    BY <1>1 DEF Reclaim, Mutate, AllocateSegment
  <2> QED BY <2>1 DEF Viewed, Borrowed, Noted
<1>2. CASE \E m \in Message : AdjustSegment(m)
  <2>1. PICK m \in Message : AdjustSegment(m)
    BY <1>2
  <2>2. msg[m] = "adjusting" /\ UNCHANGED <<msg, of, view>>
    BY <2>1 DEF AdjustSegment, Emitting
  <2>3. Borrowed(k) /\ k # m
    BY <2>2 DEF Borrowed
  <2>4. emitted'[k] = emitted[k]
    BY <2>1, <2>3, AdjustDoes
  <2> QED BY <2>2, <2>3, <2>4 DEF Viewed, Borrowed, Noted
<1>3. CASE UNCHANGED segs /\ \A m \in Message : Continues(m)
  <2>1. emitted'[k] = emitted[k]
    BY <1>3 DEF Continues, Borrowed, Counted
  <2>2. CASE view'[k] = view[k] /\ Borrowed(k) /\ (msg'[k] = "open" => msg[k] = "open")
    BY <2>1, <2>2 DEF Viewed, Noted
  <2>3. CASE view'[k] = <<>> /\ msg'[k] = "traversing" /\ Counted(k)
    <3>1. 1 .. Len(view'[k]) = {}
      BY <2>3
    <3> QED BY <2>3, <3>1 DEF Noted
  <2>4. CASE TraverseSegment(k)
    <3> DEFINE b == of[k]
               idx == Len(view[k]) + 1
    <3>1. /\ b \in Builder /\ idx \in 1 .. Len(segs[b])
          /\ Len(view'[k]) = idx
          /\ \A i \in 1 .. Len(view[k]) : view'[k][i] = view[k][i]
          /\ view'[k][idx] = segs[b][idx].size
      BY <2>4, TraverseDoes
    <3>2. msg[k] = "traversing" /\ msg' = msg
      BY <2>4 DEF TraverseSegment
    <3>3. Noted(k) /\ Covers(k)
      BY <3>2 DEF Viewed, Borrowed, Covered, Counted
    <3>4. Len(view[k]) \in Nat /\ Len(emitted[k]) \in Nat
      BY DEF TypeOK
    <3>5. \A i \in 1 .. idx : i <= Len(emitted[k]) => view'[k][i] >= emitted[k][i]
      <4> SUFFICES ASSUME NEW i \in 1 .. idx, i <= Len(emitted[k])
                   PROVE  view'[k][i] >= emitted[k][i]
        OBVIOUS
      <4>1. i \in 1 .. Len(emitted[k])
        BY <3>4
      <4>2. CASE i = idx
        BY <3>1, <3>3, <4>1, <4>2 DEF Covers
      <4>3. CASE i # idx
        <5>1. i \in 1 .. Len(view[k])
          BY <3>4, <4>3
        <5> QED BY <3>1, <3>3, <5>1 DEF Noted
      <4> QED BY <4>2, <4>3
    <3> QED BY <2>1, <3>1, <3>2, <3>5 DEF Noted
  <2>5. CASE FinishTraversal(k) /\ view'[k] = view[k]
    <3>1. msg[k] = "traversing" /\ Len(view[k]) >= Len(segs[of[k]])
      BY <2>5 DEF FinishTraversal
    <3>2. Noted(k) /\ Covers(k) /\ of[k] \in Builder
      BY <3>1 DEF Viewed, Borrowed, Covered, Counted, Sharing, CountedOwns
    <3>3. Len(view[k]) \in Nat /\ Len(emitted[k]) \in Nat /\ Len(segs[of[k]]) \in Nat
      BY <3>2 DEF TypeOK
    <3>4. Len(view[k]) >= Len(emitted[k])
      BY <3>1, <3>2, <3>3 DEF Covers
    <3> QED BY <2>1, <2>5, <3>2, <3>4 DEF Noted
  <2> QED BY <1>3, <2>2, <2>3, <2>4, <2>5 DEF Continues
<1> QED BY <1>1, <1>2, <1>3, StepKinds

\* Segments which an emission may be read from stay, with their capacities.
LEMMA CapsStay ==
  ASSUME TypeOK, Sharing, OneEmission, Fresh, [Next]_vars, NEW k \in Message, Counted(k)
  PROVE  /\ Len(segs[of[k]]) <= Len(segs'[of[k]])
         /\ \A i \in 1 .. Len(segs[of[k]]) : segs'[of[k]][i].cap = segs[of[k]][i].cap
<1>1. of[k] \in Builder /\ Len(segs[of[k]]) \in Nat
  BY DEF Sharing, CountedOwns, TypeOK
<1>2. CASE segs'[of[k]] = segs[of[k]]
  BY <1>1, <1>2
<1>3. ASSUME NEW b \in Builder, Reclaim(b)
      PROVE  segs'[of[k]] = segs[of[k]]
  BY <1>3, ReclaimSpares
<1>4. ASSUME NEW b \in Builder, NEW n \in LeafSz, Mutate(b, n)
      PROVE  /\ Len(segs[of[k]]) <= Len(segs'[of[k]])
             /\ \A i \in 1 .. Len(segs[of[k]]) : segs'[of[k]][i].cap = segs[of[k]][i].cap
  <2>1. CASE of[k] = b
    BY <1>1, <1>4, <2>1, MutateDoes
  <2>2. CASE of[k] # b
    <3>1. segs'[of[k]] = segs[of[k]]
      BY <1>1, <1>4, <2>2, MutateDoes
    <3> QED BY <1>2, <3>1
  <2> QED BY <2>1, <2>2
<1>5. ASSUME NEW b \in Builder, NEW n \in LeafSz, AllocateSegment(b, n)
      PROVE  /\ Len(segs[of[k]]) <= Len(segs'[of[k]])
             /\ \A i \in 1 .. Len(segs[of[k]]) : segs'[of[k]][i].cap = segs[of[k]][i].cap
  <2>1. CASE of[k] = b
    BY <1>1, <1>5, <2>1, AllocateDoes
  <2>2. CASE of[k] # b
    <3>1. segs'[of[k]] = segs[of[k]]
      BY <1>1, <1>5, <2>2, AllocateDoes
    <3> QED BY <1>2, <3>1
  <2> QED BY <2>1, <2>2
<1>6. ASSUME NEW m \in Message, AdjustSegment(m)
      PROVE  /\ Len(segs[of[k]]) <= Len(segs'[of[k]])
             /\ \A i \in 1 .. Len(segs[of[k]]) : segs'[of[k]][i].cap = segs[of[k]][i].cap
  <2>1. CASE of[k] = of[m]
    <3>1. /\ Len(segs'[of[m]]) = Len(segs[of[m]])
          /\ \A i \in 1 .. Len(segs[of[m]]) : segs'[of[m]][i].cap = segs[of[m]][i].cap
      BY <1>6, AdjustDoes
    <3> QED BY <1>1, <2>1, <3>1
  <2>2. CASE of[k] # of[m]
    <3>1. segs'[of[k]] = segs[of[k]]
      BY <1>1, <1>6, <2>2, AdjustDoes
    <3> QED BY <1>2, <3>1
  <2> QED BY <2>1, <2>2
<1> QED BY <1>2, <1>3, <1>4, <1>5, <1>6, StepKinds

\* What a Reader noted stays inside the segments.
LEMMA InsideStep ==
  ASSUME TypeOK, Sharing, OneEmission, Fresh, ReaderStaysInside, [Next]_vars
  PROVE  ReaderStaysInside'
<1> USE DEF msgVars
<1> SUFFICES ASSUME NEW k \in Message, Borrowed(k)'
             PROVE  /\ Len(view'[k]) <= Len(segs'[of'[k]])
                    /\ \A i \in DOMAIN view'[k] : view'[k][i] \in 1 .. segs'[of'[k]][i].cap
  BY DEF ReaderStaysInside, Borrowed
<1> DEFINE b == of[k]
<1>1. /\ Counted(k) /\ of'[k] = b
      /\ \/ view'[k] = view[k] /\ Borrowed(k)
         \/ view'[k] = <<>>
         \/ TraverseSegment(k)
  <2>1. CASE UNCHANGED msgVars
    BY <2>1 DEF Borrowed, Counted
  <2>2. ASSUME NEW m \in Message, AdjustSegment(m)
        PROVE  Counted(k) /\ of'[k] = b /\ view'[k] = view[k] /\ Borrowed(k)
    BY <2>2 DEF AdjustSegment, Borrowed, Counted
  <2>3. CASE Continues(k)
    <3>1. Counted(k)'
      BY DEF Borrowed, Counted
    <3>2. of'[k] = b
      BY <2>3, <3>1 DEF Continues
    <3> QED BY <2>3, <3>2 DEF Continues, Borrowed, Counted, TraverseSegment, FinishTraversal
  <2>4. CASE \/ \E c \in Builder : Reclaim(c)
             \/ \E c \in Builder, n \in LeafSz : Mutate(c, n) \/ AllocateSegment(c, n)
    BY <2>1, <2>4 DEF Reclaim, Mutate, AllocateSegment
  <2> QED BY <2>2, <2>3, <2>4, StepKinds
<1>2. /\ b \in Builder
      /\ Len(segs[b]) \in Nat /\ DOMAIN segs[b] = 1 .. Len(segs[b])
      /\ Len(view[k]) \in Nat /\ DOMAIN view[k] = 1 .. Len(view[k])
  BY <1>1 DEF Sharing, CountedOwns, TypeOK
<1>3. /\ Len(segs[b]) <= Len(segs'[b])
      /\ \A i \in 1 .. Len(segs[b]) : segs'[b][i].cap = segs[b][i].cap
  BY <1>1, CapsStay
<1>4. TypeOK'
  BY TypeStep
<1>5. Len(segs'[b]) \in Nat
  BY <1>2, <1>4 DEF TypeOK
<1>6. ASSUME view'[k] = view[k], Borrowed(k)
      PROVE  /\ Len(view'[k]) <= Len(segs'[b])
             /\ \A i \in DOMAIN view'[k] : view'[k][i] \in 1 .. segs'[b][i].cap
  <2>1. /\ Len(view[k]) <= Len(segs[b])
        /\ \A i \in DOMAIN view[k] : view[k][i] \in 1 .. segs[b][i].cap
    BY <1>6 DEF ReaderStaysInside
  <2>2. \A i \in DOMAIN view[k] : i \in 1 .. Len(segs[b])
    BY <1>2, <2>1
  <2>3. Len(view[k]) <= Len(segs'[b])
    BY <1>2, <1>3, <1>5, <2>1
  <2> QED BY <1>3, <1>6, <2>1, <2>2, <2>3
<1>7. ASSUME view'[k] = <<>>
      PROVE  /\ Len(view'[k]) <= Len(segs'[b])
             /\ \A i \in DOMAIN view'[k] : view'[k][i] \in 1 .. segs'[b][i].cap
  <2>1. Len(view'[k]) = 0 /\ DOMAIN view'[k] = {}
    BY <1>7
  <2> QED BY <1>5, <2>1
<1>8. ASSUME TraverseSegment(k)
      PROVE  /\ Len(view'[k]) <= Len(segs'[b])
             /\ \A i \in DOMAIN view'[k] : view'[k][i] \in 1 .. segs'[b][i].cap
  <2> DEFINE idx == Len(view[k]) + 1
  <2>1. /\ idx \in 1 .. Len(segs[b])
        /\ view' \in [Message -> Seq(Nat)]
        /\ Len(view'[k]) = idx
        /\ \A i \in 1 .. Len(view[k]) : view'[k][i] = view[k][i]
        /\ view'[k][idx] = segs[b][idx].size
    BY <1>8, TraverseDoes
  <2>2. \A i \in 1 .. Len(view[k]) : view[k][i] \in 1 .. segs[b][i].cap
    BY <1>2, <1>8 DEF ReaderStaysInside, Borrowed, TraverseSegment
  <2>3. segs[b][idx].size \in 1 .. segs[b][idx].cap
    BY <1>2, <2>1 DEF TypeOK
  <2>4. DOMAIN view'[k] = 1 .. idx
    BY <2>1
  <2>5. UNCHANGED segs
    BY <1>8 DEF TraverseSegment
  <2>6. \A i \in 1 .. idx : i \in 1 .. Len(view[k]) \/ i = idx
    BY <1>2
  <2> HIDE DEF idx
  <2>7. Len(view'[k]) <= Len(segs'[b])
    BY <2>1, <2>5
  <2> QED BY <2>1, <2>2, <2>3, <2>4, <2>5, <2>6, <2>7
<1> QED BY <1>1, <1>6, <1>7, <1>8

\* While a list is as it was emitted, all its sizes are, and its Readers see them.
LEMMA SizesStayStep ==
  ASSUME TypeOK, Sharing, OneEmission, Fresh, Covered, SizesStay, [Next]_vars
  PROVE  SizesStay'
<1> USE DEF msgVars, poolVars
<1> SUFFICES ASSUME NEW k \in Message, Counted(k)', AsEmitted(k)'
             PROVE  /\ SizesSame(k)'
                    /\ Borrowed(k)' =>
                         SeenSame(k)' /\ (msg'[k] = "open" => Len(view'[k]) = Len(emitted'[k]))
  BY DEF SizesStay
<1>1. \A b \in Builder : /\ segs[b] \in Seq(Segment) /\ Len(segs[b]) \in Nat
                         /\ \A i \in 1 .. Len(segs[b]) : segs[b][i] \in Segment
  <2>1. \A b \in Builder : segs[b] \in Seq(Segment)
    BY DEF TypeOK
  <2> QED BY <2>1, ElementOf
\* The list is left alone, and the message too.
<1>2. ASSUME UNCHANGED msgVars, segs'[of[k]] = segs[of[k]]
      PROVE  /\ SizesSame(k)'
             /\ Borrowed(k)' =>
                  SeenSame(k)' /\ (msg'[k] = "open" => Len(view'[k]) = Len(emitted'[k]))
  <2>1. Counted(k) /\ AsEmitted(k)
    BY <1>2 DEF Counted, AsEmitted
  <2>2. SizesSame(k) /\ (Borrowed(k) => SeenSame(k) /\ (msg[k] = "open" => Len(view[k]) = Len(emitted[k])))
    BY <2>1 DEF SizesStay
  <2> QED BY <1>2, <2>2 DEF SizesSame, SeenSame, Borrowed
<1>3. CASE \E b \in Builder : Reclaim(b)
  <2>1. PICK b \in Builder : Reclaim(b)
    BY <1>3
  <2>2. UNCHANGED msgVars
    BY <2>1 DEF Reclaim
  <2>3. Counted(k)
    BY <2>2 DEF Counted
  <2>4. segs'[of[k]] = segs[of[k]]
    BY <2>1, <2>3, ReclaimSpares
  <2> QED BY <1>2, <2>2, <2>4
<1>4. CASE \E b \in Builder, n \in LeafSz : Mutate(b, n) \/ AllocateSegment(b, n)
  <2>1. PICK b \in Builder, n \in LeafSz : Mutate(b, n) \/ AllocateSegment(b, n)
    BY <1>4
  <2>2. UNCHANGED msgVars
    BY <2>1 DEF Mutate, AllocateSegment
  <2>3. Covers(k) /\ of[k] \in Builder
    BY <2>2 DEF Covered, Counted, Sharing, CountedOwns
  <2>4. CASE of[k] # b
    <3>1. segs'[of[k]] = segs[of[k]]
      BY <2>1, <2>3, <2>4, MutateDoes, AllocateDoes
    <3> QED BY <1>2, <2>2, <3>1
  \* What is added shows.
  <2>5. CASE of[k] = b
    <3>1. Len(emitted[k]) \in Nat /\ Len(segs[b]) \in Nat
      BY <1>1 DEF TypeOK
    <3>2. CASE AllocateSegment(b, n)
      <4>1. Len(segs'[b]) = Len(segs[b]) + 1
        BY <3>2, AllocateDoes
      <4>2. Len(emitted[k]) = Len(segs'[b]) /\ Len(emitted[k]) <= Len(segs[b])
        BY <2>2, <2>3, <2>5 DEF AsEmitted, Covers
      <4> QED BY <3>1, <4>1, <4>2
    <3>3. CASE Mutate(b, n)
      <4> DEFINE last == Len(segs[b])
      <4>1. /\ last \in 1 .. Len(segs[b])
            /\ Len(segs'[b]) = last
            /\ segs'[b][last].used = segs[b][last].used + n
            /\ n \in Nat \ {0}
        BY <3>3, MutateDoes
      <4>2. segs[b][last].used \in Nat
        BY <1>1, <4>1 DEF Segment
      <4>3. /\ Len(emitted[k]) = last
            /\ segs'[b][last].used = emitted[k][last]
        BY <2>2, <2>5, <4>1 DEF AsEmitted
      <4>4. segs[b][last].used >= emitted[k][last]
        BY <2>3, <2>5, <4>1, <4>3 DEF Covers
      <4> HIDE DEF last
      <4> QED BY <4>1, <4>2, <4>3, <4>4
    <3> QED BY <2>1, <3>2, <3>3
  <2> QED BY <2>4, <2>5
<1>5. CASE \E m \in Message : AdjustSegment(m)
  <2>1. PICK m \in Message : AdjustSegment(m)
    BY <1>5
  <2> DEFINE b == of[m]
             idx == Len(emitted[m]) + 1
  <2>2. msg[m] = "adjusting" /\ UNCHANGED <<msg, of, view>>
    BY <2>1 DEF AdjustSegment, Emitting
  <2>3. k # m /\ Counted(k) /\ of[k] \in Builder
    BY <2>2 DEF Counted, Sharing, CountedOwns
  <2>4. /\ b \in Builder /\ idx \in 1 .. Len(segs[b])
        /\ Len(segs'[b]) = Len(segs[b])
        /\ \A c \in Builder \ {b} : segs'[c] = segs[c]
        /\ \A i \in 1 .. Len(segs[b]) :
             /\ segs'[b][i].used = segs[b][i].used
             /\ segs'[b][i].size = IF i = idx THEN segs[b][i].used ELSE segs[b][i].size
        /\ emitted'[k] = emitted[k]
    BY <2>1, <2>3, AdjustDoes
  <2> HIDE DEF b, idx
  <2>5. AsEmitted(k)
    <3>1. CASE of[k] = b
      BY <2>2, <2>4, <3>1 DEF AsEmitted
    <3>2. CASE of[k] # b
      BY <2>2, <2>3, <2>4, <3>2 DEF AsEmitted
    <3> QED BY <3>1, <3>2
  <2>6. SizesSame(k) /\ (Borrowed(k) => SeenSame(k) /\ (msg[k] = "open" => Len(view[k]) = Len(emitted[k])))
    BY <2>3, <2>5 DEF SizesStay
  <2>7. SizesSame(k)'
    <3>1. CASE of[k] = b
      BY <2>2, <2>4, <2>5, <2>6, <3>1 DEF SizesSame, AsEmitted
    <3>2. CASE of[k] # b
      BY <2>2, <2>3, <2>4, <2>6, <3>2 DEF SizesSame
    <3> QED BY <3>1, <3>2
  <2> QED BY <2>2, <2>4, <2>6, <2>7 DEF SeenSame, Borrowed
<1>6. CASE UNCHANGED segs /\ \A m \in Message : Continues(m)
  <2>1. /\ of'[k] = of[k] /\ emitted'[k] = emitted[k]
        /\ Counted(k) \/ (msg[k] = "adjusting" /\ AllAdjusted(k))
    BY <1>6 DEF Continues
  <2>2. AsEmitted(k)
    BY <1>6, <2>1 DEF AsEmitted
  <2>3. SizesSame(k)
    BY <2>1, <2>2 DEF SizesStay, Covered, Exact, SizesSame
  <2>4. SizesSame(k)'
    BY <1>6, <2>1, <2>3 DEF SizesSame
  <2>5. ASSUME Borrowed(k)'
        PROVE  SeenSame(k)' /\ (msg'[k] = "open" => Len(view'[k]) = Len(emitted'[k]))
    <3>1. CASE view'[k] = view[k] /\ Borrowed(k) /\ (msg'[k] = "open" => msg[k] = "open")
      <4>1. Counted(k)
        BY <3>1 DEF Borrowed, Counted
      <4> QED BY <2>1, <2>2, <3>1, <4>1 DEF SizesStay, SeenSame
    <3>2. CASE view'[k] = <<>> /\ msg'[k] = "traversing" /\ Counted(k)
      <4>1. Len(view'[k]) = 0 /\ 1 .. Len(view'[k]) = {} /\ Len(emitted[k]) \in Nat
        BY <3>2 DEF TypeOK
      <4> QED BY <2>1, <3>2, <4>1 DEF SeenSame
    <3>3. CASE TraverseSegment(k)
      <4> DEFINE b == of[k]
                 idx == Len(view[k]) + 1
      <4>1. /\ b \in Builder /\ idx \in 1 .. Len(segs[b])
            /\ Len(view'[k]) = idx
            /\ \A i \in 1 .. Len(view[k]) : view'[k][i] = view[k][i]
            /\ view'[k][idx] = segs[b][idx].size
        BY <3>3, TraverseDoes
      <4>2. msg[k] = "traversing" /\ msg' = msg
        BY <3>3 DEF TraverseSegment
      <4>3. SeenSame(k)
        BY <2>2, <4>2 DEF SizesStay, Borrowed, Counted
      <4>4. Len(view[k]) \in Nat
        BY DEF TypeOK
      <4>5. Len(emitted[k]) = Len(segs[b])
        BY <2>2 DEF AsEmitted
      <4>6. view'[k][idx] = emitted[k][idx]
        BY <2>3, <4>1, <4>5 DEF SizesSame
      <4>7. \A i \in 1 .. idx : view'[k][i] = emitted[k][i]
        <5> TAKE i \in 1 .. idx
        <5>1. CASE i = idx
          BY <4>6, <5>1
        <5>2. CASE i # idx
          <6>1. i \in 1 .. Len(view[k])
            BY <4>4, <5>2
          <6> QED BY <4>1, <4>3, <6>1 DEF SeenSame
        <5> QED BY <5>1, <5>2
      <4>8. idx <= Len(emitted[k])
        BY <4>1, <4>5
      <4> HIDE DEF idx
      <4> QED BY <2>1, <4>1, <4>2, <4>7, <4>8 DEF SeenSame
    <3>4. CASE FinishTraversal(k) /\ view'[k] = view[k]
      <4>1. msg[k] = "traversing" /\ Len(view[k]) >= Len(segs[of[k]])
        BY <3>4 DEF FinishTraversal
      <4>2. SeenSame(k)
        BY <2>2, <4>1 DEF SizesStay, Borrowed, Counted
      <4>3. Len(emitted[k]) = Len(segs[of[k]])
        BY <2>2 DEF AsEmitted
      <4>4. Len(view[k]) \in Nat /\ Len(emitted[k]) \in Nat
        BY DEF TypeOK
      <4>5. Len(view[k]) = Len(emitted[k])
        BY <4>1, <4>2, <4>3, <4>4 DEF SeenSame
      <4> QED BY <2>1, <3>4, <4>2, <4>5 DEF SeenSame
    <3> QED BY <1>6, <2>5, <3>1, <3>2, <3>3, <3>4 DEF Continues
  <2> QED BY <2>4, <2>5
<1> QED BY <1>3, <1>4, <1>5, <1>6, StepKinds

-----------------------------------------------------------------------------

LEMMA Initially ==
  ASSUME Init
  PROVE  IInv
<1>1. <<>> \in Seq(Segment) /\ <<>> \in Seq(Nat) /\ DOMAIN <<>> = {}
  BY EmptySeq
<1>2. TypeOK
  <2>1. /\ live = {} /\ owners \in [Builder -> SUBSET (Builder \cup Message)]
        /\ builder \in [Builder -> {"none", "live", "emitting", "destroyed", "crashed"}]
        /\ segment_sz \in [Builder -> Nat]
        /\ msg \in [Message -> MsgState] /\ of \in [Message -> Builder \cup {None}]
    BY MessageAssumption DEF Init, Pool!Init, MsgState
  <2>2. /\ segs \in [Builder -> Seq(Segment)]
        /\ \A b \in Builder : DOMAIN segs[b] = {}
        /\ emitted \in [Message -> Seq(Nat)] /\ view \in [Message -> Seq(Nat)]
    BY <1>1 DEF Init
  <2> QED BY <2>1, <2>2 DEF TypeOK
<1>3. Sharing
  BY DEF Init, Pool!Init, Sharing, HandleOwns, HasHandle, OwnedLives, BuilderOwns, MessageOwns,
         CountedOwns, Counted
<1>4. OneEmission /\ Fresh
  BY DEF Init, OneEmission, Fresh
<1>5. Covered /\ Viewed /\ ReaderStaysInside /\ SizesStay
  BY DEF Init, Covered, Viewed, ReaderStaysInside, SizesStay, Counted, Borrowed
<1> QED BY <1>2, <1>3, <1>4, <1>5 DEF IInv

\* The invariant is inductive.
THEOREM Inductive == Spec => []IInv
<1>1. IInv /\ [Next]_vars => IInv'
  BY TypeStep, SharingStep, OneEmissionStep, FreshStep, CoveredStep, ViewedStep,
     InsideStep, SizesStayStep DEF IInv
<1> QED BY Initially, <1>1, PTL DEF Spec

\* What the variables hold, in every behaviour: in particular capnp and resize()
\* stay within the capacity of every segment.
THEOREM TypeCorrect == Spec => []TypeOK
<1>1. IInv => TypeOK
  BY DEF IInv
<1> QED BY <1>1, Inductive, PTL

\* From lend() on till ~Reader() the list is there, whatever becomes of the Builder
\* and of the other Readers of it.
THEOREM NeverDangles == Spec => []ReaderNeverDangles
<1>1. IInv => ReaderNeverDangles
  <2> SUFFICES ASSUME IInv, NEW m \in Message,
                      msg[m] \in {"lent", "in flight", "received", "traversing", "open"}
               PROVE  of[m] \in live
    BY DEF ReaderNeverDangles
  <2>1. of[m] \in Builder /\ m \in owners[of[m]]
    BY DEF IInv, Sharing, CountedOwns, Counted
  <2> QED BY <2>1 DEF IInv, Sharing, OwnedLives
<1> QED BY <1>1, Inductive, PTL

\* deserialization() has seen all that was emitted when it is at the end of the list,
\* and no more than that if the Builder added nothing, however its loop and the one
\* in lend() interleave.
THEOREM SeesEmission == Spec => []ReaderSeesEmission
<1>1. IInv => ReaderSeesEmission
  <2> SUFFICES ASSUME IInv, NEW m \in Message, msg[m] = "open"
               PROVE  /\ Len(view[m]) >= Len(emitted[m])
                      /\ \A i \in DOMAIN emitted[m] : view[m][i] >= emitted[m][i]
                      /\ Used(of[m]) = emitted[m] => view[m] = emitted[m]
    BY DEF ReaderSeesEmission
  <2>1. Borrowed(m) /\ Counted(m) /\ of[m] \in Builder
    BY DEF IInv, Sharing, CountedOwns, Counted, Borrowed
  <2>2. /\ view[m] \in Seq(Nat) /\ Len(view[m]) \in Nat /\ DOMAIN view[m] = 1 .. Len(view[m])
        /\ emitted[m] \in Seq(Nat) /\ Len(emitted[m]) \in Nat
        /\ DOMAIN emitted[m] = 1 .. Len(emitted[m])
    BY DEF IInv, TypeOK
  <2>3. Noted(m) /\ Len(view[m]) >= Len(emitted[m])
    BY <2>1 DEF IInv, Viewed
  <2>4. \A i \in DOMAIN emitted[m] : view[m][i] >= emitted[m][i]
    BY SMTT(30), <2>2, <2>3 DEF Noted
  <2>5. ASSUME Used(of[m]) = emitted[m]
        PROVE  view[m] = emitted[m]
    <3>1. /\ DOMAIN segs[of[m]] = 1 .. Len(segs[of[m]]) /\ Len(segs[of[m]]) \in Nat
      BY <2>1 DEF IInv, TypeOK
    <3>2. /\ DOMAIN emitted[m] = DOMAIN segs[of[m]]
          /\ \A i \in DOMAIN segs[of[m]] : emitted[m][i] = segs[of[m]][i].used
      BY <2>5 DEF Used
    <3>3. Len(emitted[m]) = Len(segs[of[m]])
      BY <2>2, <3>1, <3>2
    <3>4. AsEmitted(m)
      BY <2>2, <3>2, <3>3 DEF AsEmitted
    <3>5. SeenSame(m) /\ Len(view[m]) = Len(emitted[m])
      BY <2>1, <3>4 DEF IInv, SizesStay
    <3>6. \A i \in 1 .. Len(view[m]) : view[m][i] = emitted[m][i]
      BY <3>5 DEF SeenSame
    <3> QED BY <2>2, <3>5, <3>6, SeqEqual
  <2> QED BY <2>3, <2>4, <2>5
<1> QED BY <1>1, Inductive, PTL

\* The sizes deserialization() notes are inside segments that are still there, also
\* when the list was mutated and emitted again since.
THEOREM StaysInside == Spec => []ReaderStaysInside
<1>1. IInv => ReaderStaysInside
  BY DEF IInv
<1> QED BY <1>1, Inductive, PTL

\* Once its Builder is destroyed and all its emissions were read and let go, a list
\* has no owner, in whichever order that was.
THEOREM FreedOnce == Spec => []FreedOnceRead
<1>1. IInv => FreedOnceRead
  <2> SUFFICES ASSUME IInv, NEW b \in Builder, builder[b] = "destroyed",
                      \A m \in Message : of[m] = b => msg[m] = "done" /\ view[m] # <<>>,
                      NEW s \in owners[b]
               PROVE  FALSE
    BY DEF FreedOnceRead
  <2>1. s \in Builder \/ s \in Message
    BY DEF IInv, TypeOK
  <2>2. CASE s \in Builder
    BY <2>2 DEF IInv, Sharing, BuilderOwns, HasHandle
  <2>3. CASE s \in Message
    <3>1. of[s] = b /\ Owed(s)
      BY <2>3 DEF IInv, Sharing, MessageOwns
    <3> QED BY <2>3, <3>1 DEF Owed, Counted
  <2> QED BY <2>1, <2>2, <2>3
<1> QED BY <1>1, Inductive, PTL

\* A Reader that borrowed the list, in whatever state its Builder and the other
\* emissions are, owns no list once it is destroyed: what ~Reader() does not release is
\* only the share of a message that was never traversed.
THEOREM BorrowersRelease ==
  Spec => [](\A m \in Message : msg[m] = "done" /\ view[m] # <<>> =>
               \A b \in Builder : m \notin owners[b])
<1> DEFINE Released == \A m \in Message : msg[m] = "done" /\ view[m] # <<>> =>
              \A b \in Builder : m \notin owners[b]
<1>1. IInv => Released
  BY DEF IInv, Sharing, MessageOwns, Owed, Counted
<1> HIDE DEF Released
<1>2. Spec => []Released
  BY <1>1, Inductive, PTL
<1> QED BY <1>2 DEF Released
=============================================================================
