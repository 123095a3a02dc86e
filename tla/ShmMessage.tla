------------------------------ MODULE ShmMessage ------------------------------
(***************************************************************************)
(* ipc::transport::struc::shm: a structured message whose serialization is *)
(* in SHM.  A Builder has capnp write into a list of segments, constructed *)
(* in the pool; emitting it lends the list to one more owner and sends the *)
(* small blob that means it; the Reader which gets the blob borrows the    *)
(* list and traverses it, in another process and with no synchronization,  *)
(* while the Builder may already be written to and emitted again.  Either  *)
(* process may die at any point, and an emission may fail half way.        *)
(*                                                                         *)
(* The pool does what SharedOwnership says (PoolArena implements it): the  *)
(* owners of a list are its Builder and the messages emitted.  Sizes are   *)
(* in capnp words.                                                         *)
(***************************************************************************)
EXTENDS Naturals, SequencesExt, FiniteSetsExt

CONSTANTS
  Builder,        \* the shm::Builder objects; each is also the list it constructs
  Message,        \* the emissions; each is also the Reader that gets it
  FirstSegmentSz, \* capnp::SUGGESTED_FIRST_SEGMENT_WORDS
  LeafSz,         \* the sizes of what users add
  PoolSz,         \* how much all segments may take: beyond it allocation throws
  None            \* no Builder

ASSUME MessageAssumption ==
  /\ Builder \cap Message = {} /\ None \notin Builder /\ IsFiniteSet(Builder)
  /\ FirstSegmentSz \in Nat \ {0}
  /\ LeafSz \subseteq Nat \ {0}
  /\ PoolSz \in Nat

VARIABLES
  live,       \* the lists there are in the pool
  owners,     \* per list: who co-owns it
  builder,    \* per Builder: its state
  segs,       \* per list: its segments, with what capnp used of each so far
  segment_sz, \* per Builder: m_segment_sz
  msg,        \* per message: where its emission, it, or its Reader is
  of,         \* per message: the Builder that emitted it
  emitted,    \* per message: what capnp had used of each segment when lend() got to it
  view        \* per message: m_btm_capnp_segments, the sizes its Reader noted

poolVars == <<live, owners>>
msgVars == <<msg, of, emitted, view>>
vars == <<poolVars, builder, segs, segment_sz, msgVars>>

Pool == INSTANCE SharedOwnership WITH Block <- Builder, Share <- Builder \cup Message

\* capacity() and size() of a Segment_in_shm, and what capnp wrote to.
Segment == [cap : Nat, size : Nat, used : Nat]

\* Before it is sent: "adjusting" the segments, "lent".  Nobody will read it, or
\* release its share: "lost", "aborted", "crashed".
MsgState ==
  {"unused", "adjusting", "lent", "in flight", "lost", "received", "traversing", "open",
   "failed", "aborted", "crashed", "done"}

\* The Reader has the handle.
Borrowed(m) == msg[m] \in {"traversing", "open"}

Used(b) == [i \in DOMAIN segs[b] |-> segs[b][i].used]

TotalCap(list) ==
  LET upTo[n \in 0 .. Len(list)] == IF n = 0 THEN 0 ELSE upTo[n - 1] + list[n].cap
  IN  upTo[Len(list)]

PoolUse == MapThenSumSet(LAMBDA b : TotalCap(segs[b]), Builder)

-----------------------------------------------------------------------------

Init ==
  /\ Pool!Init
  /\ builder = [b \in Builder |-> "none"]
  /\ segs = [b \in Builder |-> <<>>]
  /\ segment_sz = [b \in Builder |-> FirstSegmentSz]
  /\ msg = [m \in Message |-> "unused"]
  /\ of = [m \in Message |-> None]
  /\ emitted = [m \in Message |-> <<>>]
  /\ view = [m \in Message |-> <<>>]

-----------------------------------------------------------------------------
(* Builder and Capnp_message_builder. *)

BuilderCtor(b) ==
  /\ builder[b] = "none"
  /\ Pool!Create(b, b)
  /\ builder' = [builder EXCEPT ![b] = "live"]
  /\ UNCHANGED <<segs, segment_sz, msgVars>>

\* There is room for n more words in the last segment, where capnp puts things.
HasRoom(b, n) ==
  segs[b] # <<>> /\ Last(segs[b]).used + n <= Last(segs[b]).cap

\* A user adds a leaf that fits.  capnp writes past size() if need be.
Mutate(b, n) ==
  /\ builder[b] = "live"
  /\ HasRoom(b, n)
  /\ segs' = [segs EXCEPT ![b][Len(segs[b])].used = @ + n]
  /\ UNCHANGED <<poolVars, builder, segment_sz, msgVars>>

\* (Mutant: what capnp asks for is not looked at.)
SegmentSzOfGrowthOnly(b, min_sz) == segment_sz[b]

SegmentSzFor(b, min_sz) == IF min_sz > segment_sz[b] THEN min_sz ELSE segment_sz[b]

\* (Mutant: m_segment_sz stays what it was.)
SameSegmentSz(b, seg_sz) == segment_sz[b]

NextSegmentSz(b, seg_sz) == segment_sz[b] + seg_sz

\* A user adds a leaf that does not fit: allocateSegment().  (When the pool is
\* exhausted it throws and nothing changes.)
AllocateSegment(b, n) ==
  LET seg_sz == SegmentSzFor(b, n) IN
  /\ builder[b] = "live"
  /\ ~HasRoom(b, n)
  /\ PoolUse + seg_sz <= PoolSz
  /\ segs' = [segs EXCEPT ![b] = Append(@, [cap |-> seg_sz, size |-> seg_sz, used |-> n])]
  /\ segment_sz' = [segment_sz EXCEPT ![b] = NextSegmentSz(b, seg_sz)]
  /\ UNCHANGED <<poolVars, builder, msgVars>>

\* (Mutant: resize() is left out.)
NotResized(seg) == seg

\* blob.resize(seg_sz) in lend(): up or down to what capnp used.
Resized(seg) == [seg EXCEPT !.size = seg.used]

\* (Mutant: a list lent before is not lent again.)
LendOnce(b, m) ==
  IF owners[b] = {b} THEN Pool!AddOwner(b, b, m) ELSE UNCHANGED poolVars

\* lend_object() at the end of lend().
Lend(b, m) == Pool!AddOwner(b, b, m)

\* emit_serialization() begins.  (capnp allocated a segment when the user asked
\* for a root.)
BeginEmission(b, m) ==
  /\ builder[b] = "live"
  /\ segs[b] # <<>>
  /\ msg[m] = "unused"
  /\ builder' = [builder EXCEPT ![b] = "emitting"]
  /\ msg' = [msg EXCEPT ![m] = "adjusting"]
  /\ of' = [of EXCEPT ![m] = b]
  /\ UNCHANGED <<poolVars, segs, segment_sz, emitted, view>>

\* The Builder is in emit_serialization() for m.
Emitting(m, step) == msg[m] = step /\ builder[of[m]] = "emitting"

\* The loop of lend() adjusts the size of the next segment.
AdjustSegment(m) ==
  LET b == of[m]
      idx == Len(emitted[m]) + 1 IN
  /\ Emitting(m, "adjusting")
  /\ idx <= Len(segs[b])
  /\ segs' = [segs EXCEPT ![b][idx] = Resized(@)]
  /\ emitted' = [emitted EXCEPT ![m] = Append(@, segs[b][idx].used)]
  /\ UNCHANGED <<poolVars, builder, segment_sz, msg, of, view>>

AllAdjusted(m) == Emitting(m, "adjusting") /\ Len(emitted[m]) = Len(segs[of[m]])

\* The list is lent: from here on there is a share for the Reader.
LendSegments(m) ==
  /\ AllAdjusted(m)
  /\ Lend(of[m], m)
  /\ msg' = [msg EXCEPT ![m] = "lent"]
  /\ UNCHANGED <<builder, segs, segment_sz, of, emitted, view>>

\* lend_object() gives an empty blob: lend() gives false, with all the sizes
\* adjusted and nothing counted.
LendFails(m) ==
  /\ AllAdjusted(m)
  /\ builder' = [builder EXCEPT ![of[m]] = "live"]
  /\ msg' = [msg EXCEPT ![m] = "unused"]
  /\ of' = [of EXCEPT ![m] = None]
  /\ emitted' = [emitted EXCEPT ![m] = <<>>]
  /\ UNCHANGED <<poolVars, segs, segment_sz, view>>

\* The top serialization, with the handle in it, is emitted and sent; or it cannot
\* be emitted, and nothing takes the share back.
EmitTop(m) ==
  /\ Emitting(m, "lent")
  /\ builder' = [builder EXCEPT ![of[m]] = "live"]
  /\ \E state \in {"in flight", "lost"} : msg' = [msg EXCEPT ![m] = state]
  /\ UNCHANGED <<poolVars, segs, segment_sz, of, emitted, view>>

\* ~Builder(): the handle is released.
BuilderDtor(b) ==
  /\ builder[b] = "live"
  /\ Pool!DropOwner(b, b)
  /\ builder' = [builder EXCEPT ![b] = "destroyed"]
  /\ UNCHANGED <<segs, segment_sz, msgVars>>

\* The process with the Builder dies; its handle is never released.
BuilderCrash(b) ==
  /\ builder[b] \in {"live", "emitting"}
  /\ builder' = [builder EXCEPT ![b] = "crashed"]
  /\ UNCHANGED <<poolVars, segs, segment_sz, msgVars>>

\* The last owner's deleter destroys the list, with its segments.
Reclaim(b) ==
  /\ Pool!Reclaim(b)
  /\ segs' = [segs EXCEPT ![b] = <<>>]
  /\ UNCHANGED <<builder, segment_sz, msgVars>>

-----------------------------------------------------------------------------
(* The channel, and Reader. *)

SetMsg(m, state) ==
  /\ msg' = [msg EXCEPT ![m] = state]
  /\ UNCHANGED <<builder, segment_sz, of, emitted>>

\* Sending fails, or the channel ends with the message in it.
Lose(m) ==
  /\ msg[m] = "in flight"
  /\ SetMsg(m, "lost")
  /\ UNCHANGED <<poolVars, segs, view>>

\* The message is read into a new Reader, add_serialization_segment().
Receive(m) ==
  /\ msg[m] = "in flight"
  /\ SetMsg(m, "received")
  /\ UNCHANGED <<poolVars, segs, view>>

\* deserialization(err_code), to the point where the list is borrowed.  Without
\* an err_code it reads one through the null pointer first.
Deserialize(m, err_code_given) ==
  /\ msg[m] = "received"
  /\ SetMsg(m, IF err_code_given THEN "traversing" ELSE "aborted")
  /\ UNCHANGED <<poolVars, segs, view>>

\* The top serialization is not what it should be, or borrow_object() gives null.
DeserializeFails(m) ==
  /\ msg[m] = "received"
  /\ SetMsg(m, "failed")
  /\ UNCHANGED <<poolVars, segs, view>>

\* The loop of deserialization() notes the next segment.
TraverseSegment(m) ==
  LET idx == Len(view[m]) + 1 IN
  /\ msg[m] = "traversing"
  /\ idx <= Len(segs[of[m]])
  /\ view' = [view EXCEPT ![m] = Append(@, segs[of[m]][idx].size)]
  /\ UNCHANGED <<poolVars, segs, builder, segment_sz, msg, of, emitted>>

\* It is at the end of the list.
FinishTraversal(m) ==
  /\ msg[m] = "traversing"
  /\ Len(view[m]) >= Len(segs[of[m]])
  /\ SetMsg(m, "open")
  /\ UNCHANGED <<poolVars, segs, view>>

\* (Mutant: ~Reader() leaves the handle to whoever destroys the Builder.)
ReaderDtorKeepsHandle(m) ==
  /\ msg[m] \in {"received", "failed", "open"}
  /\ SetMsg(m, "done")
  /\ UNCHANGED <<poolVars, segs, view>>

\* ~Reader(): m_btm_serialization_shm_handle is released if there is one.
ReaderDtor(m) ==
  /\ msg[m] \in {"received", "failed", "open"}
  /\ IF Borrowed(m) THEN Pool!DropOwner(of[m], m) ELSE UNCHANGED poolVars
  /\ SetMsg(m, "done")
  /\ UNCHANGED <<segs, view>>

\* The process with the Reader dies; its handle, if it has one, is never released.
ReaderCrash(m) ==
  /\ msg[m] \in {"received", "traversing", "open", "failed"}
  /\ SetMsg(m, "crashed")
  /\ UNCHANGED <<poolVars, segs, view>>

-----------------------------------------------------------------------------

Next ==
  \/ \E b \in Builder : BuilderCtor(b) \/ BuilderDtor(b) \/ BuilderCrash(b) \/ Reclaim(b)
  \/ \E b \in Builder, n \in LeafSz : Mutate(b, n) \/ AllocateSegment(b, n)
  \/ \E b \in Builder, m \in Message : BeginEmission(b, m)
  \/ \E m \in Message, err_code_given \in BOOLEAN : Deserialize(m, err_code_given)
  \/ \E m \in Message : \/ AdjustSegment(m) \/ LendSegments(m) \/ LendFails(m) \/ EmitTop(m)
                        \/ Lose(m) \/ Receive(m) \/ DeserializeFails(m)
                        \/ TraverseSegment(m) \/ FinishTraversal(m)
                        \/ ReaderDtor(m) \/ ReaderCrash(m)

Spec == Init /\ [][Next]_vars

-----------------------------------------------------------------------------

\* What the variables hold.  capnp never writes past the capacity of a segment
\* allocateSegment() gave it, nor does resize() go beyond it.
TypeOK ==
  /\ live \subseteq Builder
  /\ owners \in [Builder -> SUBSET (Builder \cup Message)]
  /\ builder \in [Builder -> {"none", "live", "emitting", "destroyed", "crashed"}]
  /\ segs \in [Builder -> Seq(Segment)]
  /\ \A b \in Builder : \A i \in DOMAIN segs[b] :
       segs[b][i].used \in 1 .. segs[b][i].cap /\ segs[b][i].size \in 1 .. segs[b][i].cap
  /\ segment_sz \in [Builder -> Nat]
  /\ msg \in [Message -> MsgState]
  /\ of \in [Message -> Builder \cup {None}]
  /\ emitted \in [Message -> Seq(Nat)]
  /\ view \in [Message -> Seq(Nat)]

\* The list a message means is there from the emission until its Reader is
\* destroyed, whenever its Builder is, whatever process dies, and however often it
\* was emitted: "so that
\* our dtor won't blow away the SHM-stored data structure unless Reader has
\* already invoked its dtor too" (emit_serialization()).
ReaderNeverDangles ==
  \A m \in Message :
    msg[m] \in {"lent", "in flight", "received", "traversing", "open"} => of[m] \in live

\* A Reader sees all of the serialization that was emitted, though the Builder
\* may add segments to the list, write past the sizes in it and adjust them while
\* the Reader traverses it; and when the Builder did not, exactly that.
ReaderSeesEmission ==
  \A m \in Message :
    msg[m] = "open" =>
      /\ Len(view[m]) >= Len(emitted[m])
      /\ \A i \in DOMAIN emitted[m] : view[m][i] >= emitted[m][i]
      /\ Used(of[m]) = emitted[m] => view[m] = emitted[m]

\* What a Reader noted of a segment, whatever was added to the list or adjusted in
\* it after the emission was sent, and however often, is inside a segment which is
\* still there: capnp is never handed words beyond the segment.
ReaderStaysInside ==
  \A m \in Message : Borrowed(m) =>
    /\ Len(view[m]) <= Len(segs[of[m]])
    /\ \A i \in DOMAIN view[m] : view[m][i] \in 1 .. segs[of[m]][i].cap

\* "each new segment's size equals that of the preceding segments' sizes added
\* up" (Capnp_heap_engine), or more.
SegmentsGrow ==
  \A b \in Builder : \A i \in DOMAIN segs[b] :
    segs[b][i].cap >= FirstSegmentSz + TotalCap(SubSeq(segs[b], 1, i - 1))

\* What n segments take at least, and the first one more: twice as much with each.
LeastTotal[n \in Nat] == IF n = 0 THEN FirstSegmentSz ELSE 2 * LeastTotal[n - 1]

\* What allocateSegment() makes them grow for: however little a user adds at a time,
\* the segments of a list, each of which a Reader must traverse, are no more than
\* the logarithm of the size of the pool.
SegmentsStayFew ==
  \A b \in Builder : LeastTotal[Len(segs[b])] <= FirstSegmentSz + PoolSz

\* Whatever order the Builder and the Readers of a list are destroyed in: when all
\* its messages were deserialized, and all of them are gone, nobody owns it, so that
\* the pool takes the segments back.
FreedOnceRead ==
  \A b \in Builder :
    /\ builder[b] = "destroyed"
    /\ \A m \in Message : of[m] = b => msg[m] = "done" /\ view[m] # <<>>
    => owners[b] = {}

\* ~Reader() is documented to act "essentially identically to shm::Builder::~Builder()
\* dtor: decrements the owner-process ref-count by 1".  It does not if
\* deserialization() was not called, or failed before it borrowed the list.
ReaderDtorReleases ==
  \A m \in Message : msg[m] = "done" => m \notin owners[of[m]]

\* deserialization() is declared with "Error_code* err_code = 0", and throws
\* through emit_error() then.  But it reads *err_code before.
NullErrCodeIsLegal ==
  \A m \in Message : msg[m] # "aborted"
=============================================================================
