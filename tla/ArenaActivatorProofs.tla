------------------------ MODULE ArenaActivatorProofs ------------------------
(***************************************************************************)
(* Proofs about ArenaActivator: whatever nests in whatever, the active     *)
(* arena is that of the innermost activator, and so all inner buffers are  *)
(* in their objects' arenas.                                               *)
(***************************************************************************)
EXTENDS ArenaActivator, SequenceTheorems, TLAPS

\* Each activator saved the arena of the one it is in.  This is why restoring what
\* was saved does what a stack of arenas would do.
SavedAreOuter ==
  \A t \in Thread : \A i \in 1 .. Len(stack[t]) :
    /\ i = 1 => stack[t][i].saved = None
    /\ i # 1 => stack[t][i].saved = stack[t][i - 1].arena

\* The activators around constructors and destructors are their objects' arenas'.
ActivatorsFit ==
  \A t \in Thread : \A i \in 1 .. Len(stack[t]) :
    stack[t][i].obj # None => stack[t][i].arena = ArenaOf[stack[t][i].obj]

IInv ==
  /\ TypeOK
  /\ SavedAreOuter
  /\ ActivatorsFit
  /\ InnermostIsActive
  /\ InnerBuffersAtHome

-----------------------------------------------------------------------------

\* What appending to a stack and removing its last element do.
LEMMA PushPop ==
  ASSUME NEW S, NEW s \in Seq(S), NEW e \in S
  PROVE  /\ Append(s, e) \in Seq(S)
         /\ Len(Append(s, e)) = Len(s) + 1
         /\ \A i \in 1 .. Len(s) : Append(s, e)[i] = s[i]
         /\ Append(s, e)[Len(s) + 1] = e
         /\ s # <<>> =>
              /\ Len(s) \in Nat \ {0}
              /\ SubSeq(s, 1, Len(s) - 1) \in Seq(S)
              /\ Len(SubSeq(s, 1, Len(s) - 1)) = Len(s) - 1
              /\ \A i \in 1 .. Len(s) - 1 : SubSeq(s, 1, Len(s) - 1)[i] = s[i]
OBVIOUS

\* A stack with one activator less is empty or not.
LEMMA OneOrMore ==
  \A n \in Nat \ {0} : n = 1 \/ (n - 1 # 0 /\ n - 1 \in 1 .. n - 1)
OBVIOUS

\* A new activator saves what is active and is then innermost.
LEMMA ActivateKeeps ==
  ASSUME TypeOK, SavedAreOuter, ActivatorsFit, InnermostIsActive,
         NEW t \in Thread, NEW a \in Arena, NEW o \in Object \cup {None},
         o # None => a = ArenaOf[o], Activate(t, a, o)
  PROVE  /\ active' \in [Thread -> Arena \cup {None}]
         /\ stack' \in [Thread -> Seq(Activator)]
         /\ \A u \in Thread : Len(stack'[u]) <= MaxDepth
         /\ SavedAreOuter' /\ ActivatorsFit' /\ InnermostIsActive'
<1> DEFINE e == [arena |-> a, saved |-> active[t], obj |-> o]
<1>1. e \in Activator
  BY DEF TypeOK, Activator
<1>2. /\ stack[t] \in Seq(Activator)
      /\ stack'[t] = Append(stack[t], e)
      /\ active'[t] = a
      /\ \A u \in Thread \ {t} : stack'[u] = stack[u] /\ active'[u] = active[u]
  BY DEF Activate, TypeOK
<1>3. /\ stack'[t] \in Seq(Activator)
      /\ Len(stack'[t]) = Len(stack[t]) + 1
      /\ \A i \in 1 .. Len(stack[t]) : stack'[t][i] = stack[t][i]
      /\ stack'[t][Len(stack[t]) + 1] = e
  BY <1>1, <1>2, PushPop
<1>4. Len(stack[t]) \in Nat
  BY <1>2
<1>5. Len(stack[t]) + 1 <= MaxDepth
  BY <1>4, DepthAssumption DEF Activate
<1>6. /\ active' \in [Thread -> Arena \cup {None}]
      /\ stack' \in [Thread -> Seq(Activator)]
      /\ \A u \in Thread : Len(stack'[u]) <= MaxDepth
  BY <1>1, <1>2, <1>3, <1>5 DEF Activate, TypeOK
<1>7. ASSUME NEW u \in Thread, NEW i \in 1 .. Len(stack'[u])
      PROVE  /\ i = 1 => stack'[u][i].saved = None
             /\ i # 1 => stack'[u][i].saved = stack'[u][i - 1].arena
             /\ stack'[u][i].obj # None => stack'[u][i].arena = ArenaOf[stack'[u][i].obj]
  <2>1. CASE u # t
    <3>1. stack'[u] = stack[u]
      BY <1>2, <2>1
    <3>2. i \in 1 .. Len(stack[u])
      BY <3>1
    <3> QED BY <3>1, <3>2 DEF SavedAreOuter, ActivatorsFit
  <2>2. CASE u = t /\ i \in 1 .. Len(stack[t])
    BY SMTT(30), <1>3, <1>4, <2>2 DEF SavedAreOuter, ActivatorsFit
  <2>3. CASE u = t /\ i = Len(stack[t]) + 1
    <3>1. CASE i = 1
      BY <1>2, <1>3, <2>3, <3>1 DEF InnermostIsActive
    <3>2. CASE i # 1
      <4>1. i - 1 = Len(stack[t]) /\ i - 1 \in 1 .. Len(stack[t]) /\ stack[t] # <<>>
        BY <1>2, <1>4, <2>3, <3>2
      <4>2. active[t] = stack'[t][i - 1].arena
        BY <1>3, <4>1 DEF InnermostIsActive, Innermost
      <4> QED BY <1>3, <2>3, <3>2, <4>2
    <3> QED BY <3>1, <3>2
  <2> QED BY <1>3, <1>4, <2>1, <2>2, <2>3
<1>8. SavedAreOuter' /\ ActivatorsFit'
  BY <1>7 DEF SavedAreOuter, ActivatorsFit
<1>9. InnermostIsActive'
  BY <1>2, <1>3, <1>4 DEF InnermostIsActive, Innermost
<1> QED BY <1>6, <1>8, <1>9

\* The innermost activator's end makes the next one's arena active again.
LEMMA DeactivateKeeps ==
  ASSUME TypeOK, SavedAreOuter, ActivatorsFit, InnermostIsActive,
         NEW t \in Thread, stack[t] # <<>>, Deactivate(t)
  PROVE  /\ active' \in [Thread -> Arena \cup {None}]
         /\ stack' \in [Thread -> Seq(Activator)]
         /\ \A u \in Thread : Len(stack'[u]) <= MaxDepth
         /\ SavedAreOuter' /\ ActivatorsFit' /\ InnermostIsActive'
<1> DEFINE n == Len(stack[t])
<1>1. /\ stack[t] \in Seq(Activator)
      /\ stack'[t] = SubSeq(stack[t], 1, n - 1)
      /\ active'[t] = stack[t][n].saved
      /\ \A u \in Thread \ {t} : stack'[u] = stack[u] /\ active'[u] = active[u]
  BY DEF Deactivate, RestoredArena, Innermost, TypeOK
<1>2. /\ n \in Nat \ {0}
      /\ stack[t][n] \in Activator
  BY <1>1
<1>3. /\ stack'[t] \in Seq(Activator)
      /\ Len(stack'[t]) = n - 1
      /\ \A i \in 1 .. n - 1 : stack'[t][i] = stack[t][i]
  BY <1>1, <1>2, PushPop
<1>4. Len(stack'[t]) <= MaxDepth
  <2>1. n <= MaxDepth
    BY DEF TypeOK
  <2> QED BY <1>2, <1>3, <2>1, DepthAssumption
<1>5. /\ active' \in [Thread -> Arena \cup {None}]
      /\ stack' \in [Thread -> Seq(Activator)]
  <2>1. stack[t][n].saved \in Arena \cup {None}
    BY <1>2 DEF Activator
  <2>2. /\ active' = [active EXCEPT ![t] = stack[t][n].saved]
        /\ stack' = [stack EXCEPT ![t] = SubSeq(@, 1, Len(@) - 1)]
    BY DEF Deactivate, RestoredArena, Innermost
  <2> QED BY <1>1, <1>3, <2>1, <2>2 DEF TypeOK
<1>6. \A u \in Thread : Len(stack'[u]) <= MaxDepth
  BY <1>1, <1>4 DEF TypeOK
<1>7. ASSUME NEW u \in Thread, NEW i \in 1 .. Len(stack'[u])
      PROVE  /\ i = 1 => stack'[u][i].saved = None
             /\ i # 1 => stack'[u][i].saved = stack'[u][i - 1].arena
             /\ stack'[u][i].obj # None => stack'[u][i].arena = ArenaOf[stack'[u][i].obj]
  <2>1. i \in 1 .. Len(stack[u]) /\ \A j \in 1 .. i : stack'[u][j] = stack[u][j]
    <3>1. CASE u = t
      BY <1>2, <1>3, <3>1
    <3>2. CASE u # t
      <4>1. stack'[u] = stack[u]
        BY <1>1, <3>2
      <4> QED BY <4>1
    <3> QED BY <3>1, <3>2
  <2>2. stack'[u][i] = stack[u][i]
    BY <2>1
  <2>3. i # 1 => stack'[u][i - 1] = stack[u][i - 1]
    <3>1. i # 1 => i - 1 \in 1 .. i
      BY <2>1
    <3> QED BY <2>1, <3>1
  <2> QED BY <2>1, <2>2, <2>3 DEF SavedAreOuter, ActivatorsFit
<1>8. SavedAreOuter' /\ ActivatorsFit'
  BY <1>7 DEF SavedAreOuter, ActivatorsFit
<1>9. InnermostIsActive'
  <2>1. /\ n = 1 => stack[t][n].saved = None
        /\ n # 1 => stack[t][n].saved = stack[t][n - 1].arena
    <3>1. n \in 1 .. Len(stack[t])
      BY <1>2
    <3> QED BY <3>1 DEF SavedAreOuter
  <2>2. /\ stack'[t] = <<>> => n = 1
        /\ stack'[t] # <<>> => n # 1 /\ stack'[t][Len(stack'[t])] = stack[t][n - 1]
    <3>1. stack'[t] = <<>> <=> Len(stack'[t]) = 0
      BY <1>3, EmptySeq
    <3>2. n = 1 \/ (n - 1 # 0 /\ n - 1 \in 1 .. n - 1)
      BY <1>2, OneOrMore
    <3> QED BY <1>2, <1>3, <3>1, <3>2
  <2>3. /\ stack'[t] = <<>> => active'[t] = None
        /\ stack'[t] # <<>> => active'[t] = stack'[t][Len(stack'[t])].arena
    BY <1>1, <2>1, <2>2
  <2>4. ASSUME NEW u \in Thread, u # t
        PROVE  /\ stack'[u] = <<>> => active'[u] = None
               /\ stack'[u] # <<>> => active'[u] = stack'[u][Len(stack'[u])].arena
    <3>1. stack'[u] = stack[u] /\ active'[u] = active[u]
      BY <1>1, <2>4
    <3> QED BY <3>1 DEF InnermostIsActive, Innermost
  <2> QED BY <2>3, <2>4 DEF InnermostIsActive, Innermost
<1> QED BY <1>5, <1>6, <1>8, <1>9

\* Whoever may work on an object does so with the object's arena active.
LEMMA WorksInArena ==
  ASSUME IInv, NEW t \in Thread, NEW o \in Object, MayWorkOn(t, o)
  PROVE  active[t] = ArenaOf[o]
<1>1. stack[t] \in Seq(Activator) /\ stack[t] # <<>>
  BY DEF IInv, TypeOK, MayWorkOn
<1>2. Len(stack[t]) \in 1 .. Len(stack[t])
  BY <1>1
<1>3. Innermost(t).arena = ArenaOf[o]
  BY <1>2, NoneAssumption DEF IInv, ActivatorsFit, MayWorkOn, Innermost
<1> QED BY <1>1, <1>3 DEF IInv, InnermostIsActive

\* Nothing is active, nothing allocated.
LEMMA InitIInv == Init => IInv
BY DepthAssumption
   DEF Init, IInv, TypeOK, Status, SavedAreOuter, ActivatorsFit, InnermostIsActive,
       InnerBuffersAtHome

\* Each step of users, of Pool_arena and of the allocators keeps the invariant.
LEMMA NextIInv == IInv /\ [Next]_vars => IInv'
<1> SUFFICES ASSUME IInv, [Next]_vars PROVE IInv'
  OBVIOUS
<1> USE DEF IInv
<1>1. ASSUME NEW t \in Thread, NEW a \in Arena, EnterScope(t, a) PROVE IInv'
  <2>1. UNCHANGED <<status, inner, allocated>> /\ Activate(t, a, None)
    BY <1>1 DEF EnterScope
  <2> QED BY <2>1, ActivateKeeps DEF TypeOK, InnerBuffersAtHome
<1>2. ASSUME NEW t \in Thread, LeaveScope(t) PROVE IInv'
  BY <1>2, DeactivateKeeps DEF LeaveScope, TypeOK, InnerBuffersAtHome
<1>3. ASSUME NEW t \in Thread, NEW o \in Object, BeginConstruct(t, o) \/ BeginDestroy(t, o)
      PROVE  IInv'
  <2>1. /\ ArenaOf[o] \in Arena
        /\ Activate(t, ArenaOf[o], o)
        /\ UNCHANGED <<inner, allocated>>
        /\ status' \in [Object -> Status]
    BY <1>3, ArenaOfAssumption
       DEF BeginConstruct, BeginDestroy, ArenaForDestructor, TypeOK, Status
  <2> QED BY <2>1, ActivateKeeps DEF TypeOK, InnerBuffersAtHome
<1>4. ASSUME NEW t \in Thread, EndConstruct(t) \/ EndDestroy(t) PROVE IInv'
  <2>1. /\ stack[t] # <<>>
        /\ Deactivate(t)
        /\ UNCHANGED <<inner, allocated>>
        /\ status' \in [Object -> Status]
    BY <1>4 DEF EndConstruct, EndDestroy, TypeOK, Status
  <2> QED BY <2>1, DeactivateKeeps DEF TypeOK, InnerBuffersAtHome
<1>5. ASSUME NEW t \in Thread, NEW o \in Object, NEW buf \in Buffer, Allocate(t, o, buf)
      PROVE  IInv'
  <2>1. /\ MayWorkOn(t, o)
        /\ UNCHANGED <<active, stack, status>>
    BY <1>5 DEF Allocate
  <2>2. active[t] = ArenaOf[o] /\ ArenaOf[o] \in Arena
    BY <2>1, WorksInArena, ArenaOfAssumption
  <2>3. /\ allocated' = [allocated EXCEPT ![ArenaOf[o]] = @ \cup {buf}]
        /\ inner' = [inner EXCEPT ![o] = @ \cup {buf}]
        /\ \A a \in Arena : buf \notin allocated[a]
    BY <1>5, <2>2 DEF Allocate
  <2>4. \A p \in Object : buf \notin inner[p]
    BY <2>3, ArenaOfAssumption DEF InnerBuffersAtHome
  <2>5. TypeOK'
    BY <2>1, <2>2, <2>3 DEF TypeOK
  <2>6. InnerBuffersAtHome'
    <3>1. \A p \in Object : inner'[p] = IF p = o THEN inner[o] \cup {buf} ELSE inner[p]
      BY <2>3 DEF TypeOK
    <3>2. \A a \in Arena :
            allocated'[a] = IF a = ArenaOf[o] THEN allocated[a] \cup {buf} ELSE allocated[a]
      BY <2>2, <2>3 DEF TypeOK
    <3>3. ASSUME NEW a \in Arena
          PROVE  allocated'[a] = UNION {inner'[p] : p \in {q \in Object : ArenaOf[q] = a}}
      <4>1. \A x : x \in allocated[a] <=> \E p \in Object : ArenaOf[p] = a /\ x \in inner[p]
        BY DEF InnerBuffersAtHome
      <4>2. \A x : x \in allocated'[a] <=> \E p \in Object : ArenaOf[p] = a /\ x \in inner'[p]
        <5>1. ASSUME NEW x, x \in allocated'[a]
              PROVE  \E p \in Object : ArenaOf[p] = a /\ x \in inner'[p]
          BY <3>1, <3>2, <4>1, <5>1
        <5>2. ASSUME NEW x, NEW p \in Object, ArenaOf[p] = a, x \in inner'[p]
              PROVE  x \in allocated'[a]
          BY <3>1, <3>2, <4>1, <5>2
        <5> QED BY <5>1, <5>2
      <4> QED BY <4>2
    <3>4. ASSUME NEW p \in Object, NEW q \in Object, p # q
          PROVE  inner'[p] \cap inner'[q] = {}
      BY <2>4, <3>1, <3>4 DEF InnerBuffersAtHome
    <3> QED BY <3>3, <3>4 DEF InnerBuffersAtHome
  <2> QED BY <2>1, <2>5, <2>6 DEF SavedAreOuter, ActivatorsFit, InnermostIsActive, Innermost
<1>6. ASSUME NEW t \in Thread, NEW o \in Object, NEW buf \in Buffer, Deallocate(t, o, buf)
      PROVE  IInv'
  <2>1. /\ MayWorkOn(t, o)
        /\ UNCHANGED <<active, stack, status>>
    BY <1>6 DEF Deallocate
  <2>2. active[t] = ArenaOf[o] /\ ArenaOf[o] \in Arena
    BY <2>1, WorksInArena, ArenaOfAssumption
  <2>3. /\ allocated' = [allocated EXCEPT ![ArenaOf[o]] = @ \ {buf}]
        /\ inner' = [inner EXCEPT ![o] = @ \ {buf}]
        /\ buf \in inner[o]
    BY <1>6, <2>2 DEF Deallocate
  <2>4. \A p \in Object : p # o => buf \notin inner[p]
    BY <2>3 DEF InnerBuffersAtHome
  <2>5. TypeOK'
    BY <2>1, <2>2, <2>3 DEF TypeOK
  <2>6. InnerBuffersAtHome'
    <3>1. \A p \in Object : inner'[p] = IF p = o THEN inner[o] \ {buf} ELSE inner[p]
      BY <2>3 DEF TypeOK
    <3>2. \A a \in Arena :
            allocated'[a] = IF a = ArenaOf[o] THEN allocated[a] \ {buf} ELSE allocated[a]
      BY <2>2, <2>3 DEF TypeOK
    <3>3. ASSUME NEW a \in Arena
          PROVE  allocated'[a] = UNION {inner'[p] : p \in {q \in Object : ArenaOf[q] = a}}
      <4>1. \A x : x \in allocated[a] <=> \E p \in Object : ArenaOf[p] = a /\ x \in inner[p]
        BY DEF InnerBuffersAtHome
      <4>2. \A x : x \in allocated'[a] <=> \E p \in Object : ArenaOf[p] = a /\ x \in inner'[p]
        <5>1. ASSUME NEW x, x \in allocated'[a]
              PROVE  \E p \in Object : ArenaOf[p] = a /\ x \in inner'[p]
          BY <2>4, <3>1, <3>2, <4>1, <5>1
        <5>2. ASSUME NEW x, NEW p \in Object, ArenaOf[p] = a, x \in inner'[p]
              PROVE  x \in allocated'[a]
          BY ZenonT(40), <2>4, <3>1, <3>2, <4>1, <5>2
        <5> QED BY <5>1, <5>2
      <4> QED BY <4>2
    <3>4. ASSUME NEW p \in Object, NEW q \in Object, p # q
          PROVE  inner'[p] \cap inner'[q] = {}
      BY <3>1, <3>4 DEF InnerBuffersAtHome
    <3> QED BY <3>3, <3>4 DEF InnerBuffersAtHome
  <2> QED BY <2>1, <2>5, <2>6 DEF SavedAreOuter, ActivatorsFit, InnermostIsActive, Innermost
<1>7. ASSUME NEW t \in Thread, NEW o \in Object, NEW p \in Object, MoveInner(t, o, p)
      PROVE  IInv'
  <2>1. /\ o # p
        /\ MayWorkOn(t, o) /\ MayWorkOn(t, p)
        /\ inner' = [inner EXCEPT ![o] = {}, ![p] = @ \cup inner[o]]
        /\ UNCHANGED <<active, stack, status, allocated>>
    BY <1>7 DEF MoveInner
  <2>2. ArenaOf[o] = ArenaOf[p]
    <3>1. active[t] = ArenaOf[o]
      BY <2>1, WorksInArena
    <3>2. active[t] = ArenaOf[p]
      BY <2>1, WorksInArena
    <3> QED BY <3>1, <3>2
  <2>3. \A q \in Object : inner'[q] = IF q = o THEN {}
                                     ELSE IF q = p THEN inner[p] \cup inner[o] ELSE inner[q]
    BY <2>1 DEF TypeOK
  <2>4. TypeOK'
    BY <2>1 DEF TypeOK
  <2>5. InnerBuffersAtHome'
    <3>1. ASSUME NEW a \in Arena
          PROVE  allocated'[a] = UNION {inner'[q] : q \in {r \in Object : ArenaOf[r] = a}}
      <4>1. \A x : x \in allocated[a] <=> \E q \in Object : ArenaOf[q] = a /\ x \in inner[q]
        BY DEF InnerBuffersAtHome
      <4>2. ASSUME NEW x, NEW q \in Object, ArenaOf[q] = a, x \in inner[q]
            PROVE  \E r \in Object : ArenaOf[r] = a /\ x \in inner'[r]
        <5>1. CASE q = o
          <6>1. x \in inner'[p]
            <7>1. inner'[p] = inner[p] \cup inner[o]
              BY <2>1, <2>3
            <7> QED BY <4>2, <5>1, <7>1
          <6>2. ArenaOf[p] = a
            BY <2>2, <4>2, <5>1
          <6> QED BY <6>1, <6>2
        <5>2. CASE q # o
          BY <2>3, <4>2, <5>2
        <5> QED BY <5>1, <5>2
      <4>3. ASSUME NEW x, NEW q \in Object, ArenaOf[q] = a, x \in inner'[q]
            PROVE  \E r \in Object : ArenaOf[r] = a /\ x \in inner[r]
        BY <2>2, <2>3, <4>3
      <4>4. allocated'[a] = allocated[a]
        BY <2>1
      <4> QED BY <4>1, <4>2, <4>3, <4>4
    <3>2. ASSUME NEW q \in Object, NEW r \in Object, q # r
          PROVE  inner'[q] \cap inner'[r] = {}
      <4>1. \A x \in inner[o] : \A s \in Object : s # o => x \notin inner[s]
        BY DEF InnerBuffersAtHome
      <4>2. inner[q] \cap inner[r] = {}
        BY <3>2 DEF InnerBuffersAtHome
      <4>3. CASE q = o \/ r = o
        BY <2>3, <4>3
      <4>4. CASE q # o /\ r # o
        BY <2>3, <3>2, <4>1, <4>2, <4>4
      <4> QED BY <4>3, <4>4
    <3> QED BY <3>1, <3>2 DEF InnerBuffersAtHome
  <2> QED BY <2>1, <2>4, <2>5 DEF SavedAreOuter, ActivatorsFit, InnermostIsActive, Innermost
<1>8. CASE UNCHANGED vars
  BY <1>8 DEF vars, TypeOK, SavedAreOuter, ActivatorsFit, InnermostIsActive, Innermost,
              InnerBuffersAtHome
<1> QED BY <1>1, <1>2, <1>3, <1>4, <1>5, <1>6, <1>7, <1>8 DEF Next

\* The invariant holds throughout.
LEMMA SpecIInv == Spec => []IInv
BY InitIInv, NextIInv, PTL DEF Spec

-----------------------------------------------------------------------------

\* A thread's active arena is one of the arenas or null.
THEOREM ActivatorTypeCorrect == Spec => []TypeOK
BY SpecIInv, PTL DEF IInv

\* Scopes of activators nest: Arena_activator's destructor restores the arena of the
\* scope around it, so that the rest of that scope does not work with another.
THEOREM ScopesNest == Spec => []InnermostIsActive
BY SpecIInv, PTL DEF IInv

\* Stateless_allocator, with the activators in construct() and in the deleter,
\* takes inner buffers from, and gives them back to, the arena of their object.
THEOREM BuffersAtHome == Spec => []InnerBuffersAtHome
BY SpecIInv, PTL DEF IInv

-----------------------------------------------------------------------------
(* Implementation of StatefulAllocator. *)

\* An object is under construction or destruction in one activator's scope, if it is
\* in any.  This is why the end of a scope is the end of its object's constructor or
\* destructor, and why what is worked on exists.
Surrounded ==
  /\ \A t \in Thread : \A i \in 1 .. Len(stack[t]) :
       stack[t][i].obj # None => status[stack[t][i].obj] \in {"constructing", "destroying"}
  /\ \A t, u \in Thread : \A i \in 1 .. Len(stack[t]), j \in 1 .. Len(stack[u]) :
       stack[t][i].obj # None /\ stack[t][i].obj = stack[u][j].obj => t = u /\ i = j

\* What Arena_activator's constructor and destructor do to the stacks.
LEMMA Activated ==
  ASSUME TypeOK, NEW t \in Thread, NEW a \in Arena, NEW o \in Object \cup {None},
         Activate(t, a, o)
  PROVE  \A u \in Thread : \A i \in 1 .. Len(stack'[u]) :
           \/ i \in 1 .. Len(stack[u]) /\ stack'[u][i] = stack[u][i]
           \/ u = t /\ i = Len(stack[t]) + 1 /\ stack'[u][i].obj = o
<1> DEFINE e == [arena |-> a, saved |-> active[t], obj |-> o]
<1>1. /\ stack[t] \in Seq(Activator) /\ Len(stack[t]) \in Nat /\ e \in Activator
      /\ stack'[t] = Append(stack[t], e)
      /\ \A u \in Thread \ {t} : stack'[u] = stack[u]
  <2>1. e \in Activator
    BY DEF TypeOK, Activator
  <2> QED BY <2>1 DEF TypeOK, Activate
<1>2. e.obj = o
  OBVIOUS
<1> HIDE DEF e
<1>3. /\ Len(stack'[t]) = Len(stack[t]) + 1
      /\ \A i \in 1 .. Len(stack[t]) : stack'[t][i] = stack[t][i]
      /\ stack'[t][Len(stack[t]) + 1] = e
  BY <1>1, PushPop
<1> TAKE u \in Thread
<1>4. CASE u # t
  BY <1>1, <1>4
<1>5. CASE u = t
  <2> TAKE i \in 1 .. Len(stack'[u])
  <2>1. i \in 1 .. Len(stack[t]) \/ i = Len(stack[t]) + 1
    BY <1>1, <1>3, <1>5
  <2> QED BY <1>2, <1>3, <1>5, <2>1
<1> QED BY <1>4, <1>5

LEMMA Deactivated ==
  ASSUME TypeOK, NEW t \in Thread, stack[t] # <<>>, Deactivate(t)
  PROVE  \A u \in Thread : \A i \in 1 .. Len(stack'[u]) :
           /\ i \in 1 .. Len(stack[u])
           /\ stack'[u][i] = stack[u][i]
           /\ u = t => i # Len(stack[t])
<1>1. /\ stack[t] \in Seq(Activator)
      /\ stack'[t] = SubSeq(stack[t], 1, Len(stack[t]) - 1)
      /\ \A u \in Thread \ {t} : stack'[u] = stack[u]
  BY DEF TypeOK, Deactivate
<1>2. /\ Len(stack[t]) \in Nat \ {0}
      /\ Len(stack'[t]) = Len(stack[t]) - 1
      /\ \A i \in 1 .. Len(stack[t]) - 1 : stack'[t][i] = stack[t][i]
  BY <1>1, PushPop
<1> TAKE u \in Thread
<1>3. CASE u # t
  BY <1>1, <1>3
<1>4. CASE u = t
  BY <1>2, <1>4
<1> QED BY <1>3, <1>4

\* The innermost activator is in the stack.
LEMMA InnermostIn ==
  ASSUME TypeOK, NEW t \in Thread, stack[t] # <<>>
  PROVE  Len(stack[t]) \in 1 .. Len(stack[t]) /\ Innermost(t).obj \in Object \cup {None}
<1>1. stack[t] \in Seq(Activator)
  BY DEF TypeOK
<1>2. Len(stack[t]) \in 1 .. Len(stack[t])
  BY <1>1
<1>3. stack[t][Len(stack[t])] \in Activator
  BY <1>1, <1>2
<1> QED BY <1>2, <1>3 DEF Innermost, Activator

LEMMA ObjType ==
  ASSUME TypeOK, NEW u \in Thread, NEW i \in 1 .. Len(stack[u])
  PROVE  stack[u][i].obj \in Object \cup {None}
<1>1. stack[u] \in Seq(Activator)
  BY DEF TypeOK
<1>2. stack[u][i] \in Activator
  BY <1>1
<1> QED BY <1>2 DEF Activator

\* No scope of a constructor or destructor begins, but one may end.
LEMMA SurroundedKept ==
  ASSUME TypeOK, Surrounded, NEW o,
         \A p \in Object \ {o} : status'[p] = status[p],
         \A u \in Thread : \A i \in 1 .. Len(stack'[u]) :
           stack'[u][i].obj # None =>
             i \in 1 .. Len(stack[u]) /\ stack'[u][i] = stack[u][i] /\ stack[u][i].obj # o
  PROVE  Surrounded'
<1>1. ASSUME NEW u \in Thread, NEW i \in 1 .. Len(stack'[u]), stack'[u][i].obj # None
      PROVE  status'[stack'[u][i].obj] \in {"constructing", "destroying"}
  <2> DEFINE p == stack[u][i].obj
  <2>1. i \in 1 .. Len(stack[u]) /\ stack'[u][i].obj = p /\ p # o
    BY <1>1
  <2>2. p \in Object
    BY <1>1, <2>1, ObjType
  <2>3. status[p] \in {"constructing", "destroying"}
    BY <1>1, <2>1 DEF Surrounded
  <2> QED BY <2>1, <2>2, <2>3
<1>2. ASSUME NEW u \in Thread, NEW v \in Thread,
             NEW i \in 1 .. Len(stack'[u]), NEW j \in 1 .. Len(stack'[v]),
             stack'[u][i].obj # None, stack'[u][i].obj = stack'[v][j].obj
      PROVE  u = v /\ i = j
  <2>1. i \in 1 .. Len(stack[u]) /\ stack'[u][i] = stack[u][i]
    BY <1>2
  <2>2. j \in 1 .. Len(stack[v]) /\ stack'[v][j] = stack[v][j]
    BY <1>2
  <2>3. stack[u][i].obj # None /\ stack[u][i].obj = stack[v][j].obj
    BY <1>2, <2>1, <2>2
  <2> QED BY <2>1, <2>2, <2>3 DEF Surrounded
<1> QED BY <1>1, <1>2 DEF Surrounded

LEMMA SurroundedStep ==
  ASSUME TypeOK, Surrounded, [Next]_vars
  PROVE  Surrounded'
<1>1. ASSUME NEW t \in Thread, NEW a \in Arena, EnterScope(t, a)
      PROVE  Surrounded'
  <2>1. Activate(t, a, None) /\ UNCHANGED status
    BY <1>1 DEF EnterScope
  <2>2. \A u \in Thread : \A i \in 1 .. Len(stack'[u]) :
          \/ i \in 1 .. Len(stack[u]) /\ stack'[u][i] = stack[u][i]
          \/ u = t /\ i = Len(stack[t]) + 1 /\ stack'[u][i].obj = None
    BY <2>1, Activated
  <2> QED BY <2>1, <2>2, SurroundedKept
<1>2. ASSUME NEW t \in Thread, LeaveScope(t)
      PROVE  Surrounded'
  <2>1. stack[t] # <<>> /\ Deactivate(t) /\ UNCHANGED status
    BY <1>2 DEF LeaveScope
  <2>2. \A u \in Thread : \A i \in 1 .. Len(stack'[u]) :
          i \in 1 .. Len(stack[u]) /\ stack'[u][i] = stack[u][i]
    BY <2>1, Deactivated
  <2> QED BY <2>1, <2>2, SurroundedKept
<1>3. ASSUME NEW t \in Thread, NEW o \in Object, BeginConstruct(t, o) \/ BeginDestroy(t, o)
      PROVE  Surrounded'
  <2>1. /\ Activate(t, ArenaOf[o], o)
        /\ ArenaOf[o] \in Arena
        /\ status[o] \in {"none", "alive"}
        /\ status'[o] \in {"constructing", "destroying"}
        /\ \A p \in Object \ {o} : status'[p] = status[p]
    BY <1>3, ArenaOfAssumption DEF BeginConstruct, BeginDestroy, ArenaForDestructor, TypeOK
  <2>2. \A u \in Thread : \A i \in 1 .. Len(stack[u]) : stack[u][i].obj # o
    BY <2>1, NoneAssumption DEF Surrounded
  <2>3. \A u \in Thread : \A i \in 1 .. Len(stack'[u]) :
          \/ i \in 1 .. Len(stack[u]) /\ stack'[u][i] = stack[u][i]
          \/ u = t /\ i = Len(stack[t]) + 1 /\ stack'[u][i].obj = o
    BY <2>1, Activated
  <2>4. ASSUME NEW u \in Thread, NEW i \in 1 .. Len(stack'[u]), stack'[u][i].obj # None
        PROVE  status'[stack'[u][i].obj] \in {"constructing", "destroying"}
    <3>1. CASE stack'[u][i].obj = o
      BY <2>1, <3>1
    <3>2. CASE stack'[u][i].obj # o
      <4>1. i \in 1 .. Len(stack[u]) /\ stack'[u][i] = stack[u][i]
        BY <2>3, <3>2
      <4>2. stack[u][i].obj \in Object \ {o}
        BY <2>4, <3>2, <4>1, ObjType
      <4> QED BY <2>1, <2>4, <4>1, <4>2 DEF Surrounded
    <3> QED BY <3>1, <3>2
  <2>5. ASSUME NEW u \in Thread, NEW v \in Thread,
               NEW i \in 1 .. Len(stack'[u]), NEW j \in 1 .. Len(stack'[v]),
               stack'[u][i].obj # None, stack'[u][i].obj = stack'[v][j].obj
        PROVE  u = v /\ i = j
    <3>1. CASE stack'[u][i].obj = o
      <4>1. u = t /\ i = Len(stack[t]) + 1
        BY <2>2, <2>3, <3>1
      <4>2. v = t /\ j = Len(stack[t]) + 1
        BY <2>2, <2>3, <2>5, <3>1
      <4> QED BY <4>1, <4>2
    <3>2. CASE stack'[u][i].obj # o
      <4>1. i \in 1 .. Len(stack[u]) /\ stack'[u][i] = stack[u][i]
        BY <2>3, <3>2
      <4>2. j \in 1 .. Len(stack[v]) /\ stack'[v][j] = stack[v][j]
        BY <2>3, <2>5, <3>2
      <4> QED BY <2>5, <4>1, <4>2 DEF Surrounded
    <3> QED BY <3>1, <3>2
  <2> QED BY <2>4, <2>5 DEF Surrounded
<1>4. ASSUME NEW t \in Thread, EndConstruct(t) \/ EndDestroy(t)
      PROVE  Surrounded'
  <2> DEFINE o == Innermost(t).obj
  <2>1. /\ stack[t] # <<>> /\ Deactivate(t) /\ o # None
        /\ \A p \in Object \ {o} : status'[p] = status[p]
    BY <1>4 DEF EndConstruct, EndDestroy, TypeOK
  <2>2. Len(stack[t]) \in 1 .. Len(stack[t])
    BY <2>1, InnermostIn
  <2>3. \A u \in Thread : \A i \in 1 .. Len(stack'[u]) :
          /\ i \in 1 .. Len(stack[u])
          /\ stack'[u][i] = stack[u][i]
          /\ u = t => i # Len(stack[t])
    BY <2>1, Deactivated
  <2>4. ASSUME NEW u \in Thread, NEW i \in 1 .. Len(stack'[u])
        PROVE  stack[u][i].obj # o
    BY <2>1, <2>2, <2>3 DEF Surrounded, Innermost
  <2> HIDE DEF o
  <2> QED BY <2>1, <2>3, <2>4, SurroundedKept
<1>5. CASE UNCHANGED <<stack, status>>
  BY <1>5 DEF Surrounded
<1> QED BY <1>1, <1>2, <1>3, <1>4, <1>5
        DEF Next, vars, Allocate, Deallocate, MoveInner

\* What is worked on exists.
LEMMA WorkedOnExists ==
  ASSUME TypeOK, Surrounded, NEW t \in Thread, NEW o \in Object, MayWorkOn(t, o)
  PROVE  status[o] # "none"
BY InnermostIn, NoneAssumption DEF MayWorkOn, Surrounded, Innermost

\* The objects of the abstract specification.
Existing == {o \in Object : status[o] # "none"}

\* Each step is a step of StatefulAllocator or none.
LEMMA StepImplements ==
  ASSUME IInv, Surrounded, [Next]_vars
  PROVE  [Allocators!Next]_<<Existing, inner, allocated>>
<1> DEFINE Goal == Allocators!Next \/ UNCHANGED <<Existing, inner, allocated>>
<1> SUFFICES Goal
  OBVIOUS
<1>1. ASSUME NEW t \in Thread, (\E a \in Arena : EnterScope(t, a)) \/ LeaveScope(t)
      PROVE  Goal
  BY <1>1 DEF EnterScope, LeaveScope, Existing
<1>2. ASSUME NEW t \in Thread, NEW o \in Object, BeginConstruct(t, o)
      PROVE  Allocators!Begin(o)
  <2>1. status[o] = "none" /\ status'[o] = "constructing" /\ UNCHANGED <<inner, allocated>>
    BY <1>2 DEF BeginConstruct, IInv, TypeOK
  <2>2. \A p \in Object \ {o} : status'[p] = status[p]
    BY <1>2 DEF BeginConstruct, IInv, TypeOK
  <2>3. Existing' = Existing \cup {o}
    BY <2>1, <2>2 DEF Existing
  <2> QED BY <2>1, <2>3 DEF Allocators!Begin, Existing
<1>3. ASSUME NEW t \in Thread, NEW o \in Object, BeginDestroy(t, o)
      PROVE  UNCHANGED <<Existing, inner, allocated>>
  <2>1. /\ status[o] = "alive" /\ status'[o] = "destroying" /\ UNCHANGED <<inner, allocated>>
        /\ \A p \in Object \ {o} : status'[p] = status[p]
    BY <1>3 DEF BeginDestroy, IInv, TypeOK
  <2> QED BY <2>1 DEF Existing
<1>4. ASSUME NEW t \in Thread, EndConstruct(t) \/ EndDestroy(t)
      PROVE  Goal
  <2>1. PICK o \in Object :
        /\ UNCHANGED <<inner, allocated>>
        /\ status[o] \in {"constructing", "destroying"}
        /\ \A p \in Object \ {o} : status'[p] = status[p]
        /\ status'[o] = "alive" \/ (status'[o] = "none" /\ inner[o] = {})
    <3>1. PICK o \in Object : o = Innermost(t).obj
      BY <1>4, InnermostIn DEF EndConstruct, EndDestroy, IInv
    <3>2. /\ UNCHANGED <<inner, allocated>>
          /\ status[o] \in {"constructing", "destroying"}
          /\ \A p \in Object \ {o} : status'[p] = status[p]
          /\ status'[o] = "alive" \/ (status'[o] = "none" /\ inner[o] = {})
      BY <1>4, <3>1 DEF EndConstruct, EndDestroy, IInv, TypeOK
    <3> QED BY <3>2
  <2>2. CASE status'[o] = "alive"
    <3>1. Existing' = Existing
      BY <2>1, <2>2 DEF Existing
    <3> QED BY <2>1, <3>1
  <2>3. CASE status'[o] = "none" /\ inner[o] = {}
    <3>1. Existing' = Existing \ {o} /\ o \in Existing
      BY <2>1, <2>3 DEF Existing
    <3>2. Allocators!End(o)
      BY <2>1, <2>3, <3>1 DEF Allocators!End, Existing
    <3> QED BY <3>2 DEF Allocators!Next
  <2> QED BY <2>1, <2>2, <2>3
<1>5. ASSUME NEW t \in Thread, NEW o \in Object, NEW buf \in Buffer, Allocate(t, o, buf)
      PROVE  Allocators!Allocate(o, buf)
  <2>1. active[t] = ArenaOf[o] /\ status[o] # "none"
    BY <1>5, WorksInArena, WorkedOnExists DEF Allocate, IInv
  <2> QED BY <1>5, <2>1 DEF Allocate, Allocators!Allocate
<1>6. ASSUME NEW t \in Thread, NEW o \in Object, NEW buf \in Buffer, Deallocate(t, o, buf)
      PROVE  Allocators!Deallocate(o, buf)
  <2>1. active[t] = ArenaOf[o] /\ status[o] # "none"
    BY <1>6, WorksInArena, WorkedOnExists DEF Deallocate, IInv
  <2> QED BY <1>6, <2>1 DEF Deallocate, Allocators!Deallocate
<1>7. ASSUME NEW t \in Thread, NEW o \in Object, NEW p \in Object, MoveInner(t, o, p)
      PROVE  Allocators!MoveInner(o, p)
  <2>1. MayWorkOn(t, o) /\ MayWorkOn(t, p)
    BY <1>7 DEF MoveInner
  <2>2. active[t] = ArenaOf[o] /\ status[o] # "none"
    BY <2>1, WorksInArena, WorkedOnExists DEF IInv
  <2>3. active[t] = ArenaOf[p] /\ status[p] # "none"
    BY <2>1, WorksInArena, WorkedOnExists DEF IInv
  <2> QED BY <1>7, <2>2, <2>3 DEF MoveInner, Allocators!MoveInner
<1>8. CASE UNCHANGED vars
  BY <1>8 DEF vars, Existing
<1> QED BY <1>1, <1>2, <1>3, <1>4, <1>5, <1>6, <1>7, <1>8 DEF Next, Allocators!Next

\* Stateless_allocator, with the activators the code and its users have around what
\* they do, takes the steps of allocators that have a pointer to their object's arena:
\* for any number of threads, arenas and objects, and any nesting.
THEOREM ImplementsStateful == Spec => ImplementsAllocators
<1>1. Init => Allocators!Init /\ Surrounded
  BY DEF Init, Allocators!Init, Surrounded
<1>2. IInv /\ Surrounded /\ [Next]_vars => Surrounded'
  BY SurroundedStep DEF IInv
<1>3. IInv /\ Surrounded /\ [Next]_vars => [Allocators!Next]_Allocators!allocatorVars
  BY StepImplements DEF Allocators!allocatorVars, Existing
<1> QED BY <1>1, <1>2, <1>3, SpecIInv, PTL DEF Spec, ImplementsAllocators, Allocators!Spec
=============================================================================
