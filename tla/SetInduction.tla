---------------------------- MODULE SetInduction ----------------------------
(***************************************************************************)
(* Induction on the natural numbers, stated of a set of numbers instead of *)
(* a predicate, and what follows from it of sums.  The library's theorems  *)
(* (NaturalsInduction) take an operator as a parameter; a set can be       *)
(* instantiated by every backend.                                          *)
(***************************************************************************)
EXTENDS Integers, FiniteSetTheorems, TLAPS

\* A set with 0, and the successor of each of its numbers, has them all.  (If it had
\* not n, subtracting 1 would map the numbers up to n that it has not one to one to
\* those of them which are not n.)
THEOREM NatInductionOnSet ==
  ASSUME NEW P, 0 \in P, \A i \in Nat : i \in P => i + 1 \in P
  PROVE  \A n \in Nat : n \in P
<1> SUFFICES ASSUME NEW n \in Nat, n \notin P PROVE FALSE
  OBVIOUS
<1> DEFINE S == {i \in 0 .. n : i \notin P}
           T == S \ {n}
           f == [i \in S |-> i - 1]
<1>1. IsFiniteSet(0 .. n)
  BY FS_Interval
<1>2. IsFiniteSet(S) /\ n \in S
  BY <1>1, FS_Subset
<1>3. IsFiniteSet(T) /\ Cardinality(T) = Cardinality(S) - 1
  BY <1>2, FS_RemoveElement
<1>4. Cardinality(S) \in Nat
  BY <1>2, FS_CardinalityType
<1>5. \A i \in S : i - 1 \in T
  <2> SUFFICES ASSUME NEW i \in S PROVE i - 1 \in T
    OBVIOUS
  <2>1. i \in Nat /\ i # 0 /\ i <= n
    OBVIOUS
  <2>2. i - 1 \in Nat /\ i - 1 + 1 = i
    BY <2>1
  <2>3. i - 1 \notin P
    BY <2>2
  <2> QED BY <2>1, <2>2, <2>3
<1>6. f \in [S -> T]
  BY <1>5
<1>7. \E x, y \in S : x # y /\ f[x] = f[y]
  <2> HIDE DEF S, T, f
  <2>1. Cardinality(T) < Cardinality(S)
    BY <1>3, <1>4
  <2> QED BY <1>2, <1>3, <1>6, <2>1, FS_PigeonHole
<1>8. PICK x \in S, y \in S : x # y /\ f[x] = f[y]
  BY <1>7
<1>9. x \in Int /\ y \in Int /\ f[x] = x - 1 /\ f[y] = y - 1
  OBVIOUS
<1> QED BY <1>8, <1>9

-----------------------------------------------------------------------------

\* f sums up the first n of what g gives.
IsRunningSum(f, g, n) ==
  /\ f[0] = 0
  /\ \A i \in 1 .. n : f[i] = f[i - 1] + g[i]

\* There is a running sum of any numbers,
THEOREM RunningSumExists ==
  ASSUME NEW g \in [Nat -> Nat], NEW n \in Nat
  PROVE  \E f \in [0 .. n -> Nat] : IsRunningSum(f, g, n)
<1> DEFINE P == {k \in Nat : \E f \in [0 .. k -> Nat] : IsRunningSum(f, g, k)}
<1>1. 0 \in P
  <2> DEFINE f == [i \in 0 .. 0 |-> 0]
  <2>1. IsRunningSum(f, g, 0)
    BY DEF IsRunningSum
  <2> QED BY <2>1
<1>2. ASSUME NEW k \in Nat, k \in P
      PROVE  k + 1 \in P
  <2>1. PICK f \in [0 .. k -> Nat] : IsRunningSum(f, g, k)
    BY <1>2
  <2> DEFINE h == [i \in 0 .. k + 1 |-> IF i = k + 1 THEN f[k] + g[k + 1] ELSE f[i]]
  <2>2. h \in [0 .. k + 1 -> Nat]
    <3>1. \A i \in 0 .. k + 1 : i = k + 1 \/ i \in 0 .. k
      OBVIOUS
    <3>2. f[k] + g[k + 1] \in Nat
      <4>1. k \in 0 .. k /\ k + 1 \in Nat
        OBVIOUS
      <4> DEFINE s == f[k]
                 t == g[k + 1]
      <4>2. s \in Nat /\ t \in Nat
        BY <4>1
      <4> HIDE DEF s, t
      <4>3. s + t \in Nat
        BY <4>2
      <4> QED BY <4>3 DEF s, t
    <3> QED BY <3>1, <3>2
  <2>3. h[0] = 0
    BY <2>1 DEF IsRunningSum
  <2>4. \A i \in 1 .. k + 1 : h[i] = h[i - 1] + g[i]
    <3> TAKE i \in 1 .. k + 1
    <3>1. CASE i = k + 1
      BY <3>1
    <3>2. CASE i # k + 1
      <4>1. i \in 1 .. k /\ i - 1 \in 0 .. k
        BY <3>2
      <4> QED BY <2>1, <4>1 DEF IsRunningSum
    <3> QED BY <3>1, <3>2
  <2> HIDE DEF h
  <2>5. IsRunningSum(h, g, k + 1)
    BY <2>2, <2>3, <2>4 DEF IsRunningSum
  <2>6. \E e \in [0 .. k + 1 -> Nat] : IsRunningSum(e, g, k + 1)
    BY <2>2, <2>5
  <2>7. k + 1 \in Nat
    OBVIOUS
  <2> QED BY <2>6, <2>7, Zenon
<1> HIDE DEF P
<1>3. n \in P
  BY <1>1, <1>2, NatInductionOnSet
<1> QED BY <1>3 DEF P

\* and it is the same as long as the numbers are.
THEOREM RunningSumUnique ==
  ASSUME NEW f, NEW g, NEW n \in Nat, IsRunningSum(f, g, n),
         NEW h, NEW k, NEW m \in Nat, m <= n, IsRunningSum(h, k, m),
         \A i \in 1 .. m : g[i] = k[i]
  PROVE  \A i \in 0 .. m : f[i] = h[i]
<1> DEFINE P == {i \in Nat : i <= m => f[i] = h[i]}
<1>1. 0 \in P
  BY DEF IsRunningSum
<1>2. ASSUME NEW i \in Nat, i \in P
      PROVE  i + 1 \in P
  <2>1. SUFFICES ASSUME i + 1 <= m PROVE f[i + 1] = h[i + 1]
    OBVIOUS
  <2>2. i + 1 \in 1 .. m /\ i + 1 \in 1 .. n /\ i + 1 - 1 = i
    BY <2>1
  <2>3. f[i + 1] = f[i] + g[i + 1] /\ h[i + 1] = h[i] + k[i + 1]
    BY <2>2 DEF IsRunningSum
  <2>4. f[i] = h[i]
    BY <1>2, <2>1
  <2> QED BY <2>2, <2>3, <2>4
<1> HIDE DEF P
<1>3. \A i \in Nat : i \in P
  BY <1>1, <1>2, NatInductionOnSet
<1> QED BY <1>3 DEF P

-----------------------------------------------------------------------------

\* f gives s0 and what applying G again and again makes of it, n times.
IsIteration(f, G, s0, n) ==
  /\ f[0] = s0
  /\ \A i \in 1 .. n : f[i] = G[f[i - 1]]

\* Iterations of the same function agree as far as both go.
THEOREM IterationUnique ==
  ASSUME NEW G, NEW s0, NEW f, NEW n \in Nat, IsIteration(f, G, s0, n),
         NEW h, NEW m \in Nat, m <= n, IsIteration(h, G, s0, m)
  PROVE  \A i \in 0 .. m : f[i] = h[i]
<1> DEFINE P == {i \in Nat : i <= m => f[i] = h[i]}
<1>1. 0 \in P
  BY DEF IsIteration
<1>2. ASSUME NEW i \in Nat, i \in P
      PROVE  i + 1 \in P
  <2>1. SUFFICES ASSUME i + 1 <= m PROVE f[i + 1] = h[i + 1]
    OBVIOUS
  <2>2. i + 1 \in 1 .. m /\ i + 1 \in 1 .. n /\ i + 1 - 1 = i
    BY <2>1
  <2>3. f[i + 1] = G[f[i]] /\ h[i + 1] = G[h[i]]
    BY <2>2 DEF IsIteration
  <2>4. f[i] = h[i]
    BY <1>2, <2>1
  <2> QED BY <2>3, <2>4
<1> HIDE DEF P
<1>3. \A i \in Nat : i \in P
  BY <1>1, <1>2, NatInductionOnSet
<1> QED BY <1>3 DEF P

\* (Operators, so that no prover looks into them when a theorem is cited.)
LeadsBackTo(G, S) == \A s \in S : G[s] \in S

IteratesForEver(f, G, s0, S) ==
  f \in [Nat -> S] /\ f[0] = s0 /\ \A n \in Nat : f[n + 1] = G[f[n]]

\* A function that leads from a set to itself can be iterated for ever.
THEOREM IterationExists ==
  ASSUME NEW S, NEW s0 \in S, NEW G, LeadsBackTo(G, S)
  PROVE  \E f : IteratesForEver(f, G, s0, S)
<1> DEFINE Upto(n) == {f \in [0 .. n -> S] : IsIteration(f, G, s0, n)}
           P == {n \in Nat : Upto(n) # {}}
<1>1. 0 \in P
  <2> DEFINE f == [i \in 0 .. 0 |-> s0]
  <2>1. f \in Upto(0)
    BY DEF IsIteration
  <2> QED BY <2>1
<1>2. ASSUME NEW k \in Nat, k \in P
      PROVE  k + 1 \in P
  <2>1. PICK f \in [0 .. k -> S] : IsIteration(f, G, s0, k)
    BY <1>2
  <2> DEFINE h == [i \in 0 .. k + 1 |-> IF i = k + 1 THEN G[f[k]] ELSE f[i]]
  <2>2. h \in [0 .. k + 1 -> S]
    <3>1. \A i \in 0 .. k + 1 : i = k + 1 \/ i \in 0 .. k
      OBVIOUS
    <3>2. f[k] \in S
      OBVIOUS
    <3> QED BY <3>1, <3>2 DEF LeadsBackTo
  <2>3. h[0] = s0
    BY <2>1 DEF IsIteration
  <2>4. \A i \in 1 .. k + 1 : h[i] = G[h[i - 1]]
    <3> TAKE i \in 1 .. k + 1
    <3>1. CASE i = k + 1
      BY <3>1
    <3>2. CASE i # k + 1
      <4>1. i \in 1 .. k /\ i - 1 \in 0 .. k
        BY <3>2
      <4> QED BY <2>1, <4>1 DEF IsIteration
    <3> QED BY <3>1, <3>2
  <2> HIDE DEF h
  <2>5. h \in Upto(k + 1)
    BY <2>2, <2>3, <2>4 DEF IsIteration
  <2> QED BY <2>5
<1> HIDE DEF P
<1>3. \A n \in Nat : n \in P
  BY <1>1, <1>2, NatInductionOnSet
<1> DEFINE A == [n \in Nat |-> CHOOSE f : f \in Upto(n)]
           F == [n \in Nat |-> A[n][n]]
<1>4. ASSUME NEW n \in Nat
      PROVE  A[n] \in [0 .. n -> S] /\ IsIteration(A[n], G, s0, n)
  <2>1. \E f : f \in Upto(n)
    BY <1>3 DEF P
  <2>2. A[n] \in Upto(n)
    BY <2>1
  <2> QED BY <2>2
<1> HIDE DEF A
<1>5. F \in [Nat -> S]
  <2> SUFFICES ASSUME NEW n \in Nat PROVE A[n][n] \in S
    OBVIOUS
  <2>1. n \in 0 .. n
    OBVIOUS
  <2> QED BY <1>4, <2>1
<1>6. F[0] = s0
  BY <1>4 DEF IsIteration
<1>7. ASSUME NEW n \in Nat
      PROVE  F[n + 1] = G[F[n]]
  <2>1. /\ n + 1 \in Nat /\ n <= n + 1 /\ n \in 0 .. n /\ n + 1 \in 1 .. n + 1
        /\ n + 1 - 1 = n
    OBVIOUS
  <2>2. A[n + 1][n + 1] = G[A[n + 1][n]]
    BY <1>4, <2>1 DEF IsIteration
  <2>3. A[n + 1][n] = A[n][n]
    BY <1>4, <2>1, IterationUnique
  <2> QED BY <2>1, <2>2, <2>3
<1> HIDE DEF F
<1> QED BY <1>5, <1>6, <1>7 DEF IteratesForEver

-----------------------------------------------------------------------------

\* Subsets of a finite set, from the smaller to the larger: what holds of a set when
\* it holds of the set without any one of its elements, holds of all.
THEOREM SubsetInduction ==
  ASSUME NEW S, IsFiniteSet(S), NEW P,
         \A s \in SUBSET S : (\A x \in s : s \ {x} \in P) => s \in P
  PROVE  \A s \in SUBSET S : s \in P
<1> DEFINE Q == {n \in Nat : \A s \in SUBSET S : Cardinality(s) = n => s \in P}
<1>1. \A s \in SUBSET S : IsFiniteSet(s) /\ Cardinality(s) \in Nat
  BY FS_Subset, FS_CardinalityType
<1>2. 0 \in Q
  <2> SUFFICES ASSUME NEW s \in SUBSET S, Cardinality(s) = 0 PROVE s \in P
    OBVIOUS
  <2>1. s = {}
    BY <1>1, FS_EmptySet
  <2> QED BY <2>1
<1>3. ASSUME NEW n \in Nat, n \in Q
      PROVE  n + 1 \in Q
  <2> SUFFICES ASSUME NEW s \in SUBSET S, Cardinality(s) = n + 1 PROVE s \in P
    OBVIOUS
  <2>1. ASSUME NEW x \in s PROVE s \ {x} \in P
    <3>1. Cardinality(s \ {x}) = Cardinality(s) - 1
      BY <1>1, FS_RemoveElement
    <3> QED BY <1>3, <3>1
  <2> QED BY <2>1
<1> HIDE DEF Q
<1>4. \A n \in Nat : n \in Q
  BY <1>2, <1>3, NatInductionOnSet
<1> QED BY <1>1, <1>4 DEF Q

AnyOf(s) == CHOOSE x \in s : TRUE

\* sum adds up, over each subset of S, what g gives, in the order of CHOOSE.
IsSetSum(sum, g, S) ==
  \A s \in SUBSET S : sum[s] = IF s = {} THEN 0 ELSE g[AnyOf(s)] + sum[s \ {AnyOf(s)}]

\* There is such a sum over a finite set,
THEOREM SetSumExists ==
  ASSUME NEW S, IsFiniteSet(S), NEW g, \A x \in S : g[x] \in Nat
  PROVE  \E sum \in [SUBSET S -> Nat] : IsSetSum(sum, g, S)
<1> DEFINE Level(n) == {s \in SUBSET S : Cardinality(s) <= n}
           Next(f, s) == IF s = {} THEN 0 ELSE g[AnyOf(s)] + f[s \ {AnyOf(s)}]
           P == {n \in Nat : \E f : \A s \in Level(n) : f[s] \in Nat /\ f[s] = Next(f, s)}
<1>1. \A s \in SUBSET S : IsFiniteSet(s) /\ Cardinality(s) \in Nat
  BY FS_Subset, FS_CardinalityType
<1>2. \A s \in SUBSET S : s # {} => AnyOf(s) \in s
  BY DEF AnyOf
<1>3. 0 \in P
  <2> DEFINE f == [s \in {{}} |-> 0]
  <2>1. ASSUME NEW s \in Level(0) PROVE s = {}
    <3>1. Cardinality(s) = 0
      BY <1>1
    <3> QED BY <1>1, <3>1, FS_EmptySet
  <2>2. \A s \in Level(0) : f[s] \in Nat /\ f[s] = Next(f, s)
    BY <2>1
  <2> QED BY <2>2
<1>4. ASSUME NEW n \in Nat, n \in P
      PROVE  n + 1 \in P
  <2>1. PICK f : \A s \in Level(n) : f[s] \in Nat /\ f[s] = Next(f, s)
    BY <1>4
  <2> DEFINE h == [s \in Level(n + 1) |-> IF s \in Level(n) THEN f[s] ELSE Next(f, s)]
  <2>2. ASSUME NEW s \in Level(n + 1), s # {}
        PROVE  /\ s \ {AnyOf(s)} \in Level(n) /\ s \ {AnyOf(s)} \in Level(n + 1)
               /\ AnyOf(s) \in S
    <3>1. AnyOf(s) \in s
      BY <1>2, <2>2
    <3>2. Cardinality(s \ {AnyOf(s)}) = Cardinality(s) - 1
      BY <1>1, <3>1, FS_RemoveElement
    <3> QED BY <1>1, <3>1, <3>2
  <2>3. ASSUME NEW s \in Level(n + 1)
        PROVE  h[s] \in Nat /\ h[s] = Next(h, s)
    <3>1. CASE s = {}
      <4>1. s \in Level(n)
        BY <3>1, FS_EmptySet
      <4> QED BY <2>1, <3>1, <4>1
    <3>2. CASE s # {}
      <4> DEFINE t == s \ {AnyOf(s)}
      <4>1. t \in Level(n) /\ t \in Level(n + 1) /\ AnyOf(s) \in S
        BY <2>2, <3>2
      <4>2. h[t] = f[t] /\ f[t] \in Nat /\ g[AnyOf(s)] \in Nat
        BY <2>1, <4>1
      <4>3. h[s] = Next(f, s)
        BY <2>1
      <4> HIDE DEF Level
      <4>4. Next(f, s) = g[AnyOf(s)] + f[t] /\ Next(h, s) = g[AnyOf(s)] + h[t]
        BY <3>2
      <4> HIDE DEF h, t, Next
      <4> QED BY <4>2, <4>3, <4>4
    <3> QED BY <3>1, <3>2
  <2> HIDE DEF h, Level, Next
  <2>4. \E e : \A s \in Level(n + 1) : e[s] \in Nat /\ e[s] = Next(e, s)
    BY <2>3
  <2>5. n + 1 \in Nat
    OBVIOUS
  <2> QED BY <2>4, <2>5
<1> HIDE DEF P
<1>5. Cardinality(S) \in P
  BY <1>1, <1>3, <1>4, NatInductionOnSet
<1>6. PICK f : \A s \in Level(Cardinality(S)) : f[s] \in Nat /\ f[s] = Next(f, s)
  BY <1>5 DEF P
<1>7. \A s \in SUBSET S : s \in Level(Cardinality(S))
  BY FS_Subset
<1> DEFINE sum == [s \in SUBSET S |-> f[s]]
<1>8. sum \in [SUBSET S -> Nat]
  BY <1>6, <1>7
<1>9. IsSetSum(sum, g, S)
  <2> SUFFICES ASSUME NEW s \in SUBSET S PROVE sum[s] = Next(sum, s)
    BY DEF IsSetSum
  <2>1. s \ {AnyOf(s)} \in SUBSET S
    OBVIOUS
  <2> QED BY <1>6, <1>7, <2>1
<1> QED BY <1>8, <1>9

\* it is a number, not less than any of the numbers,
THEOREM SetSumBounds ==
  ASSUME NEW S, IsFiniteSet(S), NEW g, \A x \in S : g[x] \in Nat, NEW sum, IsSetSum(sum, g, S)
  PROVE  sum[S] \in Nat /\ \A x \in S : g[x] <= sum[S]
<1> DEFINE P == {s \in SUBSET S : sum[s] \in Nat /\ \A x \in s : g[x] <= sum[s]}
<1>1. ASSUME NEW s \in SUBSET S, \A x \in s : s \ {x} \in P
      PROVE  s \in P
  <2>1. CASE s = {}
    <3>1. sum[s] = 0
      BY <2>1 DEF IsSetSum
    <3> QED BY <2>1, <3>1
  <2>2. CASE s # {}
    <3> DEFINE y == AnyOf(s)
               t == s \ {y}
               w == sum[t]
               v == g[y]
    <3>1. y \in s
      BY <2>2 DEF AnyOf
    <3>2. sum[s] = v + w
      BY <2>2 DEF IsSetSum
    <3>3. t \in P /\ v \in Nat
      BY <1>1, <3>1
    <3>4. w \in Nat /\ \A x \in t : g[x] <= w
      BY <3>3
    <3>5. \A x \in s : g[x] \in Nat /\ (x = y \/ x \in t)
      OBVIOUS
    <3> HIDE DEF w, v, t
    <3>6. \A x \in s : g[x] <= v + w
      <4> TAKE x \in s
      <4>1. CASE x = y
        BY <3>3, <3>4, <4>1 DEF v
      <4>2. CASE x \in t
        BY <3>3, <3>4, <3>5, <4>2
      <4> QED BY <3>5, <4>1, <4>2
    <3>7. v + w \in Nat
      BY <3>3, <3>4
    <3> QED BY <3>2, <3>6, <3>7
  <2> QED BY <2>1, <2>2
<1> HIDE DEF P
<1>2. \A s \in SUBSET S : s \in P
  BY <1>1, SubsetInduction
<1> QED BY <1>2 DEF P

\* and it grows by what one of the numbers does when the others stay.
THEOREM SetSumChange ==
  ASSUME NEW S, IsFiniteSet(S), NEW g, NEW h, NEW c \in S, NEW d \in Int,
         \A x \in S : g[x] \in Nat /\ h[x] = IF x = c THEN g[x] + d ELSE g[x],
         NEW sum, IsSetSum(sum, g, S), NEW tum, IsSetSum(tum, h, S)
  PROVE  tum[S] = sum[S] + d
<1> DEFINE P == {s \in SUBSET S : /\ sum[s] \in Int
                                  /\ tum[s] = IF c \in s THEN sum[s] + d ELSE sum[s]}
<1>1. ASSUME NEW s \in SUBSET S, \A x \in s : s \ {x} \in P
      PROVE  s \in P
  <2>1. CASE s = {}
    <3>1. sum[s] = 0 /\ tum[s] = 0
      BY <2>1 DEF IsSetSum
    <3> QED BY <2>1, <3>1
  <2>2. CASE s # {}
    <3> DEFINE y == AnyOf(s)
               t == s \ {y}
               w == sum[t]
               u == tum[t]
               v == g[y]
               v2 == h[y]
    <3>1. y \in s
      BY <2>2 DEF AnyOf
    <3>2. sum[s] = v + w /\ tum[s] = v2 + u
      BY <2>2 DEF IsSetSum
    <3>3. t \in P /\ v \in Int /\ v2 = IF y = c THEN v + d ELSE v
      BY <1>1, <3>1
    <3>4. w \in Int /\ u = IF c \in t THEN w + d ELSE w
      BY <3>3
    <3>5. c \in t <=> c \in s /\ y # c
      OBVIOUS
    <3> HIDE DEF w, v, u, v2, t, y
    <3>6. v + w \in Int /\ v2 + u = IF c \in s THEN (v + w) + d ELSE v + w
      <4>1. CASE y = c
        BY <3>1, <3>3, <3>4, <3>5, <4>1
      <4>2. CASE y # c
        BY <3>1, <3>3, <3>4, <3>5, <4>2
      <4> QED BY <4>1, <4>2
    <3> QED BY <3>2, <3>6
  <2> QED BY <2>1, <2>2
<1> HIDE DEF P
<1>2. \A s \in SUBSET S : s \in P
  BY <1>1, SubsetInduction
<1> QED BY <1>2 DEF P
=============================================================================
