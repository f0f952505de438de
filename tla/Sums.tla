-------------------------------- MODULE Sums --------------------------------
(***************************************************************************)
(* Sums of natural numbers over finite sets, as SumFunctionOnSet of the    *)
(* community modules computes them, for the proofs that count slots and    *)
(* sends.  Induction is over sets of subsets rather than over predicates:  *)
(* what is to be shown of every subset is a set of those it holds of.      *)
(***************************************************************************)
EXTENDS Integers, Functions, FiniteSetTheorems, TLAPS

\* A set of subsets of S that has every subset whose parts it has is all of SUBSET S.
LEMMA SubsetInduction ==
  ASSUME NEW S, IsFiniteSet(S), NEW P \in SUBSET (SUBSET S),
         \A s \in SUBSET S : (\A t \in SUBSET s : t # s => t \in P) => s \in P
  PROVE  P = SUBSET S
<1> DEFINE Bad == (SUBSET S) \ P
<1>1. SUFFICES ASSUME Bad # {} PROVE FALSE
  OBVIOUS
<1>2. IsWellFoundedOn(StrictSubsetOrdering(S), SUBSET S)
  BY FS_StrictSubsetOrderingWellFounded, FS_FiniteSubsetsOfFinite
<1>3. PICK s \in Bad : \A t \in Bad : ~(<<t, s>> \in StrictSubsetOrdering(S))
  <2>1. Bad \subseteq SUBSET S
    OBVIOUS
  <2> HIDE DEF Bad
  <2> QED
    BY <1>1, <1>2, <2>1, WFMin
<1>4. \A t \in SUBSET s : t # s => t \in P
  BY <1>3 DEF StrictSubsetOrdering
<1> QED
  BY <1>4
-----------------------------------------------------------------------------
(* The function the fold iterates. *)

Some(s) == CHOOSE x \in s : TRUE

SumsTo(g, f, S) ==
  g = [s \in SUBSET S |-> IF s = {} THEN 0 ELSE f[Some(s)] + g[s \ {Some(s)}]]

LEMMA SomeIsMember ==
  ASSUME NEW s, s # {}
  PROVE  Some(s) \in s
BY DEF Some

LEMMA SumIsIterated ==
  ASSUME NEW f, NEW S
  PROVE  SumFunctionOnSet(f, S) = (CHOOSE g : SumsTo(g, f, S))[S]
BY DEF SumFunctionOnSet, FoldFunctionOnSet, MapThenFoldSet, SumsTo, Some

LEMMA IteratedValue ==
  ASSUME NEW f, NEW S, NEW g, SumsTo(g, f, S), NEW s \in SUBSET S
  PROVE  g[s] = IF s = {} THEN 0 ELSE f[Some(s)] + g[s \ {Some(s)}]
<1> DEFINE rhs(t) == IF t = {} THEN 0 ELSE f[Some(t)] + g[t \ {Some(t)}]
<1>1. g = [t \in SUBSET S |-> rhs(t)]
  BY DEF SumsTo
<1> HIDE DEF rhs
<1>2. g[s] = rhs(s)
  BY <1>1
<1> QED
  BY <1>2 DEF rhs

\* Two such functions agree where both are defined.
LEMMA IteratedUnique ==
  ASSUME NEW f, NEW S, NEW T, IsFiniteSet(S), NEW g, NEW h, SumsTo(g, f, S), SumsTo(h, f, T), S \subseteq T
  PROVE  \A s \in SUBSET S : g[s] = h[s]
<1> DEFINE P == {s \in SUBSET S : g[s] = h[s]}
<1>1. ASSUME NEW s \in SUBSET S, \A t \in SUBSET s : t # s => t \in P
      PROVE  s \in P
  <2>1. s \in SUBSET T
    OBVIOUS
  <2>2. CASE s = {}
    BY <2>1, <2>2, IteratedValue
  <2>3. CASE s # {}
    <3>1. s \ {Some(s)} \in P
      BY <1>1, <2>3, SomeIsMember
    <3>2. g[s \ {Some(s)}] = h[s \ {Some(s)}]
      BY <3>1
    <3>3. g[s] = f[Some(s)] + g[s \ {Some(s)}] /\ h[s] = f[Some(s)] + h[s \ {Some(s)}]
      BY <2>1, <2>3, IteratedValue
    <3> QED
      BY <3>2, <3>3
  <2> QED
    BY <2>2, <2>3
<1>2. P \in SUBSET (SUBSET S)
  OBVIOUS
<1> HIDE DEF P
<1>3. P = SUBSET S
  BY <1>1, <1>2, SubsetInduction
<1> QED
  BY <1>3 DEF P

LEMMA IteratedExists ==
  ASSUME NEW f, NEW S, IsFiniteSet(S)
  PROVE  \E g : SumsTo(g, f, S)
<1> DEFINE P == {s \in SUBSET S : \E g : SumsTo(g, f, s)}
<1>1. ASSUME NEW s \in SUBSET S, \A t \in SUBSET s : t # s => t \in P
      PROVE  s \in P
  <2> DEFINE of(t) == CHOOSE g : SumsTo(g, f, t)
             below(t) == IF t = {} THEN 0 ELSE f[Some(t)] + of(t \ {Some(t)})[t \ {Some(t)}]
             G == [t \in SUBSET s |-> below(t)]
  <2>1. \A t \in SUBSET s : t # s => SumsTo(of(t), f, t)
    <3> SUFFICES ASSUME NEW t \in SUBSET s, t # s PROVE SumsTo(of(t), f, t)
      OBVIOUS
    <3>1. \E g : SumsTo(g, f, t)
      BY <1>1
    <3> QED
      BY <3>1
  <2> HIDE DEF of
  <2>2. \A t \in SUBSET s : t # s => of(t)[t] = below(t)
    <3> SUFFICES ASSUME NEW t \in SUBSET s, t # s PROVE of(t)[t] = below(t)
      OBVIOUS
    <3>1. SumsTo(of(t), f, t)
      BY <2>1
    <3>2. CASE t = {}
      BY <3>1, <3>2, IteratedValue
    <3>3. CASE t # {}
      <4> DEFINE u == t \ {Some(t)}
      <4>1. u \in SUBSET s /\ u # s /\ u \subseteq t
        BY <3>3, SomeIsMember
      <4>2. IsFiniteSet(u)
        BY <4>1, FS_Subset
      <4>3. SumsTo(of(u), f, u)
        BY <2>1, <4>1
      <4>4. of(u)[u] = of(t)[u]
        BY <3>1, <4>1, <4>2, <4>3, IteratedUnique
      <4>5. of(t)[t] = f[Some(t)] + of(t)[u]
        BY <3>1, <3>3, IteratedValue
      <4> QED
        BY <3>3, <4>4, <4>5
    <3> QED
      BY <3>2, <3>3
  <2>3. ASSUME NEW t \in SUBSET s
        PROVE  below(t) = IF t = {} THEN 0 ELSE f[Some(t)] + G[t \ {Some(t)}]
    <3>1. CASE t = {}
      BY <3>1
    <3>2. CASE t # {}
      <4>1. t \ {Some(t)} \in SUBSET s /\ t \ {Some(t)} # s
        BY <3>2, SomeIsMember
      <4>2. G[t \ {Some(t)}] = of(t \ {Some(t)})[t \ {Some(t)}]
        BY <2>2, <4>1
      <4> QED
        BY <3>2, <4>2
    <3> QED
      BY <3>1, <3>2
  <2>4. SumsTo(G, f, s)
    <3> HIDE DEF below
    <3>1. G = [t \in SUBSET s |-> below(t)]
      OBVIOUS
    <3> HIDE DEF G
    <3> QED
      BY <2>3, <3>1 DEF SumsTo
  <2> QED
    BY <2>4
<1>2. P \in SUBSET (SUBSET S)
  OBVIOUS
<1> HIDE DEF P
<1>3. P = SUBSET S
  BY <1>1, <1>2, SubsetInduction
<1> QED
  BY <1>3 DEF P
-----------------------------------------------------------------------------
(* Sums *)

\* The sum is what its recursion says.
LEMMA SumStep ==
  ASSUME NEW f, NEW S, IsFiniteSet(S)
  PROVE  SumFunctionOnSet(f, S) =
           IF S = {} THEN 0 ELSE f[Some(S)] + SumFunctionOnSet(f, S \ {Some(S)})
<1> DEFINE g == CHOOSE i : SumsTo(i, f, S)
           h == CHOOSE i : SumsTo(i, f, S \ {Some(S)})
<1>1. SumsTo(g, f, S)
  BY IteratedExists
<1>2. SumsTo(h, f, S \ {Some(S)})
  BY IteratedExists, FS_Subset
<1>3. SumFunctionOnSet(f, S) = g[S] /\ SumFunctionOnSet(f, S \ {Some(S)}) = h[S \ {Some(S)}]
  BY SumIsIterated
<1> HIDE DEF g, h
<1>4. h[S \ {Some(S)}] = g[S \ {Some(S)}]
  BY <1>1, <1>2, IteratedUnique, FS_Subset
<1> QED
  BY <1>1, <1>3, <1>4, IteratedValue

LEMMA SumOfNone ==
  ASSUME NEW f
  PROVE  SumFunctionOnSet(f, {}) = 0
BY SumStep, FS_EmptySet

LEMMA SumOfSome ==
  ASSUME NEW f, NEW S, IsFiniteSet(S), S # {}
  PROVE  SumFunctionOnSet(f, S) = f[Some(S)] + SumFunctionOnSet(f, S \ {Some(S)})
BY SumStep

LEMMA SumType ==
  ASSUME NEW f, NEW S, IsFiniteSet(S), \A x \in S : f[x] \in Nat
  PROVE  SumFunctionOnSet(f, S) \in Nat
<1> DEFINE P == {s \in SUBSET S : SumFunctionOnSet(f, s) \in Nat}
<1>1. ASSUME NEW s \in SUBSET S, \A t \in SUBSET s : t # s => t \in P
      PROVE  s \in P
  <2>1. IsFiniteSet(s)
    BY FS_Subset
  <2>2. CASE s = {}
    BY <2>2, SumOfNone
  <2>3. CASE s # {}
    <3>1. Some(s) \in s /\ s \ {Some(s)} \in P
      BY <1>1, <2>3, SomeIsMember
    <3> QED
      BY <2>1, <2>3, <3>1, SumOfSome
  <2> QED
    BY <2>2, <2>3
<1>2. P \in SUBSET (SUBSET S)
  OBVIOUS
<1> HIDE DEF P
<1>3. P = SUBSET S
  BY <1>1, <1>2, SubsetInduction
<1> QED
  BY <1>3 DEF P

\* What one summand gains the sum gains, the others being the same.
LEMMA SumChange ==
  ASSUME NEW f, NEW g, NEW S, IsFiniteSet(S), NEW c,
         \A x \in S : f[x] \in Nat /\ g[x] \in Nat /\ (x # c => g[x] = f[x])
  PROVE  SumFunctionOnSet(g, S) = SumFunctionOnSet(f, S) + (IF c \in S THEN g[c] - f[c] ELSE 0)
<1> DEFINE gain(s) == IF c \in s THEN g[c] - f[c] ELSE 0
           P == {s \in SUBSET S : SumFunctionOnSet(g, s) = SumFunctionOnSet(f, s) + gain(s)}
<1>1. ASSUME NEW s \in SUBSET S, \A t \in SUBSET s : t # s => t \in P
      PROVE  s \in P
  <2>1. IsFiniteSet(s)
    BY FS_Subset
  <2>2. CASE s = {}
    BY <2>2, SumOfNone
  <2>3. CASE s # {}
    <3> DEFINE x == Some(s)
               t == s \ {x}
    <3>1. x \in s /\ x \in S /\ t \in P /\ IsFiniteSet(t)
      BY <1>1, <2>1, <2>3, SomeIsMember, FS_Subset
    <3>2. SumFunctionOnSet(f, t) \in Nat /\ SumFunctionOnSet(g, t) \in Nat
      BY <3>1, SumType
    <3>3. /\ SumFunctionOnSet(f, s) = f[x] + SumFunctionOnSet(f, t)
          /\ SumFunctionOnSet(g, s) = g[x] + SumFunctionOnSet(g, t)
      BY <2>1, <2>3, SumOfSome
    <3>4. SumFunctionOnSet(g, t) = SumFunctionOnSet(f, t) + gain(t)
      BY <3>1
    <3>5. f[x] \in Nat /\ g[x] \in Nat /\ (x # c => g[x] = f[x]) /\ (c \in s /\ x # c <=> c \in t)
      BY <3>1
    <3> HIDE DEF x, t
    <3>6. SumFunctionOnSet(g, s) = SumFunctionOnSet(f, s) + gain(s)
      <4>1. CASE x = c
        <5>1. c \notin t
          BY <4>1 DEF t
        <5> QED
          BY <3>1, <3>2, <3>3, <3>4, <3>5, <4>1, <5>1
      <4>2. CASE x # c
        <5>1. gain(s) = gain(t) /\ gain(t) \in Int
          BY <3>1, <3>5, <4>2
        <5> QED
          BY <3>2, <3>3, <3>4, <3>5, <4>2, <5>1
      <4> QED
        BY <4>1, <4>2
    <3> QED
      BY <3>6
  <2> QED
    BY <2>2, <2>3
<1>2. P \in SUBSET (SUBSET S)
  OBVIOUS
<1> HIDE DEF P
<1>3. P = SUBSET S
  BY <1>1, <1>2, SubsetInduction
<1> QED
  BY <1>3 DEF P

\* At most b for each member of A, and nothing outside of it.
LEMMA SumBound ==
  ASSUME NEW f, NEW S, IsFiniteSet(S), NEW A, NEW b \in Nat,
         \A x \in S : f[x] \in Nat /\ (IF x \in A THEN f[x] <= b ELSE f[x] = 0)
  PROVE  SumFunctionOnSet(f, S) <= b * Cardinality(S \cap A)
<1> DEFINE P == {s \in SUBSET S : SumFunctionOnSet(f, s) <= b * Cardinality(s \cap A)}
<1>1. ASSUME NEW s \in SUBSET S, \A t \in SUBSET s : t # s => t \in P
      PROVE  s \in P
  <2>1. IsFiniteSet(s) /\ IsFiniteSet(s \cap A)
    BY FS_Subset
  <2>2. CASE s = {}
    <3>1. s \cap A = {} /\ b * Cardinality(s \cap A) = 0
      BY <2>2, FS_EmptySet
    <3> QED
      BY <2>2, <3>1, SumOfNone
  <2>3. CASE s # {}
    <3> DEFINE x == Some(s)
               t == s \ {x}
               n == Cardinality(t \cap A)
    <3>1. x \in s /\ t \in P /\ IsFiniteSet(t) /\ IsFiniteSet(t \cap A)
      BY <1>1, <2>1, <2>3, SomeIsMember, FS_Subset
    <3>2. SumFunctionOnSet(f, t) \in Nat /\ n \in Nat
      BY <3>1, SumType, FS_CardinalityType
    <3>3. SumFunctionOnSet(f, s) = f[x] + SumFunctionOnSet(f, t) /\ SumFunctionOnSet(f, t) <= b * n
      BY <2>1, <2>3, <3>1, SumOfSome
    <3>4. Cardinality(s \cap A) = IF x \in A THEN n + 1 ELSE n
      <4>1. CASE x \in A
        <5>1. s \cap A = (t \cap A) \cup {x} /\ x \notin t \cap A
          BY <3>1, <4>1
        <5> HIDE DEF t
        <5> QED
          BY <3>1, <4>1, <5>1, FS_AddElement
      <4>2. CASE x \notin A
        <5>1. s \cap A = t \cap A
          BY <4>2
        <5> QED
          BY <4>2, <5>1
      <4> QED
        BY <4>1, <4>2
    <3>5. f[x] \in Nat /\ (IF x \in A THEN f[x] <= b ELSE f[x] = 0)
      BY <3>1
    <3> HIDE DEF x, t, n
    <3>6. b * (n + 1) = b * n + b /\ b * n \in Nat
      BY <3>2
    <3> QED
      BY <3>2, <3>3, <3>4, <3>5, <3>6
  <2> QED
    BY <2>2, <2>3
<1>2. P \in SUBSET (SUBSET S)
  OBVIOUS
<1> HIDE DEF P
<1>3. P = SUBSET S
  BY <1>1, <1>2, SubsetInduction
<1> QED
  BY <1>3 DEF P

\* A sum of zeros.
LEMMA SumZero ==
  ASSUME NEW f, NEW S, IsFiniteSet(S), \A x \in S : f[x] = 0
  PROVE  SumFunctionOnSet(f, S) = 0
<1>1. SumFunctionOnSet(f, S) <= 0 * Cardinality(S \cap {})
  <2>1. \A x \in S : f[x] \in Nat /\ (IF x \in {} THEN f[x] <= 0 ELSE f[x] = 0)
    OBVIOUS
  <2> QED
    BY <2>1, SumBound
<1>2. SumFunctionOnSet(f, S) \in Nat
  BY SumType
<1>3. S \cap {} = {} /\ Cardinality({}) = 0
  BY FS_EmptySet
<1> QED
  BY <1>1, <1>2, <1>3

\* No summand is more than the sum.
LEMMA SumMember ==
  ASSUME NEW f, NEW S, IsFiniteSet(S), \A x \in S : f[x] \in Nat, NEW c \in S
  PROVE  f[c] <= SumFunctionOnSet(f, S)
<1> DEFINE g == [x \in S |-> IF x = c THEN 0 ELSE f[x]]
<1>1. \A x \in S : g[x] \in Nat /\ (x # c => f[x] = g[x])
  OBVIOUS
<1>2. g[c] = 0 /\ f[c] \in Nat
  OBVIOUS
<1> HIDE DEF g
<1>3. SumFunctionOnSet(f, S) = SumFunctionOnSet(g, S) + (IF c \in S THEN f[c] - g[c] ELSE 0)
  BY <1>1, SumChange
<1>4. SumFunctionOnSet(g, S) \in Nat
  BY <1>1, SumType
<1> QED
  BY <1>2, <1>3, <1>4
=============================================================================
