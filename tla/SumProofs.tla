----------------------------- MODULE SumProofs -----------------------------
(***************************************************************************)
(* Lemmas about least elements, induction and sums that the proofs of      *)
(* several components need.                                                *)
(*                                                                         *)
(* The sum of what the HELD reservations hold is a fold over a set.  What  *)
(* such a sum does when an element joins or leaves is proved here: the     *)
(* recursion has a solution and the order of the elements does not matter. *)
(* Both go by induction, stated for a set of numbers; it follows from the  *)
(* least element of a set of naturals.                                     *)
(***************************************************************************)
EXTENDS Integers, Functions, FiniteSetTheorems, WellFoundedInduction, TLAPS

-----------------------------------------------------------------------------
(* Induction.                                                              *)

NatLess == {p \in Nat \X Nat : p[1] < p[2]}

\* (a set of naturals has a least element)
LEMMA Minimum ==
  ASSUME NEW T, T \subseteq Nat, T # {}
  PROVE  \E n \in T : \A m \in T : n <= m
<1>1. IsWellFoundedOn(NatLess, Nat)
  BY NatLessThanWellFounded DEF OpToRel, NatLess
<1>2. PICK x \in T : \A y \in T : <<y, x>> \notin NatLess
  BY <1>1, WFMin
<1>3. ASSUME NEW y \in T PROVE x <= y
  <2>1. <<y, x>> \notin NatLess /\ <<y, x>> \in Nat \X Nat
    BY <1>2
  <2>2. ~(y < x)
    BY <2>1 DEF NatLess
  <2>3. x \in Nat /\ y \in Nat
    OBVIOUS
  <2>4. QED
    BY <2>2, <2>3
<1>4. QED
  BY <1>3

\* (a set with 0 and every successor is all of Nat)
LEMMA SetInduction ==
  ASSUME NEW T, 0 \in T, \A n \in Nat : n \in T => n + 1 \in T
  PROVE  \A n \in Nat : n \in T
<1> SUFFICES ASSUME Nat \ T # {} PROVE FALSE
  OBVIOUS
<1>1. PICK m \in Nat \ T : \A k \in Nat \ T : m <= k
  BY Minimum
<1>2. m - 1 \in Nat
  BY <1>1
<1>3. m - 1 \in T
  BY <1>1, <1>2
<1>4. m - 1 + 1 \in T
  BY <1>2, <1>3
<1>5. QED
  BY <1>1, <1>4

-----------------------------------------------------------------------------
(* Recursion over the subsets of a finite set.                             *)

\* it is at s what the recursion says: F combines the element p[s] with the rest.
Unfolds(it, s, base, F, p) ==
  it[s] = IF s = {} THEN base ELSE F[<<p[s], it[s \ {p[s]}]>>]

\* It is so on the sets of at most n elements.
SolvesWithin(it, n, S, base, F, p) ==
  \A s \in SUBSET S : Cardinality(s) <= n => Unfolds(it, s, base, F, p)

\* (a fold that takes the elements out one by one is well defined)
LEMMA RecursionExists ==
  ASSUME NEW S, IsFiniteSet(S), NEW p, \A s \in SUBSET S : s # {} => p[s] \in s,
         NEW V, NEW base \in V, NEW F, \A x \in S, v \in V : F[<<x, v>>] \in V
  PROVE  \E it \in [SUBSET S -> V] : \A s \in SUBSET S : Unfolds(it, s, base, F, p)
<1> DEFINE T == {n \in Nat : \E it \in [SUBSET S -> V] : SolvesWithin(it, n, S, base, F, p)}
<1>1. \A s \in SUBSET S : IsFiniteSet(s) /\ Cardinality(s) \in Nat /\ Cardinality(s) <= Cardinality(S)
  BY FS_Subset, FS_CardinalityType
<1>2. 0 \in T
  <2> DEFINE it == [s \in SUBSET S |-> base]
  <2>1. \A s \in SUBSET S : Cardinality(s) <= 0 => s = {}
    BY <1>1, FS_EmptySet
  <2>2. SolvesWithin(it, 0, S, base, F, p)
    BY <2>1 DEF SolvesWithin, Unfolds
  <2>3. QED
    BY <2>2
<1>3. ASSUME NEW n \in Nat, n \in T PROVE n + 1 \in T
  <2>1. PICK it \in [SUBSET S -> V] : SolvesWithin(it, n, S, base, F, p)
    BY <1>3
  <2> DEFINE next == [s \in SUBSET S |-> IF Cardinality(s) <= n THEN it[s]
                                        ELSE F[<<p[s], it[s \ {p[s]}]>>]]
  <2>2. \A s \in SUBSET S : Cardinality(s) <= 0 => s = {}
    BY <1>1, FS_EmptySet
  <2>3. next \in [SUBSET S -> V]
    <3>1. ASSUME NEW s \in SUBSET S, ~(Cardinality(s) <= n) PROVE F[<<p[s], it[s \ {p[s]}]>>] \in V
      <4>1. s # {}
        BY <3>1, FS_EmptySet
      <4>2. p[s] \in S /\ s \ {p[s]} \in SUBSET S
        BY <4>1
      <4>3. QED
        BY <2>1, <4>2
    <3>2. QED
      BY <2>1, <3>1
  <2>4. ASSUME NEW s \in SUBSET S, Cardinality(s) <= n + 1
        PROVE  Unfolds(next, s, base, F, p)
    <3>1. CASE s = {}
      <4>1. Cardinality(s) <= n
        BY <3>1, FS_EmptySet
      <4>2. QED
        BY <2>1, <3>1, <4>1 DEF SolvesWithin, Unfolds
    <3>2. CASE s # {}
      <4>1. s \ {p[s]} \in SUBSET S /\ p[s] \in s
        BY <3>2
      <4>2. Cardinality(s \ {p[s]}) = Cardinality(s) - 1 /\ Cardinality(s) \in Nat
        BY <1>1, <4>1, FS_RemoveElement
      <4>3. Cardinality(s \ {p[s]}) <= n
        BY <2>4, <4>2
      <4>4. next[s \ {p[s]}] = it[s \ {p[s]}]
        BY <4>1, <4>3
      <4>5. next[s] = F[<<p[s], it[s \ {p[s]}]>>]
        BY <2>1, <3>2 DEF SolvesWithin, Unfolds
      <4>6. QED
        BY <3>2, <4>4, <4>5 DEF Unfolds
    <3>3. QED
      BY <3>1, <3>2
  <2>5. SolvesWithin(next, n + 1, S, base, F, p)
    BY <2>4 DEF SolvesWithin
  <2> HIDE DEF next
  <2>6. QED
    BY <2>3, <2>5
<1>4. Cardinality(S) \in T
  <2>1. \A n \in Nat : n \in T
    BY <1>2, <1>3, SetInduction
  <2>2. QED
    BY <1>1, <2>1
<1>5. QED
  BY <1>1, <1>4 DEF SolvesWithin

-----------------------------------------------------------------------------
(* Sums.                                                                   *)

Picked(s) == CHOOSE x \in s : TRUE

\* What the sum of f over subsets of S is defined by.
IsSummation(it, f, S) ==
  it = [s \in SUBSET S |-> IF s = {} THEN 0 ELSE f[Picked(s)] + it[s \ {Picked(s)}]]

Summation(f, S) == CHOOSE it : IsSummation(it, f, S)

\* (the fold of the library is that recursion)
LEMMA SumIsSummation ==
  ASSUME NEW f, NEW S
  PROVE  SumFunctionOnSet(f, S) = Summation(f, S)[S]
BY DEF SumFunctionOnSet, FoldFunctionOnSet, MapThenFoldSet, Summation, IsSummation, Picked

\* (the picked element leaves a smaller set)
LEMMA PickedFacts ==
  ASSUME NEW s, IsFiniteSet(s), s # {}
  PROVE  /\ Picked(s) \in s /\ IsFiniteSet(s \ {Picked(s)})
         /\ Cardinality(s) \in Nat /\ Cardinality(s) > 0
         /\ Cardinality(s \ {Picked(s)}) = Cardinality(s) - 1
<1>1. Picked(s) \in s
  BY DEF Picked
<1>2. Cardinality(s) \in Nat /\ Cardinality(s) # 0
  BY FS_CardinalityType, FS_EmptySet
<1>3. QED
  BY <1>1, <1>2, FS_RemoveElement

\* A function that solves the recursion on the sets of at most n elements.
SolvesUpTo(g, n, f, S) ==
  \A s \in SUBSET S : Cardinality(s) <= n =>
    g[s] = IF s = {} THEN 0 ELSE f[Picked(s)] + g[s \ {Picked(s)}]

\* (the recursion has a solution)
LEMMA SummationExists ==
  ASSUME NEW f, NEW S, IsFiniteSet(S)
  PROVE  IsSummation(Summation(f, S), f, S)
<1> DEFINE T == {n \in Nat : \E g : SolvesUpTo(g, n, f, S)}
<1>1. \A s \in SUBSET S : IsFiniteSet(s) /\ Cardinality(s) \in Nat /\ Cardinality(s) <= Cardinality(S)
  BY FS_Subset, FS_CardinalityType
<1>2. 0 \in T
  <2> DEFINE g == [s \in SUBSET S |-> 0]
  <2>1. \A s \in SUBSET S : Cardinality(s) <= 0 => s = {}
    BY <1>1, FS_EmptySet
  <2>2. SolvesUpTo(g, 0, f, S)
    BY <2>1 DEF SolvesUpTo
  <2>3. QED
    BY <2>2
<1>3. ASSUME NEW n \in Nat, n \in T PROVE n + 1 \in T
  <2>1. PICK g : SolvesUpTo(g, n, f, S)
    BY <1>3
  <2> DEFINE h == [s \in SUBSET S |-> IF Cardinality(s) <= n THEN g[s]
                                     ELSE f[Picked(s)] + g[s \ {Picked(s)}]]
  <2>2. ASSUME NEW s \in SUBSET S, Cardinality(s) <= n + 1
        PROVE  h[s] = IF s = {} THEN 0 ELSE f[Picked(s)] + h[s \ {Picked(s)}]
    <3>1. CASE s = {}
      <4>1. Cardinality(s) <= n
        BY <3>1, FS_EmptySet
      <4>2. QED
        BY <2>1, <3>1, <4>1 DEF SolvesUpTo
    <3>2. CASE s # {}
      <4>1. Cardinality(s \ {Picked(s)}) <= n /\ s \ {Picked(s)} \in SUBSET S
        BY <1>1, <2>2, <3>2, PickedFacts
      <4>2. h[s \ {Picked(s)}] = g[s \ {Picked(s)}]
        BY <4>1
      <4>3. h[s] = f[Picked(s)] + g[s \ {Picked(s)}]
        BY <2>1, <3>2 DEF SolvesUpTo
      <4>4. QED
        BY <3>2, <4>2, <4>3
    <3>3. QED
      BY <3>1, <3>2
  <2>3. SolvesUpTo(h, n + 1, f, S)
    BY <2>2 DEF SolvesUpTo
  <2>4. QED
    BY <2>3
<1>4. Cardinality(S) \in T
  <2>1. \A n \in Nat : n \in T
    BY <1>2, <1>3, SetInduction
  <2>2. QED
    BY <1>1, <2>1
<1>5. PICK g : SolvesUpTo(g, Cardinality(S), f, S)
  BY <1>4
<1> DEFINE h == [s \in SUBSET S |-> g[s]]
<1>6. IsSummation(h, f, S)
  <2>1. ASSUME NEW s \in SUBSET S
        PROVE  h[s] = IF s = {} THEN 0 ELSE f[Picked(s)] + h[s \ {Picked(s)}]
    BY <1>1, <1>5 DEF SolvesUpTo
  <2>2. QED
    BY <2>1 DEF IsSummation
<1>7. QED
  BY <1>6 DEF Summation

\* (the recursion, at a set)
LEMMA SummationAt ==
  ASSUME NEW f, NEW S, IsFiniteSet(S), NEW s \in SUBSET S
  PROVE  Summation(f, S)[s] =
           IF s = {} THEN 0 ELSE f[Picked(s)] + Summation(f, S)[s \ {Picked(s)}]
<1> DEFINE it == Summation(f, S)
<1>1. it = [u \in SUBSET S |-> IF u = {} THEN 0 ELSE f[Picked(u)] + it[u \ {Picked(u)}]]
  <2>1. IsSummation(it, f, S)
    BY SummationExists
  <2> HIDE DEF it
  <2>2. QED
    BY <2>1 DEF IsSummation
<1> HIDE DEF it
<1>2. it[s] = IF s = {} THEN 0 ELSE f[Picked(s)] + it[s \ {Picked(s)}]
  BY <1>1
<1>3. QED
  BY <1>2 DEF it

\* (the sum over a set does not depend on the set it is a subset of)
LEMMA SummationAgrees ==
  ASSUME NEW f, NEW S, IsFiniteSet(S), NEW T \in SUBSET S
  PROVE  Summation(f, T)[T] = Summation(f, S)[T]
<1> DEFINE N == {n \in Nat : \A s \in SUBSET T :
                   Cardinality(s) = n => Summation(f, T)[s] = Summation(f, S)[s]}
<1>1. IsFiniteSet(T)
  BY FS_Subset
<1>2. \A s \in SUBSET T : IsFiniteSet(s) /\ Cardinality(s) \in Nat /\ s \in SUBSET S
  BY <1>1, FS_Subset, FS_CardinalityType
<1>3. 0 \in N
  <2>1. ASSUME NEW s \in SUBSET T, Cardinality(s) = 0
        PROVE  Summation(f, T)[s] = Summation(f, S)[s]
    <3>1. s = {}
      BY <1>2, <2>1, FS_EmptySet
    <3>2. Summation(f, T)[s] = 0 /\ Summation(f, S)[s] = 0
      BY <1>1, <1>2, <3>1, SummationAt
    <3>3. QED
      BY <3>2
  <2>2. QED
    BY <2>1
<1>4. ASSUME NEW n \in Nat, n \in N PROVE n + 1 \in N
  <2>1. ASSUME NEW s \in SUBSET T, Cardinality(s) = n + 1
        PROVE  Summation(f, T)[s] = Summation(f, S)[s]
    <3>1. s # {}
      BY <2>1, FS_EmptySet
    <3>2. s \ {Picked(s)} \in SUBSET T /\ Cardinality(s \ {Picked(s)}) = n
      BY <1>2, <2>1, <3>1, PickedFacts
    <3>3. Summation(f, T)[s \ {Picked(s)}] = Summation(f, S)[s \ {Picked(s)}]
      BY <1>4, <3>2
    <3>4. /\ Summation(f, T)[s] = f[Picked(s)] + Summation(f, T)[s \ {Picked(s)}]
          /\ Summation(f, S)[s] = f[Picked(s)] + Summation(f, S)[s \ {Picked(s)}]
      BY <1>1, <1>2, <3>1, SummationAt
    <3>5. QED
      BY <3>3, <3>4
  <2>2. QED
    BY <2>1
<1>5. \A n \in Nat : n \in N
  BY <1>3, <1>4, SetInduction
<1>6. QED
  BY <1>2, <1>5

\* (the sum over a set without its picked element)
LEMMA SumPicked ==
  ASSUME NEW f, NEW S, IsFiniteSet(S), S # {}
  PROVE  SumFunctionOnSet(f, S) = f[Picked(S)] + SumFunctionOnSet(f, S \ {Picked(S)})
<1>1. Summation(f, S)[S] = f[Picked(S)] + Summation(f, S)[S \ {Picked(S)}]
  BY SummationAt
<1>2. Summation(f, S \ {Picked(S)})[S \ {Picked(S)}] = Summation(f, S)[S \ {Picked(S)}]
  BY SummationAgrees
<1>3. QED
  BY <1>1, <1>2, SumIsSummation

LEMMA SumEmpty ==
  ASSUME NEW f
  PROVE  SumFunctionOnSet(f, {}) = 0
BY SumIsSummation, SummationAt, FS_EmptySet

(***************************************************************************)
(* The sum of numbers over a finite set is a number, and any element can   *)
(* be taken out of it.                                                     *)
(***************************************************************************)
LEMMA SumWithout ==
  ASSUME NEW f, NEW S, IsFiniteSet(S), \A x \in S : f[x] \in Int
  PROVE  /\ SumFunctionOnSet(f, S) \in Int
         /\ \A x \in S : SumFunctionOnSet(f, S) = f[x] + SumFunctionOnSet(f, S \ {x})
<1> DEFINE Sum(s) == SumFunctionOnSet(f, s)
           N == {n \in Nat : \A s \in SUBSET S : Cardinality(s) <= n =>
                   Sum(s) \in Int /\ \A x \in s : Sum(s) = f[x] + Sum(s \ {x})}
<1>1. \A s \in SUBSET S : IsFiniteSet(s) /\ Cardinality(s) \in Nat
  BY FS_Subset, FS_CardinalityType
<1>2. Sum({}) = 0
  BY SumEmpty
<1>3. \A s \in SUBSET S : s # {} => Sum(s) = f[Picked(s)] + Sum(s \ {Picked(s)})
  BY <1>1, SumPicked
<1> HIDE DEF Sum
<1>4. 0 \in N
  <2>1. ASSUME NEW s \in SUBSET S, Cardinality(s) <= 0
        PROVE  Sum(s) \in Int /\ \A x \in s : Sum(s) = f[x] + Sum(s \ {x})
    <3>1. Cardinality(s) = 0
      BY <1>1, <2>1
    <3>2. s = {}
      BY <1>1, <3>1, FS_EmptySet
    <3>3. Sum(s) = 0
      BY <1>2, <3>2
    <3>4. QED
      BY <3>2, <3>3
  <2>2. QED
    BY <2>1
<1>5. ASSUME NEW n \in Nat, n \in N PROVE n + 1 \in N
  <2>1. ASSUME NEW s \in SUBSET S, Cardinality(s) = n + 1
        PROVE  Sum(s) \in Int /\ \A x \in s : Sum(s) = f[x] + Sum(s \ {x})
    <3> DEFINE p == Picked(s)
    <3>1. s # {} /\ IsFiniteSet(s)
      BY <1>1, <2>1, FS_EmptySet
    <3>2. p \in s
      BY <3>1, PickedFacts
    <3> HIDE DEF p
    <3>3. ASSUME NEW x \in s
          PROVE  s \ {x} \in SUBSET S /\ Cardinality(s \ {x}) = n /\ IsFiniteSet(s \ {x})
      <4>1. Cardinality(s \ {x}) = Cardinality(s) - 1 /\ IsFiniteSet(s \ {x})
        BY <3>1, FS_RemoveElement
      <4>2. QED
        BY <2>1, <4>1
    <3>4. Sum(s) = f[p] + Sum(s \ {p})
      BY <1>3, <3>1 DEF p
    <3>5. \A x \in s : /\ Sum(s \ {x}) \in Int
                      /\ \A y \in s \ {x} : Sum(s \ {x}) = f[y] + Sum((s \ {x}) \ {y})
      BY <1>5, <3>3
    <3>6. Sum(s) \in Int
      BY <3>2, <3>4, <3>5
    <3>7. ASSUME NEW x \in s, x # p PROVE Sum(s) = f[x] + Sum(s \ {x})
      <4>1. Sum(s \ {p}) = f[x] + Sum((s \ {p}) \ {x})
        BY <3>2, <3>5, <3>7
      <4>2. Sum(s \ {x}) = f[p] + Sum((s \ {x}) \ {p})
        BY <3>2, <3>5, <3>7
      <4>3. (s \ {p}) \ {x} = (s \ {x}) \ {p}
        OBVIOUS
      <4>4. f[x] \in Int /\ f[p] \in Int /\ Sum(s \ {x}) \in Int /\ Sum(s \ {p}) \in Int
        BY <3>2, <3>5
      <4>5. Sum((s \ {x}) \ {p}) \in Int
        <5>1. (s \ {x}) \ {p} \in SUBSET (s \ {x}) /\ (s \ {x}) \ {p} \in SUBSET S
          OBVIOUS
        <5>2. Cardinality((s \ {x}) \ {p}) <= n
          <6>1. IsFiniteSet(s \ {x}) /\ Cardinality(s \ {x}) = n
            BY <3>3, <3>7
          <6>2. Cardinality((s \ {x}) \ {p}) <= Cardinality(s \ {x})
            BY <5>1, <6>1, FS_Subset
          <6>3. QED
            BY <6>1, <6>2
        <5>3. QED
          BY <1>5, <5>1, <5>2
      <4>6. Sum((s \ {p}) \ {x}) = Sum((s \ {x}) \ {p})
        BY <4>3
      <4>7. QED
        BY <3>4, <4>1, <4>2, <4>4, <4>5, <4>6
    <3>8. QED
      BY <3>4, <3>6, <3>7
  <2>2. \A s \in SUBSET S : Cardinality(s) <= n + 1 => Cardinality(s) <= n \/ Cardinality(s) = n + 1
    BY <1>1
  <2>3. QED
    BY <1>5, <2>1, <2>2
<1>6. \A n \in Nat : n \in N
  BY <1>4, <1>5, SetInduction
<1>7. Sum(S) \in Int /\ \A x \in S : Sum(S) = f[x] + Sum(S \ {x})
  BY <1>1, <1>6
<1>8. QED
  BY <1>7 DEF Sum
\* (an element joins a finite set, or leaves it)
LEMMA SumJoinsAndLeaves ==
  ASSUME NEW f, NEW S, IsFiniteSet(S), NEW x, \A y \in S \cup {x} : f[y] \in Int
  PROVE  /\ SumFunctionOnSet(f, S) \in Int
         /\ IsFiniteSet(S \cup {x}) /\ IsFiniteSet(S \ {x})
         /\ x \notin S =>
              SumFunctionOnSet(f, S \cup {x}) = SumFunctionOnSet(f, S) + f[x]
         /\ x \in S =>
              SumFunctionOnSet(f, S \ {x}) = SumFunctionOnSet(f, S) - f[x]
<1>1. IsFiniteSet(S \cup {x}) /\ IsFiniteSet(S \ {x})
  BY FS_AddElement, FS_RemoveElement
<1>2. /\ SumFunctionOnSet(f, S) \in Int /\ SumFunctionOnSet(f, S \ {x}) \in Int
      /\ SumFunctionOnSet(f, S \cup {x}) = f[x] + SumFunctionOnSet(f, (S \cup {x}) \ {x})
  BY <1>1, SumWithout
<1>3. x \notin S => (S \cup {x}) \ {x} = S
  OBVIOUS
<1>4. x \in S => SumFunctionOnSet(f, S) = f[x] + SumFunctionOnSet(f, S \ {x})
  BY SumWithout
<1>5. f[x] \in Int
  OBVIOUS
<1>6. ASSUME x \notin S
      PROVE  SumFunctionOnSet(f, S \cup {x}) = SumFunctionOnSet(f, S) + f[x]
  <2>1. SumFunctionOnSet(f, (S \cup {x}) \ {x}) = SumFunctionOnSet(f, S)
    BY <1>3, <1>6
  <2>2. QED
    BY <1>2, <1>5, <2>1
<1>7. ASSUME x \in S
      PROVE  SumFunctionOnSet(f, S \ {x}) = SumFunctionOnSet(f, S) - f[x]
  BY <1>2, <1>4, <1>5, <1>7
<1>8. QED
  BY <1>1, <1>2, <1>6, <1>7
=============================================================================
