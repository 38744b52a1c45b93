----------------------------- MODULE Induction -----------------------------
(***************************************************************************)
(* Induction over natural numbers and finite sets, in the form in which a  *)
(* proof can cite it: of sets, not of predicates.  The set of the numbers  *)
(* that satisfy a predicate is all of Nat if it is closed under successor; *)
(* what a recursive function computes follows by it.                       *)
(***************************************************************************)
EXTENDS Integers, FiniteSets, Functions, FiniteSetTheorems, WellFoundedInduction, TLAPS

\* Every set of natural numbers that is not empty has a least element.
LEMMA LeastNatural ==
    ASSUME NEW T \in SUBSET Nat, T # {}
    PROVE  \E x \in T : \A y \in T : x <= y
<1> DEFINE R == OpToRel(<, Nat)
<1>1. IsWellFoundedOn(R, Nat)
  BY NatLessThanWellFounded, Zenon
<1>2. \A x, y \in Nat : x < y => <<x, y>> \in R
  BY DEF OpToRel
<1> HIDE DEF R
<1>3. PICK x \in T : \A y \in T : ~(<<y, x>> \in R)
  BY <1>1, WFMin
<1>4. \A y \in T : x <= y
  <2> TAKE y \in T
  <2>1. x \in Nat /\ y \in Nat
    OBVIOUS
  <2>2. ~ (y < x)
    BY <1>2, <1>3, <2>1
  <2> QED BY <2>1, <2>2
<1> QED BY <1>4

\* A set of natural numbers with zero and every successor is Nat.
LEMMA AllNaturals ==
    ASSUME NEW S \in SUBSET Nat, 0 \in S, \A i \in S : i + 1 \in S
    PROVE  S = Nat
<1> SUFFICES ASSUME S # Nat PROVE FALSE
  OBVIOUS
<1>1. PICK x \in Nat \ S : \A y \in Nat \ S : x <= y
  BY LeastNatural
<1>2. x # 0 /\ x - 1 \in Nat
  BY <1>1
<1> QED BY <1>1, <1>2

-----------------------------------------------------------------------------
(* Sums over finite sets.                                                  *)

Pick(s) == CHOOSE x \in s : TRUE

\* g is the sum of f, by the recursion of the fold, on the sets of D.
Sums(g, f, D) ==
    g = [s \in D |-> IF s = {} THEN 0 ELSE f[Pick(s)] + g[s \ {Pick(s)}]]

LEMMA SumIsChosen ==
    ASSUME NEW f, NEW S
    PROVE  SumFunctionOnSet(f, S) = (CHOOSE g : Sums(g, f, SUBSET S))[S]
  BY Zenon DEF SumFunctionOnSet, FoldFunctionOnSet, MapThenFoldSet, Sums, Pick

LEMMA PickIsMember == ASSUME NEW s, s # {} PROVE Pick(s) \in s
  BY DEF Pick

Small(S, n) == {s \in SUBSET S : Cardinality(s) <= n}

\* A set without its chosen element is finite and smaller.
LEMMA PickedIsSmaller ==
    ASSUME NEW s, IsFiniteSet(s), s # {}
    PROVE  /\ IsFiniteSet(s \ {Pick(s)})
           /\ Cardinality(s) \in Nat \ {0}
           /\ Cardinality(s \ {Pick(s)}) = Cardinality(s) - 1
<1>1. Pick(s) \in s
  BY PickIsMember
<1>2. IsFiniteSet(s \ {Pick(s)}) /\ Cardinality(s \ {Pick(s)}) = Cardinality(s) - 1
  BY <1>1, FS_RemoveElement
<1>3. Cardinality(s) \in Nat /\ Cardinality(s) # 0
  BY FS_CardinalityType, FS_EmptySet
<1> QED BY <1>2, <1>3

\* The recursion has a solution on the subsets of a finite set.
LEMMA SumsExist ==
    ASSUME NEW f, NEW S, IsFiniteSet(S)
    PROVE  \E g : Sums(g, f, SUBSET S)
<1> DEFINE N == {n \in Nat : \E g : Sums(g, f, Small(S, n))}
<1>0. \A s \in SUBSET S : IsFiniteSet(s) /\ Cardinality(s) \in Nat
  BY FS_Subset, FS_CardinalityType
<1>1. 0 \in N
  <2>1. \A s \in Small(S, 0) : s = {}
    BY <1>0, FS_EmptySet DEF Small
  <2> DEFINE g == [s \in Small(S, 0) |-> 0]
  <2>2. Sums(g, f, Small(S, 0))
    BY <2>1 DEF Sums
  <2> QED BY <2>2
<1>2. ASSUME NEW n \in N PROVE n + 1 \in N
  <2>1. PICK g : Sums(g, f, Small(S, n))
    OBVIOUS
  <2> DEFINE D == Small(S, n + 1)
             h == [s \in D |-> IF s = {} THEN 0 ELSE f[Pick(s)] + g[s \ {Pick(s)}]]
  <2>2. \A s \in Small(S, n) : s \in D /\ h[s] = g[s]
    <3>1. \A s \in Small(S, n) : s \in D
      BY <1>0 DEF Small
    <3> QED BY <2>1, <3>1 DEF Sums
  <2>3. \A s \in D : s # {} => s \ {Pick(s)} \in Small(S, n)
    <3> SUFFICES ASSUME NEW s \in D, s # {} PROVE s \ {Pick(s)} \in Small(S, n)
      OBVIOUS
    <3>1. Cardinality(s \ {Pick(s)}) = Cardinality(s) - 1
      BY <1>0, PickedIsSmaller DEF Small
    <3>2. Cardinality(s) <= n + 1 /\ Cardinality(s) \in Nat
      BY <1>0 DEF Small
    <3> QED BY <3>1, <3>2 DEF Small
  <2>4. h = [s \in D |-> IF s = {} THEN 0 ELSE f[Pick(s)] + h[s \ {Pick(s)}]]
    BY <2>2, <2>3
  <2> HIDE DEF h, D
  <2>5. Sums(h, f, D)
    BY <2>4 DEF Sums
  <2> QED BY <2>5 DEF D
<1>3. N = Nat
  <2> HIDE DEF N
  <2>1. N \in SUBSET Nat
    BY DEF N
  <2> QED BY <1>1, <1>2, <2>1, AllNaturals
<1>4. Cardinality(S) \in Nat /\ Small(S, Cardinality(S)) = SUBSET S
  BY FS_Subset, FS_CardinalityType DEF Small
<1>5. Cardinality(S) \in N
  BY <1>3, <1>4
<1>6. \E g : Sums(g, f, Small(S, Cardinality(S)))
  BY <1>5
<1> QED BY <1>4, <1>6

SumsOn(g, f, S, s) == Sums(g, f, SUBSET S) /\ s \subseteq S

AgreeOn(f, e, s) == \A x \in s : f[x] = e[x]

\* Two sums of functions that agree on a set give it the same value.
LEMMA SumsAgree ==
    ASSUME NEW s, IsFiniteSet(s), NEW f, NEW g, NEW S, SumsOn(g, f, S, s),
           NEW e, NEW h, NEW T, SumsOn(h, e, T, s), AgreeOn(f, e, s)
    PROVE  g[s] = h[s]
<1> DEFINE N == {n \in Nat : \A u \in SUBSET s : Cardinality(u) <= n => g[u] = h[u]}
<1>0. \A u \in SUBSET s : IsFiniteSet(u) /\ Cardinality(u) \in Nat
  BY FS_Subset, FS_CardinalityType
<1>a. \A u \in SUBSET s : u \in SUBSET S /\ u \in SUBSET T
  BY DEF SumsOn
<1>b. \A u \in SUBSET s : g[u] = IF u = {} THEN 0 ELSE f[Pick(u)] + g[u \ {Pick(u)}]
  BY <1>a DEF Sums, SumsOn
<1>c. \A u \in SUBSET s : h[u] = IF u = {} THEN 0 ELSE e[Pick(u)] + h[u \ {Pick(u)}]
  BY <1>a DEF Sums, SumsOn
<1>1. 0 \in N
  <2>1. \A u \in SUBSET s : Cardinality(u) <= 0 => u = {}
    BY <1>0, FS_EmptySet
  <2> QED BY <2>1, <1>b, <1>c
<1>2. ASSUME NEW n \in N PROVE n + 1 \in N
  <2> SUFFICES ASSUME NEW u \in SUBSET s, Cardinality(u) <= n + 1 PROVE g[u] = h[u]
    OBVIOUS
  <2>0. CASE u = {}
    BY <2>0, <1>b, <1>c
  <2> SUFFICES ASSUME u # {} PROVE g[u] = h[u]
    BY <2>0
  <2>1. Cardinality(u \ {Pick(u)}) <= n
    BY <1>0, PickedIsSmaller
  <2>2. u \ {Pick(u)} \in SUBSET s /\ Pick(u) \in s
    BY PickIsMember
  <2>3. g[u \ {Pick(u)}] = h[u \ {Pick(u)}]
    BY <2>1, <2>2
  <2>4. f[Pick(u)] = e[Pick(u)]
    BY <2>2 DEF AgreeOn
  <2> QED BY <2>3, <2>4, <1>b, <1>c
<1>3. N = Nat
  <2> HIDE DEF N
  <2>1. N \in SUBSET Nat
    BY DEF N
  <2> QED BY <1>1, <1>2, <2>1, AllNaturals
<1> QED BY <1>0, <1>3

\* The sum over a finite set: nothing for the empty set, a natural number for
\* natural numbers, and it depends only on the values in the set.
LEMMA SumStep ==
    ASSUME NEW f, NEW S, IsFiniteSet(S)
    PROVE  SumFunctionOnSet(f, S) =
              IF S = {} THEN 0 ELSE f[Pick(S)] + SumFunctionOnSet(f, S \ {Pick(S)})
<1> DEFINE g == CHOOSE g : Sums(g, f, SUBSET S)
           T == S \ {Pick(S)}
           h == CHOOSE h : Sums(h, f, SUBSET T)
<1>1. IsFiniteSet(T)
  BY FS_Subset
<1>2. Sums(g, f, SUBSET S) /\ Sums(h, f, SUBSET T)
  BY <1>1, SumsExist
<1>3. SumFunctionOnSet(f, S) = g[S] /\ SumFunctionOnSet(f, T) = h[T]
  BY SumIsChosen
<1> HIDE DEF g, h
<1>4. g[T] = h[T]
  <2>1. SumsOn(g, f, S, T) /\ SumsOn(h, f, T, T) /\ AgreeOn(f, f, T)
    BY <1>2 DEF SumsOn, AgreeOn
  <2> HIDE DEF T
  <2> QED BY <1>1, <2>1, SumsAgree
<1>5. g[S] = IF S = {} THEN 0 ELSE f[Pick(S)] + g[T]
  BY <1>2 DEF Sums
<1> QED BY <1>3, <1>4, <1>5

LEMMA SumSame ==
    ASSUME NEW f, NEW e, NEW S, IsFiniteSet(S), \A x \in S : f[x] = e[x]
    PROVE  SumFunctionOnSet(f, S) = SumFunctionOnSet(e, S)
<1> DEFINE g == CHOOSE g : Sums(g, f, SUBSET S)
           h == CHOOSE h : Sums(h, e, SUBSET S)
<1>1. Sums(g, f, SUBSET S) /\ Sums(h, e, SUBSET S)
  BY SumsExist
<1>2. SumFunctionOnSet(f, S) = g[S] /\ SumFunctionOnSet(e, S) = h[S]
  BY SumIsChosen
<1> HIDE DEF g, h
<1>3. g[S] = h[S]
  <2>1. SumsOn(g, f, S, S) /\ SumsOn(h, e, S, S) /\ AgreeOn(f, e, S)
    BY <1>1 DEF SumsOn, AgreeOn
  <2> QED BY <2>1, SumsAgree
<1> QED BY <1>2, <1>3

\* The order of summation does not matter: any element may be taken out first.
LEMMA SumWithout ==
    ASSUME NEW f, NEW S, IsFiniteSet(S), \A x \in S : f[x] \in Nat, NEW c \in S
    PROVE  /\ SumFunctionOnSet(f, S) \in Nat
           /\ SumFunctionOnSet(f, S \ {c}) \in Nat
           /\ SumFunctionOnSet(f, S) = f[c] + SumFunctionOnSet(f, S \ {c})
<1> DEFINE Sum(s) == SumFunctionOnSet(f, s)
           N == {n \in Nat : \A s \in SUBSET S : Cardinality(s) <= n =>
                    /\ Sum(s) \in Nat
                    /\ \A x \in s : Sum(s) = f[x] + Sum(s \ {x})}
<1>0. \A s \in SUBSET S : IsFiniteSet(s) /\ Cardinality(s) \in Nat
  BY FS_Subset, FS_CardinalityType
<1>a. \A s \in SUBSET S : Sum(s) = IF s = {} THEN 0 ELSE f[Pick(s)] + Sum(s \ {Pick(s)})
  BY <1>0, SumStep
<1> HIDE DEF Sum
<1>1. 0 \in N
  <2>1. \A s \in SUBSET S : Cardinality(s) <= 0 => s = {}
    BY <1>0, FS_EmptySet
  <2>2. Sum({}) = 0
    BY <1>a
  <2> QED BY <2>1, <2>2
<1>2. ASSUME NEW n \in N PROVE n + 1 \in N
  <2> SUFFICES ASSUME NEW s \in SUBSET S, Cardinality(s) <= n + 1
               PROVE  Sum(s) \in Nat /\ \A x \in s : Sum(s) = f[x] + Sum(s \ {x})
    OBVIOUS
  <2>0. CASE s = {}
    <3>1. Sum(s) = 0
      BY <2>0, <1>a
    <3> QED BY <2>0, <3>1
  <2>1. CASE s # {}
    <3> DEFINE p == Pick(s)
    <3>1. p \in s /\ f[p] \in Nat
      BY <2>1, PickIsMember
    <3>2. ASSUME NEW x \in s
          PROVE  s \ {x} \in SUBSET S /\ Cardinality(s \ {x}) <= n
      BY <1>0, FS_RemoveElement
    <3> HIDE DEF p
    <3>3. Sum(s) = f[p] + Sum(s \ {p})
      BY <2>1, <1>a DEF p
    <3>4. Sum(s \ {p}) \in Nat
      BY <3>1, <3>2
    <3>5. Sum(s) \in Nat
      BY <3>1, <3>3, <3>4
    <3>6. ASSUME NEW x \in s PROVE Sum(s) = f[x] + Sum(s \ {x})
      <4>1. CASE x = p
        BY <4>1, <3>3
      <4>2. CASE x # p
        <5>1. Sum(s \ {p}) = f[x] + Sum((s \ {p}) \ {x})
          BY <4>2, <3>1, <3>2
        <5>2. Sum(s \ {x}) = f[p] + Sum((s \ {x}) \ {p})
          BY <4>2, <3>1, <3>2
        <5>3. (s \ {p}) \ {x} = (s \ {x}) \ {p}
          OBVIOUS
        <5>4. Sum((s \ {p}) \ {x}) \in Nat
          <6>1. (s \ {p}) \ {x} \in SUBSET S /\ Cardinality((s \ {p}) \ {x}) <= n
            <7>1. s \ {p} \in SUBSET S /\ Cardinality(s \ {p}) <= n
              BY <3>1, <3>2
            <7>2. (s \ {p}) \ {x} \in SUBSET S /\ (s \ {p}) \ {x} \in SUBSET (s \ {p})
              OBVIOUS
            <7>3. Cardinality((s \ {p}) \ {x}) <= Cardinality(s \ {p})
              BY <1>0, <7>1, <7>2, FS_Subset
            <7>4. Cardinality(s \ {p}) \in Nat /\ Cardinality((s \ {p}) \ {x}) \in Nat /\ n \in Nat
              BY <1>0, <7>1, <7>2
            <7> QED BY <7>1, <7>2, <7>3, <7>4
          <6> QED BY <6>1
        <5>5. f[x] \in Nat
          OBVIOUS
        <5> QED BY <5>1, <5>2, <5>3, <5>4, <5>5, <3>1, <3>3
      <4> QED BY <4>1, <4>2
    <3> QED BY <3>5, <3>6
  <2> QED BY <2>0, <2>1
<1>3. N = Nat
  <2> HIDE DEF N
  <2>1. N \in SUBSET Nat
    BY DEF N
  <2> QED BY <1>1, <1>2, <2>1, AllNaturals
<1>4. Cardinality(S) \in N
  BY <1>0, <1>3
<1>5. \A s \in SUBSET S : Sum(s) \in Nat
  BY <1>0, <1>3
<1>6. Sum(S) = f[c] + Sum(S \ {c})
  BY <1>0, <1>4
<1> QED BY <1>5, <1>6 DEF Sum

LEMMA SumOfNone == ASSUME NEW f PROVE SumFunctionOnSet(f, {}) = 0
  BY SumStep, FS_EmptySet

\* The sum over a set that has gained an element, whose other values are as before.
LEMMA SumGains ==
    ASSUME NEW f, NEW e, NEW S, IsFiniteSet(S), NEW c, c \notin S, NEW T, T = S \cup {c},
           \A x \in S : f[x] = e[x], \A x \in T : e[x] \in Nat
    PROVE  /\ SumFunctionOnSet(f, S) \in Nat
           /\ SumFunctionOnSet(e, T) = SumFunctionOnSet(f, S) + e[c]
<1>1. IsFiniteSet(T) /\ c \in T /\ e[c] \in Nat
  BY FS_AddElement
<1>2. S = T \ {c}
  OBVIOUS
<1>3. ASSUME NEW U, IsFiniteSet(U), c \in U, \A x \in U : e[x] \in Nat
      PROVE  /\ SumFunctionOnSet(e, U) = e[c] + SumFunctionOnSet(e, U \ {c})
             /\ SumFunctionOnSet(e, U \ {c}) \in Nat
  BY <1>3, SumWithout
<1>4. /\ SumFunctionOnSet(e, T) = e[c] + SumFunctionOnSet(e, T \ {c})
      /\ SumFunctionOnSet(e, T \ {c}) \in Nat
  BY <1>1, <1>3
<1>5. /\ SumFunctionOnSet(e, T) = e[c] + SumFunctionOnSet(e, S)
      /\ SumFunctionOnSet(e, S) \in Nat
  BY <1>2, <1>4, Zenon
<1>6. SumFunctionOnSet(f, S) = SumFunctionOnSet(e, S)
  BY SumSame
<1> QED BY <1>1, <1>5, <1>6

=============================================================================
