---------------------------- MODULE FoldTheorems ----------------------------
(***************************************************************************)
(* What the folds of the community modules compute.                        *)
(*                                                                         *)
(* A fold is the value, at the whole set, of a function that is defined by *)
(* recursion over the subsets of the set; it is a CHOOSE, so that nothing  *)
(* is known of it before the function is shown to exist.  This module      *)
(* shows it for every finite set, and that a fold over 1 .. n that takes   *)
(* the greatest number last applies its operator to the numbers in order.  *)
(*                                                                         *)
(* Op and Pick are parameters of the module because the provers cannot     *)
(* instantiate a theorem that has operators as parameters: a module that   *)
(* needs the theorems for an operator of its own instantiates this one.    *)
(***************************************************************************)
EXTENDS Naturals, FiniteSetTheorems, WellFoundedInduction, TLAPS

CONSTANTS
  Op(_, _),  \* combines an element and the value of the rest of the fold
  Pick(_)    \* the element of a set that is combined last

-----------------------------------------------------------------------------
\* Induction over the naturals, for a set in place of a predicate.
LEMMA NatSetInduction ==
  ASSUME NEW T, 0 \in T, \A n \in Nat : n \in T => n + 1 \in T
  PROVE  \A n \in Nat : n \in T
<1> DEFINE R == OpToRel(LAMBDA i, j : i < j, Nat)
           C == {n \in Nat : n \notin T}
<1> SUFFICES ASSUME C # {} PROVE FALSE
  OBVIOUS
<1>1. IsWellFoundedOn(R, Nat)
  BY NatLessThanWellFounded
<1>2. C \subseteq Nat
  OBVIOUS
<1>3. PICK x \in C : \A y \in C : <<y, x>> \notin R
  <2> HIDE DEF R, C
  <2>1. \E x \in C : \A y \in C : <<y, x>> \notin R
    BY <1>1, <1>2, WFMin
  <2>2. QED
    BY <2>1
<1>4. x \in Nat /\ x # 0
  OBVIOUS
<1>5. x - 1 \in Nat /\ x - 1 < x /\ (x - 1) + 1 = x
  BY <1>4
<1>6. <<x - 1, x>> \in R
  BY <1>4, <1>5 DEF OpToRel
<1>7. x - 1 \in T
  BY <1>3, <1>5, <1>6
<1>8. QED
  BY <1>4, <1>5, <1>7

\* A nonempty set of numbers up to n has a greatest one.
LEMMA GreatestExists ==
  ASSUME NEW n \in Nat
  PROVE  \A s \in SUBSET (1 .. n) : s # {} => \E x \in s : \A y \in s : x >= y
<1> DEFINE T == {m \in Nat : \A s \in SUBSET (1 .. m) :
                               s # {} => \E x \in s : \A y \in s : x >= y}
<1>1. 0 \in T
  <2>1. 1 .. 0 = {}
    OBVIOUS
  <2>2. QED
    BY <2>1
<1>2. ASSUME NEW m \in Nat, m \in T
      PROVE  m + 1 \in T
  <2> SUFFICES ASSUME NEW s \in SUBSET (1 .. m + 1), s # {}
               PROVE  \E x \in s : \A y \in s : x >= y
    OBVIOUS
  <2>1. CASE m + 1 \in s
    BY <2>1
  <2>2. CASE m + 1 \notin s
    <3>1. \A y \in s : y \in 1 .. m
      BY <2>2
    <3>2. QED
      BY <1>2, <3>1
  <2>3. QED
    BY <2>1, <2>2
<1>3. \A m \in Nat : m \in T
  <2> HIDE DEF T
  <2>1. QED
    BY <1>1, <1>2, NatSetInduction
<1>4. QED
  BY <1>3

-----------------------------------------------------------------------------
(* The recursive function of a fold. *)

Unfold(base, f, g, s) == IF s = {} THEN base ELSE Op(f[Pick(s)], g[s \ {Pick(s)}])

Iterated(base, f, S) == CHOOSE g : g = [s \in SUBSET S |-> Unfold(base, f, g, s)]

Picks(S) == \A s \in SUBSET S : s # {} => Pick(s) \in s

\* The part of the function on sets of at most n elements.
Small(S, n) == {s \in SUBSET S : Cardinality(s) <= n}

Approximates(g, base, f, S, n) == g = [s \in Small(S, n) |-> Unfold(base, f, g, s)]

LEMMA SmallGrows ==
  ASSUME NEW S, IsFiniteSet(S), NEW n \in Nat
  PROVE  /\ Small(S, 0) = {{}}
         /\ Small(S, n) \subseteq Small(S, n + 1)
         /\ \A s \in Small(S, n + 1) : \A x \in s : s \ {x} \in Small(S, n)
<1>1. \A s \in SUBSET S : IsFiniteSet(s) /\ Cardinality(s) \in Nat
  BY FS_Subset, FS_CardinalityType
<1>2. Small(S, 0) = {{}}
  BY <1>1, FS_EmptySet DEF Small
<1>3. Small(S, n) \subseteq Small(S, n + 1)
  BY <1>1 DEF Small
<1>4. ASSUME NEW s \in Small(S, n + 1), NEW x \in s
      PROVE  s \ {x} \in Small(S, n)
  <2>1. IsFiniteSet(s) /\ Cardinality(s) \in Nat /\ Cardinality(s) <= n + 1
    BY <1>1 DEF Small
  <2>2. Cardinality(s \ {x}) = Cardinality(s) - 1
    BY <2>1, <1>4, FS_RemoveElement
  <2>3. s \ {x} \in SUBSET S
    BY DEF Small
  <2>4. QED
    BY <2>1, <2>2, <2>3 DEF Small
<1>5. QED
  BY <1>2, <1>3, <1>4

LEMMA ApproximationExists ==
  ASSUME NEW S, IsFiniteSet(S), Picks(S), NEW base, NEW f
  PROVE  \A n \in Nat : \E g : Approximates(g, base, f, S, n)
<1> DEFINE T == {n \in Nat : \E g : Approximates(g, base, f, S, n)}
<1>1. 0 \in T
  <2> DEFINE g == [s \in Small(S, 0) |-> base]
  <2>1. Small(S, 0) = {{}}
    BY SmallGrows, 0 \in Nat
  <2>2. Approximates(g, base, f, S, 0)
    BY <2>1 DEF Approximates, Unfold
  <2>3. QED
    BY <2>2
<1>2. ASSUME NEW n \in Nat, n \in T
      PROVE  n + 1 \in T
  <2>1. PICK g : Approximates(g, base, f, S, n)
    BY <1>2
  <2> DEFINE h == [s \in Small(S, n + 1) |-> Unfold(base, f, g, s)]
  <2>2. \A s \in Small(S, n) : s \in Small(S, n + 1) /\ h[s] = g[s]
    BY <2>1, SmallGrows DEF Approximates
  <2>3. \A s \in Small(S, n + 1) : Unfold(base, f, h, s) = Unfold(base, f, g, s)
    <3> HIDE DEF h
    <3> SUFFICES ASSUME NEW s \in Small(S, n + 1)
                 PROVE  Unfold(base, f, h, s) = Unfold(base, f, g, s)
      OBVIOUS
    <3>1. CASE s = {}
      BY <3>1 DEF Unfold
    <3>2. CASE s # {}
      <4>1. Pick(s) \in s
        BY <3>2 DEF Picks, Small
      <4>2. s \ {Pick(s)} \in Small(S, n)
        BY <4>1, SmallGrows
      <4>3. h[s \ {Pick(s)}] = g[s \ {Pick(s)}]
        BY <4>2, <2>2
      <4>4. QED
        BY <4>3, <3>2 DEF Unfold
    <3>3. QED
      BY <3>1, <3>2
  <2>4. Approximates(h, base, f, S, n + 1)
    BY <2>3 DEF Approximates
  <2>5. QED
    BY <2>4
<1>3. \A n \in Nat : n \in T
  <2> HIDE DEF T
  <2>1. QED
    BY <1>1, <1>2, NatSetInduction
<1>4. QED
  BY <1>3

\* The function exists: it satisfies its defining equation.
LEMMA IteratedUnfolds ==
  ASSUME NEW S, IsFiniteSet(S), Picks(S), NEW base, NEW f
  PROVE  Iterated(base, f, S) = [s \in SUBSET S |-> Unfold(base, f, Iterated(base, f, S), s)]
<1>1. Cardinality(S) \in Nat
  BY FS_CardinalityType
<1>2. Small(S, Cardinality(S)) = SUBSET S
  BY FS_Subset DEF Small
<1>3. \E g : g = [s \in SUBSET S |-> Unfold(base, f, g, s)]
  <2>1. PICK g : Approximates(g, base, f, S, Cardinality(S))
    BY <1>1, ApproximationExists
  <2>2. g = [s \in SUBSET S |-> Unfold(base, f, g, s)]
    BY <2>1, <1>2 DEF Approximates
  <2>3. QED
    BY <2>2
<1>4. QED
  BY <1>3 DEF Iterated

-----------------------------------------------------------------------------
(* A fold over 1 .. n. *)

PicksLast(n) ==
  \A s \in SUBSET (1 .. n) : s # {} => Pick(s) \in s /\ \A y \in s : Pick(s) >= y

\* The values of the fold after 0, 1, .. n elements.
Stages(base, f, n) == [i \in 0 .. n |-> Iterated(base, f, 1 .. n)[1 .. i]]

IsStages(h, base, f, n) ==
  /\ h[0] = base
  /\ \A i \in 1 .. n : h[i] = Op(f[i], h[i - 1])
  /\ h[n] = Iterated(base, f, 1 .. n)[1 .. n]

LEMMA FoldsInOrder ==
  ASSUME NEW n \in Nat, NEW f, NEW base, PicksLast(n)
  PROVE  IsStages(Stages(base, f, n), base, f, n)
<1> DEFINE S == 1 .. n
           g == Iterated(base, f, S)
           h == Stages(base, f, n)
<1>1. IsFiniteSet(S)
  BY FS_Interval
<1>2. Picks(S)
  BY DEF Picks, PicksLast
<1>3. g = [s \in SUBSET S |-> Unfold(base, f, g, s)]
  <2> HIDE DEF S
  <2>1. QED
    BY <1>1, <1>2, IteratedUnfolds
<1>4. h = [i \in 0 .. n |-> g[1 .. i]]
  BY DEF Stages
<1> HIDE DEF g, h
<1>5. h[0] = base
  <2>1. 1 .. 0 = {}
    OBVIOUS
  <2>2. g[{}] = base
    BY <1>3 DEF Unfold
  <2>3. QED
    BY <1>4, <2>1, <2>2
<1>6. ASSUME NEW i \in 1 .. n
      PROVE  h[i] = Op(f[i], h[i - 1])
  <2>1. 1 .. i \in SUBSET S /\ 1 .. i # {} /\ i \in 1 .. i
    OBVIOUS
  <2>2. Pick(1 .. i) \in 1 .. i /\ Pick(1 .. i) >= i
    BY <2>1 DEF PicksLast
  <2>3. Pick(1 .. i) = i
    BY <2>2
  <2>4. (1 .. i) \ {i} = 1 .. (i - 1)
    OBVIOUS
  <2>5. g[1 .. i] = Unfold(base, f, g, 1 .. i)
    BY <2>1, <1>3
  <2>6. g[1 .. i] = Op(f[i], g[1 .. (i - 1)])
    BY <2>1, <2>3, <2>4, <2>5 DEF Unfold
  <2>7. i \in 0 .. n /\ i - 1 \in 0 .. n
    OBVIOUS
  <2>8. QED
    BY <1>4, <2>6, <2>7
<1>7. h[n] = g[S]
  BY <1>4
<1>8. QED
  BY <1>5, <1>6, <1>7 DEF IsStages, g, h

-----------------------------------------------------------------------------
(* A fold over a set whose elements may be combined in any order. *)

\* T holds the empty set and, with a part of S, those of one more element.
Grows(S, T) ==
  /\ {} \in T
  /\ \A s \in SUBSET S : \A x \in S \ s : s \in T => s \cup {x} \in T

LEMMA SubsetInduction ==
  ASSUME NEW S, IsFiniteSet(S), NEW T, Grows(S, T)
  PROVE  S \in T
<1> DEFINE N == {n \in Nat : \A s \in SUBSET S : Cardinality(s) = n => s \in T}
<1>1. \A s \in SUBSET S : IsFiniteSet(s) /\ Cardinality(s) \in Nat
  BY FS_Subset, FS_CardinalityType
<1>2. 0 \in N
  BY <1>1, FS_EmptySet DEF Grows
<1>3. ASSUME NEW n \in Nat, n \in N
      PROVE  n + 1 \in N
  <2> SUFFICES ASSUME NEW s \in SUBSET S, Cardinality(s) = n + 1
               PROVE  s \in T
    OBVIOUS
  <2>1. s # {}
    <3>1. Cardinality({}) = 0
      BY FS_EmptySet
    <3>2. QED
      BY <3>1
  <2>2. PICK x \in s : TRUE
    BY <2>1
  <2> DEFINE r == s \ {x}
  <2>3. r \in SUBSET S /\ x \in S \ r /\ r \cup {x} = s
    BY <2>2
  <2>4. Cardinality(r) = n
    <3>1. Cardinality(r) = Cardinality(s) - 1
      BY <1>1, <2>2, FS_RemoveElement
    <3>2. QED
      BY <3>1
  <2> HIDE DEF r
  <2>5. r \in T
    BY <1>3, <2>3, <2>4
  <2>6. QED
    BY <2>3, <2>5 DEF Grows
<1>4. \A n \in Nat : n \in N
  <2> HIDE DEF N
  <2>1. QED
    BY <1>2, <1>3, NatSetInduction
<1>5. Cardinality(S) \in Nat
  BY <1>1
<1>6. QED
  BY <1>4, <1>5

\* Op combines the elements of S with values of V, in any order.
Combines(f, S, V) ==
  /\ \A x \in S, v \in V : Op(f[x], v) \in V
  /\ \A x, y \in S : \A v \in V : Op(f[x], Op(f[y], v)) = Op(f[y], Op(f[x], v))

\* g is a fold of f over the subsets of S that takes any element last.
AnyOrder(g, base, f, S, V) ==
  /\ g[{}] = base
  /\ \A s \in SUBSET S : g[s] \in V
  /\ \A s \in SUBSET S : \A x \in s : g[s] = Op(f[x], g[s \ {x}])

LEMMA FoldsInAnyOrder ==
  ASSUME NEW S, IsFiniteSet(S), Picks(S), NEW f, NEW V, NEW base \in V, Combines(f, S, V)
  PROVE  AnyOrder(Iterated(base, f, S), base, f, S, V)
<1> DEFINE g == Iterated(base, f, S)
           Good(s) == /\ g[s] \in V
                      /\ \A x \in s : g[s] = Op(f[x], g[s \ {x}])
           N == {n \in Nat : \A s \in SUBSET S : Cardinality(s) <= n => Good(s)}
<1>1. \A s \in SUBSET S : IsFiniteSet(s) /\ Cardinality(s) \in Nat
  BY FS_Subset, FS_CardinalityType
<1>2. g = [s \in SUBSET S |-> Unfold(base, f, g, s)]
  BY IteratedUnfolds
<1> HIDE DEF g
<1>3. g[{}] = base
  BY <1>2 DEF Unfold
<1>4. \A s \in SUBSET S : s # {} => Pick(s) \in s /\ g[s] = Op(f[Pick(s)], g[s \ {Pick(s)}])
  BY <1>2 DEF Unfold, Picks
<1>5. 0 \in N
  <2>1. \A s \in SUBSET S : Cardinality(s) <= 0 => s = {}
    BY <1>1, FS_EmptySet
  <2>2. QED
    BY <1>3, <2>1
<1>6. ASSUME NEW n \in Nat, n \in N
      PROVE  n + 1 \in N
  <2> SUFFICES ASSUME NEW s \in SUBSET S, Cardinality(s) <= n + 1
               PROVE  Good(s)
    OBVIOUS
  <2> DEFINE c == Pick(s)
  <2>1. \A r \in SUBSET S : \A x \in s : r \subseteq s \ {x} => Good(r)
    <3>1. ASSUME NEW r \in SUBSET S, NEW x \in s, r \subseteq s \ {x}
          PROVE  Good(r)
      <4>1. /\ Cardinality(s \ {x}) = Cardinality(s) - 1 /\ IsFiniteSet(s \ {x})
            /\ Cardinality(s) \in Nat /\ Cardinality(r) \in Nat
        BY <1>1, FS_RemoveElement
      <4>2. Cardinality(r) <= Cardinality(s \ {x})
        BY <3>1, <4>1, FS_Subset
      <4>3. Cardinality(r) <= n
        BY <4>1, <4>2
      <4> HIDE DEF Good
      <4>4. QED
        BY <1>6, <4>3
    <3>2. QED
      BY <3>1
  <2> HIDE DEF c
  <2> SUFFICES ASSUME s # {} PROVE Good(s)
    BY <1>3
  <2>2. c \in s /\ g[s] = Op(f[c], g[s \ {c}])
    BY <1>4 DEF c
  <2>3. g[s] \in V
    BY <2>1, <2>2 DEF Combines
  <2>4. ASSUME NEW x \in s, x # c
        PROVE  g[s] = Op(f[x], g[s \ {x}])
    <3>1. x \in s \ {c} /\ c \in s \ {x}
      BY <2>2, <2>4
    <3> DEFINE r == (s \ {c}) \ {x}
    <3>2. r = (s \ {x}) \ {c}
      OBVIOUS
    <3>3. g[s \ {c}] = Op(f[x], g[r])
      BY <2>1, <2>2, <3>1
    <3>4. g[s \ {x}] = Op(f[c], g[r])
      BY <2>1, <3>1, <3>2
    <3>5. g[r] \in V
      BY <2>1, <2>2
    <3> HIDE DEF r
    <3>6. Op(f[c], Op(f[x], g[r])) = Op(f[x], Op(f[c], g[r]))
      BY <2>2, <3>5 DEF Combines
    <3>7. QED
      BY <2>2, <3>3, <3>4, <3>6
  <2>5. QED
    BY <2>2, <2>3, <2>4
<1>7. \A n \in Nat : n \in N
  <2> HIDE DEF N
  <2>1. QED
    BY <1>5, <1>6, NatSetInduction
<1>8. \A s \in SUBSET S : Good(s)
  BY <1>1, <1>7
<1>9. QED
  BY <1>3, <1>8 DEF AnyOrder, g
=============================================================================
