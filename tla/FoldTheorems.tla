---------------------------- MODULE FoldTheorems ----------------------------
(***************************************************************************)
(* Facts about the folds that AdvisorTokens and SkillBundle use: a fold is *)
(* well defined, a sum does not depend on the order in which the elements  *)
(* are taken, and FoldLeft goes through a sequence from the left.  What    *)
(* would be an induction is, each time, a smallest counterexample.         *)
(***************************************************************************)
EXTENDS Integers, SequencesExt, FiniteSets,
        FiniteSetTheorems, WellFoundedInduction, TLAPS

(* A set of natural numbers that is not empty has a least element.          *)
LEMMA LeastNat ==
  ASSUME NEW T \in SUBSET Nat, T # {}
  PROVE  \E n \in T : \A m \in T : ~(m < n)
<1>1. \E n \in T : \A m \in T : ~(<<m, n>> \in OpToRel(<, Nat))
  BY NatLessThanWellFounded, WFMin
<1> QED
  BY <1>1 DEF OpToRel

(* A set of subsets of a finite set has one that no other is smaller than.  *)
LEMMA LeastSubset ==
  ASSUME NEW S, IsFiniteSet(S), NEW T \in SUBSET SUBSET S, T # {}
  PROVE  /\ \E s \in T : \A t \in T : ~(Cardinality(t) < Cardinality(s))
         /\ \A s \in SUBSET S : IsFiniteSet(s) /\ Cardinality(s) \in Nat
<1>1. \A s \in SUBSET S : IsFiniteSet(s) /\ Cardinality(s) \in Nat
  BY FS_Subset, FS_CardinalityType
<1> DEFINE N == {Cardinality(s) : s \in T}
<1>2. N \in SUBSET Nat /\ N # {}
  BY <1>1
<1>3. PICK n \in N : \A m \in N : ~(m < n)
  BY <1>2, LeastNat
<1> QED
  BY <1>1, <1>3

(* What is left after one element is taken out is smaller.                  *)
LEMMA Smaller ==
  ASSUME NEW S, IsFiniteSet(S), NEW s \in SUBSET S, NEW x \in s
  PROVE  /\ s \ {x} \in SUBSET S
         /\ Cardinality(s \ {x}) \in Nat /\ Cardinality(s) \in Nat
         /\ Cardinality(s) = Cardinality(s \ {x}) + 1
<1>1. IsFiniteSet(s)
  BY FS_Subset
<1>2. IsFiniteSet(s \ {x}) /\ Cardinality(s \ {x}) = Cardinality(s) - 1
  BY <1>1, FS_RemoveElement
<1>3. Cardinality(s) \in Nat /\ Cardinality(s \ {x}) \in Nat
  BY <1>1, <1>2, FS_CardinalityType
<1> QED
  BY <1>2, <1>3

-----------------------------------------------------------------------------
Picks(pick, S) == \A s \in (SUBSET S) \ {{}} : pick[s] \in s

StaysIn(A, step, S) == \A x \in S, a \in A : step[<<x, a>>] \in A

(* g says of each subset of S what folding it gives.                        *)
FoldsOver(g, S, base, pick, step) ==
  \A s \in SUBSET S :
    g[s] = IF s = {} THEN base ELSE step[<<pick[s], g[s \ {pick[s]}]>>]

(* The recursion of MapThenFoldSet has a solution, whichever element it     *)
(* takes first, if its steps stay in some set.                              *)
LEMMA FoldExists ==
  ASSUME NEW S, IsFiniteSet(S), NEW A, NEW base \in A,
         NEW pick, Picks(pick, S), NEW step, StaysIn(A, step, S)
  PROVE  \E g \in [SUBSET S -> A] : FoldsOver(g, S, base, pick, step)
<1> DEFINE Small(n) == {s \in SUBSET S : Cardinality(s) <= n}
           Solves(g, n) ==
             \A s \in Small(n) :
               g[s] = IF s = {} THEN base ELSE step[<<pick[s], g[s \ {pick[s]}]>>]
           Bad == {n \in Nat : ~ \E g \in [Small(n) -> A] : Solves(g, n)}
<1>1. ASSUME Bad # {} PROVE FALSE
  <2>1. PICK n \in Bad : \A m \in Bad : ~(m < n)
    BY <1>1, LeastNat
  <2>2. CASE n = 0
    <3>1. \A s \in Small(0) : s = {}
      <4>1. \A s \in SUBSET S : IsFiniteSet(s) /\ Cardinality(s) \in Nat
        BY FS_Subset, FS_CardinalityType
      <4> QED
        BY <4>1, FS_EmptySet
    <3>2. [s \in Small(0) |-> base] \in [Small(0) -> A] /\ Solves([s \in Small(0) |-> base], 0)
      BY <3>1
    <3> QED
      BY <2>1, <2>2, <3>2
  <2>3. CASE n # 0
    <3>1. n - 1 \in Nat /\ n - 1 \notin Bad
      <4>1. \A m \in Nat : m # 0 => m - 1 \in Nat /\ m - 1 < m
        OBVIOUS
      <4>2. n - 1 \in Nat /\ n - 1 < n
        BY <2>1, <2>3, <4>1
      <4> HIDE DEF Bad
      <4> QED
        BY <2>1, <4>2
    <3>2. PICK g \in [Small(n - 1) -> A] : Solves(g, n - 1)
      BY <3>1
    <3> DEFINE h == [s \in Small(n) |->
                       IF s = {} THEN base ELSE step[<<pick[s], g[s \ {pick[s]}]>>]]
    <3>3. ASSUME NEW s \in Small(n), s # {}
          PROVE  pick[s] \in S /\ s \ {pick[s]} \in Small(n - 1)
      <4>1. pick[s] \in s
        BY <3>3 DEF Picks
      <4> QED
        BY <2>1, <4>1, Smaller
    <3>4. \A s \in Small(n - 1) : s \in Small(n) /\ h[s] = g[s]
      <4>1. \A s \in SUBSET S : Cardinality(s) \in Nat
        BY FS_Subset, FS_CardinalityType
      <4>2. \A s \in Small(n - 1) : s \in Small(n)
        BY <2>1, <4>1
      <4> QED
        BY <3>2, <4>2
    <3>5. h \in [Small(n) -> A]
      BY <3>2, <3>3 DEF StaysIn
    <3>6. Solves(h, n)
      BY <3>3, <3>4
    <3> QED
      BY <2>1, <3>5, <3>6
  <2> QED
    BY <2>2, <2>3
<1>2. Cardinality(S) \in Nat /\ Small(Cardinality(S)) = SUBSET S
  BY FS_CardinalityType, FS_Subset
<1>3. Cardinality(S) \notin Bad
  BY <1>1
<1> QED
  BY <1>2, <1>3 DEF FoldsOver

-----------------------------------------------------------------------------
SumOf(f, S) == MapThenSumSet(LAMBDA x : f[x], S)

First(s) == CHOOSE x \in s : TRUE

(* g sums up f over the subsets of S.                                       *)
Sums(g, f, S) ==
  \A s \in SUBSET S : g[s] = IF s = {} THEN 0 ELSE f[First(s)] + g[s \ {First(s)}]

(* The sum is what a function of the subsets says of S.                     *)
LEMMA SumExists ==
  ASSUME NEW S, IsFiniteSet(S), NEW f \in [S -> Nat]
  PROVE  \E g : Sums(g, f, S) /\ SumOf(f, S) = g[S]
<1> DEFINE G(g) == g = [s \in SUBSET S |-> IF s = {} THEN 0
                          ELSE f[First(s)] + g[s \ {First(s)}]]
           pick == [s \in SUBSET S |-> First(s)]
           step == [p \in S \X Nat |-> f[p[1]] + p[2]]
<1>1. Picks(pick, S) /\ \A s \in SUBSET S : pick[s] = First(s)
  BY DEF First, Picks
<1>2. \A x \in S, n \in Nat : step[<<x, n>>] = f[x] + n /\ f[x] + n \in Nat
  OBVIOUS
<1> HIDE DEF pick, step
<1>3. PICK g \in [SUBSET S -> Nat] : FoldsOver(g, S, 0, pick, step)
  <2>1. StaysIn(Nat, step, S) /\ 0 \in Nat
    BY <1>2 DEF StaysIn
  <2> QED
    BY <1>1, <2>1, FoldExists
<1>4. \A s \in SUBSET S : s # {} =>
        step[<<pick[s], g[s \ {pick[s]}]>>] = f[First(s)] + g[s \ {First(s)}]
  <2> TAKE s \in SUBSET S
  <2> HAVE s # {}
  <2>1. First(s) \in S /\ pick[s] = First(s) /\ g[s \ {First(s)}] \in Nat
    BY <1>1, <1>3 DEF First
  <2> QED
    BY <2>1, <1>2
<1>5. g = [s \in SUBSET S |-> g[s]]
  BY <1>3
<1>6. G(g)
  BY <1>3, <1>4, <1>5 DEF FoldsOver
<1>7. G(CHOOSE h : G(h))
  BY <1>6
<1>8. SumOf(f, S) = (CHOOSE h : G(h))[S]
  BY DEF SumOf, MapThenSumSet, MapThenFoldSet, First
<1> DEFINE k == CHOOSE h : G(h)
<1>9. \A s \in SUBSET S : k[s] = IF s = {} THEN 0 ELSE f[First(s)] + k[s \ {First(s)}]
  <2> HIDE DEF k
  <2> QED
    BY <1>7 DEF k
<1> QED
  BY <1>8, <1>9 DEF Sums

(* Sums are natural numbers, and any element can be taken out first.        *)
LEMMA SumAnyOrder ==
  ASSUME NEW S, IsFiniteSet(S), NEW f \in [S -> Nat], NEW g, Sums(g, f, S)
  PROVE  \A s \in SUBSET S :
           g[s] \in Nat /\ \A x \in s : g[s] = f[x] + g[s \ {x}]
<1> DEFINE Odd == {s \in SUBSET S : g[s] \notin Nat}
           Bad == {s \in SUBSET S : \E x \in s : g[s] # f[x] + g[s \ {x}]}
<1>1. ASSUME Odd # {} PROVE FALSE
  <2>1. PICK s \in Odd : \A t \in Odd : ~(Cardinality(t) < Cardinality(s))
    <3>1. Odd \in SUBSET SUBSET S
      OBVIOUS
    <3> QED
      BY <1>1, <3>1, LeastSubset
  <2>2. CASE s = {}
    BY <2>1, <2>2 DEF Sums
  <2>3. CASE s # {}
    <3>1. First(s) \in s
      BY <2>3 DEF First
    <3>2. s \ {First(s)} \in SUBSET S /\ g[s \ {First(s)}] \in Nat
      BY <2>1, <3>1, Smaller
    <3> QED
      BY <2>1, <2>3, <3>1, <3>2 DEF Sums
  <2> QED
    BY <2>2, <2>3
<1>2. \A s \in SUBSET S : g[s] \in Nat
  BY <1>1
<1>3. ASSUME Bad # {} PROVE FALSE
  <2>1. PICK s \in Bad : \A t \in Bad : ~(Cardinality(t) < Cardinality(s))
    <3>1. Bad \in SUBSET SUBSET S
      OBVIOUS
    <3> QED
      BY <1>3, <3>1, LeastSubset
  <2>2. PICK x \in s : g[s] # f[x] + g[s \ {x}]
    BY <2>1
  <2> DEFINE c == First(s)
  <2>3. c \in s /\ g[s] = f[c] + g[s \ {c}]
    BY <2>1, <2>2 DEF First, Sums
  <2>4. c # x
    BY <2>2, <2>3
  <2>5. s \ {c} \notin Bad /\ s \ {x} \notin Bad /\ s \ {c} \in SUBSET S /\ s \ {x} \in SUBSET S
    BY <2>1, <2>3, Smaller
  <2>6. g[s \ {c}] = f[x] + g[(s \ {c}) \ {x}]
    BY <2>4, <2>5
  <2>7. g[s \ {x}] = f[c] + g[(s \ {x}) \ {c}]
    BY <2>3, <2>4, <2>5
  <2>8. (s \ {x}) \ {c} = (s \ {c}) \ {x} /\ (s \ {x}) \ {c} \in SUBSET S
    BY <2>1
  <2>9. f[x] \in Nat /\ f[c] \in Nat /\ g[(s \ {x}) \ {c}] \in Nat
    BY <1>2, <2>1, <2>3, <2>8
  <2>10. \A i, j, k \in Nat : i + (j + k) = j + (i + k)
    OBVIOUS
  <2> HIDE DEF c
  <2> DEFINE rest == g[(s \ {c}) \ {x}]
  <2>11. g[s] = f[c] + (f[x] + rest) /\ f[x] + g[s \ {x}] = f[x] + (f[c] + rest)
    BY <2>3, <2>6, <2>7, <2>8
  <2>12. rest \in Nat
    BY <2>8, <2>9
  <2> HIDE DEF rest
  <2>13. g[s] = f[x] + g[s \ {x}]
    BY <2>9, <2>10, <2>11, <2>12
  <2> QED
    BY <2>2, <2>13
<1> QED
  BY <1>2, <1>3

(* A change of one summand changes the sum by as much.                      *)
LEMMA SumOfChanged ==
  ASSUME NEW S, IsFiniteSet(S), NEW f \in [S -> Nat], NEW x \in S, NEW n \in Nat
  PROVE  /\ SumOf(f, S) \in Nat /\ SumOf([f EXCEPT ![x] = n], S) \in Nat
         /\ SumOf([f EXCEPT ![x] = n], S) + f[x] = SumOf(f, S) + n
<1> DEFINE e == [f EXCEPT ![x] = n]
<1>1. e \in [S -> Nat] /\ e[x] = n /\ \A y \in S \ {x} : e[y] = f[y]
  OBVIOUS
<1> HIDE DEF e
<1>2. PICK g : Sums(g, f, S) /\ SumOf(f, S) = g[S]
  BY SumExists
<1>3. PICK h : Sums(h, e, S) /\ SumOf(e, S) = h[S]
  BY <1>1, SumExists
<1>4. \A s \in SUBSET S : g[s] \in Nat /\ \A y \in s : g[s] = f[y] + g[s \ {y}]
  BY <1>2, SumAnyOrder
<1>5. \A s \in SUBSET S : h[s] \in Nat /\ \A y \in s : h[s] = e[y] + h[s \ {y}]
  BY <1>1, <1>3, SumAnyOrder
<1> DEFINE Bad == {s \in SUBSET (S \ {x}) : g[s] # h[s]}
<1>6. ASSUME Bad # {} PROVE FALSE
  <2>1. PICK s \in Bad : \A t \in Bad : ~(Cardinality(t) < Cardinality(s))
    <3>1. Bad \in SUBSET SUBSET S
      OBVIOUS
    <3> QED
      BY <1>6, <3>1, LeastSubset
  <2>2. CASE s = {}
    BY <1>2, <1>3, <2>1, <2>2 DEF Sums
  <2>3. CASE s # {}
    <3>1. PICK y \in s : TRUE
      BY <2>3
    <3>2. s \ {y} \in SUBSET S /\ Cardinality(s \ {y}) < Cardinality(s)
      BY <2>1, <3>1, Smaller
    <3>3. g[s \ {y}] = h[s \ {y}]
      BY <2>1, <3>2
    <3>4. f[y] = e[y]
      BY <1>1, <2>1, <3>1
    <3> QED
      BY <1>4, <1>5, <2>1, <3>1, <3>3, <3>4
  <2> QED
    BY <2>2, <2>3
<1>7. g[S \ {x}] = h[S \ {x}] /\ S \ {x} \in SUBSET S
  BY <1>6
<1>8. SumOf(f, S) = f[x] + g[S \ {x}] /\ SumOf(e, S) = n + g[S \ {x}]
  BY <1>1, <1>2, <1>3, <1>4, <1>5, <1>7
<1>9. f[x] \in Nat /\ g[S \ {x}] \in Nat
  BY <1>4, <1>7
<1>10. SumOf(f, S) \in Nat /\ SumOf(e, S) \in Nat /\ SumOf(e, S) + f[x] = SumOf(f, S) + n
  BY <1>8, <1>9
<1> QED
  BY <1>10 DEF e

(* Nothing adds up to nothing.                                              *)
LEMMA SumOfZeros ==
  ASSUME NEW S, IsFiniteSet(S)
  PROVE  SumOf([x \in S |-> 0], S) = 0
<1> DEFINE f == [x \in S |-> 0]
<1>1. f \in [S -> Nat] /\ \A x \in S : f[x] = 0
  OBVIOUS
<1> HIDE DEF f
<1>2. PICK g : Sums(g, f, S) /\ SumOf(f, S) = g[S]
  BY <1>1, SumExists
<1>3. \A s \in SUBSET S : g[s] \in Nat /\ \A y \in s : g[s] = f[y] + g[s \ {y}]
  BY <1>1, <1>2, SumAnyOrder
<1> DEFINE Bad == {s \in SUBSET S : g[s] # 0}
<1>4. ASSUME Bad # {} PROVE FALSE
  <2>1. PICK s \in Bad : \A t \in Bad : ~(Cardinality(t) < Cardinality(s))
    <3>1. Bad \in SUBSET SUBSET S
      OBVIOUS
    <3> QED
      BY <1>4, <3>1, LeastSubset
  <2>2. CASE s = {}
    BY <1>2, <2>1, <2>2 DEF Sums
  <2>3. CASE s # {}
    <3>1. PICK y \in s : TRUE
      BY <2>3
    <3>2. s \ {y} \in SUBSET S /\ g[s \ {y}] = 0
      BY <2>1, <3>1, Smaller
    <3>3. g[s] = f[y] + g[s \ {y}] /\ f[y] = 0
      BY <1>1, <1>3, <2>1, <3>1
    <3> QED
      BY <2>1, <3>2, <3>3
  <2> QED
    BY <2>2, <2>3
<1> QED
  BY <1>2, <1>4 DEF f

-----------------------------------------------------------------------------
(* FoldLeft takes the greatest index first, and so nests to the left.       *)
LEMMA MaxOf ==
  ASSUME NEW n \in Nat, NEW s \in SUBSET (1..n), s # {}
  PROVE  Max(s) \in s /\ \A i \in s : Max(s) >= i
<1> DEFINE T == {n - i : i \in s}
<1>1. T \in SUBSET Nat /\ T # {}
  <2>1. \A i \in 1..n : n - i \in Nat
    OBVIOUS
  <2>2. \A i \in s : n - i \in Nat
    BY <2>1
  <2> QED
    BY <2>2
<1>2. PICK t \in T : \A m \in T : ~(m < t)
  BY <1>1, LeastNat
<1>3. PICK x \in s : t = n - x
  BY <1>2
<1>4. \A i \in s : x >= i
  <2> TAKE i \in s
  <2>1. n - i \in T /\ n - i \in Nat /\ i \in Nat /\ x \in Nat
    BY <1>3
  <2> HIDE DEF T
  <2>2. ~(n - i < n - x)
    BY <1>2, <1>3, <2>1
  <2> QED
    BY <2>1, <2>2
<1> QED
  BY <1>3, <1>4 DEF Max

(* The last index of a prefix, and the prefix without it.                   *)
LEMMA MaxUpTo ==
  ASSUME NEW n \in Nat, NEW i \in 1..n
  PROVE  /\ 1..i # {} /\ 1..i \in SUBSET (1..n) /\ 1..(i - 1) \in SUBSET (1..n)
         /\ Max(1..i) = i /\ (1..i) \ {i} = 1..(i - 1)
<1>1. 1..i # {} /\ 1..i \in SUBSET (1..n) /\ 1..(i - 1) \in SUBSET (1..n) /\ i \in 1..i
  OBVIOUS
<1>2. Max(1..i) \in 1..i /\ Max(1..i) >= i
  BY <1>1, MaxOf
<1>3. (1..i) \ {i} = 1..(i - 1)
  OBVIOUS
<1> QED
  BY <1>1, <1>2, <1>3

FoldsLeft(g, n, base, step) ==
  \A s \in SUBSET (1..n) :
    g[s] = IF s = {} THEN base ELSE step[<<Max(s), g[s \ {Max(s)}]>>]

(* The recursion of FoldLeft over the prefixes of 1..n has a solution.      *)
LEMMA LeftFoldExists ==
  ASSUME NEW n \in Nat, NEW A, NEW base \in A, NEW step, StaysIn(A, step, 1..n)
  PROVE  \E g \in [SUBSET (1..n) -> A] : FoldsLeft(g, n, base, step)
<1> DEFINE pick == [s \in SUBSET (1..n) |-> Max(s)]
<1>1. Picks(pick, 1..n) /\ \A s \in SUBSET (1..n) : pick[s] = Max(s)
  BY MaxOf DEF Picks
<1>2. IsFiniteSet(1..n)
  BY FS_Interval
<1> HIDE DEF pick
<1>3. PICK g \in [SUBSET (1..n) -> A] : FoldsOver(g, 1..n, base, pick, step)
  BY <1>1, <1>2, FoldExists
<1> QED
  BY <1>1, <1>3 DEF FoldsOver, FoldsLeft

=============================================================================
