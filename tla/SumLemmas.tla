------------------------------ MODULE SumLemmas -------------------------------
(***************************************************************************)
(* Sums of the values of a function with a finite domain, SumFunction of    *)
(* the community module Functions: the sum is an integer, it follows a      *)
(* value that changes, it does not fall where no value falls.  The books of *)
(* the ledgers are sums of this kind.                                      *)
(*                                                                         *)
(* SumFunction folds over the domain with a recursive function, so these    *)
(* are facts by induction.  The induction is on the number of elements: a   *)
(* set of counterexamples that is not empty has a smallest member, which    *)
(* is WFMin with the order < on Nat.                                       *)
(***************************************************************************)
EXTENDS Integers, FiniteSets, Functions, FiniteSetTheorems, WellFoundedInduction, TLAPS

\* Every set of naturals that is not empty has a least element.
LEMMA NatLeast ==
  ASSUME NEW T, T \subseteq Nat, T # {}
  PROVE  \E n \in T : \A m \in T : n <= m
<1>1. PICK n \in T : \A m \in T : ~ (<<m, n>> \in OpToRel(<, Nat))
  BY WFMin, NatLessThanWellFounded
<1>2. \A m \in T : ~(m < n) BY <1>1 DEF OpToRel
<1> QED BY <1>2

\* Among the finite sets of a family there is one with the fewest elements.
LEMMA SmallestSet ==
  ASSUME NEW F, F # {}, \A s \in F : IsFiniteSet(s)
  PROVE  \E s \in F : \A r \in F : Cardinality(s) <= Cardinality(r)
<1> DEFINE T == {Cardinality(s) : s \in F}
<1>1. T \subseteq Nat /\ T # {} BY FS_CardinalityType
<1>2. PICK n \in T : \A m \in T : n <= m BY <1>1, NatLeast
<1> QED BY <1>2

\* The element of a set that the fold takes first.
Pick(s) == CHOOSE x \in s : TRUE

\* It is an element of the set.
LEMMA Picked == ASSUME NEW s, s # {} PROVE Pick(s) \in s
  BY DEF Pick

\* it is the recursive function of the fold of f over the subsets of S.
Unfolds(S, f, it) ==
  it = [s \in SUBSET S |-> IF s = {} THEN 0 ELSE f[Pick(s)] + it[s \ {Pick(s)}]]

\* The recursive function of the fold exists.
LEMMA FoldExists ==
  ASSUME NEW S, IsFiniteSet(S), NEW f \in [S -> Int]
  PROVE  \E it : it \in [SUBSET S -> Int] /\ Unfolds(S, f, it)
<1> DEFINE Small(n) == {s \in SUBSET S : Cardinality(s) <= n}
           Part(n, g) == /\ g \in [Small(n) -> Int]
                         /\ \A s \in Small(n) :
                              g[s] = IF s = {} THEN 0 ELSE f[Pick(s)] + g[s \ {Pick(s)}]
           T == {n \in Nat : ~ \E g : Part(n, g)}
<1>1. ASSUME NEW s \in SUBSET S
      PROVE  /\ IsFiniteSet(s) /\ Cardinality(s) \in Nat
             /\ s # {} => /\ Pick(s) \in s /\ s \ {Pick(s)} \in SUBSET S
                          /\ Cardinality(s) >= 1
                          /\ Cardinality(s \ {Pick(s)}) = Cardinality(s) - 1
  <2>1. IsFiniteSet(s) /\ Cardinality(s) \in Nat BY FS_Subset, FS_CardinalityType
  <2>2. s # {} => Pick(s) \in s /\ Cardinality(s) # 0 BY <2>1, Picked, FS_EmptySet
  <2>3. Pick(s) \in s => Cardinality(s \ {Pick(s)}) = Cardinality(s) - 1 BY <2>1, FS_RemoveElement
  <2> QED BY <2>1, <2>2, <2>3
<1>2. T = {}
  <2> SUFFICES ASSUME T # {} PROVE FALSE OBVIOUS
  <2>1. PICK n \in T : \A m \in T : n <= m BY NatLeast
  <2> SUFFICES \E g : Part(n, g) BY <2>1
  <2>2. CASE n = 0
    <3> DEFINE g == [s \in Small(n) |-> 0]
    <3>1. ASSUME NEW s \in Small(n) PROVE s = {}
      <4>1. s \in SUBSET S /\ Cardinality(s) <= 0 BY <2>2, <3>1
      <4>2. Cardinality(s) \in Nat /\ (s # {} => Cardinality(s) >= 1) BY <1>1, <4>1
      <4> QED BY <4>1, <4>2
    <3>2. Part(n, g) BY <2>2, <3>1
    <3> QED BY <3>2
  <2>3. CASE n # 0
    <3>1. n - 1 \in Nat /\ n - 1 \notin T
      <4> HIDE DEF T
      <4>1. n \in Nat BY DEF T
      <4> QED BY <2>1, <2>3, <4>1
    <3>2. PICK h : Part(n - 1, h) BY <3>1
    <3> DEFINE g == [s \in Small(n) |->
                       IF s = {} THEN 0 ELSE f[Pick(s)] + h[s \ {Pick(s)}]]
    <3>3. \A s \in Small(n) : s # {} => s \ {Pick(s)} \in Small(n - 1) /\ s \ {Pick(s)} \in Small(n)
      BY <1>1, <2>1
    <3>4. g \in [Small(n) -> Int]
      <4>1. ASSUME NEW s \in Small(n), s # {} PROVE f[Pick(s)] + h[s \ {Pick(s)}] \in Int
        BY <1>1, <3>2, <3>3, <4>1
      <4> QED BY <4>1
    <3>5. ASSUME NEW r \in Small(n - 1) PROVE r \in Small(n) /\ g[r] = h[r]
      <4>1. r \in Small(n)
        <5>1. Cardinality(r) \in Nat /\ Cardinality(r) <= n - 1 /\ n \in Nat BY <1>1, <2>1, <3>5
        <5> QED BY <5>1
      <4>2. g[r] = IF r = {} THEN 0 ELSE f[Pick(r)] + h[r \ {Pick(r)}] BY <4>1
      <4>3. h[r] = IF r = {} THEN 0 ELSE f[Pick(r)] + h[r \ {Pick(r)}] BY <3>2, <3>5
      <4> QED BY <4>1, <4>2, <4>3
    <3>6. ASSUME NEW s \in Small(n)
          PROVE  g[s] = IF s = {} THEN 0 ELSE f[Pick(s)] + g[s \ {Pick(s)}]
      <4>1. s # {} => g[s \ {Pick(s)}] = h[s \ {Pick(s)}] BY <3>3, <3>5
      <4> HIDE DEF Small
      <4> QED BY <4>1
    <3>7. Part(n, g) BY <3>4, <3>6
    <3> QED BY <3>7
  <2> QED BY <2>2, <2>3
<1>3. PICK n \in Nat : n = Cardinality(S) BY FS_CardinalityType
<1>4. Small(n) = SUBSET S
  <2>1. \A s \in SUBSET S : Cardinality(s) <= n BY <1>3, FS_Subset
  <2> QED BY <2>1
<1>5. PICK g : Part(n, g) BY <1>2
<1> HIDE DEF Small
<1>6. Unfolds(S, f, g) BY <1>4, <1>5 DEF Unfolds
<1> QED BY <1>4, <1>5, <1>6

\* The sum of the values of f over the sets of the fold.
LEMMA Fold ==
  ASSUME NEW S, IsFiniteSet(S), NEW f \in [S -> Int]
  PROVE  \E it : it \in [SUBSET S -> Int] /\ Unfolds(S, f, it) /\ SumFunction(f) = it[S]
<1>1. SumFunction(f) = (CHOOSE it : Unfolds(S, f, it))[S]
  BY DEF SumFunction, SumFunctionOnSet, FoldFunctionOnSet, MapThenFoldSet, Unfolds, Pick
<1>2. PICK g : g \in [SUBSET S -> Int] /\ Unfolds(S, f, g) BY FoldExists
<1>3. Unfolds(S, f, CHOOSE it : Unfolds(S, f, it)) BY <1>2, Zenon
<1>4. ASSUME NEW it, Unfolds(S, f, it) PROVE it = g
  <2> DEFINE F == {s \in SUBSET S : it[s] # g[s]}
  <2>1. F = {}
    <3> SUFFICES ASSUME F # {} PROVE FALSE OBVIOUS
    <3>1. \A s \in F : IsFiniteSet(s) BY FS_Subset
    <3>2. PICK s \in F : \A r \in F : Cardinality(s) <= Cardinality(r) BY <3>1, SmallestSet
    <3>3. s # {} BY <1>2, <1>4 DEF Unfolds
    <3>4. Pick(s) \in s BY <3>3, Picked
    <3>5. s \ {Pick(s)} \notin F
      <4>1. Cardinality(s \ {Pick(s)}) = Cardinality(s) - 1 /\ Cardinality(s) \in Nat
        BY <3>1, <3>4, FS_RemoveElement, FS_CardinalityType
      <4> QED BY <3>2, <4>1
    <3>6. it[s \ {Pick(s)}] = g[s \ {Pick(s)}] BY <3>5
    <3> QED BY <1>2, <1>4, <3>3, <3>6 DEF Unfolds
  <2> QED BY <1>2, <1>4, <2>1 DEF Unfolds
<1> QED BY <1>1, <1>2, <1>3, <1>4

\* Whichever element is taken first, the rest of the fold is the fold of the rest.
AnyFirst(S, f, it) == \A s \in SUBSET S : \A x \in s : it[s] = f[x] + it[s \ {x}]

\* A fold may take any element first.
LEMMA FoldAnyFirst ==
  ASSUME NEW S, IsFiniteSet(S), NEW f \in [S -> Int],
         NEW it \in [SUBSET S -> Int], Unfolds(S, f, it)
  PROVE  AnyFirst(S, f, it)
<1> DEFINE F == {r \in SUBSET S : \E y \in r : it[r] # f[y] + it[r \ {y}]}
<1>1. F = {}
  <2> SUFFICES ASSUME F # {} PROVE FALSE OBVIOUS
  <2>1. \A r \in F : IsFiniteSet(r) BY FS_Subset
  <2>2. PICK r \in F : \A q \in F : Cardinality(r) <= Cardinality(q) BY <2>1, SmallestSet
  <2>3. PICK y \in r : it[r] # f[y] + it[r \ {y}] OBVIOUS
  <2> DEFINE p == Pick(r)
  <2>4. p \in r /\ r \in SUBSET S BY Picked
  <2>5. it[r] = f[p] + it[r \ {p}] BY <2>4 DEF Unfolds
  <2>6. p # y BY <2>3, <2>5
  <2>7. \A z \in r : r \ {z} \notin F
    <3> SUFFICES ASSUME NEW z \in r PROVE r \ {z} \notin F OBVIOUS
    <3>1. Cardinality(r \ {z}) = Cardinality(r) - 1 /\ Cardinality(r) \in Nat
      BY <2>1, FS_RemoveElement, FS_CardinalityType
    <3>2. ~(Cardinality(r) <= Cardinality(r \ {z})) BY <3>1
    <3> QED BY <2>2, <3>2
  <2> HIDE DEF p
  <2>8. it[r \ {p}] = f[y] + it[(r \ {p}) \ {y}] BY <2>4, <2>6, <2>7
  <2>9. it[r \ {y}] = f[p] + it[(r \ {y}) \ {p}] BY <2>4, <2>6, <2>7
  <2>10. (r \ {p}) \ {y} = (r \ {y}) \ {p} OBVIOUS
  <2>11. /\ f[p] \in Int /\ f[y] \in Int /\ it[(r \ {p}) \ {y}] \in Int
    <3>1. (r \ {p}) \ {y} \in SUBSET S BY <2>4
    <3> QED BY <2>4, <3>1
  <2>12. r \ {p} \in SUBSET S /\ r \ {y} \in SUBSET S BY <2>4
  <2>13. it[r] = f[p] + (f[y] + it[(r \ {p}) \ {y}]) BY <2>5, <2>8
  <2>14. it[r \ {y}] = f[p] + it[(r \ {p}) \ {y}] BY <2>9, <2>10
  <2>15. it[r] = f[y] + it[r \ {y}] BY <2>11, <2>13, <2>14
  <2> QED BY <2>3, <2>15
<1> QED BY <1>1 DEF AnyFirst

\* Folds of functions that agree on a set agree on it.
LEMMA FoldAgree ==
  ASSUME NEW S, IsFiniteSet(S), NEW f \in [S -> Int], NEW g \in [S -> Int],
         NEW it \in [SUBSET S -> Int], Unfolds(S, f, it),
         NEW jt \in [SUBSET S -> Int], Unfolds(S, g, jt),
         NEW s \in SUBSET S, \A x \in s : f[x] = g[x]
  PROVE  it[s] = jt[s]
<1> DEFINE F == {r \in SUBSET s : it[r] # jt[r]}
<1>1. F = {}
  <2> SUFFICES ASSUME F # {} PROVE FALSE OBVIOUS
  <2>1. \A r \in F : IsFiniteSet(r) BY FS_Subset
  <2>2. PICK r \in F : \A q \in F : Cardinality(r) <= Cardinality(q) BY <2>1, SmallestSet
  <2>3. r # {} BY DEF Unfolds
  <2>4. Pick(r) \in r /\ r \in SUBSET S BY <2>3, Picked
  <2>5. r \ {Pick(r)} \notin F
    <3>1. Cardinality(r \ {Pick(r)}) = Cardinality(r) - 1 /\ Cardinality(r) \in Nat
      BY <2>1, <2>4, FS_RemoveElement, FS_CardinalityType
    <3>2. ~(Cardinality(r) <= Cardinality(r \ {Pick(r)})) BY <3>1
    <3> QED BY <2>2, <3>2
  <2>6. it[r \ {Pick(r)}] = jt[r \ {Pick(r)}] /\ f[Pick(r)] = g[Pick(r)] BY <2>4, <2>5
  <2>7. it[r] = f[Pick(r)] + it[r \ {Pick(r)}] BY <2>3, <2>4 DEF Unfolds
  <2>8. jt[r] = g[Pick(r)] + jt[r \ {Pick(r)}] BY <2>3, <2>4 DEF Unfolds
  <2> QED BY <2>6, <2>7, <2>8
<1>2. s \notin F BY <1>1
<1> QED BY <1>2

-----------------------------------------------------------------------------
(* The sum of the values of a function with a finite domain.               *)

\* A sum of integers is an integer.
LEMMA SumType ==
  ASSUME NEW S, IsFiniteSet(S), NEW f \in [S -> Int]
  PROVE  SumFunction(f) \in Int
<1>1. PICK it : it \in [SUBSET S -> Int] /\ SumFunction(f) = it[S] BY Fold
<1>2. S \in SUBSET S OBVIOUS
<1> QED BY <1>1, <1>2

\* Where one value changes, the sum changes by as much.
LEMMA SumChange ==
  ASSUME NEW S, IsFiniteSet(S), NEW f \in [S -> Int], NEW g \in [S -> Int],
         NEW x \in S, \A y \in S \ {x} : g[y] = f[y]
  PROVE  SumFunction(g) = SumFunction(f) + g[x] - f[x]
<1>1. PICK it : it \in [SUBSET S -> Int] /\ Unfolds(S, f, it) /\ SumFunction(f) = it[S] BY Fold
<1>2. PICK jt : jt \in [SUBSET S -> Int] /\ Unfolds(S, g, jt) /\ SumFunction(g) = jt[S] BY Fold
<1>0. S \in SUBSET S /\ S \ {x} \in SUBSET S OBVIOUS
<1>3. it[S] = f[x] + it[S \ {x}] 
  <2>1. AnyFirst(S, f, it) BY <1>1, FoldAnyFirst
  <2> QED BY <1>0, <2>1 DEF AnyFirst
<1>4. jt[S] = g[x] + jt[S \ {x}] 
  <2>1. AnyFirst(S, g, jt) BY <1>2, FoldAnyFirst
  <2> QED BY <1>0, <2>1 DEF AnyFirst
<1>5. it[S \ {x}] = jt[S \ {x}]
  <2>1. \A y \in S \ {x} : f[y] = g[y] OBVIOUS
  <2> QED BY <1>0, <1>1, <1>2, <2>1, FoldAgree
<1>6. it[S \ {x}] \in Int /\ f[x] \in Int /\ g[x] \in Int BY <1>1
<1> QED BY <1>1, <1>2, <1>3, <1>4, <1>5, <1>6

\* A sum of naught is naught.
LEMMA SumZero ==
  ASSUME NEW S, IsFiniteSet(S), NEW f \in [S -> Int], \A x \in S : f[x] = 0
  PROVE  SumFunction(f) = 0
<1>1. PICK it : it \in [SUBSET S -> Int] /\ Unfolds(S, f, it) /\ SumFunction(f) = it[S] BY Fold
<1> DEFINE jt == [s \in SUBSET S |-> 0]
<1>2. jt \in [SUBSET S -> Int] OBVIOUS
<1>3. Unfolds(S, f, jt)
  <2>1. \A s \in SUBSET S : s # {} => f[Pick(s)] = 0 BY Picked
  <2> QED BY <2>1 DEF Unfolds
<1>4. it[S] = jt[S] BY <1>1, <1>2, <1>3, FoldAgree
<1> QED BY <1>1, <1>4

\* Where no value falls, the sum does not fall.
LEMMA SumMonotone ==
  ASSUME NEW S, IsFiniteSet(S), NEW f \in [S -> Int], NEW g \in [S -> Int],
         \A x \in S : f[x] <= g[x]
  PROVE  SumFunction(f) <= SumFunction(g)
<1>1. PICK it : it \in [SUBSET S -> Int] /\ Unfolds(S, f, it) /\ SumFunction(f) = it[S] BY Fold
<1>2. PICK jt : jt \in [SUBSET S -> Int] /\ Unfolds(S, g, jt) /\ SumFunction(g) = jt[S] BY Fold
<1> DEFINE F == {r \in SUBSET S : ~(it[r] <= jt[r])}
<1>3. F = {}
  <2> SUFFICES ASSUME F # {} PROVE FALSE OBVIOUS
  <2>1. \A r \in F : IsFiniteSet(r) BY FS_Subset
  <2>2. PICK r \in F : \A q \in F : Cardinality(r) <= Cardinality(q) BY <2>1, SmallestSet
  <2>3. r # {} BY <1>1, <1>2 DEF Unfolds
  <2>4. Pick(r) \in r /\ r \in SUBSET S BY <2>3, Picked
  <2>5. r \ {Pick(r)} \notin F
    <3>1. Cardinality(r \ {Pick(r)}) = Cardinality(r) - 1 /\ Cardinality(r) \in Nat
      BY <2>1, <2>4, FS_RemoveElement, FS_CardinalityType
    <3>2. ~(Cardinality(r) <= Cardinality(r \ {Pick(r)})) BY <3>1
    <3> QED BY <2>2, <3>2
  <2>6. it[r \ {Pick(r)}] <= jt[r \ {Pick(r)}] /\ f[Pick(r)] <= g[Pick(r)] BY <2>4, <2>5
  <2>7. it[r] = f[Pick(r)] + it[r \ {Pick(r)}] BY <1>1, <2>3, <2>4 DEF Unfolds
  <2>8. jt[r] = g[Pick(r)] + jt[r \ {Pick(r)}] BY <1>2, <2>3, <2>4 DEF Unfolds
  <2>9. /\ it[r \ {Pick(r)}] \in Int /\ jt[r \ {Pick(r)}] \in Int
        /\ f[Pick(r)] \in Int /\ g[Pick(r)] \in Int
    <3>1. r \ {Pick(r)} \in SUBSET S BY <2>4
    <3> QED BY <1>1, <1>2, <2>4, <3>1
  <2>10. ~(it[r] <= jt[r]) OBVIOUS
  <2> QED BY <2>6, <2>7, <2>8, <2>9, <2>10
<1> QED BY <1>1, <1>2, <1>3

\* A sum of naturals is a natural, and no value exceeds it.
LEMMA SumNat ==
  ASSUME NEW S, IsFiniteSet(S), NEW f \in [S -> Nat]
  PROVE  SumFunction(f) \in Nat /\ \A x \in S : f[x] <= SumFunction(f)
<1> DEFINE nil == [x \in S |-> 0]
<1>1. f \in [S -> Int] /\ nil \in [S -> Int] OBVIOUS
<1>2. SumFunction(f) \in Int BY <1>1, SumType
<1>3. ASSUME NEW g \in [S -> Nat] PROVE 0 <= SumFunction(g)
  <2>1. g \in [S -> Int] /\ \A x \in S : nil[x] <= g[x] OBVIOUS
  <2>2. SumFunction(nil) = 0 BY <1>1, SumZero
  <2>3. SumFunction(nil) <= SumFunction(g) BY <1>1, <2>1, SumMonotone
  <2> QED BY <2>2, <2>3
<1>4. ASSUME NEW x \in S PROVE f[x] <= SumFunction(f)
  <2> DEFINE g == [f EXCEPT ![x] = 0]
  <2>1. g \in [S -> Nat] /\ g \in [S -> Int] /\ g[x] = 0 /\ \A y \in S \ {x} : g[y] = f[y] OBVIOUS
  <2> HIDE DEF g
  <2>2. SumFunction(g) = SumFunction(f) + g[x] - f[x] BY <1>1, <2>1, SumChange
  <2>3. 0 <= SumFunction(g) BY <1>3, <2>1
  <2>4. f[x] \in Int BY <1>1
  <2> QED BY <1>2, <2>1, <2>2, <2>3, <2>4
<1> QED BY <1>2, <1>3, <1>4
\* Where no value exceeds a bound, the sum does not exceed the bound times the number of values.
LEMMA SumBound ==
  ASSUME NEW S, IsFiniteSet(S), NEW f \in [S -> Int], NEW M \in Int, \A x \in S : f[x] <= M
  PROVE  SumFunction(f) <= M * Cardinality(S)
<1>1. PICK it : it \in [SUBSET S -> Int] /\ Unfolds(S, f, it) /\ SumFunction(f) = it[S] BY Fold
<1> DEFINE F == {r \in SUBSET S : ~(it[r] <= M * Cardinality(r))}
<1>2. F = {}
  <2> SUFFICES ASSUME F # {} PROVE FALSE OBVIOUS
  <2>1. \A r \in F : IsFiniteSet(r) BY FS_Subset
  <2>2. PICK r \in F : \A q \in F : Cardinality(r) <= Cardinality(q) BY <2>1, SmallestSet
  <2>3. r # {}
    <3>1. it[{}] = 0 BY <1>1 DEF Unfolds
    <3>2. Cardinality({}) = 0 BY FS_EmptySet
    <3>3. it[{}] <= M * Cardinality({}) BY <3>1, <3>2
    <3> QED BY <3>3
  <2>4. Pick(r) \in r /\ r \in SUBSET S BY <2>3, Picked
  <2> DEFINE q == r \ {Pick(r)}
             k == Cardinality(q)
  <2>5. Cardinality(r) = k + 1 /\ k \in Nat
    <3>1. IsFiniteSet(r) /\ IsFiniteSet(q) BY <2>1, <2>4, FS_Subset
    <3>2. k = Cardinality(r) - 1 /\ k \in Nat /\ Cardinality(r) \in Nat
      BY <2>4, <3>1, FS_RemoveElement, FS_CardinalityType
    <3> QED BY <3>2
  <2>6. it[q] <= M * k
    <3>1. q \notin F
      <4>1. ~(Cardinality(r) <= Cardinality(q)) BY <2>5
      <4> HIDE DEF q
      <4> QED BY <2>2, <4>1
    <3>2. q \in SUBSET S BY <2>4
    <3> QED BY <3>1, <3>2
  <2>7. it[r] = f[Pick(r)] + it[q] BY <1>1, <2>3, <2>4 DEF Unfolds
  <2>8. it[q] \in Int /\ f[Pick(r)] \in Int /\ f[Pick(r)] <= M
    <3>1. q \in SUBSET S BY <2>4
    <3> QED BY <1>1, <2>4, <3>1
  <2>9. ~(it[r] <= M * Cardinality(r)) OBVIOUS
  <2> HIDE DEF k, q
  <2>10. M * Cardinality(r) = M * k + M /\ M * k \in Int BY <2>5
  <2> QED BY <2>6, <2>7, <2>8, <2>9, <2>10
<1>3. S \notin F BY <1>2
<1> QED BY <1>1, <1>3

-----------------------------------------------------------------------------
(* The sum of a part of the values.                                        *)

\* it is the fold of f over the subsets of S.
IsFold(S, f, it) == IsFiniteSet(S) /\ f \in [S -> Int] /\ it \in [SUBSET S -> Int] /\ Unfolds(S, f, it)

\* The fold over a part of the domain is the fold of the part.
LEMMA FoldPart ==
  ASSUME NEW S, NEW f, NEW it, IsFold(S, f, it),
         NEW A, NEW g, NEW jt, IsFold(A, g, jt),
         A \subseteq S, \A x \in A : g[x] = f[x]
  PROVE  it[A] = jt[A]
<1> USE DEF IsFold
<1> DEFINE F == {r \in SUBSET A : it[r] # jt[r]}
<1>1. F = {}
  <2> SUFFICES ASSUME F # {} PROVE FALSE OBVIOUS
  <2>1. \A r \in F : IsFiniteSet(r) BY FS_Subset
  <2>2. PICK r \in F : \A q \in F : Cardinality(r) <= Cardinality(q) BY <2>1, SmallestSet
  <2>3. r # {}
    <3>1. it[{}] = 0 /\ jt[{}] = 0 BY DEF Unfolds
    <3> QED BY <3>1
  <2>4. Pick(r) \in r /\ r \in SUBSET A /\ r \in SUBSET S BY <2>3, Picked
  <2>5. r \ {Pick(r)} \notin F
    <3>0. IsFiniteSet(r) /\ Pick(r) \in r BY <2>1, <2>4
    <3> HIDE DEF F
    <3>1. Cardinality(r \ {Pick(r)}) = Cardinality(r) - 1 /\ Cardinality(r) \in Nat
      BY <3>0, FS_RemoveElement, FS_CardinalityType
    <3>2. ~(Cardinality(r) <= Cardinality(r \ {Pick(r)})) BY <3>1
    <3> QED BY <2>2, <3>2
  <2>6. it[r \ {Pick(r)}] = jt[r \ {Pick(r)}] /\ f[Pick(r)] = g[Pick(r)] BY <2>4, <2>5
  <2>7. it[r] = f[Pick(r)] + it[r \ {Pick(r)}] BY <2>3, <2>4 DEF Unfolds
  <2>8. jt[r] = g[Pick(r)] + jt[r \ {Pick(r)}] BY <2>3, <2>4 DEF Unfolds
  <2> QED BY <2>6, <2>7, <2>8
<1>2. A \notin F BY <1>1
<1> QED BY <1>2

\* One more value adds itself to the sum.
LEMMA SumAdded ==
  ASSUME NEW S, IsFiniteSet(S), NEW x, x \notin S,
         NEW f \in [S -> Int], NEW g \in [S \cup {x} -> Int], \A y \in S : g[y] = f[y]
  PROVE  SumFunction(g) = SumFunction(f) + g[x]
<1> PICK T : T = S \cup {x} OBVIOUS
<1>1. IsFiniteSet(T) /\ g \in [T -> Int] /\ S \in SUBSET T /\ T \in SUBSET T /\ x \in T /\ T \ {x} = S
  BY FS_AddElement
<1>2. PICK it : it \in [SUBSET T -> Int] /\ Unfolds(T, g, it) /\ SumFunction(g) = it[T]
  BY <1>1, Fold
<1>3. PICK jt : jt \in [SUBSET S -> Int] /\ Unfolds(S, f, jt) /\ SumFunction(f) = jt[S]
  BY Fold
<1>4. it[T] = g[x] + it[S]
  <2>1. AnyFirst(T, g, it) BY <1>1, <1>2, FoldAnyFirst
  <2>2. it[T] = g[x] + it[T \ {x}] BY <1>1, <2>1 DEF AnyFirst
  <2> QED BY <1>1, <2>2
<1>5. it[S] = jt[S]
  <2>1. \A y \in S : f[y] = g[y] OBVIOUS
  <2>2. IsFold(T, g, it) /\ IsFold(S, f, jt) /\ S \subseteq T BY <1>1, <1>2, <1>3 DEF IsFold
  <2> QED BY <2>1, <2>2, FoldPart
<1>6. jt[S] \in Int /\ g[x] \in Int
  <2>1. S \in SUBSET S OBVIOUS
  <2> QED BY <1>1, <1>3, <2>1
<1> QED BY <1>2, <1>3, <1>4, <1>5, <1>6

\* Of values that are not negative, a part sums up to no more than all of them.
LEMMA SumPart ==
  ASSUME NEW S, IsFiniteSet(S), NEW f \in [S -> Nat], NEW A \in SUBSET S,
         NEW g \in [A -> Nat], \A x \in A : g[x] = f[x]
  PROVE  SumFunction(g) <= SumFunction(f)
<1>0. f \in [S -> Int] /\ g \in [A -> Int] /\ IsFiniteSet(A) BY FS_Subset
<1>1. PICK it : it \in [SUBSET S -> Int] /\ Unfolds(S, f, it) /\ SumFunction(f) = it[S]
  BY <1>0, Fold
<1>2. PICK jt : jt \in [SUBSET A -> Int] /\ Unfolds(A, g, jt) /\ SumFunction(g) = jt[A]
  BY <1>0, Fold
<1>3. it[A] = jt[A]
  <2>1. IsFold(S, f, it) /\ IsFold(A, g, jt) BY <1>0, <1>1, <1>2 DEF IsFold
  <2>2. A \subseteq S /\ \A x \in A : g[x] = f[x] OBVIOUS
  <2> QED BY <2>1, <2>2, FoldPart
<1>4. AnyFirst(S, f, it) BY <1>0, <1>1, FoldAnyFirst
<1> DEFINE F == {r \in SUBSET S : A \subseteq r /\ ~(it[A] <= it[r])}
<1>5. F = {}
  <2> SUFFICES ASSUME F # {} PROVE FALSE OBVIOUS
  <2>1. \A r \in F : IsFiniteSet(r) BY FS_Subset
  <2>2. PICK r \in F : \A q \in F : Cardinality(r) <= Cardinality(q) BY <2>1, SmallestSet
  <2>3. r # A
    <3>1. it[A] \in Int BY <1>1
    <3> QED BY <3>1
  <2>4. PICK x \in r \ A : TRUE BY <2>3
  <2>5. r \ {x} \notin F
    <3>1. Cardinality(r \ {x}) = Cardinality(r) - 1 /\ Cardinality(r) \in Nat
      BY <2>1, <2>4, FS_RemoveElement, FS_CardinalityType
    <3>2. ~(Cardinality(r) <= Cardinality(r \ {x})) BY <3>1
    <3> QED BY <2>2, <3>2
  <2>6. it[A] <= it[r \ {x}] BY <2>4, <2>5
  <2>7. it[r] = f[x] + it[r \ {x}] BY <1>4, <2>4 DEF AnyFirst
  <2>8. f[x] \in Nat /\ it[r \ {x}] \in Int /\ it[A] \in Int
    <3>1. x \in S /\ r \ {x} \in SUBSET S BY <2>4
    <3> QED BY <1>1, <3>1
  <2>9. it[A] <= it[r] BY <2>6, <2>7, <2>8
  <2> QED BY <2>9
<1>6. S \notin F BY <1>5
<1> QED BY <1>1, <1>2, <1>3, <1>6
=============================================================================
