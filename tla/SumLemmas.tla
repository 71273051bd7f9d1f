------------------------------ MODULE SumLemmas ------------------------------
(***************************************************************************)
(* Induction over finite sets and naturals, sums and bags, for the proofs  *)
(* about the sketches.                                                     *)
(*                                                                         *)
(* The folds that the sketches sum with are recursive functions over the   *)
(* subsets of a set; what is proved by induction is that a set of subsets, *)
(* or of naturals, holds all of them.                                      *)
(***************************************************************************)
EXTENDS Integers, Functions, FiniteSetTheorems, WellFoundedInduction, TLAPS

-----------------------------------------------------------------------------
(* Induction.                                                              *)

(* Induction over a finite set: what holds of a subset when it holds of    *)
(* those that lack one of its elements.                                    *)
LEMMA SubsetInduction ==
  ASSUME NEW S, IsFiniteSet(S), NEW Good,
         \A s \in SUBSET S : (\A x \in s : s \ {x} \in Good) => s \in Good
  PROVE  SUBSET S \subseteq Good
<1> DEFINE Bad == (SUBSET S) \ Good
<1>1. SUFFICES ASSUME Bad # {} PROVE FALSE
  OBVIOUS
<1>2. IsWellFoundedOn(StrictSubsetOrdering(S), SUBSET S)
  BY FS_StrictSubsetOrderingWellFounded, FS_FiniteSubsetsOfFinite
<1>3. PICK T \in Bad : \A U \in Bad : <<U, T>> \notin StrictSubsetOrdering(S)
  <2>1. Bad \subseteq SUBSET S
    OBVIOUS
  <2> HIDE DEF Bad
  <2>2. QED
    BY <1>1, <1>2, <2>1, WFMin, Zenon
<1>4. PICK x \in T : T \ {x} \notin Good
  BY <1>3
<1>5. T \ {x} \in Bad
  BY <1>3, <1>4
<1>6. <<T \ {x}, T>> \in StrictSubsetOrdering(S)
  BY <1>3, <1>4 DEF StrictSubsetOrdering
<1>7. QED
  BY <1>3, <1>5, <1>6

(* Induction over the naturals, for sets of them.                          *)
LEMMA NatInduct ==
  ASSUME NEW Good, 0 \in Good, \A k \in Nat : k \in Good => k + 1 \in Good
  PROVE  Nat \subseteq Good
<1>1. SUFFICES ASSUME NEW n0 \in Nat, n0 \notin Good PROVE FALSE
  OBVIOUS
<1> DEFINE S == 0..n0
           Bad == {0..k : k \in S \ Good}
<1>2. Bad # {} /\ Bad \subseteq SUBSET S
  BY <1>1
<1>3. IsFiniteSet(S)
  BY FS_Interval
<1>4. IsWellFoundedOn(StrictSubsetOrdering(S), SUBSET S)
  BY <1>3, FS_StrictSubsetOrderingWellFounded, FS_FiniteSubsetsOfFinite
<1>5. PICK T \in Bad : \A U \in Bad : <<U, T>> \notin StrictSubsetOrdering(S)
  <2> HIDE DEF Bad, S
  <2>1. QED
    BY <1>2, <1>4, WFMin, Zenon
<1>6. PICK k \in S \ Good : T = 0..k
  BY <1>5
<1>7. k # 0 /\ k - 1 \in S /\ k - 1 + 1 = k
  BY <1>6
<1>8. k - 1 \notin Good
  BY <1>6, <1>7
<1>9. 0..(k - 1) \in Bad
  BY <1>7, <1>8
<1>10. 0..(k - 1) \subseteq T /\ 0..(k - 1) # T /\ 0..(k - 1) \in SUBSET S /\ T \in SUBSET S
  BY <1>6
<1>11. <<0..(k - 1), T>> \in StrictSubsetOrdering(S)
  BY <1>10 DEF StrictSubsetOrdering
<1>12. QED
  BY <1>5, <1>9, <1>11

(* A set of naturals has a least element.                                  *)
LEMMA LeastExists ==
  ASSUME NEW S \in SUBSET Nat, S # {}
  PROVE  \E x \in S : \A y \in S : x <= y
<1> DEFINE Good == {k \in Nat : \A j \in 0..k : j \notin S}
<1>1. SUFFICES ASSUME \A x \in S : \E y \in S : y < x PROVE FALSE
  OBVIOUS
<1>2. 0 \in Good
  BY <1>1
<1>3. ASSUME NEW k \in Nat, k \in Good PROVE k + 1 \in Good
  BY <1>1, <1>3
<1>4. Nat \subseteq Good
  <2> HIDE DEF Good
  <2>1. QED
    BY <1>2, <1>3, NatInduct
<1>5. PICK x : x \in S
  OBVIOUS
<1>6. x \in Good
  BY <1>4, <1>5
<1>7. QED
  BY <1>5, <1>6

-----------------------------------------------------------------------------
(* Sums.                                                                   *)

Sums(it, f, S) ==
  /\ it \in [SUBSET S -> Int]
  /\ \A s \in SUBSET S :
       it[s] = IF s = {} THEN 0
               ELSE f[CHOOSE x \in s : TRUE] + it[s \ {CHOOSE x \in s : TRUE}]

(* A sum is the value of a fold over the subsets of a set.                 *)
LEMMA SumUnfolded ==
  ASSUME NEW S, NEW f
  PROVE  SumFunctionOnSet(f, S) =
    (CHOOSE it : it = [s \in SUBSET S |-> IF s = {} THEN 0
               ELSE f[CHOOSE x \in s : TRUE] + it[s \ {CHOOSE x \in s : TRUE}]])[S]
BY Zenon DEF SumFunctionOnSet, FoldFunctionOnSet, MapThenFoldSet

(* The fold that computes a sum exists: it is defined for the sets of up   *)
(* to k elements, by induction on k.                                       *)
LEMMA SumsExist ==
  ASSUME NEW S, IsFiniteSet(S), NEW f, \A x \in S : f[x] \in Int
  PROVE  \E it : Sums(it, f, S)
<1> DEFINE Small(k) == {s \in SUBSET S : Cardinality(s) <= k}
           First(s) == CHOOSE x \in s : TRUE
           Upto(it, k) == /\ it \in [Small(k) -> Int]
                          /\ \A s \in Small(k) :
                               it[s] = IF s = {} THEN 0 ELSE f[First(s)] + it[s \ {First(s)}]
           Good == {k \in Nat : \E it : Upto(it, k)}
<1>1. \A s \in SUBSET S : IsFiniteSet(s) /\ Cardinality(s) \in Nat
  BY FS_Subset, FS_CardinalityType
<1>2. \A s \in SUBSET S : s # {} =>
        /\ First(s) \in s /\ s \ {First(s)} \in SUBSET S
        /\ Cardinality(s \ {First(s)}) = Cardinality(s) - 1
  BY <1>1, FS_RemoveElement
<1>3. \A s \in SUBSET S : Cardinality(s) = 0 <=> s = {}
  BY <1>1, FS_EmptySet
<1> HIDE DEF First
<1>4. 0 \in Good
  <2> DEFINE it == [s \in Small(0) |-> 0]
  <2>1. \A s \in Small(0) : s = {}
    BY <1>1, <1>3
  <2>2. Upto(it, 0)
    BY <2>1
  <2>3. QED
    BY <2>2
<1>5. \A k \in Nat : k \in Good => k + 1 \in Good
  <2> SUFFICES ASSUME NEW k \in Nat, k \in Good PROVE k + 1 \in Good
    OBVIOUS
  <2>0. PICK g : Upto(g, k)
    OBVIOUS
  <2> DEFINE it == [s \in Small(k + 1) |->
                IF s = {} THEN 0 ELSE f[First(s)] + g[s \ {First(s)}]]
  <2>1. \A s \in Small(k + 1) : s # {} =>
          s \ {First(s)} \in Small(k) /\ f[First(s)] \in Int
    <3> SUFFICES ASSUME NEW s \in Small(k + 1), s # {}
                 PROVE  s \ {First(s)} \in Small(k) /\ f[First(s)] \in Int
      OBVIOUS
    <3>1. s \in SUBSET S /\ First(s) \in s /\ Cardinality(s) \in Nat /\ Cardinality(s) <= k + 1
      BY <1>1, <1>2
    <3>2. f[First(s)] \in Int
      BY <3>1
    <3>3. QED
      BY <1>2, <3>1, <3>2
  <2>2. it \in [Small(k + 1) -> Int]
    BY <2>0, <2>1
  <2>3. \A s \in Small(k) : it[s] = g[s]
    <3> SUFFICES ASSUME NEW s \in Small(k) PROVE it[s] = g[s]
      OBVIOUS
    <3>1. s \in Small(k + 1)
      BY <1>1
    <3>2. it[s] = IF s = {} THEN 0 ELSE f[First(s)] + g[s \ {First(s)}]
      BY <3>1
    <3>3. QED
      BY <2>0, <3>2
  <2>4. Upto(it, k + 1)
    BY <2>1, <2>2, <2>3
  <2>5. \E h : Upto(h, k + 1)
    <3> HIDE DEF it, Upto
    <3>1. QED
      BY <2>4
  <2> HIDE DEF Upto
  <2>6. QED
    BY <2>5
<1>6. Cardinality(S) \in Good
  <2> HIDE DEF Good
  <2>1. QED
    BY <1>1, <1>4, <1>5, NatInduct
<1>7. Small(Cardinality(S)) = SUBSET S
  BY <1>1, FS_Subset
<1>8. QED
  BY <1>6, <1>7 DEF Sums, First

(* Which of its elements the fold takes first makes no difference.         *)
Commutes(it, f, S) == \A s \in SUBSET S : \A x \in s : it[s] = f[x] + it[s \ {x}]

LEMMA SumsCommute ==
  ASSUME NEW S, IsFiniteSet(S), NEW f, \A x \in S : f[x] \in Int, NEW it, Sums(it, f, S)
  PROVE  Commutes(it, f, S)
<1> DEFINE First(s) == CHOOSE x \in s : TRUE
           Good == {s \in SUBSET S : \A x \in s : it[s] = f[x] + it[s \ {x}]}
<1>1. \A s \in SUBSET S : \A y \in s :
         First(s) \in s /\ it[s] = f[First(s)] + it[s \ {First(s)}]
  BY DEF Sums
<1>2. \A s \in SUBSET S : it[s] \in Int
  BY DEF Sums
<1> HIDE DEF First
<1>3. ASSUME NEW s \in SUBSET S, \A x \in s : s \ {x} \in Good
      PROVE  s \in Good
  <2> SUFFICES ASSUME NEW x \in s PROVE it[s] = f[x] + it[s \ {x}]
    OBVIOUS
  <2>1. PICK c \in s : it[s] = f[c] + it[s \ {c}]
    BY <1>1
  <2>2. CASE x = c
    BY <2>1, <2>2
  <2>3. CASE x # c
    <3>1. (s \ {c}) \ {x} = (s \ {x}) \ {c} /\ x \in s \ {c} /\ c \in s \ {x}
      BY <2>3
    <3>2. it[s \ {c}] = f[x] + it[(s \ {c}) \ {x}]
      BY <1>3, <3>1
    <3>3. it[s \ {x}] = f[c] + it[(s \ {x}) \ {c}]
      BY <1>3, <3>1
    <3>4. f[x] \in Int /\ f[c] \in Int /\ it[(s \ {c}) \ {x}] \in Int
      BY <1>2
    <3>5. it[(s \ {c}) \ {x}] = it[(s \ {x}) \ {c}]
      BY <3>1
    <3>6. \A a, b, d \in Int : a + (b + d) = b + (a + d)
      OBVIOUS
    <3>7. QED
      BY <2>1, <3>2, <3>3, <3>4, <3>5, <3>6
  <2>4. QED
    BY <2>2, <2>3
<1>4. SUBSET S \subseteq Good
  <2> HIDE DEF Good
  <2>1. QED
    BY <1>3, SubsetInduction
<1>5. QED
  BY <1>4 DEF Commutes

(* Folds over two sets of functions that agree on a common part of them.   *)
LEMMA SumsAgree ==
  ASSUME NEW S, NEW f, NEW it, Sums(it, f, S), NEW R, NEW g, NEW jt, Sums(jt, g, R),
         NEW T, IsFiniteSet(T), T \subseteq S, T \subseteq R, \A x \in T : f[x] = g[x]
  PROVE  it[T] = jt[T]
<1> DEFINE First(s) == CHOOSE x \in s : TRUE
           Good == {s \in SUBSET T : it[s] = jt[s]}
<1>1. \A s \in SUBSET T : \A y \in s :
        First(s) \in s /\ it[s] = f[First(s)] + it[s \ {First(s)}]
                       /\ jt[s] = g[First(s)] + jt[s \ {First(s)}]
  BY DEF Sums
<1>2. it[{}] = jt[{}]
  BY DEF Sums
<1> HIDE DEF First
<1>3. ASSUME NEW s \in SUBSET T, \A x \in s : s \ {x} \in Good
      PROVE  s \in Good
  <2>1. CASE s = {}
    BY <1>2, <2>1
  <2>2. ASSUME NEW y \in s PROVE s \in Good
    <3> DEFINE c == First(s)
    <3>1. c \in s /\ it[s] = f[c] + it[s \ {c}] /\ jt[s] = g[c] + jt[s \ {c}]
      BY <1>1
    <3> HIDE DEF c
    <3>2. s \ {c} \in Good /\ f[c] = g[c]
      BY <1>3, <3>1
    <3>3. QED
      BY <3>1, <3>2
  <2>3. QED
    BY <2>1, <2>2
<1>4. SUBSET T \subseteq Good
  <2> HIDE DEF Good
  <2>1. QED
    BY <1>3, SubsetInduction
<1>5. QED
  BY <1>4

(* A sum is what any fold of the function yields.                          *)
LEMMA SumIsFold ==
  ASSUME NEW S, IsFiniteSet(S), NEW f, \A x \in S : f[x] \in Int
  PROVE  \E it : Sums(it, f, S) /\ SumFunctionOnSet(f, S) = it[S]
<1> DEFINE Fold(it) == it = [s \in SUBSET S |-> IF s = {} THEN 0
               ELSE f[CHOOSE x \in s : TRUE] + it[s \ {CHOOSE x \in s : TRUE}]]
           First(s) == CHOOSE x \in s : TRUE
           jt == CHOOSE jt : Fold(jt)
           Good == {s \in SUBSET S : jt[s] \in Int}
<1>1. PICK it : Sums(it, f, S)
  BY SumsExist
<1>2. Fold(it)
  BY <1>1 DEF Sums
<1>3. Fold(jt)
  <2> HIDE DEF Fold
  <2>1. QED
    BY <1>2
<1>4. SumFunctionOnSet(f, S) = jt[S]
  BY SumUnfolded
<1>5. jt = [s \in SUBSET S |-> IF s = {} THEN 0 ELSE f[First(s)] + jt[s \ {First(s)}]]
  BY <1>3
<1>6. \A s \in SUBSET S : \A y \in s : First(s) \in s
  OBVIOUS
<1> HIDE DEF jt, First
<1>7. ASSUME NEW s \in SUBSET S, \A x \in s : s \ {x} \in Good
      PROVE  s \in Good
  <2>1. CASE s = {}
    BY <1>5, <2>1
  <2>2. ASSUME NEW y \in s PROVE s \in Good
    <3>1. First(s) \in s /\ jt[s] = f[First(s)] + jt[s \ {First(s)}]
      BY <1>5, <1>6
    <3>2. s \ {First(s)} \in Good /\ f[First(s)] \in Int
      BY <1>7, <3>1
    <3>3. QED
      BY <3>1, <3>2
  <2>3. QED
    BY <2>1, <2>2
<1>8. SUBSET S \subseteq Good
  <2> HIDE DEF Good
  <2>1. QED
    BY <1>7, SubsetInduction
<1>9. jt \in [SUBSET S -> Int]
  BY <1>5, <1>8
<1>10. Sums(jt, f, S)
  BY <1>5, <1>9 DEF Sums, First
<1>11. QED
  BY <1>4, <1>10

(* The sum is an integer, nothing adds up to 0, and one element may be     *)
(* taken out of it.                                                        *)
LEMMA SumType ==
  ASSUME NEW S, IsFiniteSet(S), NEW f \in [S -> Int]
  PROVE  /\ SumFunctionOnSet(f, S) \in Int
         /\ S = {} => SumFunctionOnSet(f, S) = 0
<1>1. PICK it : Sums(it, f, S) /\ SumFunctionOnSet(f, S) = it[S]
  BY SumIsFold
<1>2. it[S] \in Int /\ it[{}] = 0
  BY <1>1 DEF Sums
<1>3. QED
  BY <1>1, <1>2

(* A fold yields the sum of each part of the set, ...                      *)
LEMMA SumOfPart ==
  ASSUME NEW S, IsFiniteSet(S), NEW f \in [S -> Int], NEW it, Sums(it, f, S),
         NEW T, T \subseteq S, NEW g \in [T -> Int], \A x \in T : f[x] = g[x]
  PROVE  it[T] = SumFunctionOnSet(g, T)
<1>1. IsFiniteSet(T)
  BY FS_Subset
<1>2. PICK jt : Sums(jt, g, T) /\ SumFunctionOnSet(g, T) = jt[T]
  BY <1>1, SumIsFold
<1>3. it[T] = jt[T]
  BY <1>1, <1>2, SumsAgree
<1>4. QED
  BY <1>2, <1>3

(* ... so that one element may be taken out of a sum.                      *)
LEMMA SumWithout ==
  ASSUME NEW S, IsFiniteSet(S), NEW f \in [S -> Int], NEW x \in S,
         NEW g \in [S \ {x} -> Int], \A y \in S \ {x} : f[y] = g[y]
  PROVE  SumFunctionOnSet(f, S) = f[x] + SumFunctionOnSet(g, S \ {x})
<1>1. PICK it : Sums(it, f, S) /\ SumFunctionOnSet(f, S) = it[S]
  BY SumIsFold
<1>2. it[S] = f[x] + it[S \ {x}]
  BY <1>1, SumsCommute DEF Commutes
<1>3. it[S \ {x}] = SumFunctionOnSet(g, S \ {x})
  BY <1>1, SumOfPart
<1>4. QED
  BY <1>1, <1>2, <1>3

(* Functions with the same values have the same sum.                       *)
LEMMA SumSame ==
  ASSUME NEW S, IsFiniteSet(S), NEW f \in [S -> Int], NEW g \in [S -> Int],
         \A x \in S : f[x] = g[x]
  PROVE  SumFunctionOnSet(f, S) = SumFunctionOnSet(g, S)
<1>1. f = g
  OBVIOUS
<1>2. QED
  BY <1>1


(* Zeros add up to 0.                                                      *)
LEMMA NothingAddsUp ==
  ASSUME NEW S, IsFiniteSet(S), NEW f \in [S -> Int], \A x \in S : f[x] = 0
  PROVE  SumFunctionOnSet(f, S) = 0
<1>1. PICK it : Sums(it, f, S) /\ SumFunctionOnSet(f, S) = it[S]
  BY SumIsFold
<1>2. Commutes(it, f, S)
  BY <1>1, SumsCommute
<1> DEFINE Good == {T \in SUBSET S : it[T] = 0}
<1>3. ASSUME NEW T \in SUBSET S, \A x \in T : T \ {x} \in Good
      PROVE  T \in Good
  <2>1. CASE T = {}
    BY <1>1, <2>1 DEF Sums
  <2>2. ASSUME NEW x \in T PROVE T \in Good
    <3>1. it[T] = f[x] + it[T \ {x}] /\ it[T \ {x}] = 0 /\ f[x] = 0
      BY <1>2, <1>3 DEF Commutes
    <3>2. QED
      BY <3>1
  <2>3. QED
    BY <2>1, <2>2
<1>4. SUBSET S \subseteq Good
  <2> HIDE DEF Good
  <2>1. QED
    BY <1>3, SubsetInduction
<1>5. QED
  BY <1>1, <1>4

(* A sum is no less than what some of its elements add up to.              *)
LEMMA SumAtLeast ==
  ASSUME NEW S, IsFiniteSet(S), NEW f \in [S -> Nat], NEW T, T \subseteq S,
         NEW v \in Nat, \A x \in T : v <= f[x]
  PROVE  v * Cardinality(T) <= SumFunctionOnSet(f, S)
<1> DEFINE Size(R) == Cardinality(R \cap T)
<1>1. f \in [S -> Int] /\ \A x \in S : f[x] \in Int
  OBVIOUS
<1>2. PICK it : Sums(it, f, S) /\ SumFunctionOnSet(f, S) = it[S]
  BY <1>1, SumIsFold
<1>3. Commutes(it, f, S)
  BY <1>1, <1>2, SumsCommute
<1>4. \A R \in SUBSET S : it[R] \in Int
  BY <1>2 DEF Sums
<1>5. \A R \in SUBSET S : Size(R) \in Nat
  BY FS_Subset, FS_CardinalityType
<1>6. ASSUME NEW R \in SUBSET S, NEW x \in R
      PROVE  Size(R) = IF x \in T THEN Size(R \ {x}) + 1 ELSE Size(R \ {x})
  <2>1. IsFiniteSet(R \cap T)
    BY FS_Subset
  <2>2. CASE x \in T
    <3>1. (R \ {x}) \cap T = (R \cap T) \ {x} /\ x \in R \cap T
      BY <1>6, <2>2
    <3>2. Cardinality((R \cap T) \ {x}) = Cardinality(R \cap T) - 1
      BY <2>1, <3>1, FS_RemoveElement
    <3>3. Cardinality(R \cap T) \in Nat
      BY <2>1, FS_CardinalityType
    <3>4. QED
      BY <2>2, <3>1, <3>2, <3>3
  <2>3. CASE x \notin T
    <3>1. (R \ {x}) \cap T = R \cap T
      BY <2>3
    <3>2. QED
      BY <2>3, <3>1
  <2>4. QED
    BY <2>2, <2>3
<1>7. Size({}) = 0
  <2>1. {} \cap T = {}
    OBVIOUS
  <2>2. QED
    BY <2>1, FS_EmptySet
<1>8. Size(S) = Cardinality(T)
  <2>1. S \cap T = T
    OBVIOUS
  <2>2. QED
    BY <2>1
<1> HIDE DEF Size
<1> DEFINE Good == {R \in SUBSET S : v * Size(R) <= it[R]}
<1>9. ASSUME NEW R \in SUBSET S, \A x \in R : R \ {x} \in Good PROVE R \in Good
  <2>1. CASE R = {}
    BY <1>2, <1>7, <2>1 DEF Sums
  <2>2. ASSUME NEW x \in R PROVE R \in Good
    <3>1. it[R] = f[x] + it[R \ {x}] /\ v * Size(R \ {x}) <= it[R \ {x}]
      BY <1>3, <1>9, <2>2 DEF Commutes
    <3>2. R \ {x} \in SUBSET S
      OBVIOUS
    <3> DEFINE k == Size(R \ {x})
               w == it[R \ {x}]
    <3>3. k \in Nat /\ w \in Int /\ f[x] \in Nat
      BY <1>4, <1>5, <3>2
    <3>4. Size(R) = IF x \in T THEN k + 1 ELSE k
      BY <1>6, <2>2
    <3>5. v * k <= w /\ it[R] = f[x] + w
      BY <3>1
    <3> HIDE DEF k, w
    <3>6. CASE x \in T
      <4>1. v * (k + 1) = v * k + v /\ v * k \in Int
        BY <3>3
      <4>2. v <= f[x]
        BY <3>6
      <4>3. v * (k + 1) <= it[R]
        BY <3>3, <3>5, <4>1, <4>2
      <4>4. QED
        BY <3>4, <3>6, <4>3
    <3>7. CASE x \notin T
      <4>1. v * k \in Int
        BY <3>3
      <4>2. v * k <= it[R]
        BY <3>3, <3>5, <4>1
      <4>3. QED
        BY <3>4, <3>7, <4>2
    <3>8. QED
      BY <3>6, <3>7
  <2>3. QED
    BY <2>1, <2>2
<1>10. S \in Good
  <2> HIDE DEF Good
  <2>1. QED
    BY <1>9, SubsetInduction
<1>11. QED
  BY <1>2, <1>8, <1>10

-----------------------------------------------------------------------------
(* Bags: how often each value is among those of a function, and a bag in   *)
(* which one y took the place of one x.                                    *)

BagOf(S, E) == [e \in {E[p] : p \in S} |-> Cardinality({p \in S : E[p] = e})]

Changed(B, x, y) ==
  [e \in (DOMAIN B \ IF B[x] = 1 THEN {x} ELSE {}) \cup {y} |->
     (IF e \in DOMAIN B THEN B[e] ELSE 0) - (IF e = x THEN 1 ELSE 0) + (IF e = y THEN 1 ELSE 0)]

Positive(B) == \A e \in DOMAIN B : B[e] \in Nat /\ B[e] > 0

LEMMA BagType ==
  ASSUME NEW S, IsFiniteSet(S), NEW E
  PROVE  Positive(BagOf(S, E))
<1> SUFFICES ASSUME NEW p \in S
             PROVE  LET K == {q \in S : E[q] = E[p]}
                    IN  Cardinality(K) \in Nat /\ Cardinality(K) > 0
  BY DEF BagOf, Positive
<1> DEFINE K == {q \in S : E[q] = E[p]}
<1>1. IsFiniteSet(K) /\ K # {}
  BY FS_Subset
<1> HIDE DEF K
<1>2. Cardinality(K) \in Nat /\ Cardinality(K) # 0
  BY <1>1, FS_CardinalityType, FS_EmptySet
<1>3. Cardinality(K) > 0
  BY <1>2
<1>4. QED
  BY <1>2, <1>3 DEF K

(* Another value at one point is another element of the bag.               *)
LEMMA BagChanges ==
  ASSUME NEW S, IsFiniteSet(S), NEW E, NEW F, NEW t \in S, \A p \in S \ {t} : F[p] = E[p]
  PROVE  /\ E[t] \in DOMAIN BagOf(S, E)
         /\ BagOf(S, F) = Changed(BagOf(S, E), E[t], F[t])
<1> DEFINE x == E[t]
           y == F[t]
           K(e) == {p \in S : E[p] = e}
           L(e) == {p \in S : F[p] = e}
           R(e) == {p \in S \ {t} : E[p] = e}
           B == BagOf(S, E)
<1>1. \A e : IsFiniteSet(K(e)) /\ IsFiniteSet(L(e)) /\ IsFiniteSet(R(e))
  BY FS_Subset
<1>2. \A e : /\ K(e) \ {t} = R(e) /\ (t \in K(e) <=> e = x)
             /\ L(e) \ {t} = R(e) /\ (t \in L(e) <=> e = y)
  OBVIOUS
<1>3. DOMAIN B = {E[p] : p \in S} /\ \A e \in DOMAIN B : B[e] = Cardinality(K(e))
  BY DEF BagOf
<1>4. \A e : (e \in DOMAIN B <=> K(e) # {}) /\ (e \in {F[p] : p \in S} <=> L(e) # {})
  BY <1>3
<1>5. x \in DOMAIN B
  BY <1>3
<1>6. BagOf(S, F) = [e \in {F[p] : p \in S} |-> Cardinality(L(e))]
  BY DEF BagOf
<1> HIDE DEF x, y, K, L, R, B
<1>7. ASSUME NEW e
      PROVE  /\ Cardinality(R(e)) \in Nat
             /\ Cardinality(K(e)) = Cardinality(R(e)) + (IF e = x THEN 1 ELSE 0)
             /\ Cardinality(L(e)) = Cardinality(R(e)) + (IF e = y THEN 1 ELSE 0)
  <2>1. /\ Cardinality(R(e)) \in Nat /\ Cardinality(K(e)) \in Nat /\ Cardinality(L(e)) \in Nat
    BY <1>1, FS_CardinalityType
  <2>2. Cardinality(K(e) \ {t}) = IF t \in K(e) THEN Cardinality(K(e)) - 1 ELSE Cardinality(K(e))
    BY <1>1, FS_RemoveElement
  <2>3. Cardinality(L(e) \ {t}) = IF t \in L(e) THEN Cardinality(L(e)) - 1 ELSE Cardinality(L(e))
    BY <1>1, FS_RemoveElement
  <2>4. K(e) \ {t} = R(e) /\ (t \in K(e) <=> e = x)
    BY <1>2
  <2>5. L(e) \ {t} = R(e) /\ (t \in L(e) <=> e = y)
    BY <1>2
  <2>6. Cardinality(R(e)) = IF e = x THEN Cardinality(K(e)) - 1 ELSE Cardinality(K(e))
    BY <2>2, <2>4
  <2>7. Cardinality(R(e)) = IF e = y THEN Cardinality(L(e)) - 1 ELSE Cardinality(L(e))
    BY <2>3, <2>5
  <2>8. QED
    BY <2>1, <2>6, <2>7
<1>8. \A e : /\ K(e) # {} <=> Cardinality(K(e)) # 0
             /\ L(e) # {} <=> Cardinality(L(e)) # 0
  BY <1>1, FS_EmptySet
<1>9. {F[p] : p \in S} = (DOMAIN B \ IF B[x] = 1 THEN {x} ELSE {}) \cup {y}
  <2>1. ASSUME NEW e
        PROVE  e \in {F[p] : p \in S} <=> e \in (DOMAIN B \ IF B[x] = 1 THEN {x} ELSE {}) \cup {y}
    <3>1. B[x] = Cardinality(K(x))
      BY <1>3, <1>5
    <3>2. CASE e = y
      BY <1>4, <1>7, <1>8, <3>2
    <3>3. CASE e # y /\ e = x
      BY <1>4, <1>5, <1>7, <1>8, <3>1, <3>3
    <3>4. CASE e # y /\ e # x
      BY <1>4, <1>7, <1>8, <3>4
    <3>5. QED
      BY <3>2, <3>3, <3>4
  <2>2. QED
    BY <2>1
<1>10. \A e \in {F[p] : p \in S} : Cardinality(L(e)) =
         (IF e \in DOMAIN B THEN B[e] ELSE 0) - (IF e = x THEN 1 ELSE 0) + (IF e = y THEN 1 ELSE 0)
  <2> SUFFICES ASSUME NEW e
               PROVE  Cardinality(L(e)) = (IF e \in DOMAIN B THEN B[e] ELSE 0)
                        - (IF e = x THEN 1 ELSE 0) + (IF e = y THEN 1 ELSE 0)
    OBVIOUS
  <2>1. (IF e \in DOMAIN B THEN B[e] ELSE 0) = Cardinality(K(e))
    BY <1>3, <1>4, <1>8
  <2>2. QED
    BY <1>7, <2>1
<1>11. BagOf(S, F) = Changed(B, x, y)
  BY <1>6, <1>9, <1>10 DEF Changed
<1>12. QED
  BY <1>5, <1>11 DEF x, y, B

(* The same values at other points are the same bag.                       *)
LEMMA BagStays ==
  ASSUME NEW S, IsFiniteSet(S), NEW E, NEW F, NEW O \in [S -> S],
         \A p \in S : O[O[p]] = p /\ F[p] = E[O[p]]
  PROVE  BagOf(S, F) = BagOf(S, E)
<1> DEFINE K(e) == {p \in S : E[p] = e}
           L(e) == {p \in S : F[p] = e}
<1>1. {F[p] : p \in S} = {E[p] : p \in S}
  <2>1. \A p \in S : O[p] \in S /\ F[O[p]] = E[p]
    OBVIOUS
  <2>2. QED
    BY <2>1
<1>2. ASSUME NEW e PROVE Cardinality(L(e)) = Cardinality(K(e))
  <2> DEFINE f == [p \in K(e) |-> O[p]]
  <2>1. f \in [K(e) -> L(e)] /\ \A p \in L(e) : O[p] \in K(e) /\ f[O[p]] = p
    OBVIOUS
  <2>2. \A p, q \in K(e) : f[p] = f[q] => p = q
    OBVIOUS
  <2>3. IsFiniteSet(K(e))
    BY FS_Subset
  <2> HIDE DEF f, K, L
  <2>4. f \in Injection(K(e), L(e))
    BY <2>1, <2>2 DEF Injection, IsInjective
  <2>5. f \in Surjection(K(e), L(e))
    BY <2>1 DEF Surjection
  <2>6. ExistsBijection(K(e), L(e))
    BY <2>4, <2>5 DEF ExistsBijection, Bijection
  <2>7. QED
    BY <2>3, <2>6, FS_Bijection
<1>3. QED
  BY <1>1, <1>2 DEF BagOf

(* Changed takes one x out of the bag and puts one y in.                   *)
TakenOut(B, x) ==
  LET C == [e \in DOMAIN B |-> IF e \in {x} THEN B[e] - 1 ELSE B[e]]
  IN  [e \in {d \in DOMAIN C : C[d] > 0} |-> C[e]]

PutIn(B, y) ==
  [e \in DOMAIN B \cup {y} |->
     (IF e \in DOMAIN B THEN B[e] ELSE 0) + (IF e \in {y} THEN 1 ELSE 0)]

LEMMA ChangedIs ==
  ASSUME NEW B, Positive(B), NEW x \in DOMAIN B, NEW y
  PROVE  PutIn(TakenOut(B, x), y) = Changed(B, x, y)
<1> USE DEF Positive
<1> DEFINE C == [e \in DOMAIN B |-> IF e \in {x} THEN B[e] - 1 ELSE B[e]]
           D == [e \in {d \in DOMAIN C : C[d] > 0} |-> C[e]]
           Rest == DOMAIN B \ IF B[x] = 1 THEN {x} ELSE {}
<1>1. {d \in DOMAIN C : C[d] > 0} = Rest
  <2>1. \A d \in DOMAIN B : C[d] > 0 <=> ~(d = x /\ B[x] = 1)
    OBVIOUS
  <2>2. QED
    BY <2>1
<1>2. DOMAIN D = Rest /\ \A e \in Rest : D[e] = IF e = x THEN B[e] - 1 ELSE B[e]
  BY <1>1
<1> HIDE DEF D
<1>3. \A e \in Rest \cup {y} :
        (IF e \in DOMAIN D THEN D[e] ELSE 0) + (IF e \in {y} THEN 1 ELSE 0) =
          (IF e \in DOMAIN B THEN B[e] ELSE 0) - (IF e = x THEN 1 ELSE 0)
            + (IF e = y THEN 1 ELSE 0)
  <2> SUFFICES ASSUME NEW e
               PROVE  (IF e \in DOMAIN D THEN D[e] ELSE 0) + (IF e \in {y} THEN 1 ELSE 0) =
                        (IF e \in DOMAIN B THEN B[e] ELSE 0) - (IF e = x THEN 1 ELSE 0)
                          + (IF e = y THEN 1 ELSE 0)
    OBVIOUS
  <2>1. CASE e = x /\ B[x] = 1
    BY <1>2, <2>1
  <2>2. CASE e = x /\ B[x] # 1
    BY <1>2, <2>2
  <2>3. CASE e # x
    BY <1>2, <2>3
  <2>4. QED
    BY <2>1, <2>2, <2>3
<1>4. [e \in DOMAIN D \cup {y} |->
         (IF e \in DOMAIN D THEN D[e] ELSE 0) + (IF e \in {y} THEN 1 ELSE 0)]
      = Changed(B, x, y)
  BY <1>2, <1>3 DEF Changed
<1>5. D = TakenOut(B, x)
  BY DEF D, TakenOut
<1>6. QED
  BY <1>4, <1>5 DEF PutIn
=============================================================================
