-------------------------- MODULE HeavyHittersProofs --------------------------
(***************************************************************************)
(* Proofs about the sketches, for any number of items, buckets, counters,  *)
(* nodes and puts.                                                         *)
(***************************************************************************)
EXTENDS HeavyHitters, SumLemmas, SequenceTheorems

USE SketchAssumptions

-----------------------------------------------------------------------------
(* GeneralLazySS                                                           *)

LazyProofs == INSTANCE GeneralLazySSProofs

(* The proofs about GeneralLazySS have copies of its definitions.          *)
LEMMA LazySetting == LazyProofs!Setting
BY SketchAssumptions DEF LazyProofs!Setting, LazyProofs!SizeAssumption, Lazy!SizeAssumption,
   LazyProofs!HashAssumption, Lazy!HashAssumption, LazyProofs!NullAssumption,
   Lazy!NullAssumption

LEMMA LazySets ==
  /\ LazyProofs!Place = Lazy!Place /\ LazyProofs!Pointer = Lazy!Pointer
  /\ LazyProofs!Bucket = Lazy!Bucket /\ LazyProofs!root = Lazy!root
  /\ LazyProofs!Sound = Lazy!Sound /\ LazyProofs!Cell = Lazy!Cell
  /\ \A S : LazyProofs!Min(S) = Lazy!Min(S)
  /\ \A S : LazyProofs!Cardinality(S) = Lazy!Cardinality(S)
<1>1. /\ LazyProofs!Place = Lazy!Place /\ LazyProofs!Pointer = Lazy!Pointer
      /\ LazyProofs!Bucket = Lazy!Bucket /\ LazyProofs!root = Lazy!root
  BY DEF LazyProofs!Place, Lazy!Place, LazyProofs!Pointer, Lazy!Pointer, LazyProofs!Bucket,
     Lazy!Bucket, LazyProofs!root, Lazy!root
<1>2. LazyProofs!Sound = Lazy!Sound
  BY DEF LazyProofs!Sound, Lazy!Sound
<1>3. LazyProofs!Cell = Lazy!Cell
  BY <1>1, Zenon DEF LazyProofs!Cell, Lazy!Cell
<1>4. \A S : LazyProofs!Min(S) = Lazy!Min(S)
  BY Zenon DEF LazyProofs!Min, Lazy!Min
<1>5. \A S : LazyProofs!Cardinality(S) = Lazy!Cardinality(S)
  BY Zenon DEF LazyProofs!IsFiniteSet, Lazy!IsFiniteSet, LazyProofs!Cardinality,
     Lazy!Cardinality
<1>6. QED
  BY <1>1, <1>2, <1>3, <1>4, <1>5

LEMMA LazyFind ==
  /\ \A b : LazyProofs!Chain(b) = Lazy!Chain(b)
  /\ \A i : LazyProofs!find(i) = Lazy!find(i)
<1>1. \A b : LazyProofs!Chain(b) = Lazy!Chain(b)
  BY LazySets, Zenon DEF LazyProofs!Chain, Lazy!Chain
<1>2. \A i : LazyProofs!find(i) = Lazy!find(i)
  BY <1>1, LazySets, Zenon DEF LazyProofs!find, Lazy!find
<1>3. QED
  BY <1>1, <1>2

LEMMA LazyInitIs == Lazy!Init <=> LazyProofs!Init
BY LazySets, Zenon DEF LazyProofs!Init, Lazy!Init, LazyProofs!InitCounting, Lazy!InitCounting

LEMMA LazyHitIs == \A i : Lazy!Hit(i) <=> LazyProofs!Hit(i)
BY LazyFind, Zenon DEF LazyProofs!Hit, Lazy!Hit, LazyProofs!Tally, Lazy!Tally

LEMMA LazyEvictIs == \A i : Lazy!Evict(i) <=> LazyProofs!Evict(i)
<1>1. LazyProofs!TableWithoutRoot = Lazy!TableWithoutRoot
  BY LazySets, Zenon DEF LazyProofs!TableWithoutRoot, Lazy!TableWithoutRoot
<1>2. LazyProofs!CountersWithoutRoot = Lazy!CountersWithoutRoot
  BY LazySets, Zenon DEF LazyProofs!CountersWithoutRoot, Lazy!CountersWithoutRoot
<1>3. \A i : Lazy!Tally(i) <=> LazyProofs!Tally(i)
  BY Zenon DEF LazyProofs!Tally, Lazy!Tally
<1>4. LazyProofs!root = Lazy!root /\ LazyProofs!Place = Lazy!Place
  BY LazySets
<1>5. ASSUME NEW i, NEW c, NEW d
      PROVE  LazyProofs!EvictInto(i, c, d) <=> Lazy!EvictInto(i, c, d)
  <2>1. LazyProofs!find(i) = Lazy!find(i) /\ (LazyProofs!Tally(i) <=> Lazy!Tally(i))
    BY <1>3, LazyFind
  <2>2. QED
    BY <1>1, <1>2, <1>4, <2>1 DEF LazyProofs!EvictInto, Lazy!EvictInto
<1>6. QED
  BY <1>4, <1>5, Zenon DEF LazyProofs!Evict, Lazy!Evict

LEMMA LazySiftIs ==
  /\ Lazy!SiftDone <=> LazyProofs!SiftDone
  /\ Lazy!SiftDown <=> LazyProofs!SiftDown
<1>1. LazyProofs!minchild = Lazy!minchild
  BY Zenon DEF LazyProofs!minchild, Lazy!minchild
<1>2. LazyProofs!AtRest <=> Lazy!AtRest
  BY <1>1, Zenon DEF LazyProofs!AtRest, Lazy!AtRest
<1>3. LazyProofs!SwapWithinChain <=> Lazy!SwapWithinChain
  BY <1>1, Zenon DEF LazyProofs!SwapWithinChain, Lazy!SwapWithinChain
<1>4. \A c, p : LazyProofs!Relinked(c, p) = Lazy!Relinked(c, p)
  BY LazySets, Zenon DEF LazyProofs!Relinked, Lazy!Relinked
<1>5. \A h, c, p : LazyProofs!Reheaded(h, c, p) = Lazy!Reheaded(h, c, p)
  BY Zenon DEF LazyProofs!Reheaded, Lazy!Reheaded
<1>6. LazyProofs!SwapAcrossChains <=> Lazy!SwapAcrossChains
  BY <1>1, <1>4, <1>5, Zenon DEF LazyProofs!SwapAcrossChains, Lazy!SwapAcrossChains
<1>7. Lazy!SiftDone <=> LazyProofs!SiftDone
  BY <1>2, Zenon DEF LazyProofs!SiftDone, Lazy!SiftDone
<1>8. Lazy!SiftDown <=> LazyProofs!SiftDown
  BY <1>1, <1>2, <1>3, <1>6, Zenon DEF LazyProofs!SiftDown, Lazy!SiftDown
<1>9. QED
  BY <1>7, <1>8

LEMMA LazyNextIs == [Lazy!Next]_(Lazy!vars) <=> [LazyProofs!Next]_(LazyProofs!vars)
<1>1. Lazy!Next <=> LazyProofs!Next
  BY LazyHitIs, LazyEvictIs, LazySiftIs, Zenon DEF LazyProofs!Next, Lazy!Next
<1>2. QED
  BY <1>1, Zenon DEF LazyProofs!vars, Lazy!vars

LEMMA LazySafe ==
  LazyProofs!IInv =>
    /\ Lazy!TypeOK /\ Lazy!FoundWhereItIs /\ Lazy!ChainsEnd
    /\ Lazy!WithinDelta /\ Lazy!HotTracked /\ Lazy!HotListed
<1> SUFFICES ASSUME LazyProofs!IInv
             PROVE  /\ Lazy!TypeOK /\ Lazy!FoundWhereItIs /\ Lazy!ChainsEnd
                    /\ Lazy!WithinDelta /\ Lazy!HotTracked /\ Lazy!HotListed
  OBVIOUS
<1>1. /\ LazyProofs!TypeOK /\ LazyProofs!FoundWhereItIs /\ LazyProofs!ChainsEnd
      /\ LazyProofs!WithinDelta /\ LazyProofs!HotTracked /\ LazyProofs!HotListed
  BY LazySetting, LazyProofs!InvMeansSafe, LazyProofs!InvMeansTracked,
     LazyProofs!InvMeansListed
<1>2. Lazy!TypeOK
  BY <1>1, LazySets, Zenon DEF LazyProofs!TypeOK, Lazy!TypeOK
<1>3. Lazy!FoundWhereItIs
  BY <1>1, LazySets, LazyFind, Zenon DEF LazyProofs!FoundWhereItIs, Lazy!FoundWhereItIs
<1>4. Lazy!ChainsEnd
  BY <1>1, LazySets, LazyFind, Zenon DEF LazyProofs!ChainsEnd, Lazy!ChainsEnd
<1>5. Lazy!WithinDelta
  BY <1>1, LazySets, LazyFind, Zenon DEF LazyProofs!WithinDelta, Lazy!WithinDelta
<1>6. Lazy!HotTracked
  BY <1>1, LazySets, LazyFind, Zenon DEF LazyProofs!HotTracked, Lazy!HotTracked
<1>7. Lazy!HotListed
  <2>1. \A p : LazyProofs!output(p) = Lazy!output(p)
    BY LazySets, Zenon DEF LazyProofs!output, Lazy!output, LazyProofs!comp, Lazy!comp
  <2>2. QED
    BY <1>1, <2>1, LazySets, LazyFind, Zenon DEF LazyProofs!HotListed, Lazy!HotListed
<1>8. QED
  BY <1>2, <1>3, <1>4, <1>5, <1>6, <1>7

-----------------------------------------------------------------------------
(* SS                                                                      *)

(* SS has its own copies of the operators of FiniteSets.                   *)
LEMMA StreamSets ==
  /\ \A S : Stream!IsFiniteSet(S) <=> IsFiniteSet(S)
  /\ \A S : Stream!Cardinality(S) = Cardinality(S)
<1>1. \A S : Stream!IsFiniteSet(S) <=> IsFiniteSet(S)
  BY Zenon DEF Stream!IsFiniteSet, IsFiniteSet
<1>2. \A S : Stream!Cardinality(S) = Cardinality(S)
  BY Zenon DEF Stream!IsFiniteSet, IsFiniteSet, Stream!Cardinality, Cardinality
<1>3. QED
  BY <1>1, <1>2

(* A set of naturals has a least element.                                  *)
LEMMA LeastNatural ==
  ASSUME NEW S \in SUBSET Nat, S # {}
  PROVE  Stream!Min(S) \in S /\ \A y \in S : Stream!Min(S) <= y
<1> DEFINE L(x) == x \in S /\ \A y \in S : x <= y
<1>1. Stream!Min(S) = CHOOSE x : L(x)
  BY Zenon DEF Stream!Min
<1>2. \E x : L(x)
  BY LeastExists
<1> HIDE DEF L
<1>3. L(Stream!Min(S))
  BY <1>1, <1>2
<1>4. QED
  BY <1>3 DEF L

(* Sets that part another one have as many elements together.              *)
LEMMA PartsAddUp ==
  ASSUME NEW D, IsFiniteSet(D), NEW part \in [D -> Nat],
         NEW size, size \in [{part[i] : i \in D} -> Int],
         \A k \in {part[i] : i \in D} : size[k] = Cardinality({i \in D : part[i] = k})
  PROVE  SumFunctionOnSet(size, {part[i] : i \in D}) = Cardinality(D)
<1> DEFINE K == {part[i] : i \in D}
           At(k) == {i \in D : part[i] = k}
           Within(T) == {i \in D : part[i] \in T}
<1>1. IsFiniteSet(K)
  <2>1. part \in Surjection(D, K)
    BY DEF Surjection
  <2>2. QED
    BY <2>1, FS_Surjection
<1>2. PICK it : Sums(it, size, K) /\ SumFunctionOnSet(size, K) = it[K]
  BY <1>1, SumIsFold
<1> DEFINE Good == {T \in SUBSET K : it[T] = Cardinality(Within(T))}
<1>3. ASSUME NEW T \in SUBSET K, \A k \in T : T \ {k} \in Good
      PROVE  T \in Good
  <2>1. CASE T = {}
    <3>1. Within(T) = {} /\ it[T] = 0
      BY <1>2, <2>1 DEF Sums
    <3>2. QED
      BY <3>1, FS_EmptySet
  <2>2. ASSUME NEW k \in T PROVE it[T] = Cardinality(Within(T))
    <3>1. it[T] = size[k] + it[T \ {k}]
      <4>1. Commutes(it, size, K)
        <5>1. \A x \in K : size[x] \in Int
          OBVIOUS
        <5> HIDE DEF K
        <5>2. QED
          BY <1>1, <1>2, <5>1, SumsCommute
      <4>2. QED
        BY <4>1 DEF Commutes
    <3>2. it[T \ {k}] = Cardinality(Within(T \ {k})) /\ size[k] = Cardinality(At(k))
      BY <1>3
    <3>3. Within(T) = At(k) \cup Within(T \ {k}) /\ At(k) \cap Within(T \ {k}) = {}
      OBVIOUS
    <3>4. IsFiniteSet(At(k)) /\ IsFiniteSet(Within(T \ {k}))
      BY FS_Subset
    <3> DEFINE A == At(k)
               B == Within(T \ {k})
    <3>5. Cardinality(A \cup B) = Cardinality(A) + Cardinality(B) - Cardinality({})
      <4>1. A \cap B = {} /\ IsFiniteSet(A) /\ IsFiniteSet(B)
        BY <3>3, <3>4
      <4> HIDE DEF A, B
      <4>2. QED
        BY <4>1, FS_Union
    <3>6. Cardinality(At(k)) \in Nat /\ Cardinality(Within(T \ {k})) \in Nat
      BY <3>4, FS_CardinalityType
    <3>7. QED
      <4>1. Cardinality({}) = 0
        BY FS_EmptySet
      <4>2. Within(T) = A \cup B
        BY <3>3
      <4>3. it[T \ {k}] = Cardinality(B) /\ size[k] = Cardinality(A)
        BY <3>2
      <4>4. Cardinality(A) \in Nat /\ Cardinality(B) \in Nat
        BY <3>6
      <4> HIDE DEF A, B, Within
      <4>5. QED
        BY <3>1, <3>5, <4>1, <4>2, <4>3, <4>4
  <2>3. QED
    BY <2>1, <2>2
<1>4. SUBSET K \subseteq Good
  <2> HIDE DEF Good, K
  <2>1. QED
    BY <1>1, <1>3, SubsetInduction
<1>5. Within(K) = D /\ it[K] = Cardinality(Within(K))
  BY <1>4
<1>6. QED
  BY <1>2, <1>5

(* What the assumptions say of the sizes.                                  *)
LEMMA StreamSizes == m \in Nat /\ m > 0 /\ kMaxPuts \in Nat /\ narrow \in [Few -> Few]
BY DEF Stream!CapacityAssumption, Stream!NarrowAssumption

CounterUpTo(k) == [v : Few, f : 1..k, e : 0..k]

(* A put of SS stays within the bounds of the invariant.                   *)
LEMMA StreamTally ==
  ASSUME Stream!Typed, NEW i \in Few, Stream!Tally(i)
  PROVE  /\ n \in Nat /\ n' = n + 1 /\ n' \in 0..kMaxPuts /\ freq' \in [Few -> 0..n']
         /\ CounterUpTo(n) \subseteq CounterUpTo(n')
         /\ pool \in Seq(CounterUpTo(n)) /\ pool \in Seq(CounterUpTo(n'))
<1>1. n \in Nat /\ kMaxPuts \in Nat /\ freq \in [Few -> 0..n] /\ pool \in Seq(CounterUpTo(n))
  BY StreamSizes DEF Stream!Typed, CounterUpTo
<1>2. n' = n + 1 /\ n' \in 0..kMaxPuts /\ freq' = [freq EXCEPT ![i] = @ + 1]
  BY <1>1 DEF Stream!Tally
<1>3. \A k \in 0..n : k \in 0..n' /\ k + 1 \in 0..n'
  BY <1>1, <1>2
<1>4. CounterUpTo(n) \subseteq CounterUpTo(n')
  BY <1>1, <1>2 DEF CounterUpTo
<1>5. Seq(CounterUpTo(n)) \subseteq Seq(CounterUpTo(n'))
  BY <1>4
<1>6. QED
  BY <1>1, <1>2, <1>3, <1>4, <1>5

(* The counters in use: each has a place, and a count up to n.             *)
LEMMA StreamCounters ==
  ASSUME Stream!Typed
  PROVE  /\ n \in Nat /\ pool \in Seq(CounterUpTo(n)) /\ Len(pool) \in Nat
         /\ DOMAIN pool = 1..Len(pool)
         /\ \A c \in DOMAIN pool :
              /\ pool[c] \in CounterUpTo(n)
              /\ pool[c].v \in Few /\ pool[c].f \in 1..n /\ pool[c].e \in 0..n
<1>1. n \in Nat /\ pool \in Seq(CounterUpTo(n))
  BY StreamSizes DEF Stream!Typed, CounterUpTo
<1>2. Len(pool) \in Nat /\ DOMAIN pool = 1..Len(pool)
  BY <1>1, LenProperties
<1>3. \A c \in DOMAIN pool : pool[c] \in CounterUpTo(n)
  BY <1>1, <1>2, ElementOfSeq
<1>4. QED
  BY <1>1, <1>2, <1>3 DEF CounterUpTo

(* Counter c has moved from the entry of its count to the next one.        *)
Moves(c, f, new) ==
  /\ c \in DOMAIN pool /\ f \in DOMAIN index /\ pool[c].f = f
  /\ index' = Stream!Moved(pool[c].v, c, f)
  /\ pool' = [pool EXCEPT ![c] = new]
  /\ new \in CounterUpTo(n + 1) /\ new.f = f + 1

(* What it means for the entries.                                          *)
LEMMA EntriesMoved ==
  ASSUME Stream!Typed, Stream!EntriesSound, NEW c, NEW f, NEW new, Moves(c, f, new)
  PROVE  /\ f \in 1..n /\ DOMAIN pool' = DOMAIN pool
         /\ pool'[c] = new /\ \A d \in DOMAIN pool : d # c => pool'[d] = pool[d]
         /\ f + 1 \in DOMAIN index'
         /\ \A g \in DOMAIN index' :
              /\ g \in DOMAIN index \/ g = f + 1
              /\ index'[g] # {} /\ index'[g] \subseteq DOMAIN pool
              /\ \A d \in index'[g] : pool'[d].f = g
         /\ \A d \in DOMAIN pool :
              d # c /\ pool[d].f \in DOMAIN index /\ d \in index[pool[d].f] /\ pool[d].v # pool[c].v
                => pool[d].f \in DOMAIN index' /\ d \in index'[pool[d].f]
         /\ c \in index'[f + 1]
<1> DEFINE v == pool[c].v
           D == Stream!del(v, f)
<1>1. /\ n \in Nat /\ c \in DOMAIN pool /\ f \in DOMAIN index /\ f \in 1..n
      /\ pool[c].f = f /\ new.f = f + 1
  BY StreamCounters DEF Moves
<1>2. /\ DOMAIN pool' = DOMAIN pool /\ pool'[c] = new
      /\ \A d \in DOMAIN pool : d # c => pool'[d] = pool[d]
  BY <1>1 DEF Moves
<1>3. /\ DOMAIN index' = (DOMAIN index \ {h \in {f} : D = {}}) \cup {f + 1}
      /\ \A g \in DOMAIN index' : index'[g] =
           (IF g = f THEN D ELSE Stream!Entry(g)) \cup (IF g = f + 1 THEN {c} ELSE {})
  BY DEF Moves, Stream!Moved
<1>4. /\ \A g \in DOMAIN index : Stream!Entry(g) = index[g] /\ index[g] # {}
                                 /\ index[g] \subseteq DOMAIN pool /\ \A d \in index[g] : pool[d].f = g
      /\ \A g : g \notin DOMAIN index => Stream!Entry(g) = {}
  BY DEF Stream!Entry, Stream!Typed, Stream!EntriesSound
<1>5. D = {d \in index[f] : pool[d].v # v} /\ c \notin D
  BY <1>1, <1>4 DEF Stream!del
<1> HIDE DEF D, v
<1>6. f + 1 # f /\ f + 1 \in DOMAIN index'
  BY <1>1, <1>3
<1>7. ASSUME NEW g \in DOMAIN index'
      PROVE  /\ g \in DOMAIN index \/ g = f + 1
             /\ index'[g] # {} /\ index'[g] \subseteq DOMAIN pool
             /\ \A d \in index'[g] : pool'[d].f = g
  <2>1. CASE g = f
    <3>1. index'[g] = D /\ D # {}
      BY <1>3, <1>6, <2>1
    <3>2. QED
      BY <1>1, <1>2, <1>4, <1>5, <2>1, <3>1
  <2>2. CASE g = f + 1
    <3>1. index'[g] = Stream!Entry(g) \cup {c}
      BY <1>3, <1>6, <2>2
    <3>2. Stream!Entry(g) \subseteq DOMAIN pool /\ \A d \in Stream!Entry(g) : pool[d].f = g
      BY <1>4
    <3>3. c \notin Stream!Entry(g)
      BY <1>1, <1>6, <2>2, <3>2
    <3>4. QED
      BY <1>1, <1>2, <2>2, <3>1, <3>2, <3>3
  <2>3. CASE g # f /\ g # f + 1
    <3>1. g \in DOMAIN index /\ index'[g] = index[g]
      <4>1. g \in DOMAIN index
        BY <1>3, <2>3
      <4>2. index'[g] = Stream!Entry(g) \cup {}
        BY <1>3, <2>3
      <4>3. Stream!Entry(g) = index[g]
        BY <1>4, <4>1
      <4>4. QED
        BY <4>1, <4>2, <4>3
    <3>2. c \notin index[g]
      BY <1>1, <1>4, <2>3, <3>1
    <3>3. QED
      BY <1>2, <1>4, <3>1, <3>2
  <2>4. QED
    BY <2>1, <2>2, <2>3
<1>8. ASSUME NEW d \in DOMAIN pool, d # c, pool[d].f \in DOMAIN index, d \in index[pool[d].f],
             pool[d].v # v
      PROVE  pool[d].f \in DOMAIN index' /\ d \in index'[pool[d].f]
  <2>1. CASE pool[d].f = f
    <3>1. d \in D
      BY <1>5, <1>8, <2>1
    <3>2. QED
      BY <1>1, <1>3, <1>6, <2>1, <3>1
  <2>2. CASE pool[d].f # f
    BY <1>3, <1>4, <1>8, <2>2
  <2>3. QED
    BY <2>1, <2>2
<1>9. c \in index'[f + 1]
  BY <1>3, <1>6
<1>10. QED
  BY <1>1, <1>2, <1>6, <1>7, <1>8, <1>9 DEF v

(* A counter that moves leaves the entries sound, and matching when no     *)
(* other counter holds its item.                                           *)
LEMMA EntriesFollow ==
  ASSUME Stream!Typed, Stream!EntriesSound, NEW c, NEW f, NEW new, Moves(c, f, new)
  PROVE  /\ Stream!EntriesSound'
         /\ Stream!EntriesMatch /\ (\A d \in DOMAIN pool : pool[d].v = pool[c].v => d = c)
              => Stream!EntriesMatch'
<1>1. /\ f \in 1..n /\ DOMAIN pool' = DOMAIN pool /\ c \in DOMAIN pool /\ new.f = f + 1
      /\ pool'[c] = new /\ \A d \in DOMAIN pool : d # c => pool'[d] = pool[d]
      /\ f + 1 \in DOMAIN index' /\ c \in index'[f + 1]
  BY EntriesMoved DEF Moves
<1>2. \A g \in DOMAIN index' : /\ index'[g] # {} /\ index'[g] \subseteq DOMAIN pool
                               /\ \A d \in index'[g] : pool'[d].f = g
  BY EntriesMoved
<1>3. Stream!EntriesSound'
  BY <1>1, <1>2 DEF Stream!EntriesSound
<1>4. ASSUME Stream!EntriesMatch, \A d \in DOMAIN pool : pool[d].v = pool[c].v => d = c
      PROVE  Stream!EntriesMatch'
  <2>1. ASSUME NEW d \in DOMAIN pool
        PROVE  pool'[d].f \in DOMAIN index' /\ d \in index'[pool'[d].f]
    <3>1. CASE d = c
      BY <1>1, <3>1
    <3>2. CASE d # c
      <4>1. pool[d].f \in DOMAIN index /\ d \in index[pool[d].f]
        BY <1>4 DEF Stream!EntriesMatch
      <4>2. pool[d].v # pool[c].v
        BY <1>4, <3>2
      <4>3. pool[d].f \in DOMAIN index' /\ d \in index'[pool[d].f]
        BY <3>2, <4>1, <4>2, EntriesMoved
      <4>4. QED
        BY <1>1, <3>2, <4>3
    <3>3. QED
      BY <3>1, <3>2
  <2>2. ASSUME NEW g \in DOMAIN index'
        PROVE  index'[g] = {d \in DOMAIN pool' : pool'[d].f = g}
    <3>1. index'[g] \subseteq DOMAIN pool' /\ \A d \in index'[g] : pool'[d].f = g
      BY <1>1, <1>2
    <3>2. \A d \in DOMAIN pool' : pool'[d].f = g => d \in index'[g]
      BY <1>1, <2>1
    <3>3. QED
      BY <3>1, <3>2
  <2>3. \A g \in DOMAIN index' : \E d \in DOMAIN pool' : pool'[d].f = g
    BY <1>1, <1>2
  <2>4. DOMAIN index' = {pool'[d].f : d \in DOMAIN pool'}
    BY <1>1, <2>1, <2>3
  <2>5. QED
    BY <2>2, <2>4 DEF Stream!EntriesMatch
<1>5. QED
  BY <1>3, <1>4

(* A counter that moves keeps to its types.                                *)
LEMMA TypesFollow ==
  ASSUME Stream!Typed, Stream!EntriesSound, NEW c, NEW f, NEW new, Moves(c, f, new), n' = n + 1
  PROVE  /\ pool' \in Seq([v : Few, f : 1..n', e : 0..n']) /\ Len(pool') = Len(pool)
         /\ index' \in [DOMAIN index' -> SUBSET DOMAIN pool']
<1>1. n \in Nat /\ pool \in Seq(CounterUpTo(n)) /\ DOMAIN pool = 1..Len(pool)
  BY StreamCounters
<1>2. CounterUpTo(n) \subseteq CounterUpTo(n + 1)
  BY <1>1 DEF CounterUpTo
<1>3. pool \in Seq(CounterUpTo(n + 1))
  BY <1>1, <1>2
<1>4. c \in 1..Len(pool) /\ new \in CounterUpTo(n + 1) /\ pool' = [pool EXCEPT ![c] = new]
  BY <1>1 DEF Moves
<1>5. pool' \in Seq(CounterUpTo(n + 1)) /\ Len(pool') = Len(pool)
  BY <1>3, <1>4, ExceptSeq
<1>6. DOMAIN pool' = DOMAIN pool /\ \A g \in DOMAIN index' : index'[g] \subseteq DOMAIN pool
  BY EntriesMoved
<1>7. index' = [g \in DOMAIN index' |-> index'[g]]
  BY DEF Moves, Stream!Moved
<1>8. QED
  BY <1>5, <1>6, <1>7 DEF CounterUpTo

(* Nothing has been put: no entries, no counters.                          *)
LEMMA StreamInit == Stream!Init => Stream!IInv
<1> SUFFICES ASSUME Stream!Init PROVE Stream!IInv
  OBVIOUS
<1>1. /\ pool = <<>> /\ DOMAIN pool = {} /\ Len(pool) = 0 /\ DOMAIN byItem = {}
      /\ DOMAIN index = {} /\ n = 0 /\ freq = [i \in Few |-> 0]
      /\ byItem = [i \in {} |-> 0] /\ index = [f \in {} |-> {}]
  BY DEF Stream!Init
<1>2. Stream!Typed
  <2>1. pool \in Seq([v : Few, f : 1..n, e : 0..n])
    BY <1>1, EmptySeq
  <2>2. QED
    BY <1>1, <2>1, StreamSizes DEF Stream!Typed
<1>3. Stream!EntriesSound /\ Stream!EntriesMatch /\ Stream!ItemsMatch
  BY <1>1 DEF Stream!EntriesSound, Stream!EntriesMatch, Stream!ItemsMatch
<1>4. Stream!Sized
  BY <1>1, StreamSets, StreamSizes, FS_EmptySet DEF Stream!Sized
<1>5. QED
  BY <1>2, <1>3, <1>4 DEF Stream!IInv

(* A put of an item with a counter moves it to the next entry.             *)
LEMMA HitMoves ==
  ASSUME Stream!Typed, Stream!EntriesSound, NEW i \in Few, Stream!Hit(i)
  PROVE  /\ i \in DOMAIN byItem /\ byItem[i] \in DOMAIN pool /\ byItem' = byItem
         /\ Moves(byItem[i], pool[byItem[i]].f, [pool[byItem[i]] EXCEPT !.f = @ + 1])
<1> DEFINE c == byItem[i]
           new == [pool[c] EXCEPT !.f = @ + 1]
<1>1. /\ i \in DOMAIN byItem /\ byItem' = byItem /\ pool[c].f \in DOMAIN index
      /\ index' = Stream!Moved(pool[c].v, c, pool[c].f) /\ pool' = [pool EXCEPT ![c].f = @ + 1]
  BY DEF Stream!Hit
<1>2. c \in DOMAIN pool
  BY <1>1 DEF Stream!Typed
<1>3. pool' = [pool EXCEPT ![c] = new]
  BY <1>1
<1>4. new \in CounterUpTo(n + 1) /\ new.f = pool[c].f + 1
  <2>1. n \in Nat /\ pool[c] \in [v : Few, f : 1..n, e : 0..n]
    BY <1>2, StreamCounters DEF CounterUpTo
  <2>2. \A old \in [v : Few, f : 1..n, e : 0..n] :
          /\ [old EXCEPT !.f = @ + 1] \in [v : Few, f : 1..(n + 1), e : 0..(n + 1)]
          /\ [old EXCEPT !.f = @ + 1].f = old.f + 1
    BY <2>1
  <2>3. QED
    BY <2>1, <2>2 DEF CounterUpTo
<1> HIDE DEF c, new
<1>5. Moves(c, pool[c].f, new)
  BY <1>1, <1>2, <1>3, <1>4 DEF Moves
<1>6. QED
  BY <1>1, <1>2, <1>5 DEF c, new

LEMMA StreamHit ==
  ASSUME Stream!IInv, NEW i \in Few, Stream!Hit(i)
  PROVE  Stream!IInv'
<1> DEFINE c == byItem[i]
           new == [pool[c] EXCEPT !.f = @ + 1]
<1>1. Stream!Typed /\ Stream!EntriesSound
  BY DEF Stream!IInv
<1>2. /\ i \in DOMAIN byItem /\ c \in DOMAIN pool /\ byItem' = byItem
      /\ Moves(c, pool[c].f, new)
  BY <1>1, HitMoves
<1>3. n' = n + 1 /\ n' \in 0..kMaxPuts /\ freq' \in [Few -> 0..n']
  BY <1>1, StreamTally DEF Stream!Hit
<1>4. new.v = pool[c].v
  BY <1>1, <1>2, StreamCounters DEF CounterUpTo
<1> HIDE DEF c, new
<1>5. /\ pool' \in Seq([v : Few, f : 1..n', e : 0..n']) /\ Len(pool') = Len(pool)
      /\ index' \in [DOMAIN index' -> SUBSET DOMAIN pool']
  BY <1>1, <1>2, <1>3, TypesFollow
<1>6. /\ DOMAIN pool' = DOMAIN pool /\ pool'[c] = new
      /\ \A d \in DOMAIN pool : d # c => pool'[d] = pool[d]
  BY <1>1, <1>2, EntriesMoved
<1>7. Stream!Typed'
  BY <1>1, <1>2, <1>3, <1>5, <1>6 DEF Stream!Typed
<1>8. Stream!EntriesSound'
  BY <1>1, <1>2, EntriesFollow
<1>9. ASSUME Stream!ItemsFit
      PROVE  Stream!EntriesMatch' /\ Stream!ItemsMatch' /\ Stream!Sized'
  <2>1. Stream!EntriesMatch /\ Stream!ItemsMatch /\ Stream!Sized
    BY <1>9 DEF Stream!IInv
  <2>2. \A d \in DOMAIN pool : pool[d].v = pool[c].v => d = c
    BY <1>2, <2>1 DEF Stream!ItemsMatch
  <2>3. Stream!EntriesMatch'
    BY <1>1, <1>2, <2>1, <2>2, EntriesFollow
  <2>4. \A d \in DOMAIN pool : pool'[d].v = pool[d].v
    BY <1>4, <1>6
  <2>5. \A j \in DOMAIN byItem : byItem[j] \in DOMAIN pool
    BY <1>1 DEF Stream!Typed
  <2>6. Stream!ItemsMatch'
    BY <1>2, <1>6, <2>1, <2>4, <2>5 DEF Stream!ItemsMatch
  <2>7. Stream!Sized'
    BY <1>2, <1>5, <2>1 DEF Stream!Sized
  <2>8. QED
    BY <2>3, <2>6, <2>7
<1>10. QED
  BY <1>7, <1>8, <1>9 DEF Stream!IInv, Stream!ItemsFit

(* A new counter enters the entry of count 1.                              *)
LEMMA FillAdds ==
  ASSUME Stream!Typed, NEW i \in Few, Stream!Fill(i)
  PROVE  LET c == Len(pool) + 1
         IN  /\ c \notin DOMAIN pool /\ DOMAIN pool' = DOMAIN pool \cup {c} /\ Len(pool') = c
             /\ pool'[c] = [v |-> narrow[i], f |-> 1, e |-> 0]
             /\ \A d \in DOMAIN pool : pool'[d] = pool[d]
             /\ i \notin DOMAIN byItem /\ DOMAIN byItem' = DOMAIN byItem \cup {i}
             /\ byItem'[i] = c /\ \A j \in DOMAIN byItem : byItem'[j] = byItem[j]
             /\ DOMAIN index' = DOMAIN index \cup {1}
             /\ \A g \in DOMAIN index' : index'[g] = Stream!Entry(g) \cup (IF g = 1 THEN {c} ELSE {})
             /\ Cardinality(DOMAIN byItem) # m
             /\ pool' \in Seq([v : Few, f : 1..n', e : 0..n'])
             /\ index' = [g \in DOMAIN index' |-> index'[g]]
             /\ byItem' = [j \in DOMAIN byItem' |-> byItem'[j]]
<1> DEFINE c == Len(pool) + 1
           new == [v |-> narrow[i], f |-> 1, e |-> 0]
<1>1. /\ i \notin DOMAIN byItem /\ Cardinality(DOMAIN byItem) # m /\ pool' = Append(pool, new)
      /\ byItem' = [j \in DOMAIN byItem \cup {i} |-> IF j = i THEN c ELSE byItem[j]]
      /\ index' = [g \in DOMAIN index \cup {1} |-> Stream!Entry(g) \cup (IF g = 1 THEN {c} ELSE {})]
  BY StreamSets DEF Stream!Fill, Stream!NewCounter
<1>2. n \in Nat /\ n' = n + 1 /\ pool \in Seq(CounterUpTo(n'))
  BY StreamTally DEF Stream!Fill
<1>3. Len(pool) \in Nat /\ DOMAIN pool = 1..Len(pool)
  BY StreamCounters
<1>4. new \in CounterUpTo(n')
  BY <1>2, StreamSizes DEF CounterUpTo
<1> HIDE DEF new
<1>5. /\ pool' \in Seq(CounterUpTo(n')) /\ Len(pool') = c /\ pool'[c] = new
      /\ \A d \in 1..Len(pool) : pool'[d] = pool[d]
  BY <1>1, <1>2, <1>4, AppendProperties
<1>6. DOMAIN pool' = 1..c
  BY <1>5, LenProperties
<1>7. c \notin DOMAIN pool /\ DOMAIN pool' = DOMAIN pool \cup {c}
  BY <1>3, <1>6
<1> HIDE DEF c
<1>8. pool' \in Seq([v : Few, f : 1..n', e : 0..n'])
  BY <1>5 DEF CounterUpTo
<1>9. /\ DOMAIN byItem' = DOMAIN byItem \cup {i} /\ byItem'[i] = c
      /\ \A j \in DOMAIN byItem : byItem'[j] = byItem[j]
      /\ byItem' = [j \in DOMAIN byItem' |-> byItem'[j]]
  BY <1>1
<1>10. /\ DOMAIN index' = DOMAIN index \cup {1}
       /\ \A g \in DOMAIN index' : index'[g] = Stream!Entry(g) \cup (IF g = 1 THEN {c} ELSE {})
       /\ index' = [g \in DOMAIN index' |-> index'[g]]
  BY <1>1
<1>11. QED
  BY <1>1, <1>3, <1>5, <1>7, <1>8, <1>9, <1>10 DEF c, new

LEMMA StreamFill ==
  ASSUME Stream!IInv, NEW i \in Few, Stream!Fill(i)
  PROVE  Stream!IInv'
<1> DEFINE c == Len(pool) + 1
<1>1. Stream!Typed /\ Stream!EntriesSound
  BY DEF Stream!IInv
<1>2. /\ c \notin DOMAIN pool /\ DOMAIN pool' = DOMAIN pool \cup {c} /\ Len(pool') = c
      /\ pool'[c] = [v |-> narrow[i], f |-> 1, e |-> 0]
      /\ \A d \in DOMAIN pool : pool'[d] = pool[d]
  BY <1>1, FillAdds
<1>3. /\ i \notin DOMAIN byItem /\ DOMAIN byItem' = DOMAIN byItem \cup {i}
      /\ byItem'[i] = c /\ \A j \in DOMAIN byItem : byItem'[j] = byItem[j]
      /\ Cardinality(DOMAIN byItem) # m /\ byItem' = [j \in DOMAIN byItem' |-> byItem'[j]]
  BY <1>1, FillAdds
<1>4. /\ DOMAIN index' = DOMAIN index \cup {1}
      /\ \A g \in DOMAIN index' : index'[g] = Stream!Entry(g) \cup (IF g = 1 THEN {c} ELSE {})
      /\ index' = [g \in DOMAIN index' |-> index'[g]]
  BY <1>1, FillAdds
<1>5. pool' \in Seq([v : Few, f : 1..n', e : 0..n'])
  BY <1>1, FillAdds
<1>6. n' \in 0..kMaxPuts /\ freq' \in [Few -> 0..n'] /\ Len(pool) \in Nat
  BY <1>1, StreamTally, StreamCounters DEF Stream!Fill
<1> HIDE DEF c
<1>7. /\ \A g \in DOMAIN index : Stream!Entry(g) = index[g] /\ index[g] # {}
                                 /\ index[g] \subseteq DOMAIN pool /\ \A d \in index[g] : pool[d].f = g
      /\ \A g : g \notin DOMAIN index => Stream!Entry(g) = {}
  BY <1>1 DEF Stream!Entry, Stream!Typed, Stream!EntriesSound
<1>8. Stream!Typed'
  <2>1. \A j \in DOMAIN byItem' : byItem'[j] \in DOMAIN pool'
    BY <1>1, <1>2, <1>3 DEF Stream!Typed
  <2>2. \A g \in DOMAIN index' : index'[g] \subseteq DOMAIN pool'
    BY <1>2, <1>4, <1>7
  <2>3. DOMAIN byItem' \in SUBSET Few
    BY <1>1, <1>3 DEF Stream!Typed
  <2>4. index' \in [DOMAIN index' -> SUBSET DOMAIN pool']
    BY <1>4, <2>2
  <2>5. byItem' \in [DOMAIN byItem' -> DOMAIN pool']
    BY <1>3, <2>1
  <2>6. QED
    BY <1>5, <1>6, <2>3, <2>4, <2>5 DEF Stream!Typed
<1>9. ASSUME NEW g \in DOMAIN index'
      PROVE  index'[g] # {} /\ \A d \in index'[g] : pool'[d].f = g
  <2>1. CASE g = 1
    <3>1. index'[g] = Stream!Entry(g) \cup {c}
      BY <1>4, <2>1
    <3>2. QED
      BY <1>2, <1>7, <2>1, <3>1
  <2>2. CASE g # 1
    <3>1. g \in DOMAIN index /\ index'[g] = index[g]
      <4>1. g \in DOMAIN index
        BY <1>4, <2>2
      <4>2. index'[g] = Stream!Entry(g) \cup {}
        BY <1>4, <2>2
      <4>3. QED
        BY <1>7, <4>1, <4>2
    <3>2. QED
      BY <1>2, <1>7, <3>1
  <2>3. QED
    BY <2>1, <2>2
<1>10. Stream!EntriesSound'
  BY <1>4, <1>9 DEF Stream!EntriesSound
<1>11. ASSUME Stream!ItemsFit
       PROVE  Stream!EntriesMatch' /\ Stream!ItemsMatch' /\ Stream!Sized'
  <2>1. Stream!EntriesMatch /\ Stream!ItemsMatch /\ Stream!Sized
    BY <1>11 DEF Stream!IInv
  <2>2. pool'[c].v = i
    BY <1>2, <1>11 DEF Stream!ItemsFit
  <2>3. ASSUME NEW d \in DOMAIN pool'
        PROVE  pool'[d].f \in DOMAIN index' /\ d \in index'[pool'[d].f]
    <3>1. CASE d = c
      <4>1. pool'[d].f = 1 /\ index'[1] = Stream!Entry(1) \cup {c}
        BY <1>2, <1>4, <3>1
      <4>2. QED
        BY <1>4, <3>1, <4>1
    <3>2. CASE d # c
      <4>1. d \in DOMAIN pool /\ pool'[d].f = pool[d].f
        BY <1>2, <3>2
      <4>2. pool[d].f \in DOMAIN index /\ d \in index[pool[d].f]
        BY <2>1, <4>1 DEF Stream!EntriesMatch
      <4>3. QED
        BY <1>4, <1>7, <4>1, <4>2
    <3>3. QED
      BY <3>1, <3>2
  <2>4. \A g \in DOMAIN index' : index'[g] \subseteq DOMAIN pool'
    BY <1>8 DEF Stream!Typed
  <2>5. \A g \in DOMAIN index' : index'[g] = {d \in DOMAIN pool' : pool'[d].f = g}
    <3>1. ASSUME NEW g \in DOMAIN index'
          PROVE  index'[g] = {d \in DOMAIN pool' : pool'[d].f = g}
      <4>1. \A d \in DOMAIN pool' : pool'[d].f = g => d \in index'[g]
        BY <2>3
      <4>2. QED
        BY <1>9, <2>4, <4>1
    <3>2. QED
      BY <3>1
  <2>6. DOMAIN index' = {pool'[d].f : d \in DOMAIN pool'}
    <3>1. \A g \in DOMAIN index' : \E d \in DOMAIN pool' : pool'[d].f = g
      BY <1>9, <2>4
    <3>2. QED
      BY <2>3, <3>1
  <2>7. Stream!EntriesMatch'
    BY <2>5, <2>6 DEF Stream!EntriesMatch
  <2>8. Stream!ItemsMatch'
    <3>1. \A j \in DOMAIN byItem : byItem[j] \in DOMAIN pool
      BY <1>1 DEF Stream!Typed
    <3>2. \A j \in DOMAIN byItem' : pool'[byItem'[j]].v = j
      BY <1>2, <1>3, <2>1, <2>2, <3>1 DEF Stream!ItemsMatch
    <3>3. \A d \in DOMAIN pool' : pool'[d].v \in DOMAIN byItem' /\ byItem'[pool'[d].v] = d
      BY <1>2, <1>3, <2>1, <2>2 DEF Stream!ItemsMatch
    <3>4. QED
      BY <3>2, <3>3 DEF Stream!ItemsMatch
  <2>9. Stream!Sized'
    <3>1. /\ IsFiniteSet(DOMAIN byItem) /\ Cardinality(DOMAIN byItem) = Len(pool)
          /\ Len(pool) <= m
      BY <2>1, StreamSets DEF Stream!Sized
    <3>2. /\ IsFiniteSet(DOMAIN byItem')
          /\ Cardinality(DOMAIN byItem') = Cardinality(DOMAIN byItem) + 1
      BY <1>3, <3>1, FS_AddElement
    <3>3. Len(pool') = Len(pool) + 1
      BY <1>2 DEF c
    <3>4. Len(pool') <= m
      BY <1>3, <1>6, <3>1, <3>3, StreamSizes
    <3>5. QED
      BY <3>1, <3>2, <3>3, <3>4, StreamSets DEF Stream!Sized
  <2>10. QED
    BY <2>7, <2>8, <2>9
<1>12. QED
  BY <1>8, <1>10, <1>11 DEF Stream!IInv, Stream!ItemsFit

(* A counter of the least entry takes the new item, and moves to the next. *)
LEMMA EvictMoves ==
  ASSUME Stream!Typed, Stream!EntriesSound, NEW i \in Few, Stream!Evict(i)
  PROVE  \E c \in DOMAIN pool :
           /\ pool[c].f \in DOMAIN index /\ \A g \in DOMAIN index : pool[c].f <= g
           /\ i \notin DOMAIN byItem /\ Cardinality(DOMAIN byItem) = m
           /\ Moves(c, pool[c].f, [v |-> i, f |-> pool[c].f + 1, e |-> pool[c].f])
           /\ DOMAIN byItem' = (DOMAIN byItem \cup {i}) \ {pool[c].v}
           /\ \A j \in DOMAIN byItem' : byItem'[j] = IF j = i THEN c ELSE byItem[j]
           /\ byItem' = [j \in DOMAIN byItem' |-> byItem'[j]]
<1> DEFINE f == Stream!Min(DOMAIN index)
<1>1. i \notin DOMAIN byItem /\ Cardinality(DOMAIN byItem) = m
  BY StreamSets DEF Stream!Evict
<1>2. DOMAIN index \in SUBSET Nat
  <2>1. ASSUME NEW g \in DOMAIN index PROVE g \in Nat
    <3>1. PICK c : c \in index[g] /\ pool[c].f = g /\ c \in DOMAIN pool
      BY DEF Stream!EntriesSound, Stream!Typed
    <3>2. pool[c].f \in 1..n /\ n \in Nat
      BY <3>1, StreamCounters
    <3>3. QED
      BY <3>1, <3>2
  <2>2. QED
    BY <2>1
<1>3. DOMAIN index # {}
  <2>1. DOMAIN byItem # {}
    BY <1>1, StreamSizes, FS_EmptySet
  <2>2. QED
    BY <2>1 DEF Stream!EntriesSound
<1>4. f \in DOMAIN index /\ \A g \in DOMAIN index : f <= g
  BY <1>2, <1>3, LeastNatural
<1>5. PICK c \in index[f] :
        /\ index' = Stream!Moved(pool[c].v, c, f)
        /\ pool' = [pool EXCEPT ![c] = [v |-> i, f |-> @.f + 1, e |-> @.f]]
        /\ byItem' = [j \in (DOMAIN byItem \cup {i}) \ {pool[c].v} |->
              IF j = i THEN c ELSE byItem[j]]
  BY DEF Stream!Evict
<1> HIDE DEF f
<1>6. c \in DOMAIN pool /\ pool[c].f = f
  BY <1>4, <1>5 DEF Stream!Typed, Stream!EntriesSound
<1> DEFINE new == [v |-> i, f |-> pool[c].f + 1, e |-> pool[c].f]
<1>7. pool' = [pool EXCEPT ![c] = new]
  BY <1>5
<1>8. new \in CounterUpTo(n + 1) /\ new.f = f + 1
  <2>1. n \in Nat /\ pool[c].f \in 1..n
    BY <1>6, StreamCounters
  <2>2. QED
    BY <1>6, <2>1 DEF CounterUpTo
<1>9. /\ DOMAIN byItem' = (DOMAIN byItem \cup {i}) \ {pool[c].v}
      /\ \A j \in DOMAIN byItem' : byItem'[j] = IF j = i THEN c ELSE byItem[j]
      /\ byItem' = [j \in DOMAIN byItem' |-> byItem'[j]]
  BY <1>5
<1> HIDE DEF new
<1>10. Moves(c, pool[c].f, new)
  BY <1>4, <1>5, <1>6, <1>7, <1>8 DEF Moves
<1>11. pool[c].f \in DOMAIN index /\ \A g \in DOMAIN index : pool[c].f <= g
  BY <1>4, <1>6
<1>12. QED
  BY <1>1, <1>6, <1>9, <1>10, <1>11 DEF new

LEMMA StreamEvict ==
  ASSUME Stream!IInv, NEW i \in Few, Stream!Evict(i)
  PROVE  Stream!IInv'
<1>1. Stream!Typed /\ Stream!EntriesSound
  BY DEF Stream!IInv
<1>2. PICK c \in DOMAIN pool :
        /\ i \notin DOMAIN byItem /\ Cardinality(DOMAIN byItem) = m
        /\ Moves(c, pool[c].f, [v |-> i, f |-> pool[c].f + 1, e |-> pool[c].f])
        /\ DOMAIN byItem' = (DOMAIN byItem \cup {i}) \ {pool[c].v}
        /\ \A j \in DOMAIN byItem' : byItem'[j] = IF j = i THEN c ELSE byItem[j]
        /\ byItem' = [j \in DOMAIN byItem' |-> byItem'[j]]
  BY <1>1, EvictMoves
<1> DEFINE new == [v |-> i, f |-> pool[c].f + 1, e |-> pool[c].f]
<1>3. Moves(c, pool[c].f, new) /\ new.v = i
  BY <1>2
<1> HIDE DEF new
<1>4. n' = n + 1 /\ n' \in 0..kMaxPuts /\ freq' \in [Few -> 0..n']
  BY <1>1, StreamTally DEF Stream!Evict
<1>5. /\ pool' \in Seq([v : Few, f : 1..n', e : 0..n']) /\ Len(pool') = Len(pool)
      /\ index' \in [DOMAIN index' -> SUBSET DOMAIN pool']
  BY <1>1, <1>3, <1>4, TypesFollow
<1>6. /\ DOMAIN pool' = DOMAIN pool /\ pool'[c] = new /\ pool[c].f + 1 \in DOMAIN index'
      /\ \A d \in DOMAIN pool : d # c => pool'[d] = pool[d]
  BY <1>1, <1>3, EntriesMoved
<1>7. Stream!Typed'
  <2>1. byItem' \in [DOMAIN byItem' -> DOMAIN pool'] /\ DOMAIN byItem' \in SUBSET Few
    BY <1>1, <1>2, <1>6 DEF Stream!Typed
  <2>2. QED
    BY <1>4, <1>5, <2>1 DEF Stream!Typed
<1>8. Stream!EntriesSound'
  BY <1>1, <1>3, EntriesFollow
<1>9. ASSUME Stream!ItemsFit
      PROVE  Stream!EntriesMatch' /\ Stream!ItemsMatch' /\ Stream!Sized'
  <2>1. Stream!EntriesMatch /\ Stream!ItemsMatch /\ Stream!Sized
    BY <1>9 DEF Stream!IInv
  <2>2. /\ pool[c].v \in DOMAIN byItem /\ byItem[pool[c].v] = c
        /\ \A d \in DOMAIN pool : pool[d].v = pool[c].v => d = c
    BY <2>1 DEF Stream!ItemsMatch
  <2>3. Stream!EntriesMatch'
    BY <1>1, <1>3, <2>1, <2>2, EntriesFollow
  <2>4. Stream!ItemsMatch'
    <3>1. \A j \in DOMAIN byItem : byItem[j] \in DOMAIN pool /\ pool[byItem[j]].v = j
      BY <1>1, <2>1 DEF Stream!Typed, Stream!ItemsMatch
    <3>2. ASSUME NEW j \in DOMAIN byItem' PROVE pool'[byItem'[j]].v = j
      <4>1. CASE j = i
        BY <1>2, <1>3, <1>6, <4>1
      <4>2. CASE j # i
        <5>1. j \in DOMAIN byItem /\ byItem'[j] = byItem[j] /\ j # pool[c].v
          BY <1>2, <3>2, <4>2
        <5>2. byItem[j] # c
          BY <3>1, <5>1
        <5>3. QED
          BY <1>6, <3>1, <5>1, <5>2
      <4>3. QED
        BY <4>1, <4>2
    <3>3. ASSUME NEW d \in DOMAIN pool
          PROVE  pool'[d].v \in DOMAIN byItem' /\ byItem'[pool'[d].v] = d
      <4>1. CASE d = c
        BY <1>2, <1>3, <1>6, <2>2, <4>1
      <4>2. CASE d # c
        <5>1. /\ pool'[d].v = pool[d].v /\ pool[d].v # pool[c].v
              /\ pool[d].v \in DOMAIN byItem /\ byItem[pool[d].v] = d
          BY <1>6, <2>1, <2>2, <4>2 DEF Stream!ItemsMatch
        <5>2. QED
          BY <1>2, <5>1
      <4>3. QED
        BY <4>1, <4>2
    <3>4. QED
      BY <1>6, <3>2, <3>3 DEF Stream!ItemsMatch
  <2>5. Stream!Sized'
    <3>1. /\ IsFiniteSet(DOMAIN byItem) /\ Cardinality(DOMAIN byItem) = Len(pool)
          /\ Len(pool) <= m
      BY <2>1, StreamSets DEF Stream!Sized
    <3>2. /\ IsFiniteSet(DOMAIN byItem \cup {i})
          /\ Cardinality(DOMAIN byItem \cup {i}) = Cardinality(DOMAIN byItem) + 1
      BY <1>2, <3>1, FS_AddElement
    <3>3. /\ IsFiniteSet(DOMAIN byItem')
          /\ Cardinality(DOMAIN byItem') = Cardinality(DOMAIN byItem \cup {i}) - 1
      <4> DEFINE D == DOMAIN byItem \cup {i}
      <4>1. pool[c].v \in D /\ IsFiniteSet(D)
        BY <2>2, <3>2
      <4> HIDE DEF D
      <4>2. /\ IsFiniteSet(D \ {pool[c].v})
            /\ Cardinality(D \ {pool[c].v}) = Cardinality(D) - 1
        BY <4>1, FS_RemoveElement
      <4>3. QED
        BY <1>2, <4>2 DEF D
    <3>4. Cardinality(DOMAIN byItem') = Cardinality(DOMAIN byItem)
      BY <1>2, <3>2, <3>3, StreamSizes
    <3>5. QED
      BY <1>5, <3>1, <3>3, <3>4, StreamSets DEF Stream!Sized
  <2>6. QED
    BY <2>3, <2>4, <2>5
<1>10. QED
  BY <1>7, <1>8, <1>9 DEF Stream!IInv, Stream!ItemsFit

(* The counters of the entries are all of them.                            *)
LEMMA EntriesValidate ==
  ASSUME Stream!IInv, Stream!ItemsFit, Cardinality(DOMAIN byItem) = m
  PROVE  Stream!validate
<1> DEFINE part == [c \in DOMAIN pool |-> pool[c].f]
           size == [f \in DOMAIN index |-> Stream!Cardinality(index[f])]
<1>1. Stream!Typed /\ Stream!EntriesMatch /\ Stream!Sized
  BY DEF Stream!IInv
<1>2. DOMAIN index = {part[c] : c \in DOMAIN pool} /\ part \in [DOMAIN pool -> Nat]
  <2>1. \A c \in DOMAIN pool : pool[c].f \in Nat
    BY <1>1, StreamCounters
  <2>2. QED
    BY <1>1, <2>1 DEF Stream!EntriesMatch
<1>3. \A f \in DOMAIN index : index[f] = {c \in DOMAIN pool : part[c] = f}
  BY <1>1 DEF Stream!EntriesMatch
<1>4. IsFiniteSet(DOMAIN pool) /\ Cardinality(DOMAIN pool) = m
  <2>1. Len(pool) \in Nat /\ DOMAIN pool = 1..Len(pool) /\ Len(pool) = m
    BY <1>1, StreamCounters, StreamSets DEF Stream!Sized
  <2>2. QED
    BY <2>1, StreamSizes, FS_Interval
<1>5. \A f \in DOMAIN index : Cardinality(index[f]) \in Int
  <2> SUFFICES ASSUME NEW f \in DOMAIN index PROVE Cardinality(index[f]) \in Int
    OBVIOUS
  <2>1. IsFiniteSet(index[f])
    BY <1>3, <1>4, FS_Subset
  <2>2. QED
    BY <2>1, FS_CardinalityType
<1>6. size \in [DOMAIN index -> Int]
  BY <1>5, StreamSets
<1>7. SumFunctionOnSet(size, DOMAIN index) = m
  <2>1. \A k \in DOMAIN index : size[k] = Cardinality({c \in DOMAIN pool : part[c] = k})
    BY <1>3, StreamSets
  <2> HIDE DEF part, size
  <2>2. SumFunctionOnSet(size, DOMAIN index) = Cardinality(DOMAIN pool)
    BY <1>2, <1>4, <1>6, <2>1, PartsAddUp
  <2>3. QED
    BY <1>4, <2>2
<1>8. Stream!MapThenSumSet(LAMBDA f : Stream!Cardinality(index[f]), DOMAIN index)
        = SumFunctionOnSet(size, DOMAIN index)
  BY Zenon DEF Stream!MapThenSumSet, Stream!MapThenFoldSet, SumFunctionOnSet,
     FoldFunctionOnSet, MapThenFoldSet
<1>9. QED
  BY <1>7, <1>8 DEF Stream!validate

(* SS is typed, whatever the items.                                        *)
LEMMA StreamTyped ==
  ASSUME Stream!Typed, Stream!EntriesSound
  PROVE  Stream!TypeOK
<1>1. n \in 0..kMaxPuts /\ kMaxPuts \in Nat /\ n \in Nat
  BY StreamSizes DEF Stream!Typed
<1>2. pool \in Seq([v : Few, f : 1..kMaxPuts, e : 0..kMaxPuts])
  <2>1. CounterUpTo(n) \subseteq CounterUpTo(kMaxPuts)
    BY <1>1 DEF CounterUpTo
  <2>2. Seq(CounterUpTo(n)) \subseteq Seq(CounterUpTo(kMaxPuts))
    BY <2>1
  <2>3. QED
    BY <2>2, StreamCounters DEF CounterUpTo
<1>3. DOMAIN index \in SUBSET (1..kMaxPuts)
  <2>1. ASSUME NEW g \in DOMAIN index PROVE g \in 1..kMaxPuts
    <3>1. PICK c : c \in index[g] /\ pool[c].f = g /\ c \in DOMAIN pool
      BY DEF Stream!EntriesSound, Stream!Typed
    <3>2. pool[c].f \in 1..n
      BY <3>1, StreamCounters
    <3>3. QED
      BY <1>1, <3>1, <3>2
  <2>2. QED
    BY <2>1
<1>4. freq \in [Few -> 0..kMaxPuts]
  BY <1>1 DEF Stream!Typed
<1>5. QED
  BY <1>2, <1>3, <1>4 DEF Stream!Typed, Stream!TypeOK

-----------------------------------------------------------------------------
(* Frequent                                                                *)

(* Frequent has its own copies of the operators of FiniteSets, too.        *)
LEMMA NodesSets ==
  /\ \A S : Nodes!IsFiniteSet(S) <=> IsFiniteSet(S)
  /\ \A S : Nodes!Cardinality(S) = Cardinality(S)
<1>1. \A S : Nodes!IsFiniteSet(S) <=> IsFiniteSet(S)
  BY Zenon DEF Nodes!IsFiniteSet, IsFiniteSet
<1>2. \A S : Nodes!Cardinality(S) = Cardinality(S)
  BY Zenon DEF Nodes!IsFiniteSet, IsFiniteSet, Nodes!Cardinality, Cardinality
<1>3. QED
  BY <1>1, <1>2

(* A bounded set of naturals has a greatest element.                       *)
LEMMA GreatestNatural ==
  ASSUME NEW k \in Nat, NEW S \in SUBSET (0..k), S # {}
  PROVE  Nodes!Max(S) \in S /\ \A y \in S : y <= Nodes!Max(S)
<1> DEFINE R == {j \in 0..k : k - j \in S}
           L(x) == x \in S /\ \A y \in S : x >= y
<1>1. R \in SUBSET Nat /\ R # {}
  <2>1. PICK x \in S : TRUE
    OBVIOUS
  <2>2. k - (k - x) = x /\ k - x \in 0..k
    BY <2>1
  <2>3. QED
    BY <2>1, <2>2
<1>2. PICK j \in R : \A y \in R : j <= y
  <2> HIDE DEF R
  <2>1. QED
    BY <1>1, LeastNatural
<1>3. k - j \in S /\ \A y \in S : y <= k - j
  <2>1. \A y \in S : y \in 0..k /\ k - y \in 0..k /\ k - (k - y) = y
    OBVIOUS
  <2>2. \A y \in S : k - y \in R
    BY <2>1
  <2>3. \A y \in S : j <= k - y
    BY <1>2, <2>2
  <2>4. QED
    BY <1>2, <2>1, <2>3
<1>4. \E x : L(x)
  BY <1>3
<1>5. Nodes!Max(S) = CHOOSE x : L(x)
  BY Zenon DEF Nodes!Max
<1> HIDE DEF L
<1>6. L(Nodes!Max(S))
  BY <1>4, <1>5
<1>7. QED
  BY <1>6 DEF L

(* RemoveAt and InsertAt, element by element.                              *)
Cut(s, p) == SubSeq(s, 1, p - 1) \o SubSeq(s, p + 1, Len(s))
Put(s, q, e) == SubSeq(s, 1, q - 1) \o <<e>> \o SubSeq(s, q, Len(s))

IsCut(t, s, p) ==
  /\ Len(t) = Len(s) - 1
  /\ \A r \in 1..(Len(s) - 1) : t[r] = IF r < p THEN s[r] ELSE s[r + 1]
IsPut(t, s, q, e) ==
  /\ Len(t) = Len(s) + 1
  /\ \A r \in 1..(Len(s) + 1) : t[r] = IF r < q THEN s[r] ELSE IF r = q THEN e ELSE s[r - 1]

LEMMA Removed ==
  ASSUME NEW S, NEW s \in Seq(S), NEW p \in 1..Len(s)
  PROVE  Cut(s, p) \in Seq(S) /\ IsCut(Cut(s, p), s, p)
<1> DEFINE a == SubSeq(s, 1, p - 1)
           b == SubSeq(s, p + 1, Len(s))
<1>1. Len(s) \in Nat /\ p \in 1..Len(s) /\ \A r \in 1..Len(s) : s[r] \in S
  BY LenProperties
<1>2. a \in Seq(S) /\ Len(a) = p - 1 /\ \A r \in 1..(p - 1) : a[r] = s[r]
  <2>1. \A r \in 1..(p - 1) : s[r] \in S
    BY <1>1
  <2>2. /\ a \in Seq(S) /\ Len(a) = IF 1 <= p - 1 THEN (p - 1) - 1 + 1 ELSE 0
        /\ \A r \in 1..((p - 1) - 1 + 1) : a[r] = s[1 + r - 1]
    BY <1>1, <2>1, SubSeqProperties
  <2> HIDE DEF a
  <2>3. QED
    BY <1>1, <2>2
<1>3. b \in Seq(S) /\ Len(b) = Len(s) - p /\ \A r \in 1..(Len(s) - p) : b[r] = s[p + r]
  <2>1. \A r \in (p + 1)..Len(s) : s[r] \in S
    BY <1>1
  <2>2. /\ b \in Seq(S) /\ Len(b) = IF p + 1 <= Len(s) THEN Len(s) - (p + 1) + 1 ELSE 0
        /\ \A r \in 1..(Len(s) - (p + 1) + 1) : b[r] = s[(p + 1) + r - 1]
    BY <1>1, <2>1, SubSeqProperties
  <2> HIDE DEF b
  <2>3. QED
    BY <1>1, <2>2
<1> HIDE DEF a, b
<1>4. /\ a \o b \in Seq(S) /\ Len(a \o b) = Len(a) + Len(b)
      /\ \A r \in 1..(Len(a) + Len(b)) : (a \o b)[r] = IF r <= Len(a) THEN a[r] ELSE b[r - Len(a)]
  BY <1>2, <1>3, ConcatProperties
<1>5. \A r \in 1..(Len(s) - 1) : (a \o b)[r] = IF r < p THEN s[r] ELSE s[r + 1]
  <2> SUFFICES ASSUME NEW r \in 1..(Len(s) - 1)
               PROVE  (a \o b)[r] = IF r < p THEN s[r] ELSE s[r + 1]
    OBVIOUS
  <2>1. (a \o b)[r] = IF r <= p - 1 THEN a[r] ELSE b[r - (p - 1)]
    BY <1>1, <1>2, <1>3, <1>4
  <2>2. CASE r < p
    BY <1>1, <1>2, <2>1, <2>2
  <2>3. CASE ~(r < p)
    <3>1. r - (p - 1) \in 1..(Len(s) - p) /\ p + (r - (p - 1)) = r + 1
      BY <1>1, <2>3
    <3>2. b[r - (p - 1)] = s[r + 1]
      BY <1>3, <3>1
    <3>3. QED
      BY <1>1, <2>1, <2>3, <3>2
  <2>4. QED
    BY <2>2, <2>3
<1>6. Len(a \o b) = Len(s) - 1
  BY <1>1, <1>2, <1>3, <1>4
<1>7. QED
  BY <1>4, <1>5, <1>6 DEF a, b, Cut, IsCut

LEMMA Inserted ==
  ASSUME NEW S, NEW s \in Seq(S), NEW q \in 1..(Len(s) + 1), NEW e \in S
  PROVE  Put(s, q, e) \in Seq(S) /\ IsPut(Put(s, q, e), s, q, e)
<1> DEFINE a == SubSeq(s, 1, q - 1)
           b == SubSeq(s, q, Len(s))
           c == <<e>>
<1>1. Len(s) \in Nat /\ q \in 1..(Len(s) + 1) /\ \A r \in 1..Len(s) : s[r] \in S
  BY LenProperties
<1>2. a \in Seq(S) /\ Len(a) = q - 1 /\ \A r \in 1..(q - 1) : a[r] = s[r]
  <2>1. \A r \in 1..(q - 1) : s[r] \in S
    BY <1>1
  <2>2. /\ a \in Seq(S) /\ Len(a) = IF 1 <= q - 1 THEN (q - 1) - 1 + 1 ELSE 0
        /\ \A r \in 1..((q - 1) - 1 + 1) : a[r] = s[1 + r - 1]
    BY <1>1, <2>1, SubSeqProperties
  <2> HIDE DEF a
  <2>3. QED
    BY <1>1, <2>2
<1>3. b \in Seq(S) /\ Len(b) = Len(s) - q + 1
      /\ \A r \in 1..(Len(s) - q + 1) : b[r] = s[q + r - 1]
  <2>1. \A r \in q..Len(s) : s[r] \in S
    BY <1>1
  <2>2. /\ b \in Seq(S) /\ Len(b) = IF q <= Len(s) THEN Len(s) - q + 1 ELSE 0
        /\ \A r \in 1..(Len(s) - q + 1) : b[r] = s[q + r - 1]
    BY <1>1, <2>1, SubSeqProperties
  <2> HIDE DEF b
  <2>3. QED
    BY <1>1, <2>2
<1>4. c \in Seq(S) /\ Len(c) = 1 /\ c[1] = e
  OBVIOUS
<1> HIDE DEF a, b, c
<1>5. /\ a \o c \in Seq(S) /\ Len(a \o c) = Len(a) + Len(c)
      /\ \A r \in 1..(Len(a) + Len(c)) : (a \o c)[r] = IF r <= Len(a) THEN a[r] ELSE c[r - Len(a)]
  BY <1>2, <1>4, ConcatProperties
<1> DEFINE d == a \o c
<1>6. d \in Seq(S) /\ Len(d) = q /\ \A r \in 1..q : d[r] = IF r < q THEN s[r] ELSE e
  BY <1>1, <1>2, <1>4, <1>5
<1> HIDE DEF d
<1>7. /\ d \o b \in Seq(S) /\ Len(d \o b) = Len(d) + Len(b)
      /\ \A r \in 1..(Len(d) + Len(b)) : (d \o b)[r] = IF r <= Len(d) THEN d[r] ELSE b[r - Len(d)]
  BY <1>3, <1>6, ConcatProperties
<1>8. \A r \in 1..(Len(s) + 1) :
        (d \o b)[r] = IF r < q THEN s[r] ELSE IF r = q THEN e ELSE s[r - 1]
  BY <1>1, <1>3, <1>6, <1>7
<1>9. Len(d \o b) = Len(s) + 1
  BY <1>1, <1>3, <1>6, <1>7
<1>10. QED
  BY <1>7, <1>8, <1>9 DEF a, b, c, d, Put, IsPut

(* The list after a node moved forward from place p to place q.            *)
Forward(s, p, q, e) == Nodes!InsertAt(Nodes!RemoveAt(s, p), q, e)
IsForward(t, s, p, q, e) ==
  /\ Len(t) = Len(s) /\ DOMAIN t = DOMAIN s /\ t[q] = e
  /\ \A r \in DOMAIN s : r < q \/ r > p => t[r] = s[r]
  /\ \A r \in DOMAIN s : q < r /\ r <= p => t[r] = s[r - 1]

LEMMA MovedForward ==
  ASSUME NEW S, NEW s \in Seq(S), NEW p \in DOMAIN s, NEW q \in 1..p, NEW e \in S
  PROVE  Forward(s, p, q, e) \in Seq(S) /\ IsForward(Forward(s, p, q, e), s, p, q, e)
<1> DEFINE u == Nodes!RemoveAt(s, p)
           t == Nodes!InsertAt(u, q, e)
<1>1. p \in 1..Len(s) /\ Len(s) \in Nat /\ DOMAIN s = 1..Len(s) /\ p \in Nat /\ q \in Nat
  OBVIOUS
<1>2. /\ u \in Seq(S) /\ Len(u) = Len(s) - 1 /\ DOMAIN u = 1..(Len(s) - 1)
      /\ \A r \in 1..(Len(s) - 1) : u[r] = IF r < p THEN s[r] ELSE s[r + 1]
  <2>1. u = Cut(s, p)
    BY DEF Nodes!RemoveAt, Cut
  <2> HIDE DEF u
  <2>2. /\ u \in Seq(S) /\ Len(u) = Len(s) - 1
        /\ \A r \in 1..(Len(s) - 1) : u[r] = IF r < p THEN s[r] ELSE s[r + 1]
    <3>1. u \in Seq(S) /\ IsCut(u, s, p)
      BY <1>1, <2>1, Removed
    <3>2. QED
      BY <3>1 DEF IsCut
  <2>3. QED
    BY <2>2, LenProperties
<1> HIDE DEF u
<1>3. /\ t \in Seq(S) /\ Len(t) = Len(s) /\ DOMAIN t = 1..Len(s)
      /\ \A r \in 1..Len(s) : t[r] = IF r < q THEN u[r] ELSE IF r = q THEN e ELSE u[r - 1]
  <2>1. t = Put(u, q, e)
    BY DEF Nodes!InsertAt, Put
  <2> HIDE DEF t
  <2>2. q \in 1..(Len(u) + 1) /\ Len(u) + 1 = Len(s)
    BY <1>1, <1>2
  <2>3. /\ t \in Seq(S) /\ Len(t) = Len(u) + 1
        /\ \A r \in 1..(Len(u) + 1) :
             t[r] = IF r < q THEN u[r] ELSE IF r = q THEN e ELSE u[r - 1]
    <3>1. u \in Seq(S)
      BY <1>2
    <3>2. q \in 1..(Len(u) + 1)
      BY <2>2
    <3>3. t \in Seq(S) /\ IsPut(t, u, q, e)
      BY <2>1, <3>1, <3>2, Inserted
    <3>4. QED
      BY <3>3 DEF IsPut
  <2>4. DOMAIN t = 1..Len(s)
    BY <2>2, <2>3, LenProperties
  <2>5. QED
    BY <2>2, <2>3, <2>4
<1> HIDE DEF t
<1>4. ASSUME NEW r \in 1..Len(s), r < q \/ r > p PROVE t[r] = s[r]
  <2>1. CASE r < q
    BY <1>1, <1>2, <1>3, <2>1
  <2>2. CASE r > p
    <3>1. r - 1 \in 1..(Len(s) - 1) /\ ~(r - 1 < p) /\ r - 1 + 1 = r /\ ~(r < q) /\ r # q
      BY <1>1, <2>2
    <3>2. t[r] = u[r - 1] /\ u[r - 1] = s[r - 1 + 1]
      BY <1>2, <1>3, <3>1
    <3>3. QED
      BY <3>1, <3>2
  <2>3. QED
    BY <1>4, <2>1, <2>2
<1>5. \A r \in 1..Len(s) : q < r /\ r <= p => t[r] = s[r - 1]
  BY <1>1, <1>2, <1>3
<1>6. t[q] = e
  BY <1>1, <1>3
<1>7. QED
  BY <1>1, <1>3, <1>4, <1>5, <1>6 DEF t, u, Forward, IsForward

(* Nothing has been put: no nodes.                                         *)
LEMMA NodesInit == Nodes!Init => Nodes!IInv
<1> SUFFICES ASSUME Nodes!Init PROVE Nodes!IInv
  OBVIOUS
<1>1. list = <<>> /\ n = 0 /\ rounds = 0 /\ freq = [i \in Few |-> 0] /\ kMaxPuts \in Nat /\ bsize \in Nat
  BY DEF Nodes!Init, SketchAssumptions, Nodes!SizeAssumption
<1>2. Nodes!Typed
  BY <1>1 DEF Nodes!Typed
<1>3. Nodes!Distinct /\ Nodes!NodesWithin /\ Nodes!OthersWithin
  BY <1>1 DEF Nodes!Distinct, Nodes!NodesWithin, Nodes!OthersWithin
<1>4. QED
  BY <1>2, <1>3 DEF Nodes!IInv

(* A put of Frequent stays within the bounds of the invariant.             *)
LEMMA NodesTally ==
  ASSUME Nodes!Typed, NEW i \in Few, Nodes!Tally(i)
  PROVE  /\ n \in Nat /\ n' = n + 1 /\ n' \in 0..kMaxPuts
         /\ freq \in [Few -> 0..n] /\ freq' \in [Few -> 0..n']
         /\ freq'[i] = freq[i] + 1 /\ \A j \in Few : j # i => freq'[j] = freq[j]
         /\ rounds \in 0..n /\ rounds \in 0..n' /\ rounds + 1 \in 0..n'
<1>1. n \in Nat /\ kMaxPuts \in Nat /\ freq \in [Few -> 0..n] /\ rounds \in 0..n
  BY DEF Nodes!Typed, SketchAssumptions, Nodes!SizeAssumption
<1>2. n' = n + 1 /\ n' \in 0..kMaxPuts /\ freq' = [freq EXCEPT ![i] = @ + 1]
  BY <1>1 DEF Nodes!Tally
<1>3. \A k \in 0..n : k \in 0..n' /\ k + 1 \in 0..n'
  BY <1>1, <1>2
<1>4. QED
  BY <1>1, <1>2, <1>3

(* The nodes, place by place.                                              *)
LEMMA NodesList ==
  ASSUME Nodes!Typed
  PROVE  /\ list \in Seq([index : Few, freq : Int]) /\ Len(list) <= bsize
         /\ Len(list) \in Nat /\ DOMAIN list = 1..Len(list)
         /\ \A r \in DOMAIN list : list[r] \in [index : Few, freq : Int]
<1> DEFINE Node == [index : Few, freq : Int]
<1>1. list \in Seq(Node) /\ Len(list) <= bsize
  BY DEF Nodes!Typed
<1> HIDE DEF Node
<1>2. /\ Len(list) \in Nat /\ DOMAIN list = 1..Len(list)
      /\ \A r \in DOMAIN list : list[r] \in Node
  BY <1>1, LenProperties
<1>3. QED
  BY <1>1, <1>2 DEF Node

(* A hit moves the node and counts it once more; no other item changes.    *)
LEMMA NodesHit ==
  ASSUME Nodes!IInv, NEW i \in Few, Nodes!Hit(i)
  PROVE  Nodes!IInv'
<1> DEFINE Node == [index : Few, freq : Int]
<1>1. /\ list \in Seq(Node) /\ Len(list) <= bsize /\ Len(list) \in Nat /\ DOMAIN list = 1..Len(list)
      /\ \A r \in DOMAIN list : list[r] \in Node
  BY NodesList DEF Nodes!IInv
<1>2. PICK p \in Nodes!Places(i) :
        list' = Nodes!InsertAt(Nodes!RemoveAt(list, p), Nodes!NewPlace(p), [list[p] EXCEPT !.freq = @ + 1])
  BY DEF Nodes!Hit
<1>3. p \in DOMAIN list /\ list[p].index = i /\ p \in Nat \ {0}
  BY <1>1, <1>2 DEF Nodes!Places
<1>4. PICK q \in 1..p : q = Nodes!NewPlace(p)
  <2> DEFINE S == {0} \cup {r \in 1..(p - 1) : Nodes!FreqAt(r - 1) > list[p].freq + 1}
  <2>1. S \in SUBSET (0..(p - 1)) /\ S # {} /\ p - 1 \in Nat
    BY <1>3
  <2>2. Nodes!Max(S) \in 0..(p - 1)
    <3> HIDE DEF S
    <3>1. QED
      BY <2>1, GreatestNatural
  <2>3. Nodes!NewPlace(p) = 1 + Nodes!Max(S)
    BY DEF Nodes!NewPlace
  <2> HIDE DEF S
  <2>4. 1 + Nodes!Max(S) \in 1..p
    BY <1>3, <2>2
  <2>5. QED
    BY <2>3, <2>4
<1> DEFINE e == [list[p] EXCEPT !.freq = @ + 1]
<1>5. e \in Node /\ e.index = i /\ e.freq = list[p].freq + 1
  BY <1>1, <1>3
<1>6. /\ list' \in Seq(Node) /\ Len(list') = Len(list) /\ DOMAIN list' = DOMAIN list /\ list'[q] = e
      /\ \A r \in DOMAIN list : r < q \/ r > p => list'[r] = list[r]
      /\ \A r \in DOMAIN list : q < r /\ r <= p => list'[r] = list[r - 1]
  <2> HIDE DEF e
  <2>1. list' = Forward(list, p, q, e)
    BY <1>2, <1>4 DEF e, Forward
  <2> HIDE DEF Node
  <2>2. QED
    <3>1. Forward(list, p, q, e) \in Seq(Node) /\ IsForward(Forward(list, p, q, e), list, p, q, e)
      <4>1. list \in Seq(Node) /\ p \in DOMAIN list /\ q \in 1..p /\ e \in Node
        BY <1>1, <1>3, <1>5
      <4>2. QED
        BY <4>1, MovedForward, Zenon
    <3>2. QED
      BY <2>1, <3>1 DEF IsForward
<1> DEFINE Old(r) == IF r < q \/ r > p THEN r ELSE IF r = q THEN p ELSE r - 1
<1>7. ASSUME NEW r \in DOMAIN list
      PROVE  /\ Old(r) \in DOMAIN list /\ list'[r].index = list[Old(r)].index
             /\ Old(r) = p => list'[r].freq = list[Old(r)].freq + 1
             /\ Old(r) # p => list'[r].freq = list[Old(r)].freq
  <2>1. CASE r < q \/ r > p
    BY <1>1, <1>3, <1>6, <2>1
  <2>2. CASE r = q
    BY <1>1, <1>3, <1>5, <1>6, <2>2
  <2>3. CASE q < r /\ r <= p
    <3>1. Old(r) = r - 1 /\ r - 1 \in DOMAIN list /\ r - 1 # p
      BY <1>1, <1>3, <2>3
    <3>2. list'[r] = list[r - 1]
      BY <1>6, <2>3
    <3> HIDE DEF Old
    <3>3. QED
      BY <3>1, <3>2
  <2>4. QED
    BY <1>1, <1>3, <2>1, <2>2, <2>3
<1>8. \A r, s \in DOMAIN list : Old(r) = Old(s) => r = s
  BY <1>1, <1>3
<1>9. \A s \in DOMAIN list : \E r \in DOMAIN list : Old(r) = s
  <2> SUFFICES ASSUME NEW s \in DOMAIN list PROVE \E r \in DOMAIN list : Old(r) = s
    OBVIOUS
  <2>1. CASE s < q \/ s > p
    BY <2>1
  <2>2. CASE s = p
    <3>1. q \in DOMAIN list /\ Old(q) = p
      BY <1>1, <1>3
    <3>2. QED
      BY <2>2, <3>1
  <2>3. CASE q <= s /\ s < p
    <3>1. s + 1 \in DOMAIN list /\ Old(s + 1) = s
      BY <1>1, <1>3, <2>3
    <3>2. QED
      BY <3>1
  <2>4. QED
    BY <1>1, <1>3, <2>1, <2>2, <2>3
<1> HIDE DEF Old, e
<1>10. Nodes!Tally(i) /\ rounds' = rounds
  BY DEF Nodes!Hit
<1>11. /\ n \in Nat /\ n' = n + 1 /\ n' \in 0..kMaxPuts
       /\ freq \in [Few -> 0..n] /\ freq' \in [Few -> 0..n']
       /\ freq'[i] = freq[i] + 1 /\ \A j \in Few : j # i => freq'[j] = freq[j]
       /\ rounds \in 0..n /\ rounds \in 0..n'
  BY <1>10, NodesTally DEF Nodes!IInv
<1>12. Nodes!Typed'
  BY <1>1, <1>6, <1>10, <1>11 DEF Nodes!Typed
<1>13. Nodes!Distinct'
  <2> SUFFICES ASSUME NEW r \in DOMAIN list, NEW s \in DOMAIN list,
                      list'[r].index = list'[s].index
               PROVE  r = s
    BY <1>6 DEF Nodes!Distinct
  <2>1. list[Old(r)].index = list[Old(s)].index /\ Old(r) \in DOMAIN list /\ Old(s) \in DOMAIN list
    BY <1>7
  <2>2. Old(r) = Old(s)
    BY <2>1 DEF Nodes!IInv, Nodes!Distinct
  <2>3. QED
    BY <1>8, <2>2
<1>14. Nodes!NodesWithin'
  <2> SUFFICES ASSUME NEW r \in DOMAIN list
               PROVE  /\ list'[r].freq <= freq'[list'[r].index]
                      /\ freq'[list'[r].index] <= list'[r].freq + rounds
    BY <1>6, <1>10 DEF Nodes!NodesWithin
  <2>1. PICK s \in DOMAIN list : s = Old(r)
    BY <1>7
  <2>2. /\ list[s].freq <= freq[list[s].index] /\ freq[list[s].index] <= list[s].freq + rounds
        /\ list[s].freq \in Int /\ list[s].index \in Few
    BY <1>1 DEF Nodes!IInv, Nodes!NodesWithin
  <2>3. CASE s = p
    <3>1. list'[r].index = i /\ list'[r].freq = list[s].freq + 1 /\ list[s].index = i
      BY <1>3, <1>7, <2>1, <2>3
    <3>2. freq[i] \in Int /\ rounds \in Int
      BY <1>11
    <3>3. QED
      BY <1>11, <2>2, <3>1, <3>2
  <2>4. CASE s # p
    <3>1. list'[r].index = list[s].index /\ list'[r].freq = list[s].freq
      BY <1>7, <2>1, <2>4
    <3>2. list[s].index # i
      BY <1>3, <2>4 DEF Nodes!IInv, Nodes!Distinct
    <3>3. QED
      BY <1>11, <2>2, <3>1, <3>2
  <2>5. QED
    BY <2>3, <2>4
<1>15. Nodes!OthersWithin'
  <2> SUFFICES ASSUME NEW j \in Few, Nodes!Places(j)' = {} PROVE freq'[j] <= rounds
    BY <1>10 DEF Nodes!OthersWithin
  <2>1. \A r \in DOMAIN list : list'[r].index # j
    BY <1>6 DEF Nodes!Places
  <2>2. \A s \in DOMAIN list : list[s].index # j
    BY <1>7, <1>9, <2>1
  <2>3. Nodes!Places(j) = {} /\ j # i
    BY <1>3, <2>2 DEF Nodes!Places
  <2>4. QED
    BY <1>11, <2>3 DEF Nodes!IInv, Nodes!OthersWithin
<1>16. QED
  BY <1>12, <1>13, <1>14, <1>15 DEF Nodes!IInv

(* A new node counts 1, and its item was put in as many puts as there were *)
(* rounds, at most, before.                                                *)
LEMMA NodesFill ==
  ASSUME Nodes!IInv, NEW i \in Few, Nodes!Fill(i)
  PROVE  Nodes!IInv'
<1> DEFINE Node == [index : Few, freq : Int]
           e == [index |-> i, freq |-> 1]
<1>1. /\ list \in Seq(Node) /\ Len(list) <= bsize /\ Len(list) \in Nat /\ DOMAIN list = 1..Len(list)
      /\ \A r \in DOMAIN list : list[r] \in Node
  BY NodesList DEF Nodes!IInv
<1>2. /\ Nodes!Places(i) = {} /\ Len(list) < bsize /\ Nodes!Tally(i) /\ rounds' = rounds
      /\ list' = Append(list, e) /\ bsize \in Nat
  BY DEF Nodes!Fill, SketchAssumptions, Nodes!SizeAssumption
<1>3. /\ list' \in Seq(Node) /\ Len(list') = Len(list) + 1 /\ DOMAIN list' = DOMAIN list \cup {Len(list) + 1}
      /\ list'[Len(list) + 1] = e /\ \A r \in DOMAIN list : list'[r] = list[r]
  BY <1>1, <1>2
<1>4. /\ n \in Nat /\ n' = n + 1 /\ n' \in 0..kMaxPuts
      /\ freq \in [Few -> 0..n] /\ freq' \in [Few -> 0..n']
      /\ freq'[i] = freq[i] + 1 /\ \A j \in Few : j # i => freq'[j] = freq[j]
      /\ rounds \in 0..n /\ rounds \in 0..n'
  BY <1>2, NodesTally DEF Nodes!IInv
<1>5. \A r \in DOMAIN list : list[r].index # i
  BY <1>2 DEF Nodes!Places
<1>6. Nodes!Typed'
  BY <1>1, <1>2, <1>3, <1>4 DEF Nodes!Typed
<1>7. Nodes!Distinct'
  BY <1>3, <1>5 DEF Nodes!IInv, Nodes!Distinct
<1>8. Nodes!NodesWithin'
  <2> SUFFICES ASSUME NEW r \in DOMAIN list'
               PROVE  /\ list'[r].freq <= freq'[list'[r].index]
                      /\ freq'[list'[r].index] <= list'[r].freq + rounds
    BY <1>2 DEF Nodes!NodesWithin
  <2>1. CASE r = Len(list) + 1
    <3>1. freq[i] <= rounds
      BY <1>2 DEF Nodes!IInv, Nodes!OthersWithin
    <3>2. freq[i] \in 0..n /\ list'[r].index = i /\ list'[r].freq = 1
      BY <1>3, <1>4, <2>1
    <3>3. QED
      BY <1>4, <3>1, <3>2
  <2>2. CASE r \in DOMAIN list
    <3>1. /\ list[r].freq <= freq[list[r].index] /\ freq[list[r].index] <= list[r].freq + rounds
          /\ list[r].index \in Few /\ list[r].index # i
      BY <1>1, <1>5, <2>2 DEF Nodes!IInv, Nodes!NodesWithin
    <3>2. QED
      BY <1>3, <1>4, <2>2, <3>1
  <2>3. QED
    BY <1>3, <2>1, <2>2
<1>9. Nodes!OthersWithin'
  <2> SUFFICES ASSUME NEW j \in Few, Nodes!Places(j)' = {} PROVE freq'[j] <= rounds
    BY <1>2 DEF Nodes!OthersWithin
  <2>1. \A r \in DOMAIN list' : list'[r].index # j
    BY DEF Nodes!Places
  <2>2. Nodes!Places(j) = {} /\ j # i
    BY <1>3, <2>1 DEF Nodes!Places
  <2>3. QED
    BY <1>4, <2>2 DEF Nodes!IInv, Nodes!OthersWithin
<1>10. QED
  BY <1>6, <1>7, <1>8, <1>9 DEF Nodes!IInv

(* The node at 0 that is given away was put in no more puts than there     *)
(* were rounds.                                                            *)
LEMMA NodesReplace ==
  ASSUME Nodes!IInv, NEW i \in Few, Nodes!Replace(i)
  PROVE  Nodes!IInv'
<1> DEFINE Node == [index : Few, freq : Int]
           e == [index |-> i, freq |-> 1]
           S == {0} \cup {q \in DOMAIN list : list[q].freq # 0}
           p == 1 + Nodes!Max(S)
<1>1. /\ list \in Seq(Node) /\ Len(list) <= bsize /\ Len(list) \in Nat /\ DOMAIN list = 1..Len(list)
      /\ \A r \in DOMAIN list : list[r] \in Node
  BY NodesList DEF Nodes!IInv
<1>2. /\ Nodes!Places(i) = {} /\ Len(list) = bsize /\ Nodes!Tally(i) /\ rounds' = rounds
      /\ list' = [list EXCEPT ![p] = e] /\ list[Len(list)].freq = 0 /\ bsize \in Nat \ {0}
  BY DEF Nodes!Replace, Nodes!Full, Nodes!Last, SketchAssumptions, Nodes!SizeAssumption
<1>3. p \in DOMAIN list /\ list[p].freq = 0
  <2>1. S \in SUBSET (0..Len(list)) /\ S # {} /\ Len(list) \notin S
    BY <1>1, <1>2
  <2>2. Nodes!Max(S) \in S /\ \A y \in S : y <= Nodes!Max(S)
    <3> HIDE DEF S
    <3>1. QED
      BY <1>1, <2>1, GreatestNatural
  <2>3. Nodes!Max(S) \in 0..Len(list) /\ Nodes!Max(S) # Len(list)
    <3> HIDE DEF S
    <3>1. QED
      BY <2>1, <2>2
  <2>4. p \in 1..Len(list)
    <3> HIDE DEF S
    <3>1. QED
      BY <1>1, <2>3
  <2>5. p \notin S
    <3> HIDE DEF S
    <3>1. QED
      BY <1>1, <2>2, <2>3
  <2>6. QED
    BY <1>1, <2>4, <2>5
<1> HIDE DEF p, S
<1>4. /\ list' \in Seq(Node) /\ Len(list') = Len(list) /\ DOMAIN list' = DOMAIN list
      /\ list'[p] = e /\ \A r \in DOMAIN list : r # p => list'[r] = list[r]
  BY <1>1, <1>2, <1>3, ExceptSeq, LenProperties
<1>5. /\ n \in Nat /\ n' = n + 1 /\ n' \in 0..kMaxPuts
      /\ freq \in [Few -> 0..n] /\ freq' \in [Few -> 0..n']
      /\ freq'[i] = freq[i] + 1 /\ \A j \in Few : j # i => freq'[j] = freq[j]
      /\ rounds \in 0..n /\ rounds \in 0..n'
  BY <1>2, NodesTally DEF Nodes!IInv
<1>6. \A r \in DOMAIN list : list[r].index # i
  BY <1>2 DEF Nodes!Places
<1>7. Nodes!Typed'
  BY <1>1, <1>2, <1>4, <1>5 DEF Nodes!Typed
<1>8. Nodes!Distinct'
  BY <1>4, <1>6 DEF Nodes!IInv, Nodes!Distinct
<1>9. Nodes!NodesWithin'
  <2> SUFFICES ASSUME NEW r \in DOMAIN list
               PROVE  /\ list'[r].freq <= freq'[list'[r].index]
                      /\ freq'[list'[r].index] <= list'[r].freq + rounds
    BY <1>2, <1>4 DEF Nodes!NodesWithin
  <2>1. CASE r = p
    <3>1. freq[i] <= rounds
      BY <1>2 DEF Nodes!IInv, Nodes!OthersWithin
    <3>2. freq[i] \in 0..n /\ list'[r].index = i /\ list'[r].freq = 1
      BY <1>4, <1>5, <2>1
    <3>3. QED
      BY <1>5, <3>1, <3>2
  <2>2. CASE r # p
    <3>1. /\ list[r].freq <= freq[list[r].index] /\ freq[list[r].index] <= list[r].freq + rounds
          /\ list[r].index \in Few /\ list[r].index # i
      BY <1>1, <1>6 DEF Nodes!IInv, Nodes!NodesWithin
    <3>2. QED
      BY <1>4, <1>5, <2>2, <3>1
  <2>3. QED
    BY <2>1, <2>2
<1>10. Nodes!OthersWithin'
  <2> SUFFICES ASSUME NEW j \in Few, Nodes!Places(j)' = {} PROVE freq'[j] <= rounds
    BY <1>2 DEF Nodes!OthersWithin
  <2>1. \A r \in DOMAIN list : list'[r].index # j
    BY <1>4 DEF Nodes!Places
  <2>2. j # i /\ \A r \in DOMAIN list : r # p => list[r].index # j
    BY <1>3, <1>4, <2>1
  <2>3. CASE list[p].index = j
    <3>1. freq[j] <= list[p].freq + rounds
      BY <1>3, <2>3 DEF Nodes!IInv, Nodes!NodesWithin
    <3>2. QED
      BY <1>3, <1>5, <2>2, <3>1
  <2>4. CASE list[p].index # j
    <3>1. Nodes!Places(j) = {}
      BY <2>2, <2>4 DEF Nodes!Places
    <3>2. QED
      BY <1>5, <2>2, <3>1 DEF Nodes!IInv, Nodes!OthersWithin
  <2>5. QED
    BY <2>3, <2>4
<1>11. QED
  BY <1>7, <1>8, <1>9, <1>10 DEF Nodes!IInv

(* A round takes one from every node, and the rounds are one more.         *)
LEMMA NodesDecrement ==
  ASSUME Nodes!IInv, NEW i \in Few, Nodes!Decrement(i)
  PROVE  Nodes!IInv'
<1> DEFINE Node == [index : Few, freq : Int]
<1>1. /\ list \in Seq(Node) /\ Len(list) <= bsize /\ Len(list) \in Nat /\ DOMAIN list = 1..Len(list)
      /\ \A r \in DOMAIN list : list[r] \in Node
  BY NodesList DEF Nodes!IInv
<1>2. /\ Nodes!Places(i) = {} /\ Nodes!Tally(i) /\ rounds' = rounds + 1
      /\ list' = [r \in DOMAIN list |-> [list[r] EXCEPT !.freq = @ - 1]]
  BY DEF Nodes!Decrement, Nodes!Full
<1>3. \A r \in DOMAIN list : /\ list'[r] \in Node /\ list'[r].index = list[r].index
                             /\ list'[r].freq = list[r].freq - 1
  BY <1>1, <1>2
<1>4. list' \in Seq(Node) /\ Len(list') = Len(list) /\ DOMAIN list' = DOMAIN list
  <2>1. list' \in [1..Len(list) -> Node]
    BY <1>1, <1>2, <1>3
  <2>2. QED
    BY <1>1, <2>1
<1>5. /\ n \in Nat /\ n' = n + 1 /\ n' \in 0..kMaxPuts
      /\ freq \in [Few -> 0..n] /\ freq' \in [Few -> 0..n']
      /\ freq'[i] = freq[i] + 1 /\ \A j \in Few : j # i => freq'[j] = freq[j]
      /\ rounds \in 0..n /\ rounds + 1 \in 0..n'
  BY <1>2, NodesTally DEF Nodes!IInv
<1>6. Nodes!Typed'
  BY <1>1, <1>2, <1>4, <1>5 DEF Nodes!Typed
<1>7. Nodes!Distinct'
  BY <1>3, <1>4 DEF Nodes!IInv, Nodes!Distinct
<1>8. Nodes!NodesWithin'
  <2> SUFFICES ASSUME NEW r \in DOMAIN list
               PROVE  /\ list'[r].freq <= freq'[list'[r].index]
                      /\ freq'[list'[r].index] <= list'[r].freq + (rounds + 1)
    BY <1>2, <1>4 DEF Nodes!NodesWithin
  <2>1. /\ list[r].freq <= freq[list[r].index] /\ freq[list[r].index] <= list[r].freq + rounds
        /\ list[r].index \in Few /\ list[r].freq \in Int /\ list[r].index # i
    BY <1>1, <1>2 DEF Nodes!IInv, Nodes!NodesWithin, Nodes!Places
  <2>2. freq[list[r].index] \in Int /\ rounds \in Int /\ freq'[list[r].index] = freq[list[r].index]
    BY <1>5, <2>1
  <2>3. QED
    BY <1>3, <2>1, <2>2
<1>9. Nodes!OthersWithin'
  <2> SUFFICES ASSUME NEW j \in Few, Nodes!Places(j)' = {} PROVE freq'[j] <= rounds + 1
    BY <1>2 DEF Nodes!OthersWithin
  <2>1. Nodes!Places(j) = {}
    BY <1>3, <1>4 DEF Nodes!Places
  <2>2. freq[j] <= rounds /\ freq[j] \in Int /\ rounds \in Int
    BY <1>5, <2>1 DEF Nodes!IInv, Nodes!OthersWithin
  <2>3. QED
    BY <1>5, <2>2
<1>10. QED
  BY <1>6, <1>7, <1>8, <1>9 DEF Nodes!IInv

(* What the invariant says about the estimates.                            *)
LEMMA NodesEstimates ==
  ASSUME Nodes!IInv, NEW i \in Few
  PROVE  /\ Nodes!Cardinality(Nodes!Places(i)) <= 1
         /\ Nodes!Estimate(i) <= freq[i] /\ freq[i] <= Nodes!Estimate(i) + rounds
<1>1. CASE Nodes!Places(i) = {}
  <2>1. Nodes!Estimate(i) = 0 /\ Nodes!Cardinality(Nodes!Places(i)) = 0
    BY <1>1, NodesSets, FS_EmptySet DEF Nodes!Estimate
  <2>2. freq[i] <= rounds /\ freq[i] \in Nat /\ rounds \in Nat
    BY <1>1 DEF Nodes!IInv, Nodes!Typed, Nodes!OthersWithin
  <2>3. QED
    BY <2>1, <2>2
<1>2. ASSUME NEW p \in Nodes!Places(i)
      PROVE  /\ Nodes!Cardinality(Nodes!Places(i)) <= 1
             /\ Nodes!Estimate(i) <= freq[i] /\ freq[i] <= Nodes!Estimate(i) + rounds
  <2>1. Nodes!Places(i) = {p}
    BY <1>2 DEF Nodes!IInv, Nodes!Distinct, Nodes!Places
  <2>2. p \in Nat
    BY LenProperties DEF Nodes!IInv, Nodes!Typed, Nodes!Places
  <2>3. Nodes!Min({p}) = p
    BY <2>2 DEF Nodes!Min
  <2>4. Nodes!Estimate(i) = list[p].freq
    BY <2>1, <2>3 DEF Nodes!Estimate
  <2>5. Nodes!Cardinality(Nodes!Places(i)) = 1
    BY <2>1, NodesSets, FS_Singleton
  <2>6. QED
    BY <2>1, <2>4, <2>5 DEF Nodes!IInv, Nodes!NodesWithin, Nodes!Places
<1>3. QED
  BY <1>1, <1>2

-----------------------------------------------------------------------------
(* GroupFrequent: the counts that a list of groups has.                    *)

(* A list of groups whose counts are those that H gives.                   *)
Rep(s, H) ==
  /\ Len(s) \in Nat \ {0} /\ DOMAIN s = 1..Len(s)
  /\ H \in [1..Len(s) -> Nat] /\ H[1] = 0 /\ s[1].diff = 0
  /\ \A g \in 2..Len(s) : H[g - 1] < H[g] /\ s[g].diff = H[g] - H[g - 1]
  /\ \A g \in 1..Len(s) : s[g].items \subseteq Counter /\ s[g].items # {}
  /\ \A g, h \in 1..Len(s) : g # h => s[g].items \cap s[h].items = {}
  /\ \A c \in Counter : \E g \in 1..Len(s) : c \in s[g].items

Counts(s, cnt) ==
  /\ cnt \in [Counter -> Nat]
  /\ \E H : Rep(s, H) /\ \A g \in 1..Len(s) : \A c \in s[g].items : cnt[c] = H[g]

(* GroupFrequent has its own copies of the operators of FiniteSets, too.   *)
LEMMA GroupsSets ==
  /\ \A S : Groups!IsFiniteSet(S) <=> IsFiniteSet(S)
  /\ \A S : Groups!Cardinality(S) = Cardinality(S)
<1>1. \A S : Groups!IsFiniteSet(S) <=> IsFiniteSet(S)
  BY Zenon DEF Groups!IsFiniteSet, IsFiniteSet
<1>2. \A S : Groups!Cardinality(S) = Cardinality(S)
  BY Zenon DEF Groups!IsFiniteSet, IsFiniteSet, Groups!Cardinality, Cardinality
<1>3. QED
  BY <1>1, <1>2

(* The groups of a list, one by one.                                       *)
LEMMA GroupsList ==
  ASSUME NEW k \in Nat, NEW s \in Seq([diff : 0..k, items : SUBSET Counter])
  PROVE  /\ Len(s) \in Nat /\ DOMAIN s = 1..Len(s)
         /\ \A g \in 1..Len(s) : /\ s[g] \in [diff : 0..k, items : SUBSET Counter]
                                 /\ s[g].diff \in 0..k /\ s[g].items \subseteq Counter
<1> DEFINE T == [diff : 0..k, items : SUBSET Counter]
<1>1. /\ Len(s) \in Nat /\ DOMAIN s = 1..Len(s)
      /\ \A r \in 1..Len(s) : s[r] \in T
  <2> HIDE DEF T
  <2>1. s \in Seq(T)
    BY DEF T
  <2>2. QED
    BY <2>1, LenProperties
<1>2. QED
  BY <1>1

(* The counts in a list of groups are sums of its differences.             *)
LEMMA CountsAreSums ==
  ASSUME Groups!Typed, Groups!GroupsPart
  PROVE  Counts(groups, [c \in Counter |-> Groups!Count(c)])
<1> DEFINE L == Len(groups)
           f == [g \in DOMAIN groups |-> groups[g].diff]
           cnt == [c \in Counter |-> Groups!Count(c)]
<1>1. n \in Nat
  BY DEF Groups!Typed
<1>2. /\ L \in Nat /\ DOMAIN groups = 1..L
      /\ \A g \in 1..L : groups[g].diff \in 0..n /\ groups[g].items \subseteq Counter
  BY <1>1, GroupsList DEF Groups!Typed
<1>3. \A c \in Counter : \E g \in 1..L : c \in groups[g].items
  BY <1>2 DEF Groups!GroupsPart
<1>4. L # 0
  <2>1. Counter # {}
    BY GroupsSets, FS_EmptySet DEF Groups!CounterAssumption
  <2>2. QED
    BY <1>2, <1>3, <2>1
<1>5. groups[1].diff = 0 /\ \A g \in 2..L : groups[g].diff > 0
  BY <1>2 DEF Groups!GroupsPart
<1>6. /\ \A g \in 1..L : groups[g].items # {}
      /\ \A g, h \in 1..L : g # h => groups[g].items \cap groups[h].items = {}
  BY <1>2 DEF Groups!GroupsPart
<1>7. \A x \in 1..L : f[x] \in Int /\ f[x] = groups[x].diff /\ f[x] >= 0
  BY <1>1, <1>2
<1> HIDE DEF L, f
<1>8. PICK it : Sums(it, f, 1..L)
  <2>1. IsFiniteSet(1..L)
    BY <1>2, FS_Interval
  <2>2. QED
    BY <1>7, <2>1, SumsExist
<1> DEFINE H == [g \in 1..L |-> it[1..g]]
<1>9. ASSUME NEW g \in 1..L
      PROVE  it[1..g] \in Int /\ it[1..(g - 1)] \in Int /\ it[1..g] = groups[g].diff + it[1..(g - 1)]
  <2>1. 1..g \in SUBSET (1..L) /\ 1..(g - 1) \in SUBSET (1..L)
    BY <1>2, <1>9
  <2>2. (1..g) \ {g} = 1..(g - 1) /\ g \in 1..g
    BY <1>2, <1>9
  <2>3. \A s \in SUBSET (1..L) : \A x \in s : it[s] = f[x] + it[s \ {x}]
    <3> DEFINE D == 1..L
    <3>1. IsFiniteSet(D) /\ (\A x \in D : f[x] \in Int) /\ Sums(it, f, D)
      BY <1>2, <1>7, <1>8, FS_Interval
    <3> HIDE DEF D
    <3>2. Commutes(it, f, D)
      BY <3>1, SumsCommute
    <3>3. QED
      BY <3>2 DEF D, Commutes
  <2>4. it[1..g] = f[g] + it[1..(g - 1)]
    BY <2>1, <2>2, <2>3
  <2>5. it[1..g] \in Int /\ it[1..(g - 1)] \in Int
    BY <1>8, <2>1 DEF Sums
  <2>6. QED
    BY <1>7, <2>4, <2>5
<1>10. it[1..0] = 0
  <2>1. 1..0 = {} /\ {} \in SUBSET (1..L)
    OBVIOUS
  <2>2. QED
    BY <1>8, <2>1 DEF Sums
<1>11. \A g \in 1..L : it[1..g] \in Nat
  <2> DEFINE Good == {k \in Nat : k <= L => it[1..k] \in Nat}
  <2>1. 0 \in Good
    BY <1>10
  <2>2. ASSUME NEW k \in Nat, k \in Good PROVE k + 1 \in Good
    <3>1. CASE k + 1 <= L
      <4>1. k + 1 \in 1..L /\ k + 1 - 1 = k /\ k <= L
        BY <1>2, <3>1
      <4>2. it[1..(k + 1)] = groups[k + 1].diff + it[1..k]
        BY <1>9, <4>1
      <4>3. groups[k + 1].diff \in Nat
        BY <1>1, <1>2, <4>1
      <4>4. QED
        BY <2>2, <4>1, <4>2, <4>3
    <3>2. QED
      BY <3>1
  <2>3. Nat \subseteq Good
    <3> HIDE DEF Good
    <3>1. QED
      BY <2>1, <2>2, NatInduct
  <2>4. QED
    BY <1>2, <2>3
<1>12. Rep(groups, H)
  <2>1. H \in [1..L -> Nat]
    BY <1>11
  <2>2. H[1] = 0
    <3>1. 1 \in 1..L /\ 1 - 1 = 0
      BY <1>2, <1>4
    <3>2. it[1..1] = groups[1].diff + it[1..0]
      BY <1>9, <3>1
    <3>3. QED
      BY <1>5, <1>10, <3>1, <3>2
  <2>3. ASSUME NEW g \in 2..L PROVE H[g - 1] < H[g] /\ groups[g].diff = H[g] - H[g - 1]
    <3>1. g \in 1..L /\ g - 1 \in 1..L
      BY <1>2, <2>3
    <3>2. H[g] = groups[g].diff + H[g - 1]
      BY <1>9, <3>1
    <3>3. H[g] \in Nat /\ H[g - 1] \in Nat /\ groups[g].diff \in Nat
      BY <1>1, <1>2, <2>1, <3>1
    <3> HIDE DEF H
    <3>4. QED
      BY <1>5, <3>2, <3>3
  <2> HIDE DEF H
  <2>4. QED
    BY <1>2, <1>3, <1>4, <1>5, <1>6, <2>1, <2>2, <2>3 DEF Rep, L
<1>13. ASSUME NEW g \in 1..L, NEW c \in groups[g].items PROVE cnt[c] = H[g]
  <2>1. c \in Counter
    BY <1>2
  <2>2. Groups!GroupOf(c) = g
    <3>1. \A h \in DOMAIN groups : c \in groups[h].items => h = g
      BY <1>2, <1>6
    <3>2. g \in DOMAIN groups /\ c \in groups[g].items
      BY <1>2
    <3>3. QED
      BY <3>1, <3>2 DEF Groups!GroupOf
  <2>3. Groups!Count(c) = SumFunctionOnSet(f, 1..g)
    BY Zenon, <2>2 DEF f, Groups!Count, Groups!FoldFunctionOnSet, Groups!MapThenFoldSet,
       SumFunctionOnSet, FoldFunctionOnSet, MapThenFoldSet
  <2>4. IsFiniteSet(1..g) /\ 1..g \subseteq 1..L
    BY <1>2, <1>13, FS_Interval
  <2>5. PICK jt : Sums(jt, f, 1..g) /\ SumFunctionOnSet(f, 1..g) = jt[1..g]
    BY <1>7, <2>4, SumIsFold
  <2>6. it[1..g] = jt[1..g]
    <3> DEFINE D == 1..L
               T == 1..g
    <3>1. Sums(it, f, D) /\ Sums(jt, f, T) /\ IsFiniteSet(T) /\ T \subseteq D
      BY <1>8, <2>4, <2>5
    <3> HIDE DEF D, T
    <3>2. it[T] = jt[T]
      BY <3>1, SumsAgree
    <3>3. QED
      BY <3>2 DEF T
  <2>7. QED
    BY <2>1, <2>3, <2>5, <2>6
<1>14. cnt \in [Counter -> Nat]
  <2> SUFFICES ASSUME NEW c \in Counter PROVE cnt[c] \in Nat
    OBVIOUS
  <2>1. PICK g \in 1..L : c \in groups[g].items
    BY <1>3
  <2>2. H[g] \in Nat
    BY <1>11
  <2> HIDE DEF H, cnt
  <2>3. QED
    BY <1>13, <2>1, <2>2
<1>15. QED
  <2> HIDE DEF H
  <2>1. \A g \in 1..Len(groups) : \A c \in groups[g].items : cnt[c] = H[g]
    BY <1>13 DEF L
  <2> HIDE DEF cnt
  <2>2. Counts(groups, cnt)
    BY <1>12, <1>14, <2>1 DEF Counts
  <2>3. QED
    BY <2>2 DEF cnt

(* The counts say which counters are free, ...                             *)
LEMMA ZeroIsFree ==
  ASSUME NEW s, NEW cnt, Counts(s, cnt), NEW c \in Counter
  PROVE  c \in s[1].items <=> cnt[c] = 0
<1>1. PICK H : Rep(s, H) /\ \A g \in 1..Len(s) : \A d \in s[g].items : cnt[d] = H[g]
  BY DEF Counts
<1>2. \A g \in 2..Len(s) : H[g] # 0
  <2> SUFFICES ASSUME NEW g \in 2..Len(s) PROVE H[g] # 0
    OBVIOUS
  <2>1. g \in 1..Len(s) /\ g - 1 \in 1..Len(s) /\ H[g - 1] < H[g]
    BY <1>1 DEF Rep
  <2>2. H[g] \in Nat /\ H[g - 1] \in Nat
    BY <1>1, <2>1 DEF Rep
  <2>3. QED
    BY <2>1, <2>2
<1>3. PICK g \in 1..Len(s) : c \in s[g].items
  BY <1>1 DEF Rep
<1>4. 1 \in 1..Len(s) /\ H[1] = 0 /\ (g # 1 => g \in 2..Len(s)) /\ cnt[c] = H[g]
  BY <1>1, <1>3 DEF Rep
<1>5. g # 1 => c \notin s[1].items
  BY <1>1, <1>3, <1>4 DEF Rep
<1>6. QED
  BY <1>2, <1>3, <1>4, <1>5

(* ... and a list has the counts only once.                                *)
LEMMA CountsUnique ==
  ASSUME NEW s, NEW cnt, Counts(s, cnt), NEW dnt, Counts(s, dnt)
  PROVE  cnt = dnt
<1>1. PICK H : Rep(s, H) /\ \A g \in 1..Len(s) : \A d \in s[g].items : cnt[d] = H[g]
  BY DEF Counts
<1>2. PICK J : Rep(s, J) /\ \A g \in 1..Len(s) : \A d \in s[g].items : dnt[d] = J[g]
  BY DEF Counts
<1> DEFINE Good == {k \in Nat : k + 1 \in 1..Len(s) => H[k + 1] = J[k + 1]}
<1>3. Len(s) \in Nat
  BY <1>1 DEF Rep
<1>4. 0 \in Good
  BY <1>1, <1>2 DEF Rep
<1>5. ASSUME NEW k \in Nat, k \in Good PROVE k + 1 \in Good
  <2> SUFFICES ASSUME k + 1 + 1 \in 1..Len(s) PROVE H[k + 1 + 1] = J[k + 1 + 1]
    OBVIOUS
  <2>1. k + 1 \in 1..Len(s) /\ k + 1 + 1 \in 2..Len(s) /\ k + 1 + 1 - 1 = k + 1
    BY <1>3
  <2>2. s[k + 1 + 1].diff = H[k + 1 + 1] - H[k + 1] /\ s[k + 1 + 1].diff = J[k + 1 + 1] - J[k + 1]
    BY <1>1, <1>2, <2>1 DEF Rep
  <2>3. H[k + 1] \in Nat /\ J[k + 1] \in Nat /\ H[k + 1 + 1] \in Nat /\ J[k + 1 + 1] \in Nat
    BY <1>1, <1>2, <2>1 DEF Rep
  <2>4. H[k + 1] = J[k + 1]
    BY <1>5, <2>1
  <2>5. QED
    BY <2>2, <2>3, <2>4
<1>6. Nat \subseteq Good
  <2> HIDE DEF Good
  <2>1. QED
    BY <1>4, <1>5, NatInduct
<1>7. \A g \in 1..Len(s) : H[g] = J[g]
  <2> SUFFICES ASSUME NEW g \in 1..Len(s) PROVE H[g] = J[g]
    OBVIOUS
  <2>1. g - 1 \in Nat /\ g - 1 + 1 = g
    BY <1>3
  <2>2. QED
    BY <1>6, <2>1
<1>8. \A c \in Counter : cnt[c] = dnt[c]
  BY <1>1, <1>2, <1>7 DEF Rep
<1>9. QED
  BY <1>8 DEF Counts

-----------------------------------------------------------------------------
(* The operations on the list, and what they do to the counts.             *)

(* What the operations on the list do, group by group.                     *)
IsGroups(t) == DOMAIN t = 1..Len(t)

IsJoined(t, s, g, c) ==
  /\ Len(t) = Len(s) /\ IsGroups(t)
  /\ g + 1 \in 1..Len(s) /\ s[g + 1].diff = 1 /\ s[g].items # {c}
  /\ \A h \in 1..Len(s) :
       /\ t[h].diff = s[h].diff
       /\ t[h].items = (s[h].items \ {c}) \cup (IF h = g + 1 THEN {c} ELSE {})

IsTaken(t, s, g, c) ==
  /\ Len(t) = Len(s) - 1 /\ IsGroups(t)
  /\ g # 1 /\ g + 1 \in 1..Len(s) /\ s[g + 1].diff = 1 /\ s[g].items = {c}
  /\ \A h \in 1..(Len(s) - 1) :
       /\ h < g => t[h].diff = s[h].diff /\ t[h].items = s[h].items
       /\ h = g => t[h].diff = s[g].diff + 1 /\ t[h].items = s[g + 1].items \cup {c}
       /\ h > g => t[h].diff = s[h + 1].diff /\ t[h].items = s[h + 1].items

IsShifted(t, s, g, c) ==
  /\ Len(t) = Len(s) /\ IsGroups(t)
  /\ g # 1 /\ s[g].items = {c} /\ (g + 1 \in 1..Len(s) => s[g + 1].diff # 1)
  /\ \A h \in 1..Len(s) :
       /\ t[h].items = s[h].items
       /\ h = g => t[h].diff = s[h].diff + 1
       /\ h = g + 1 => t[h].diff = s[h].diff - 1
       /\ h # g /\ h # g + 1 => t[h].diff = s[h].diff

IsAdded(t, s, g, c) ==
  /\ Len(t) = Len(s) + 1 /\ IsGroups(t)
  /\ s[g].items # {c} /\ (g + 1 \in 1..Len(s) => s[g + 1].diff # 1)
  /\ \A h \in 1..(Len(s) + 1) :
       /\ h <= g => t[h].diff = s[h].diff /\ t[h].items = s[h].items \ {c}
       /\ h = g + 1 => t[h].diff = 1 /\ t[h].items = {c}
       /\ h = g + 2 => t[h].diff = s[h - 1].diff - 1 /\ t[h].items = s[h - 1].items
       /\ h > g + 2 => t[h].diff = s[h - 1].diff /\ t[h].items = s[h - 1].items

IsLowered(t, s) ==
  /\ Len(t) = Len(s) /\ IsGroups(t)
  /\ 2 \in 1..Len(s) /\ s[2].diff # 1
  /\ \A h \in 1..Len(s) : /\ t[h].items = s[h].items
                          /\ t[h].diff = IF h = 2 THEN s[h].diff - 1 ELSE s[h].diff

IsDropped(t, s) ==
  /\ Len(t) = Len(s) - 1 /\ IsGroups(t)
  /\ 2 \in 1..Len(s) /\ s[2].diff = 1
  /\ t[1].diff = 0 /\ t[1].items = s[1].items \cup s[2].items
  /\ \A h \in 2..(Len(s) - 1) : t[h].diff = s[h + 1].diff /\ t[h].items = s[h + 1].items

More(cnt, c) == [cnt EXCEPT ![c] = @ + 1]
Less(cnt) == [c \in Counter |-> IF cnt[c] = 0 THEN 0 ELSE cnt[c] - 1]

(* The counts after a counter was raised.                                  *)
LEMMA MoreType ==
  ASSUME NEW cnt \in [Counter -> Nat], NEW c \in Counter
  PROVE  /\ More(cnt, c) \in [Counter -> Nat] /\ More(cnt, c)[c] = cnt[c] + 1
         /\ \A d \in Counter : d # c => More(cnt, c)[d] = cnt[d]
BY DEF More

(* What it means that a list has the counts that H gives.                  *)
LEMMA RepFacts ==
  ASSUME NEW s, NEW H, Rep(s, H)
  PROVE  /\ Len(s) \in Nat \ {0} /\ DOMAIN s = 1..Len(s)
         /\ H \in [1..Len(s) -> Nat] /\ \A g \in 1..Len(s) : H[g] \in Nat
         /\ H[1] = 0 /\ s[1].diff = 0
         /\ \A g \in 2..Len(s) : /\ H[g - 1] < H[g] /\ s[g].diff = H[g] - H[g - 1]
                                 /\ H[g - 1] \in Nat /\ H[g] \in Nat /\ g - 1 \in 1..Len(s)
         /\ \A g \in 1..Len(s) : s[g].items \subseteq Counter /\ s[g].items # {}
         /\ \A g, h \in 1..Len(s) : g # h => s[g].items \cap s[h].items = {}
         /\ \A c \in Counter : \E g \in 1..Len(s) : c \in s[g].items
<1>1. \A g \in 2..Len(s) : g \in 1..Len(s) /\ g - 1 \in 1..Len(s)
  BY DEF Rep
<1>2. \A g \in 1..Len(s) : H[g] \in Nat
  BY DEF Rep
<1>3. \A g \in 2..Len(s) : H[g - 1] < H[g] /\ s[g].diff = H[g] - H[g - 1]
  BY DEF Rep
<1>4. QED
  BY <1>1, <1>2, <1>3 DEF Rep

(* A counter that joins the next group counts one more, ...                *)
LEMMA JoinedCounts ==
  ASSUME NEW s, NEW t, NEW cnt, Counts(s, cnt), NEW g \in 1..Len(s), NEW c \in s[g].items,
         IsJoined(t, s, g, c)
  PROVE  Counts(t, More(cnt, c))
<1>1. PICK H : Rep(s, H) /\ \A h \in 1..Len(s) : \A d \in s[h].items : cnt[d] = H[h]
  BY DEF Counts
<1>2. c \in Counter /\ g \in Nat /\ g >= 1 /\ g <= Len(s) /\ Len(s) \in Nat
  BY <1>1, RepFacts
<1>3. Len(t) = Len(s) /\ DOMAIN t = 1..Len(t) /\ g + 1 \in 1..Len(s)
  BY DEF IsJoined, IsGroups
<1>4. \A h \in 1..Len(s) : h # g => c \notin s[h].items
  BY <1>1, RepFacts
<1>5. H[g + 1] = H[g] + 1
  <2>1. g + 1 \in 2..Len(s) /\ g + 1 - 1 = g
    BY <1>2, <1>3
  <2>2. s[g + 1].diff = H[g + 1] - H[g] /\ H[g + 1] \in Nat /\ H[g] \in Nat
    BY <1>1, <2>1, RepFacts
  <2>3. QED
    BY <2>2 DEF IsJoined
<1>6. \A h \in 1..Len(s) : t[h].diff = s[h].diff
  BY DEF IsJoined
<1>7. \A h \in 1..Len(s) : t[h].items = (s[h].items \ {c}) \cup (IF h = g + 1 THEN {c} ELSE {})
  BY DEF IsJoined
<1>8. Rep(t, H)
  <2>1. \A h \in 1..Len(s) : t[h].items \subseteq Counter
    BY <1>1, <1>2, <1>7, RepFacts
  <2>2. ASSUME NEW h \in 1..Len(s) PROVE t[h].items # {}
    <3>1. CASE h = g
      <4>1. s[g].items # {c} /\ c \in s[g].items
        BY DEF IsJoined
      <4>2. QED
        BY <1>7, <3>1, <4>1
    <3>2. CASE h # g
      <4>1. PICK d : d \in s[h].items
        BY <1>1, RepFacts
      <4>2. d # c
        BY <1>4, <3>2, <4>1
      <4>3. QED
        BY <1>7, <4>1, <4>2
    <3>3. QED
      BY <3>1, <3>2
  <2>3. \A h, j \in 1..Len(s) : h # j => t[h].items \cap t[j].items = {}
    <3>1. \A h, j \in 1..Len(s) : h # j => s[h].items \cap s[j].items = {}
      BY <1>1, RepFacts
    <3>2. QED
      BY <1>7, <3>1
  <2>4. ASSUME NEW d \in Counter PROVE \E h \in 1..Len(s) : d \in t[h].items
    <3>1. CASE d = c
      BY <1>3, <1>7, <3>1
    <3>2. CASE d # c
      BY <1>1, <1>7, <3>2, RepFacts
    <3>3. QED
      BY <3>1, <3>2
  <2>5. QED
    BY <1>1, <1>3, <1>6, <2>1, <2>2, <2>3, <2>4 DEF Rep
<1>9. cnt \in [Counter -> Nat]
  BY DEF Counts
<1>10. ASSUME NEW h \in 1..Len(t), NEW d \in t[h].items PROVE More(cnt, c)[d] = H[h]
  <2>1. CASE d = c
    <3>1. h = g + 1 /\ cnt[c] = H[g]
      BY <1>1, <1>3, <1>7, <2>1
    <3>2. QED
      BY <1>2, <1>5, <1>9, <2>1, <3>1, MoreType
  <2>2. CASE d # c
    <3>1. d \in s[h].items /\ d \in Counter
      BY <1>1, <1>3, <1>7, <2>2, RepFacts
    <3>2. QED
      BY <1>1, <1>2, <1>3, <1>9, <2>2, <3>1, MoreType
  <2>3. QED
    BY <2>1, <2>2
<1>11. QED
  BY <1>2, <1>8, <1>9, <1>10, MoreType DEF Counts

(* ... also when its group goes with it, ...                               *)
LEMMA TakenCounts ==
  ASSUME NEW s, NEW t, NEW cnt, Counts(s, cnt), NEW g \in 1..Len(s), NEW c \in s[g].items,
         IsTaken(t, s, g, c)
  PROVE  Counts(t, More(cnt, c))
<1>1. PICK H : Rep(s, H) /\ \A h \in 1..Len(s) : \A d \in s[h].items : cnt[d] = H[h]
  BY DEF Counts
<1> DEFINE L == Len(s)
           K == Len(s) - 1
           J == [h \in 1..K |-> IF h < g THEN H[h] ELSE H[h + 1]]
<1>2. c \in Counter /\ g \in Nat /\ g >= 2 /\ g <= L /\ g + 1 \in 1..L /\ L \in Nat /\ K \in Nat \ {0}
  <2>1. c \in Counter /\ Len(s) \in Nat
    BY <1>1, RepFacts
  <2>2. g # 1 /\ g + 1 \in 1..Len(s)
    BY DEF IsTaken
  <2>3. QED
    BY <2>1, <2>2
<1>3. Len(t) = K /\ DOMAIN t = 1..Len(t) /\ 1 \in 1..K /\ g \in 1..K
  BY <1>2 DEF IsTaken, IsGroups
<1>4. \A h \in 1..K : /\ h < g => t[h].diff = s[h].diff /\ t[h].items = s[h].items
                      /\ h = g => t[h].diff = s[g].diff + 1 /\ t[h].items = s[g + 1].items \cup {c}
                      /\ h > g => t[h].diff = s[h + 1].diff /\ t[h].items = s[h + 1].items
  BY DEF IsTaken
<1>5. \A h \in 1..K : h \in 1..L /\ h + 1 \in 1..L
  BY <1>2
<1>6. s[g].items = {c} /\ \A h \in 1..L : h # g => c \notin s[h].items
  BY <1>1, RepFacts DEF IsTaken
<1>7. H[g + 1] = H[g] + 1 /\ H[g] \in Nat /\ H[g + 1] \in Nat
  <2>1. g + 1 \in 2..L /\ g + 1 - 1 = g
    BY <1>2
  <2>2. s[g + 1].diff = H[g + 1] - H[g] /\ H[g + 1] \in Nat /\ H[g] \in Nat
    BY <1>1, <2>1, RepFacts
  <2>3. QED
    BY <2>2 DEF IsTaken
<1>8. J \in [1..K -> Nat] /\ \A h \in 1..K : J[h] = IF h < g THEN H[h] ELSE H[h + 1]
  BY <1>1, <1>5, RepFacts
<1> HIDE DEF J, K, L
<1>9. J[1] = 0 /\ t[1].diff = 0
  <2>1. 1 < g /\ H[1] = 0 /\ s[1].diff = 0
    BY <1>1, <1>2, RepFacts
  <2>2. QED
    BY <1>3, <1>4, <1>8, <2>1
<1>10. ASSUME NEW h \in 2..K PROVE J[h - 1] < J[h] /\ t[h].diff = J[h] - J[h - 1]
  <2>1. h \in 1..K /\ h - 1 \in 1..K /\ h \in Nat /\ h \in 2..L /\ h + 1 \in 2..L /\ h + 1 - 1 = h
    BY <1>2 DEF K, L
  <2>2. /\ H[h - 1] < H[h] /\ s[h].diff = H[h] - H[h - 1] /\ H[h - 1] \in Nat /\ H[h] \in Nat
        /\ H[h] < H[h + 1] /\ s[h + 1].diff = H[h + 1] - H[h] /\ H[h + 1] \in Nat
    BY <1>1, <2>1, RepFacts DEF L
  <2>3. CASE h < g
    <3>1. J[h - 1] = H[h - 1] /\ J[h] = H[h] /\ t[h].diff = s[h].diff
      BY <1>2, <1>4, <1>8, <2>1, <2>3
    <3>2. QED
      BY <2>2, <3>1
  <2>4. CASE h = g
    <3>1. J[h - 1] = H[h - 1] /\ J[h] = H[h + 1] /\ t[h].diff = s[h].diff + 1
      BY <1>2, <1>4, <1>8, <2>1, <2>4
    <3>2. H[h + 1] = H[h] + 1
      BY <1>7, <2>4
    <3>3. QED
      BY <2>2, <3>1, <3>2
  <2>5. CASE h > g
    <3>1. J[h - 1] = H[h] /\ J[h] = H[h + 1] /\ t[h].diff = s[h + 1].diff
      <4>1. ~(h - 1 < g) /\ ~(h < g) /\ h - 1 + 1 = h
        BY <1>2, <2>1, <2>5
      <4>2. QED
        BY <1>4, <1>8, <2>1, <2>5, <4>1
    <3>2. QED
      BY <2>2, <3>1
  <2>6. QED
    BY <1>2, <2>1, <2>3, <2>4, <2>5
<1> DEFINE Old(h) == IF h < g THEN h ELSE h + 1
<1>11. /\ \A h \in 1..K : /\ Old(h) \in 1..L /\ Old(h) # g /\ J[h] = H[Old(h)]
                          /\ t[h].items = s[Old(h)].items \cup (IF h = g THEN {c} ELSE {})
       /\ \A h, j \in 1..K : Old(h) = Old(j) => h = j
       /\ \A j \in 1..L : j # g => \E h \in 1..K : Old(h) = j
  <2>1. ASSUME NEW h \in 1..K
        PROVE  /\ Old(h) \in 1..L /\ Old(h) # g /\ J[h] = H[Old(h)]
               /\ t[h].items = s[Old(h)].items \cup (IF h = g THEN {c} ELSE {})
    <3>0. h \in Nat /\ h \in 1..L /\ h + 1 \in 1..L
      BY <1>2, <1>5, <2>1
    <3>1. CASE h < g
      <4>1. Old(h) = h /\ h # g
        BY <1>2, <3>0, <3>1
      <4>2. t[h].items = s[h].items /\ J[h] = H[h]
        BY <1>4, <1>8, <2>1, <3>1
      <4> HIDE DEF Old
      <4>3. QED
        BY <3>0, <4>1, <4>2
    <3>2. CASE h >= g
      <4>1. Old(h) = h + 1 /\ h + 1 # g /\ ~(h < g)
        BY <1>2, <3>0, <3>2
      <4>2. t[h].items = s[h + 1].items \cup (IF h = g THEN {c} ELSE {})
        BY <1>2, <1>4, <2>1, <3>0, <3>2
      <4>3. J[h] = H[h + 1]
        BY <1>8, <2>1, <4>1
      <4> HIDE DEF Old
      <4>4. QED
        BY <3>0, <4>1, <4>2, <4>3
    <3>3. QED
      BY <1>2, <3>0, <3>1, <3>2
  <2>2. \A h, j \in 1..K : Old(h) = Old(j) => h = j
    BY <1>2
  <2>3. ASSUME NEW j \in 1..L, j # g PROVE \E h \in 1..K : Old(h) = j
    <3>1. CASE j < g
      <4>1. j \in 1..K /\ Old(j) = j
        BY <1>2, <3>1 DEF K, L
      <4>2. QED
        BY <4>1
    <3>2. CASE j > g
      <4>1. j - 1 \in 1..K /\ Old(j - 1) = j
        BY <1>2, <3>2 DEF K, L
      <4>2. QED
        BY <4>1
    <3>3. QED
      BY <1>2, <2>3, <3>1, <3>2
  <2>4. QED
    BY <2>1, <2>2, <2>3
<1> HIDE DEF Old
<1>12. Rep(t, J)
  <2>1. \A h \in 1..K : t[h].items \subseteq Counter /\ t[h].items # {}
    <3> SUFFICES ASSUME NEW h \in 1..K PROVE t[h].items \subseteq Counter /\ t[h].items # {}
      OBVIOUS
    <3>1. s[Old(h)].items \subseteq Counter /\ s[Old(h)].items # {}
      BY <1>1, <1>11, RepFacts DEF L
    <3>2. QED
      BY <1>2, <1>11, <3>1
  <2>2. ASSUME NEW h \in 1..K, NEW j \in 1..K, h # j PROVE t[h].items \cap t[j].items = {}
    <3>1. /\ Old(h) # Old(j) /\ Old(h) \in 1..L /\ Old(j) \in 1..L
          /\ c \notin s[Old(h)].items /\ c \notin s[Old(j)].items
      BY <1>6, <1>11, <2>2
    <3>2. s[Old(h)].items \cap s[Old(j)].items = {}
      BY <1>1, <3>1, RepFacts DEF L
    <3>3. QED
      BY <1>11, <2>2, <3>1, <3>2
  <2>3. ASSUME NEW d \in Counter PROVE \E h \in 1..K : d \in t[h].items
    <3>1. CASE d = c
      BY <1>3, <1>11, <3>1
    <3>2. CASE d # c
      <4>1. PICK j \in 1..L : d \in s[j].items
        BY <1>1, RepFacts DEF L
      <4>2. j # g
        BY <1>6, <3>2, <4>1
      <4>3. QED
        BY <1>11, <4>1, <4>2
    <3>3. QED
      BY <3>1, <3>2
  <2>4. QED
    BY <1>2, <1>3, <1>8, <1>9, <1>10, <2>1, <2>2, <2>3 DEF Rep
<1>13. cnt \in [Counter -> Nat]
  BY DEF Counts
<1>14. ASSUME NEW h \in 1..Len(t), NEW d \in t[h].items PROVE More(cnt, c)[d] = J[h]
  <2>1. h \in 1..K
    BY <1>3
  <2>2. CASE d = c
    <3>1. c \notin s[Old(h)].items
      BY <1>6, <1>11, <2>1
    <3>2. h = g
      BY <1>11, <2>1, <2>2, <3>1
    <3>3. J[h] = H[g + 1]
      BY <1>2, <1>8, <2>1, <3>2
    <3>4. cnt[c] = H[g]
      BY <1>1, <1>2
    <3>5. QED
      BY <1>2, <1>7, <1>13, <2>2, <3>3, <3>4, MoreType
  <2>3. CASE d # c
    <3>1. d \in s[Old(h)].items
      BY <1>11, <2>1, <2>3
    <3>2. d \in Counter /\ cnt[d] = H[Old(h)]
      BY <1>1, <1>11, <2>1, <3>1, RepFacts DEF L
    <3>3. More(cnt, c)[d] = cnt[d]
      BY <1>2, <1>13, <2>3, <3>2, MoreType
    <3>4. QED
      BY <1>11, <2>1, <3>2, <3>3
  <2>4. QED
    BY <2>2, <2>3
<1>15. QED
  BY <1>2, <1>12, <1>13, <1>14, MoreType DEF Counts

(* ... when its group moves instead, ...                                   *)
LEMMA ShiftedCounts ==
  ASSUME NEW s, NEW t, NEW cnt, Counts(s, cnt), NEW g \in 1..Len(s), NEW c \in s[g].items,
         IsShifted(t, s, g, c)
  PROVE  Counts(t, More(cnt, c))
<1>1. PICK H : Rep(s, H) /\ \A h \in 1..Len(s) : \A d \in s[h].items : cnt[d] = H[h]
  BY DEF Counts
<1> DEFINE L == Len(s)
           J == [h \in 1..L |-> IF h = g THEN H[h] + 1 ELSE H[h]]
<1>2. c \in Counter /\ g \in Nat /\ g >= 2 /\ g <= L /\ L \in Nat \ {0}
  <2>1. c \in Counter /\ Len(s) \in Nat \ {0}
    BY <1>1, RepFacts
  <2>2. g # 1
    BY DEF IsShifted
  <2>3. QED
    BY <2>1, <2>2
<1>3. Len(t) = L /\ DOMAIN t = 1..Len(t) /\ 1 \in 1..L
  BY <1>2 DEF IsShifted, IsGroups
<1>4. \A h \in 1..L : /\ t[h].items = s[h].items
                      /\ h = g => t[h].diff = s[h].diff + 1
                      /\ h = g + 1 => t[h].diff = s[h].diff - 1
                      /\ h # g /\ h # g + 1 => t[h].diff = s[h].diff
  BY DEF IsShifted
<1>5. s[g].items = {c} /\ \A h \in 1..L : h # g => c \notin s[h].items
  BY <1>1, RepFacts DEF IsShifted
<1>6. J \in [1..L -> Nat] /\ \A h \in 1..L : J[h] = IF h = g THEN H[h] + 1 ELSE H[h]
  <2>1. \A h \in 1..L : H[h] \in Nat /\ H[h] + 1 \in Nat
    BY <1>1, RepFacts
  <2>2. QED
    BY <2>1
<1> HIDE DEF J, L
<1>7. J[1] = 0 /\ t[1].diff = 0
  <2>1. 1 < g /\ H[1] = 0 /\ s[1].diff = 0
    BY <1>1, <1>2, RepFacts
  <2>2. QED
    BY <1>3, <1>4, <1>6, <2>1
<1>8. ASSUME NEW h \in 2..L PROVE J[h - 1] < J[h] /\ t[h].diff = J[h] - J[h - 1]
  <2>1. h \in 1..L /\ h - 1 \in 1..L /\ h \in Nat
    BY <1>2
  <2>2. H[h - 1] < H[h] /\ s[h].diff = H[h] - H[h - 1] /\ H[h - 1] \in Nat /\ H[h] \in Nat
    BY <1>1, RepFacts DEF L
  <2>3. CASE h = g
    <3>1. J[h - 1] = H[h - 1] /\ J[h] = H[h] + 1 /\ t[h].diff = s[h].diff + 1
      BY <1>2, <1>4, <1>6, <2>1, <2>3
    <3>2. QED
      BY <2>2, <3>1
  <2>4. CASE h = g + 1
    <3>1. J[h - 1] = H[h - 1] + 1 /\ J[h] = H[h] /\ t[h].diff = s[h].diff - 1
      BY <1>2, <1>4, <1>6, <2>1, <2>4
    <3>2. s[h].diff # 1
      BY <2>1, <2>4 DEF IsShifted, L
    <3>3. QED
      BY <2>2, <3>1, <3>2
  <2>5. CASE h # g /\ h # g + 1
    <3>1. J[h - 1] = H[h - 1] /\ J[h] = H[h] /\ t[h].diff = s[h].diff
      BY <1>2, <1>4, <1>6, <2>1, <2>5
    <3>2. QED
      BY <2>2, <3>1
  <2>6. QED
    BY <2>3, <2>4, <2>5
<1>9. Rep(t, J)
  <2>1. /\ \A h \in 1..L : t[h].items \subseteq Counter /\ t[h].items # {}
        /\ \A h, j \in 1..L : h # j => t[h].items \cap t[j].items = {}
        /\ \A d \in Counter : \E h \in 1..L : d \in t[h].items
    <3>1. /\ \A h \in 1..L : s[h].items \subseteq Counter /\ s[h].items # {}
          /\ \A h, j \in 1..L : h # j => s[h].items \cap s[j].items = {}
          /\ \A d \in Counter : \E h \in 1..L : d \in s[h].items
      BY <1>1, RepFacts DEF L
    <3>2. \A h \in 1..L : t[h].items = s[h].items
      BY <1>4
    <3>3. QED
      BY <3>1, <3>2
  <2>2. QED
    BY <1>2, <1>3, <1>6, <1>7, <1>8, <2>1 DEF Rep
<1>10. cnt \in [Counter -> Nat]
  BY DEF Counts
<1>11. ASSUME NEW h \in 1..Len(t), NEW d \in t[h].items PROVE More(cnt, c)[d] = J[h]
  <2>1. h \in 1..L /\ d \in s[h].items
    BY <1>3, <1>4
  <2>2. d \in Counter /\ cnt[d] = H[h]
    BY <1>1, <2>1, RepFacts DEF L
  <2>3. d = c <=> h = g
    BY <1>5, <2>1
  <2>4. CASE d = c
    <3>1. J[h] = H[h] + 1
      BY <1>6, <2>1, <2>3, <2>4
    <3>2. More(cnt, c)[c] = cnt[c] + 1
      BY <1>2, <1>10, MoreType
    <3>3. QED
      BY <2>2, <2>4, <3>1, <3>2
  <2>5. CASE d # c
    <3>1. J[h] = H[h]
      BY <1>6, <2>1, <2>3, <2>5
    <3>2. More(cnt, c)[d] = cnt[d]
      BY <1>2, <1>10, <2>2, <2>5, MoreType
    <3>3. QED
      BY <2>2, <3>1, <3>2
  <2>6. QED
    BY <2>4, <2>5
<1>12. QED
  BY <1>2, <1>9, <1>10, <1>11, MoreType DEF Counts

(* ... and when it starts a new group.                                     *)
LEMMA AddedCounts ==
  ASSUME NEW s, NEW t, NEW cnt, Counts(s, cnt), NEW g \in 1..Len(s), NEW c \in s[g].items,
         IsAdded(t, s, g, c)
  PROVE  Counts(t, More(cnt, c))
<1>1. PICK H : Rep(s, H) /\ \A h \in 1..Len(s) : \A d \in s[h].items : cnt[d] = H[h]
  BY DEF Counts
<1> DEFINE L == Len(s)
           K == Len(s) + 1
           J == [h \in 1..K |-> IF h <= g THEN H[h] ELSE IF h = g + 1 THEN H[g] + 1 ELSE H[h - 1]]
<1>2. c \in Counter /\ g \in Nat /\ g >= 1 /\ g <= L /\ L \in Nat \ {0} /\ K \in Nat \ {0}
  <2>1. c \in Counter /\ Len(s) \in Nat \ {0}
    BY <1>1, RepFacts
  <2>2. QED
    BY <2>1
<1>3. Len(t) = K /\ DOMAIN t = 1..Len(t) /\ 1 \in 1..K /\ g + 1 \in 1..K
  BY <1>2 DEF IsAdded, IsGroups
<1>4. \A h \in 1..K :
       /\ h <= g => t[h].diff = s[h].diff /\ t[h].items = s[h].items \ {c}
       /\ h = g + 1 => t[h].diff = 1 /\ t[h].items = {c}
       /\ h = g + 2 => t[h].diff = s[h - 1].diff - 1 /\ t[h].items = s[h - 1].items
       /\ h > g + 2 => t[h].diff = s[h - 1].diff /\ t[h].items = s[h - 1].items
  BY DEF IsAdded
<1>5. s[g].items # {c} /\ \A h \in 1..L : h # g => c \notin s[h].items
  BY <1>1, RepFacts DEF IsAdded
<1>6. \A h \in 1..L : H[h] \in Nat
  BY <1>1, RepFacts
<1>7. J \in [1..K -> Nat]
  /\ \A h \in 1..K : J[h] = IF h <= g THEN H[h] ELSE IF h = g + 1 THEN H[g] + 1 ELSE H[h - 1]
  <2>1. ASSUME NEW h \in 1..K PROVE J[h] \in Nat
    <3>1. CASE h <= g
      BY <1>2, <1>6, <3>1
    <3>2. CASE h = g + 1
      BY <1>2, <1>6, <3>2
    <3>3. CASE h > g + 1
      <4>1. h - 1 \in 1..L
        BY <1>2, <3>3
      <4>2. QED
        BY <1>2, <1>6, <3>3, <4>1
    <3>4. QED
      BY <1>2, <3>1, <3>2, <3>3
  <2>2. QED
    BY <2>1
<1> HIDE DEF J, K, L
<1>8. J[1] = 0 /\ t[1].diff = 0
  <2>1. 1 <= g /\ H[1] = 0 /\ s[1].diff = 0
    BY <1>1, <1>2, RepFacts
  <2>2. QED
    BY <1>3, <1>4, <1>7, <2>1
<1>9. ASSUME NEW h \in 2..K PROVE J[h - 1] < J[h] /\ t[h].diff = J[h] - J[h - 1]
  <2>1. h \in 1..K /\ h - 1 \in 1..K /\ h \in Nat
    BY <1>2
  <2>2. CASE h <= g
    <3>1. h \in 2..L
      BY <1>2, <2>2
    <3>2. H[h - 1] < H[h] /\ s[h].diff = H[h] - H[h - 1] /\ H[h - 1] \in Nat /\ H[h] \in Nat
      BY <1>1, <3>1, RepFacts DEF L
    <3>3. J[h - 1] = H[h - 1] /\ J[h] = H[h] /\ t[h].diff = s[h].diff
      BY <1>2, <1>4, <1>7, <2>1, <2>2
    <3>4. QED
      BY <3>2, <3>3
  <2>3. CASE h = g + 1
    <3>1. J[h - 1] = H[g] /\ J[h] = H[g] + 1 /\ t[h].diff = 1
      BY <1>2, <1>4, <1>7, <2>1, <2>3
    <3>2. H[g] \in Nat
      BY <1>2, <1>6
    <3>3. QED
      BY <3>1, <3>2
  <2>4. CASE h = g + 2
    <3>1. h - 1 \in 2..L /\ h - 1 = g + 1 /\ h - 1 - 1 = g /\ g + 1 \in 1..Len(s)
      BY <1>2, <2>4 DEF L, K
    <3>2. /\ H[g] < H[g + 1] /\ s[g + 1].diff = H[g + 1] - H[g]
          /\ H[g] \in Nat /\ H[g + 1] \in Nat
      BY <1>1, <3>1, RepFacts DEF L
    <3>3. s[g + 1].diff # 1
      BY <3>1 DEF IsAdded
    <3>4. J[h - 1] = H[g] + 1
      BY <1>2, <1>7, <2>1, <3>1
    <3>5. J[h] = H[g + 1]
      BY <1>2, <1>7, <2>1, <2>4, <3>1
    <3>6. t[h].diff = s[g + 1].diff - 1
      BY <1>4, <2>1, <2>4, <3>1
    <3>7. QED
      BY <3>2, <3>3, <3>4, <3>5, <3>6
  <2>5. CASE h > g + 2
    <3>1. h - 1 \in 2..L
      BY <1>2, <2>5 DEF L, K
    <3>2. /\ H[h - 1 - 1] < H[h - 1] /\ s[h - 1].diff = H[h - 1] - H[h - 1 - 1]
          /\ H[h - 1 - 1] \in Nat /\ H[h - 1] \in Nat
      BY <1>1, <3>1, RepFacts DEF L
    <3>3. J[h - 1] = H[h - 1 - 1] /\ J[h] = H[h - 1] /\ t[h].diff = s[h - 1].diff
      BY <1>2, <1>4, <1>7, <2>1, <2>5
    <3>4. QED
      BY <3>2, <3>3
  <2>6. QED
    BY <1>2, <2>1, <2>2, <2>3, <2>4, <2>5
<1> DEFINE Old(h) == IF h <= g THEN h ELSE h - 1
<1>10. ASSUME NEW h \in 1..K, h # g + 1
       PROVE  Old(h) \in 1..L /\ J[h] = H[Old(h)] /\ t[h].items = s[Old(h)].items \ {c}
  <2>0. h \in Nat
    BY <1>2
  <2>1. CASE h <= g
    <3>1. Old(h) = h /\ h \in 1..L
      BY <1>2, <2>0, <2>1
    <3>2. J[h] = H[h] /\ t[h].items = s[h].items \ {c}
      BY <1>4, <1>7, <2>1
    <3> HIDE DEF Old
    <3>3. QED
      BY <3>1, <3>2
  <2>2. CASE h > g + 1
    <3>1. Old(h) = h - 1 /\ h - 1 \in 1..L /\ h - 1 # g /\ ~(h <= g)
      BY <1>2, <2>0, <2>2 DEF K, L
    <3>2. J[h] = H[h - 1] /\ t[h].items = s[h - 1].items
      BY <1>2, <1>4, <1>7, <2>0, <2>2, <3>1
    <3>3. c \notin s[h - 1].items
      BY <1>5, <3>1
    <3> HIDE DEF Old
    <3>4. QED
      BY <3>1, <3>2, <3>3
  <2>3. QED
    BY <1>2, <1>10, <2>0, <2>1, <2>2
<1>11. \A h, j \in 1..K : h # g + 1 /\ j # g + 1 /\ Old(h) = Old(j) => h = j
  BY <1>2
<1>12. \A j \in 1..L : \E h \in 1..K : h # g + 1 /\ Old(h) = j
  <2> SUFFICES ASSUME NEW j \in 1..L PROVE \E h \in 1..K : h # g + 1 /\ Old(h) = j
    OBVIOUS
  <2>1. CASE j <= g
    <3>1. j \in 1..K /\ Old(j) = j /\ j # g + 1
      BY <1>2, <2>1 DEF K, L
    <3>2. QED
      BY <3>1
  <2>2. CASE j > g
    <3>1. j + 1 \in 1..K /\ Old(j + 1) = j /\ j + 1 # g + 1
      BY <1>2, <2>2 DEF K, L
    <3>2. QED
      BY <3>1
  <2>3. QED
    BY <1>2, <2>1, <2>2
<1> HIDE DEF Old
<1>13. t[g + 1].items = {c} /\ J[g + 1] = H[g] + 1
  BY <1>2, <1>3, <1>4, <1>7
<1>14. Rep(t, J)
  <2>1. ASSUME NEW h \in 1..K PROVE t[h].items \subseteq Counter /\ t[h].items # {}
    <3>1. CASE h = g + 1
      BY <1>2, <1>13, <3>1
    <3>2. CASE h # g + 1
      <4>1. s[Old(h)].items \subseteq Counter /\ s[Old(h)].items # {}
        BY <1>1, <1>10, <3>2, RepFacts DEF L
      <4>2. s[Old(h)].items # {c}
        BY <1>2, <1>5, <1>10, <3>2
      <4>3. QED
        BY <1>10, <3>2, <4>1, <4>2
    <3>3. QED
      BY <3>1, <3>2
  <2>2. ASSUME NEW h \in 1..K, NEW j \in 1..K, h # j PROVE t[h].items \cap t[j].items = {}
    <3>1. CASE h # g + 1 /\ j # g + 1
      <4>1. Old(h) # Old(j) /\ Old(h) \in 1..L /\ Old(j) \in 1..L
        BY <1>10, <1>11, <2>2, <3>1
      <4>2. s[Old(h)].items \cap s[Old(j)].items = {}
        BY <1>1, <4>1, RepFacts DEF L
      <4>3. QED
        BY <1>10, <3>1, <4>2
    <3>2. CASE h = g + 1
      BY <1>10, <1>13, <2>2, <3>2
    <3>3. CASE j = g + 1
      BY <1>10, <1>13, <2>2, <3>3
    <3>4. QED
      BY <3>1, <3>2, <3>3
  <2>3. ASSUME NEW d \in Counter PROVE \E h \in 1..K : d \in t[h].items
    <3>1. CASE d = c
      BY <1>3, <1>13, <3>1
    <3>2. CASE d # c
      <4>1. PICK j \in 1..L : d \in s[j].items
        BY <1>1, RepFacts DEF L
      <4>2. QED
        BY <1>10, <1>12, <3>2, <4>1
    <3>3. QED
      BY <3>1, <3>2
  <2>4. QED
    BY <1>2, <1>3, <1>7, <1>8, <1>9, <2>1, <2>2, <2>3 DEF Rep
<1>15. cnt \in [Counter -> Nat]
  BY DEF Counts
<1>16. ASSUME NEW h \in 1..Len(t), NEW d \in t[h].items PROVE More(cnt, c)[d] = J[h]
  <2>1. h \in 1..K
    BY <1>3
  <2>2. CASE h = g + 1
    <3>1. d = c /\ cnt[c] = H[g]
      BY <1>1, <1>13, <2>2
    <3>2. QED
      BY <1>2, <1>13, <1>15, <2>2, <3>1, MoreType
  <2>3. CASE h # g + 1
    <3>1. d # c /\ d \in s[Old(h)].items /\ Old(h) \in 1..L
      BY <1>10, <2>1, <2>3
    <3>2. d \in Counter /\ cnt[d] = H[Old(h)]
      BY <1>1, <3>1, RepFacts DEF L
    <3>3. QED
      BY <1>2, <1>10, <1>15, <2>1, <2>3, <3>1, <3>2, MoreType
  <2>4. QED
    BY <2>2, <2>3
<1>17. QED
  BY <1>2, <1>14, <1>15, <1>16, MoreType DEF Counts

(* A round takes one from each count that is not 0, ...                    *)
LEMMA LoweredCounts ==
  ASSUME NEW s, NEW t, NEW cnt, Counts(s, cnt), IsLowered(t, s)
  PROVE  Counts(t, Less(cnt))
<1>1. PICK H : Rep(s, H) /\ \A h \in 1..Len(s) : \A d \in s[h].items : cnt[d] = H[h]
  BY DEF Counts
<1> DEFINE L == Len(s)
           J == [h \in 1..L |-> IF h = 1 THEN 0 ELSE H[h] - 1]
<1>2. L \in Nat \ {0} /\ Len(t) = L /\ DOMAIN t = 1..Len(t) /\ 1 \in 1..L
  <2>1. Len(s) \in Nat \ {0}
    BY <1>1, RepFacts
  <2>2. QED
    BY <2>1 DEF IsLowered, IsGroups
<1>3. \A h \in 1..L : t[h].items = s[h].items /\ t[h].diff = IF h = 2 THEN s[h].diff - 1 ELSE s[h].diff
  BY DEF IsLowered
<1>4. \A h \in 1..L : H[h] \in Nat /\ (h # 1 => H[h] # 0)
  <2> SUFFICES ASSUME NEW h \in 1..L PROVE H[h] \in Nat /\ (h # 1 => H[h] # 0)
    OBVIOUS
  <2>1. H[h] \in Nat
    BY <1>1, RepFacts
  <2>2. CASE h # 1
    <3>1. h \in 2..Len(s)
      BY <1>2, <2>2
    <3>2. H[h - 1] < H[h] /\ H[h - 1] \in Nat
      BY <1>1, <3>1, RepFacts
    <3>3. QED
      BY <2>1, <3>2
  <2>3. QED
    BY <2>1, <2>2
<1>5. J \in [1..L -> Nat] /\ \A h \in 1..L : J[h] = IF h = 1 THEN 0 ELSE H[h] - 1
  BY <1>4
<1> HIDE DEF J, L
<1>6. H[1] = 0 /\ s[1].diff = 0
  BY <1>1, RepFacts
<1>7. J[1] = 0 /\ t[1].diff = 0
  BY <1>2, <1>3, <1>5, <1>6
<1>8. ASSUME NEW h \in 2..L PROVE J[h - 1] < J[h] /\ t[h].diff = J[h] - J[h - 1]
  <2>1. h \in 1..L /\ h - 1 \in 1..L /\ h \in Nat /\ h # 1
    BY <1>2
  <2>2. H[h - 1] < H[h] /\ s[h].diff = H[h] - H[h - 1] /\ H[h - 1] \in Nat /\ H[h] \in Nat
    BY <1>1, RepFacts DEF L
  <2>3. J[h] = H[h] - 1
    BY <1>5, <2>1
  <2>4. CASE h = 2
    <3>1. J[h - 1] = 0 /\ H[h - 1] = 0 /\ t[h].diff = s[h].diff - 1
      BY <1>3, <1>6, <1>7, <2>1, <2>4
    <3>2. s[h].diff # 1
      BY <2>4 DEF IsLowered
    <3>3. QED
      BY <2>2, <2>3, <3>1, <3>2
  <2>5. CASE h # 2
    <3>1. J[h - 1] = H[h - 1] - 1 /\ t[h].diff = s[h].diff
      BY <1>3, <1>5, <2>1, <2>5
    <3>2. QED
      BY <2>2, <2>3, <3>1
  <2>6. QED
    BY <2>4, <2>5
<1>9. Rep(t, J)
  <2>1. /\ \A h \in 1..L : t[h].items \subseteq Counter /\ t[h].items # {}
        /\ \A h, j \in 1..L : h # j => t[h].items \cap t[j].items = {}
        /\ \A d \in Counter : \E h \in 1..L : d \in t[h].items
    <3>1. /\ \A h \in 1..L : s[h].items \subseteq Counter /\ s[h].items # {}
          /\ \A h, j \in 1..L : h # j => s[h].items \cap s[j].items = {}
          /\ \A d \in Counter : \E h \in 1..L : d \in s[h].items
      BY <1>1, RepFacts DEF L
    <3>2. \A h \in 1..L : t[h].items = s[h].items
      BY <1>3
    <3>3. QED
      BY <3>1, <3>2
  <2>2. QED
    BY <1>2, <1>5, <1>7, <1>8, <2>1 DEF Rep
<1>10. Less(cnt) \in [Counter -> Nat]
  BY DEF Counts, Less
<1>11. ASSUME NEW h \in 1..Len(t), NEW d \in t[h].items PROVE Less(cnt)[d] = J[h]
  <2>1. h \in 1..L /\ d \in s[h].items
    BY <1>2, <1>3
  <2>2. d \in Counter /\ cnt[d] = H[h]
    BY <1>1, <2>1, RepFacts DEF L
  <2>3. Less(cnt)[d] = IF H[h] = 0 THEN 0 ELSE H[h] - 1
    BY <2>2 DEF Less
  <2>4. QED
    BY <1>4, <1>5, <1>6, <2>1, <2>3
<1>12. QED
  BY <1>9, <1>10, <1>11 DEF Counts

(* ... also when a group comes down to the free ones.                      *)
LEMMA DroppedCounts ==
  ASSUME NEW s, NEW t, NEW cnt, Counts(s, cnt), IsDropped(t, s)
  PROVE  Counts(t, Less(cnt))
<1>1. PICK H : Rep(s, H) /\ \A h \in 1..Len(s) : \A d \in s[h].items : cnt[d] = H[h]
  BY DEF Counts
<1> DEFINE L == Len(s)
           K == Len(s) - 1
           J == [h \in 1..K |-> IF h = 1 THEN 0 ELSE H[h + 1] - 1]
<1>2. /\ L \in Nat \ {0} /\ K \in Nat \ {0} /\ Len(t) = K /\ DOMAIN t = 1..Len(t)
      /\ 1 \in 1..K /\ 2 \in 1..L /\ 1 \in 1..L
  <2>1. Len(s) \in Nat \ {0}
    BY <1>1, RepFacts
  <2>2. 2 \in 1..Len(s) /\ Len(t) = Len(s) - 1 /\ DOMAIN t = 1..Len(t)
    BY DEF IsDropped, IsGroups
  <2>3. QED
    BY <2>1, <2>2
<1>3. /\ t[1].diff = 0 /\ t[1].items = s[1].items \cup s[2].items
      /\ \A h \in 2..K : t[h].diff = s[h + 1].diff /\ t[h].items = s[h + 1].items
  BY DEF IsDropped
<1>4. \A h \in 1..L : H[h] \in Nat /\ (h # 1 => H[h] # 0)
  <2> SUFFICES ASSUME NEW h \in 1..L PROVE H[h] \in Nat /\ (h # 1 => H[h] # 0)
    OBVIOUS
  <2>1. H[h] \in Nat
    BY <1>1, RepFacts
  <2>2. CASE h # 1
    <3>1. h \in 2..Len(s)
      BY <1>2, <2>2
    <3>2. H[h - 1] < H[h] /\ H[h - 1] \in Nat
      BY <1>1, <3>1, RepFacts
    <3>3. QED
      BY <2>1, <3>2
  <2>3. QED
    BY <2>1, <2>2
<1>5. H[1] = 0 /\ H[2] = 1
  <2>1. 2 \in 2..Len(s) /\ 2 - 1 = 1
    BY <1>2
  <2>2. s[2].diff = H[2] - H[1] /\ H[1] = 0 /\ H[2] \in Nat
    BY <1>1, <2>1, RepFacts
  <2>3. QED
    BY <2>2 DEF IsDropped
<1>6. \A h \in 2..K : h \in 1..K /\ h + 1 \in 1..L /\ h + 1 \in 2..L
  BY <1>2
<1>7. J \in [1..K -> Nat] /\ J[1] = 0 /\ \A h \in 2..K : J[h] = H[h + 1] - 1
  <2>1. ASSUME NEW h \in 1..K PROVE J[h] \in Nat
    <3>1. CASE h = 1
      BY <3>1
    <3>2. CASE h # 1
      <4>1. h \in 2..K
        BY <1>2, <3>2
      <4>2. H[h + 1] \in Nat /\ H[h + 1] # 0
        <5>1. h + 1 \in 1..L /\ h + 1 # 1
          BY <1>2, <1>6, <4>1
        <5>2. QED
          BY <1>4, <5>1
      <4>3. QED
        BY <3>2, <4>2
    <3>3. QED
      BY <3>1, <3>2
  <2>2. QED
    BY <1>2, <1>6, <2>1
<1> HIDE DEF J, L, K
<1>8. ASSUME NEW h \in 2..K PROVE J[h - 1] < J[h] /\ t[h].diff = J[h] - J[h - 1]
  <2>1. h \in 1..K /\ h \in Nat /\ h + 1 \in 2..L /\ h + 1 - 1 = h
    BY <1>2, <1>6
  <2>2. H[h] < H[h + 1] /\ s[h + 1].diff = H[h + 1] - H[h] /\ H[h] \in Nat /\ H[h + 1] \in Nat
    BY <1>1, <2>1, RepFacts DEF L
  <2>3. J[h] = H[h + 1] - 1 /\ t[h].diff = s[h + 1].diff
    BY <1>3, <1>7, <2>1
  <2>4. J[h - 1] = H[h] - 1
    <3>1. CASE h = 2
      BY <1>5, <1>7, <3>1
    <3>2. CASE h # 2
      <4>1. h - 1 \in 2..K /\ h - 1 + 1 = h
        BY <1>2, <2>1, <3>2
      <4>2. QED
        BY <1>7, <4>1
    <3>3. QED
      BY <3>1, <3>2
  <2>5. QED
    BY <2>2, <2>3, <2>4
<1>9. /\ \A h \in 1..L : s[h].items \subseteq Counter /\ s[h].items # {}
      /\ \A h, j \in 1..L : h # j => s[h].items \cap s[j].items = {}
      /\ \A d \in Counter : \E h \in 1..L : d \in s[h].items
  BY <1>1, RepFacts DEF L
<1>10. Rep(t, J)
  <2>1. ASSUME NEW h \in 1..K PROVE t[h].items \subseteq Counter /\ t[h].items # {}
    <3>1. CASE h = 1
      BY <1>2, <1>3, <1>9, <3>1
    <3>2. CASE h # 1
      <4>1. h \in 2..K
        BY <1>2, <3>2
      <4>2. QED
        BY <1>3, <1>6, <1>9, <4>1
    <3>3. QED
      BY <3>1, <3>2
  <2>2. ASSUME NEW h \in 2..K, NEW j \in 1..K, h # j PROVE t[h].items \cap t[j].items = {}
    <3>1. h + 1 \in 1..L /\ h + 1 # 1 /\ h + 1 # 2 /\ t[h].items = s[h + 1].items
      BY <1>2, <1>3, <1>6
    <3>2. CASE j = 1
      BY <1>2, <1>3, <1>9, <3>1, <3>2
    <3>3. CASE j # 1
      <4>1. j \in 2..K
        BY <1>2, <3>3
      <4>2. j + 1 \in 1..L /\ h + 1 # j + 1 /\ t[j].items = s[j + 1].items
        BY <1>2, <1>3, <1>6, <2>2, <4>1
      <4>3. QED
        BY <1>9, <3>1, <4>2
    <3>4. QED
      BY <3>2, <3>3
  <2>3. \A h, j \in 1..K : h # j => t[h].items \cap t[j].items = {}
    <3> SUFFICES ASSUME NEW h \in 1..K, NEW j \in 1..K, h # j
                 PROVE  t[h].items \cap t[j].items = {}
      OBVIOUS
    <3>1. h \in 2..K \/ j \in 2..K
      BY <1>2
    <3>2. QED
      BY <2>2, <3>1
  <2>4. ASSUME NEW d \in Counter PROVE \E h \in 1..K : d \in t[h].items
    <3>1. PICK j \in 1..L : d \in s[j].items
      BY <1>9
    <3>2. CASE j \in {1, 2}
      BY <1>2, <1>3, <3>1, <3>2
    <3>3. CASE j \notin {1, 2}
      <4>1. j - 1 \in 2..K /\ j - 1 \in 1..K /\ j - 1 + 1 = j
        BY <1>2, <3>3 DEF K, L
      <4>2. QED
        BY <1>3, <3>1, <4>1
    <3>4. QED
      BY <3>2, <3>3
  <2>5. QED
    BY <1>2, <1>3, <1>7, <1>8, <2>1, <2>3, <2>4 DEF Rep
<1>11. Less(cnt) \in [Counter -> Nat]
  BY DEF Counts, Less
<1>12. ASSUME NEW h \in 1..Len(t), NEW d \in t[h].items PROVE Less(cnt)[d] = J[h]
  <2>1. h \in 1..K
    BY <1>2
  <2>2. CASE h = 1
    <3>1. PICK j \in {1, 2} : d \in s[j].items
      BY <1>3, <2>2
    <3>2. d \in Counter /\ cnt[d] = H[j]
      BY <1>1, <1>2, <1>9, <3>1 DEF L
    <3>3. Less(cnt)[d] = 0
      BY <1>5, <3>1, <3>2 DEF Less
    <3>4. QED
      BY <1>7, <2>2, <3>3
  <2>3. CASE h # 1
    <3>1. h \in 2..K
      BY <1>2, <2>1, <2>3
    <3>2. h + 1 \in 1..L /\ h + 1 # 1 /\ d \in s[h + 1].items
      BY <1>2, <1>3, <1>6, <3>1
    <3>3. d \in Counter /\ cnt[d] = H[h + 1] /\ H[h + 1] # 0
      BY <1>1, <1>4, <1>9, <3>2 DEF L
    <3>4. Less(cnt)[d] = H[h + 1] - 1
      BY <3>3 DEF Less
    <3>5. QED
      BY <1>7, <3>1, <3>4
  <2>4. QED
    BY <2>2, <2>3
<1>13. QED
  BY <1>10, <1>11, <1>12 DEF Counts

-----------------------------------------------------------------------------
(* The code's operations do that: groups with other counters.              *)

GroupIn(k) == [diff : 0..k, items : SUBSET Counter]

(* The groups of the sketch, one by one.                                   *)
LEMMA GroupsSeq ==
  ASSUME Groups!Typed
  PROVE  /\ n \in Nat /\ groups \in Seq(GroupIn(n))
         /\ Len(groups) \in Nat /\ DOMAIN groups = 1..Len(groups)
         /\ \A g \in 1..Len(groups) :
              /\ groups[g] \in GroupIn(n)
              /\ groups[g].diff \in 0..n /\ groups[g].items \subseteq Counter
<1>1. n \in Nat /\ groups \in Seq(GroupIn(n))
  BY DEF Groups!Typed, GroupIn
<1>2. /\ Len(groups) \in Nat /\ DOMAIN groups = 1..Len(groups)
      /\ \A g \in 1..Len(groups) : groups[g] \in GroupIn(n)
  BY <1>1, LenProperties
<1>3. QED
  BY <1>1, <1>2 DEF GroupIn

(* A group with another difference or other counters.                      *)
LEMMA GroupTyped ==
  ASSUME NEW k \in Nat, NEW d \in 0..k, NEW cs \in SUBSET Counter
  PROVE  /\ Groups!Group(d, cs) \in GroupIn(k)
         /\ Groups!Group(d, cs).diff = d /\ Groups!Group(d, cs).items = cs
BY DEF GroupIn, Groups!Group

WithItems(e, cs) == [e EXCEPT !.items = cs]

(* A group with other counters, ...                                        *)
LEMMA ItemsChanged ==
  ASSUME NEW k \in Nat, NEW e \in GroupIn(k), NEW cs \in SUBSET Counter
  PROVE  /\ WithItems(e, cs) \in GroupIn(k)
         /\ WithItems(e, cs).diff = e.diff /\ WithItems(e, cs).items = cs
BY DEF GroupIn, WithItems

(* ... or with another difference.                                         *)
LEMMA DiffChanged ==
  ASSUME NEW k \in Nat, NEW e \in GroupIn(k), NEW j \in Nat, NEW d \in 0..j, j >= k
  PROVE  /\ [e EXCEPT !.diff = d] \in GroupIn(j)
         /\ [e EXCEPT !.diff = d].diff = d /\ [e EXCEPT !.diff = d].items = e.items
BY DEF GroupIn

(* A list of groups stays one when more puts are allowed.                  *)
LEMMA Wider ==
  ASSUME NEW k \in Nat
  PROVE  GroupIn(k) \subseteq GroupIn(k + 1) /\ Seq(GroupIn(k)) \subseteq Seq(GroupIn(k + 1))
<1>1. GroupIn(k) \subseteq GroupIn(k + 1)
  BY DEF GroupIn
<1>2. QED
  BY <1>1

(* Without a counter the groups keep their differences.                    *)
LEMMA WithoutIs ==
  ASSUME Groups!Typed, NEW c \in Counter
  PROVE  /\ Groups!Without(c) \in [1..Len(groups) -> GroupIn(n)]
         /\ \A h \in 1..Len(groups) :
              /\ Groups!Without(c)[h] \in GroupIn(n)
              /\ Groups!Without(c)[h].diff = groups[h].diff
              /\ Groups!Without(c)[h].items = groups[h].items \ {c}
<1> DEFINE w == Groups!Without(c)
<1>1. w = [h \in 1..Len(groups) |-> [groups[h] EXCEPT !.items = groups[h].items \ {c}]]
  BY GroupsSeq DEF Groups!Without
<1>2. ASSUME NEW h \in 1..Len(groups)
      PROVE  w[h] \in GroupIn(n) /\ w[h].diff = groups[h].diff /\ w[h].items = groups[h].items \ {c}
  <2> DEFINE cs == groups[h].items \ {c}
  <2>1. groups[h] \in GroupIn(n) /\ cs \in SUBSET Counter /\ n \in Nat
    BY GroupsSeq
  <2>2. w[h] = WithItems(groups[h], cs)
    BY <1>1 DEF WithItems
  <2> HIDE DEF w, cs
  <2>3. w[h] \in GroupIn(n) /\ w[h].diff = groups[h].diff /\ w[h].items = cs
    BY <2>1, <2>2, ItemsChanged
  <2>4. QED
    BY <2>3 DEF cs
<1> HIDE DEF w
<1>3. w \in [1..Len(groups) -> GroupIn(n)]
  BY <1>1, <1>2
<1>4. QED
  BY <1>2, <1>3 DEF w

(* The counter enters the next group.                                      *)
Entered(c, g) == [Groups!Without(c) EXCEPT ![g + 1].items = @ \cup {c}]

LEMMA EntersNext ==
  ASSUME Groups!Typed, NEW c \in Counter, NEW g \in 1..Len(groups), g + 1 \in 1..Len(groups)
  PROVE  /\ Entered(c, g) \in [1..Len(groups) -> GroupIn(n)]
         /\ \A h \in 1..Len(groups) :
              /\ Entered(c, g)[h] \in GroupIn(n)
              /\ Entered(c, g)[h].diff = groups[h].diff
              /\ Entered(c, g)[h].items = (groups[h].items \ {c}) \cup (IF h = g + 1 THEN {c} ELSE {})
<1> DEFINE w == Groups!Without(c)
           t == Entered(c, g)
           L == Len(groups)
<1>1. /\ w \in [1..L -> GroupIn(n)] /\ n \in Nat
      /\ \A h \in 1..L : w[h] \in GroupIn(n) /\ w[h].diff = groups[h].diff /\ w[h].items = groups[h].items \ {c}
  BY WithoutIs, GroupsSeq
<1>2. t = [w EXCEPT ![g + 1] = [w[g + 1] EXCEPT !.items = w[g + 1].items \cup {c}]]
  BY DEF Entered
<1>3. g + 1 \in 1..L
  OBVIOUS
<1> HIDE DEF w, t, L
<1>4. ASSUME NEW h \in 1..L
      PROVE  /\ t[h] \in GroupIn(n) /\ t[h].diff = groups[h].diff
             /\ t[h].items = (groups[h].items \ {c}) \cup (IF h = g + 1 THEN {c} ELSE {})
  <2>1. CASE h = g + 1
    <3> DEFINE cs == w[h].items \cup {c}
    <3>1. t[h] = WithItems(w[h], cs)
      BY <1>1, <1>2, <1>3, <2>1 DEF WithItems
    <3>2. cs \in SUBSET Counter
      <4>1. groups[h].items \subseteq Counter
        BY GroupsSeq DEF L
      <4>2. QED
        BY <1>1, <4>1
    <3> HIDE DEF cs
    <3>3. t[h] \in GroupIn(n) /\ t[h].diff = w[h].diff /\ t[h].items = cs
      BY <1>1, <3>1, <3>2, ItemsChanged
    <3>4. QED
      BY <1>1, <2>1, <3>3 DEF cs
  <2>2. CASE h # g + 1
    <3>1. t[h] = w[h]
      BY <1>1, <1>2, <2>2
    <3>2. QED
      BY <1>1, <2>2, <3>1
  <2>3. QED
    BY <2>1, <2>2
<1>5. t \in [1..L -> GroupIn(n)]
  <2>1. t = [h \in 1..L |-> t[h]]
    BY <1>1, <1>2
  <2>2. QED
    BY <1>4, <2>1
<1>6. QED
  BY <1>4, <1>5 DEF L, t

(* A new group for the counter.                                            *)
LEMMA NewGroupAdds ==
  ASSUME Groups!Typed, Groups!GroupsPart, NEW g \in 1..Len(groups), NEW c \in groups[g].items,
         groups[g].items # {c}, ~ Groups!HasSuccessor(groups, g)
  PROVE  /\ Groups!NewGroup(Groups!Without(c), g, c) \in Seq(GroupIn(n + 1))
         /\ IsAdded(Groups!NewGroup(Groups!Without(c), g, c), groups, g, c)
<1> DEFINE L == Len(groups)
           w == Groups!Without(c)
           v == [h \in 1..L |-> IF h = g + 1 THEN [w[h] EXCEPT !.diff = @ - 1] ELSE w[h]]
           e == Groups!Group(1, {c})
           t == Put(v, g + 1, e)
<1>1. /\ n \in Nat /\ L \in Nat /\ DOMAIN groups = 1..L
      /\ \A h \in 1..L : groups[h].diff \in 0..n /\ groups[h].items \subseteq Counter
  BY GroupsSeq
<1>2. c \in Counter /\ g \in 1..L /\ g \in Nat
  BY <1>1
<1>3. /\ w \in [1..L -> GroupIn(n)]
      /\ \A h \in 1..L : w[h] \in GroupIn(n) /\ w[h].diff = groups[h].diff /\ w[h].items = groups[h].items \ {c}
  BY <1>2, WithoutIs
<1>4. Groups!NewGroup(w, g, c) = t
  <2>1. DOMAIN w = 1..L
    BY <1>3
  <2>2. Groups!NewGroup(w, g, c) = Groups!InsertAt(v, g + 1, e)
    <3> HIDE DEF w
    <3>1. QED
      BY <2>1 DEF Groups!NewGroup
  <2>3. QED
    BY <2>2 DEF Groups!InsertAt, Put
<1>5. g + 1 \in 1..L => groups[g + 1].diff # 1 /\ groups[g + 1].diff \in 1..n
  <2> SUFFICES ASSUME g + 1 \in 1..L PROVE groups[g + 1].diff # 1 /\ groups[g + 1].diff \in 1..n
    OBVIOUS
  <2>1. g < Len(groups) /\ g + 1 > 1
    BY <1>1, <1>2
  <2>2. groups[g + 1].diff # 1
    BY <2>1 DEF Groups!HasSuccessor
  <2>3. groups[g + 1].diff > 0
    BY <1>1, <2>1 DEF Groups!GroupsPart
  <2>4. QED
    BY <1>1, <2>2, <2>3
<1> HIDE DEF w
<1>6. ASSUME NEW h \in 1..L
      PROVE  /\ v[h] \in GroupIn(n) /\ v[h].items = groups[h].items \ {c}
             /\ v[h].diff = IF h = g + 1 THEN groups[h].diff - 1 ELSE groups[h].diff
  <2>1. w[h] \in GroupIn(n) /\ w[h].diff = groups[h].diff /\ w[h].items = groups[h].items \ {c}
    BY <1>3
  <2>2. CASE h = g + 1
    <3>1. v[h] = [w[h] EXCEPT !.diff = groups[h].diff - 1]
      BY <2>1, <2>2
    <3>2. groups[h].diff - 1 \in 0..n
      BY <1>1, <1>5, <2>2
    <3> HIDE DEF v
    <3>3. v[h] \in GroupIn(n) /\ v[h].diff = groups[h].diff - 1 /\ v[h].items = w[h].items
      <4>1. n >= n
        BY <1>1
      <4>2. QED
        BY <1>1, <2>1, <3>1, <3>2, <4>1, DiffChanged
    <3>4. QED
      BY <2>1, <2>2, <3>3
  <2>3. CASE h # g + 1
    <3>1. v[h] = w[h]
      BY <2>3
    <3> HIDE DEF v
    <3>2. QED
      BY <2>1, <2>3, <3>1
  <2>4. QED
    BY <2>2, <2>3
<1>7. v \in Seq(GroupIn(n)) /\ Len(v) = L
  <2>1. v \in [1..L -> GroupIn(n)]
    BY <1>6
  <2> HIDE DEF v
  <2>2. QED
    BY <1>1, <2>1
<1> HIDE DEF v
<1>8. v \in Seq(GroupIn(n + 1)) /\ e \in GroupIn(n + 1) /\ g + 1 \in 1..(Len(v) + 1)
  <2>1. v \in Seq(GroupIn(n + 1))
    BY <1>1, <1>7, Wider
  <2>2. e \in GroupIn(n + 1)
    <3>1. n + 1 \in Nat /\ 1 \in 0..(n + 1) /\ {c} \in SUBSET Counter
      BY <1>1, <1>2
    <3>2. QED
      BY <3>1, GroupTyped
  <2>3. g + 1 \in 1..(Len(v) + 1)
    BY <1>1, <1>2, <1>7
  <2>4. QED
    BY <2>1, <2>2, <2>3
<1>9. e.diff = 1 /\ e.items = {c}
  <2>1. 1 \in Nat /\ 1 \in 0..1 /\ {c} \in SUBSET Counter
    BY <1>2
  <2>2. QED
    BY <2>1, GroupTyped
<1> HIDE DEF e
<1>10. /\ t \in Seq(GroupIn(n + 1)) /\ Len(t) = L + 1
       /\ \A r \in 1..(L + 1) : t[r] = IF r < g + 1 THEN v[r] ELSE IF r = g + 1 THEN e ELSE v[r - 1]
  <2>1. t \in Seq(GroupIn(n + 1)) /\ IsPut(t, v, g + 1, e)
    BY <1>8, Inserted
  <2>2. QED
    BY <1>7, <2>1 DEF IsPut
<1> HIDE DEF t
<1>11. DOMAIN t = 1..(L + 1)
  BY <1>10, LenProperties
<1>12. ASSUME NEW h \in 1..(L + 1)
       PROVE  /\ h <= g => t[h].diff = groups[h].diff /\ t[h].items = groups[h].items \ {c}
              /\ h = g + 1 => t[h].diff = 1 /\ t[h].items = {c}
              /\ h = g + 2 => t[h].diff = groups[h - 1].diff - 1 /\ t[h].items = groups[h - 1].items
              /\ h > g + 2 => t[h].diff = groups[h - 1].diff /\ t[h].items = groups[h - 1].items
  <2>1. h \in Nat
    BY <1>1
  <2>2. CASE h <= g
    <3>1. h \in 1..L /\ h < g + 1 /\ h # g + 1 /\ h # g + 2 /\ ~(h > g + 2)
      BY <1>1, <1>2, <2>1, <2>2
    <3>2. t[h] = v[h]
      BY <1>10, <3>1
    <3>3. t[h].items = groups[h].items \ {c} /\ t[h].diff = groups[h].diff
      BY <1>6, <3>1, <3>2
    <3>4. QED
      BY <3>1, <3>3
  <2>3. CASE h = g + 1
    <3>1. ~(h < g + 1) /\ ~(h <= g) /\ h # g + 2 /\ ~(h > g + 2)
      BY <1>2, <2>3
    <3>2. QED
      BY <1>9, <1>10, <2>3, <3>1
  <2>4. CASE h > g + 1
    <3>1. h - 1 \in 1..L /\ ~(h < g + 1) /\ h # g + 1 /\ h - 1 # g
      BY <1>1, <1>2, <2>1, <2>4
    <3>2. t[h] = v[h - 1]
      BY <1>10, <3>1
    <3>3. groups[h - 1].items \ {c} = groups[h - 1].items
      <4>1. groups[g].items \cap groups[h - 1].items = {}
        BY <1>1, <1>2, <3>1 DEF Groups!GroupsPart
      <4>2. QED
        BY <4>1
    <3>4. /\ t[h].items = groups[h - 1].items
          /\ t[h].diff = IF h - 1 = g + 1 THEN groups[h - 1].diff - 1 ELSE groups[h - 1].diff
      <4>1. /\ v[h - 1].items = groups[h - 1].items \ {c}
            /\ v[h - 1].diff = IF h - 1 = g + 1 THEN groups[h - 1].diff - 1 ELSE groups[h - 1].diff
        BY <1>6, <3>1
      <4>2. QED
        BY <3>2, <3>3, <4>1
    <3>5. (h = g + 2 => h - 1 = g + 1) /\ (h > g + 2 => h - 1 # g + 1) /\ ~(h <= g)
      BY <1>2, <2>1, <2>4
    <3>6. QED
      BY <3>1, <3>4, <3>5
  <2>5. QED
    BY <1>2, <2>1, <2>2, <2>3, <2>4
<1>13. IsAdded(t, groups, g, c)
  BY <1>5, <1>10, <1>11, <1>12 DEF IsAdded, IsGroups, L
<1>14. QED
  BY <1>4, <1>10, <1>13 DEF w

-----------------------------------------------------------------------------
(* Which counter is raised, and how.                                       *)

WithDiff(e, d) == [e EXCEPT !.diff = d]

LEMMA WithDiffIs ==
  ASSUME NEW k \in Nat, NEW e \in GroupIn(k), NEW j \in Nat, NEW d \in 0..j, j >= k
  PROVE  WithDiff(e, d) \in GroupIn(j) /\ WithDiff(e, d).diff = d /\ WithDiff(e, d).items = e.items
BY DiffChanged DEF WithDiff

(* A counter is in one group only.                                         *)
LEMMA InOneGroup ==
  ASSUME Groups!Typed, Groups!GroupsPart, NEW g \in 1..Len(groups), NEW c \in groups[g].items
  PROVE  /\ c \in Counter /\ Groups!GroupOf(c) = g
         /\ \A h \in 1..Len(groups) : h # g => groups[h].items \ {c} = groups[h].items
<1>1. DOMAIN groups = 1..Len(groups) /\ c \in Counter
  BY GroupsSeq
<1>2. \A h \in DOMAIN groups : c \in groups[h].items => h = g
  BY <1>1 DEF Groups!GroupsPart
<1>3. g \in DOMAIN groups /\ c \in groups[g].items
  BY <1>1
<1>4. Groups!GroupOf(c) = g
  BY <1>2, <1>3 DEF Groups!GroupOf
<1>5. QED
  BY <1>1, <1>2, <1>4

(* PutInNewGroup, for a counter that leaves others behind, ...             *)
LEMMA Joins ==
  ASSUME Groups!Typed, NEW g \in 1..Len(groups), NEW c \in groups[g].items,
         groups[g].items # {c}, Groups!HasSuccessor(groups, g)
  PROVE  Entered(c, g) \in Seq(GroupIn(n + 1)) /\ IsJoined(Entered(c, g), groups, g, c)
<1> DEFINE t == Entered(c, g)
           L == Len(groups)
<1>1. n \in Nat /\ L \in Nat /\ c \in Counter
  BY GroupsSeq
<1>2. g + 1 \in 1..L /\ groups[g + 1].diff = 1
  BY <1>1 DEF Groups!HasSuccessor
<1>3. /\ t \in [1..L -> GroupIn(n)]
      /\ \A h \in 1..L : /\ t[h].diff = groups[h].diff
                         /\ t[h].items = (groups[h].items \ {c}) \cup (IF h = g + 1 THEN {c} ELSE {})
  BY <1>1, <1>2, EntersNext
<1> HIDE DEF t
<1>4. t \in Seq(GroupIn(n)) /\ Len(t) = L /\ DOMAIN t = 1..L
  BY <1>1, <1>3
<1>5. t \in Seq(GroupIn(n + 1))
  BY <1>1, <1>4, Wider
<1>6. IsJoined(t, groups, g, c)
  BY <1>2, <1>3, <1>4 DEF IsJoined, IsGroups
<1>7. QED
  BY <1>5, <1>6 DEF t

(* ... and for one that is alone in its group.                             *)
LEMMA Takes ==
  ASSUME Groups!Typed, Groups!GroupsPart, NEW g \in 1..Len(groups), NEW c \in groups[g].items,
         g # 1, groups[g].items = {c}, Groups!HasSuccessor(groups, g)
  PROVE  LET t == Groups!RemoveAt([Entered(c, g) EXCEPT ![g + 1].diff = @ + groups[g].diff], g)
         IN  t \in Seq(GroupIn(n + 1)) /\ IsTaken(t, groups, g, c)
<1> DEFINE v == Entered(c, g)
           u == [v EXCEPT ![g + 1].diff = @ + groups[g].diff]
           t == Cut(u, g)
           L == Len(groups)
<1>1. /\ n \in Nat /\ L \in Nat /\ c \in Counter /\ g \in Nat /\ g \in 1..L
      /\ \A h \in 1..L : groups[h].diff \in 0..n
  BY GroupsSeq
<1>2. g + 1 \in 1..L /\ groups[g + 1].diff = 1
  BY <1>1 DEF Groups!HasSuccessor
<1>3. /\ v \in [1..L -> GroupIn(n)]
      /\ \A h \in 1..L : /\ v[h] \in GroupIn(n) /\ v[h].diff = groups[h].diff
                         /\ v[h].items = (groups[h].items \ {c}) \cup (IF h = g + 1 THEN {c} ELSE {})
  BY <1>1, <1>2, EntersNext
<1>4. \A h \in 1..L : h # g => groups[h].items \ {c} = groups[h].items
  BY InOneGroup
<1> HIDE DEF v
<1> DEFINE d == 1 + groups[g].diff
<1>5. d \in 0..(n + 1) /\ d = groups[g].diff + 1
  BY <1>1
<1>6. u = [v EXCEPT ![g + 1] = WithDiff(v[g + 1], d)]
  <2>1. v[g + 1].diff = 1
    BY <1>2, <1>3
  <2>2. QED
    BY <2>1 DEF WithDiff
<1> HIDE DEF u, d
<1>7. ASSUME NEW h \in 1..L
      PROVE  /\ u[h] \in GroupIn(n + 1)
             /\ h # g + 1 => u[h].diff = groups[h].diff /\ (h # g => u[h].items = groups[h].items)
             /\ h = g + 1 => u[h].diff = groups[g].diff + 1 /\ u[h].items = groups[h].items \cup {c}
  <2>1. v[h] \in GroupIn(n) /\ n + 1 \in Nat /\ n + 1 >= n
    BY <1>1, <1>3
  <2>2. CASE h = g + 1
    <3>1. u[h] = WithDiff(v[h], d)
      BY <1>2, <1>3, <1>6, <2>2
    <3>2. u[h] \in GroupIn(n + 1) /\ u[h].diff = d /\ u[h].items = v[h].items
      BY <1>1, <1>5, <2>1, <3>1, WithDiffIs
    <3>3. h # g /\ v[h].items = groups[h].items \cup {c}
      BY <1>1, <1>3, <2>2
    <3>4. QED
      BY <1>5, <2>2, <3>2, <3>3
  <2>3. CASE h # g + 1
    <3>1. u[h] = v[h] /\ u[h] \in GroupIn(n + 1)
      BY <1>1, <1>3, <1>6, <2>1, <2>3, Wider
    <3>2. h # g => v[h].items = groups[h].items
      BY <1>3, <1>4, <2>3
    <3>3. QED
      BY <1>3, <2>3, <3>1, <3>2
  <2>4. QED
    BY <2>2, <2>3
<1>8. u \in Seq(GroupIn(n + 1)) /\ Len(u) = L
  <2>1. u = [h \in 1..L |-> u[h]]
    BY <1>3, <1>6
  <2>2. u \in [1..L -> GroupIn(n + 1)]
    BY <1>7, <2>1
  <2>3. QED
    BY <1>1, <2>2
<1>9. /\ t \in Seq(GroupIn(n + 1)) /\ Len(t) = L - 1
      /\ \A r \in 1..(L - 1) : t[r] = IF r < g THEN u[r] ELSE u[r + 1]
  <2>1. g \in 1..Len(u)
    BY <1>1, <1>8
  <2>2. t \in Seq(GroupIn(n + 1)) /\ IsCut(t, u, g)
    BY <1>8, <2>1, Removed
  <2>3. QED
    BY <1>8, <2>2 DEF IsCut
<1> HIDE DEF t
<1>10. DOMAIN t = 1..(L - 1)
  BY <1>9, LenProperties
<1>11. ASSUME NEW h \in 1..(L - 1)
       PROVE  /\ h < g => t[h].diff = groups[h].diff /\ t[h].items = groups[h].items
              /\ h = g => t[h].diff = groups[g].diff + 1 /\ t[h].items = groups[g + 1].items \cup {c}
              /\ h > g => t[h].diff = groups[h + 1].diff /\ t[h].items = groups[h + 1].items
  <2>0. h \in Nat /\ h \in 1..L /\ h + 1 \in 1..L
    BY <1>1
  <2>1. CASE h < g
    <3>1. t[h] = u[h] /\ h # g + 1 /\ h # g /\ ~(h > g)
      BY <1>1, <1>9, <2>0, <2>1
    <3>2. QED
      BY <1>7, <2>0, <3>1
  <2>2. CASE h = g
    <3>1. t[h] = u[g + 1] /\ ~(h < g) /\ ~(h > g)
      BY <1>1, <1>9, <2>0, <2>2
    <3>2. QED
      BY <1>2, <1>7, <3>1
  <2>3. CASE h > g
    <3>1. t[h] = u[h + 1] /\ h + 1 # g + 1 /\ h + 1 # g /\ h # g /\ ~(h < g)
      BY <1>1, <1>9, <2>0, <2>3
    <3>2. QED
      BY <1>7, <2>0, <3>1
  <2>4. QED
    BY <1>1, <2>0, <2>1, <2>2, <2>3
<1>12. IsTaken(t, groups, g, c)
  BY <1>2, <1>9, <1>10, <1>11 DEF IsTaken, IsGroups, L
<1>13. t = Groups!RemoveAt([Entered(c, g) EXCEPT ![g + 1].diff = @ + groups[g].diff], g)
  BY DEF t, u, v, Cut, Groups!RemoveAt
<1>14. QED
  BY <1>9, <1>12, <1>13

(* A group without a successor moves on.                                   *)
LEMMA Shifts ==
  ASSUME Groups!Typed, Groups!GroupsPart, NEW g \in 1..Len(groups), NEW c \in groups[g].items,
         g # 1, groups[g].items = {c}, ~ Groups!HasSuccessor(groups, g)
  PROVE  Groups!Moved(c) \in Seq(GroupIn(n + 1)) /\ IsShifted(Groups!Moved(c), groups, g, c)
<1> DEFINE t == Groups!Moved(c)
           L == Len(groups)
<1>1. /\ n \in Nat /\ L \in Nat /\ c \in Counter /\ g \in Nat /\ g \in 1..L /\ DOMAIN groups = 1..L
      /\ \A h \in 1..L : groups[h] \in GroupIn(n) /\ groups[h].diff \in 0..n
  BY GroupsSeq
<1>2. Groups!GroupOf(c) = g
  BY InOneGroup
<1>3. t = [h \in 1..L |-> IF h = g THEN WithDiff(groups[h], groups[h].diff + 1)
                          ELSE IF h = g + 1 THEN WithDiff(groups[h], groups[h].diff - 1) ELSE groups[h]]
  BY <1>1, <1>2 DEF Groups!Moved, WithDiff
<1>4. g + 1 \in 1..L => groups[g + 1].diff # 1 /\ groups[g + 1].diff \in 1..n
  <2> SUFFICES ASSUME g + 1 \in 1..L PROVE groups[g + 1].diff # 1 /\ groups[g + 1].diff \in 1..n
    OBVIOUS
  <2>1. g < Len(groups) /\ g + 1 > 1
    BY <1>1
  <2>2. groups[g + 1].diff # 1
    BY <2>1 DEF Groups!HasSuccessor
  <2>3. groups[g + 1].diff > 0
    BY <1>1, <2>1 DEF Groups!GroupsPart
  <2>4. QED
    BY <1>1, <2>2, <2>3
<1> HIDE DEF t
<1>5. ASSUME NEW h \in 1..L
      PROVE  /\ t[h] \in GroupIn(n + 1) /\ t[h].items = groups[h].items
             /\ h = g => t[h].diff = groups[h].diff + 1
             /\ h = g + 1 => t[h].diff = groups[h].diff - 1
             /\ h # g /\ h # g + 1 => t[h].diff = groups[h].diff
  <2>1. groups[h] \in GroupIn(n) /\ n + 1 \in Nat /\ n + 1 >= n /\ groups[h].diff \in 0..n
    BY <1>1
  <2>2. CASE h = g
    <3>1. t[h] = WithDiff(groups[h], groups[h].diff + 1) /\ groups[h].diff + 1 \in 0..(n + 1) /\ h # g + 1
      BY <1>1, <1>3, <2>1, <2>2
    <3>2. QED
      BY <1>1, <2>1, <2>2, <3>1, WithDiffIs
  <2>3. CASE h = g + 1
    <3>1. t[h] = WithDiff(groups[h], groups[h].diff - 1) /\ groups[h].diff - 1 \in 0..(n + 1) /\ h # g
      BY <1>1, <1>3, <1>4, <2>1, <2>3
    <3>2. QED
      BY <1>1, <2>1, <2>3, <3>1, WithDiffIs
  <2>4. CASE h # g /\ h # g + 1
    BY <1>1, <1>3, <2>1, <2>4, Wider
  <2>5. QED
    BY <2>2, <2>3, <2>4
<1>6. t \in Seq(GroupIn(n + 1)) /\ Len(t) = L /\ DOMAIN t = 1..L
  <2>1. t \in [1..L -> GroupIn(n + 1)]
    <3>1. t = [h \in 1..L |-> t[h]]
      BY <1>3
    <3>2. QED
      BY <1>5, <3>1
  <2>2. QED
    BY <1>1, <2>1
<1>7. IsShifted(t, groups, g, c)
  BY <1>4, <1>5, <1>6 DEF IsShifted, IsGroups, L
<1>8. QED
  BY <1>6, <1>7 DEF t

Raises(t, g, c) ==
  /\ t \in Seq(GroupIn(n + 1))
  /\ \/ IsJoined(t, groups, g, c) \/ IsTaken(t, groups, g, c)
     \/ IsShifted(t, groups, g, c) \/ IsAdded(t, groups, g, c)

(* What increments a counter: Incremented one in use, FirstGroup a free one.*)
LEMMA IncrementedRaises ==
  ASSUME Groups!Typed, Groups!GroupsPart, NEW g \in 1..Len(groups), NEW c \in groups[g].items, g # 1
  PROVE  Raises(Groups!Incremented(c), g, c)
<1>1. Groups!GroupOf(c) = g
  BY InOneGroup
<1>2. Groups!Alone(c) <=> groups[g].items = {c}
  BY <1>1 DEF Groups!Alone
<1>3. CASE Groups!HasSuccessor(groups, g) /\ groups[g].items = {c}
  <2>1. Groups!Incremented(c) = Groups!RemoveAt([Entered(c, g) EXCEPT ![g + 1].diff = @ + groups[g].diff], g)
    BY <1>1, <1>2, <1>3 DEF Groups!Incremented, Groups!PutInNewGroup, Entered
  <2>2. QED
    BY <1>3, <2>1, Takes DEF Raises
<1>4. CASE Groups!HasSuccessor(groups, g) /\ groups[g].items # {c}
  <2>1. Groups!Incremented(c) = Entered(c, g)
    BY <1>1, <1>2, <1>4 DEF Groups!Incremented, Groups!PutInNewGroup, Entered
  <2>2. QED
    BY <1>4, <2>1, Joins DEF Raises
<1>5. CASE ~ Groups!HasSuccessor(groups, g) /\ groups[g].items = {c}
  <2>1. Groups!Incremented(c) = Groups!Moved(c)
    BY <1>1, <1>2, <1>5 DEF Groups!Incremented
  <2>2. QED
    BY <1>5, <2>1, Shifts DEF Raises
<1>6. CASE ~ Groups!HasSuccessor(groups, g) /\ groups[g].items # {c}
  <2>1. Groups!Incremented(c) = Groups!NewGroup(Groups!Without(c), g, c)
    BY <1>1, <1>2, <1>6 DEF Groups!Incremented
  <2>2. QED
    BY <1>6, <2>1, NewGroupAdds DEF Raises
<1>7. QED
  BY <1>3, <1>4, <1>5, <1>6

(* FirstGroup raises a free counter that is not the last one.              *)
LEMMA FirstGroupRaises ==
  ASSUME Groups!Typed, Groups!GroupsPart, 1 \in 1..Len(groups), NEW c \in groups[1].items,
         groups[1].items # {c}
  PROVE  Raises(Groups!FirstGroup(c), 1, c)
<1>1. CASE Groups!HasSuccessor(groups, 1)
  <2>1. Groups!FirstGroup(c) = Entered(c, 1)
    <3>1. 1 + 1 = 2
      OBVIOUS
    <3>2. QED
      BY <1>1, <3>1 DEF Groups!FirstGroup, Groups!InsertIntoFirstGroup, Entered
  <2>2. QED
    BY <1>1, <2>1, Joins DEF Raises
<1>2. CASE ~ Groups!HasSuccessor(groups, 1)
  <2>1. Groups!FirstGroup(c) = Groups!NewGroup(Groups!Without(c), 1, c)
    BY <1>2 DEF Groups!FirstGroup, Groups!CreateFirstGroup
  <2>2. QED
    BY <1>2, <2>1, NewGroupAdds DEF Raises
<1>3. QED
  BY <1>1, <1>2

(* Whatever way a counter is raised, it counts one more.                   *)
LEMMA RaisedCounts ==
  ASSUME NEW t, NEW cnt, Counts(groups, cnt), NEW g \in 1..Len(groups), NEW c \in groups[g].items,
         Raises(t, g, c)
  PROVE  Counts(t, More(cnt, c))
BY JoinedCounts, TakenCounts, ShiftedCounts, AddedCounts DEF Raises

-----------------------------------------------------------------------------
(* The counts of the sketch after a step.                                  *)

(* A list of groups with counts parts the counters, and the other way      *)
(* round its counts are the sums of its differences.                       *)
Parts(s) ==
  /\ s[1].diff = 0
  /\ \A g \in DOMAIN s :
       /\ s[g].items # {}
       /\ g > 1 => s[g].diff > 0
       /\ \A h \in DOMAIN s : g # h => s[g].items \cap s[h].items = {}
  /\ UNION {s[g].items : g \in DOMAIN s} = Counter

LEMMA CountsPart ==
  ASSUME NEW s, NEW cnt, Counts(s, cnt)
  PROVE  Parts(s)
<1>1. PICK H : Rep(s, H)
  BY DEF Counts
<1> DEFINE L == Len(s)
<1>2. /\ L \in Nat \ {0} /\ DOMAIN s = 1..L /\ s[1].diff = 0
      /\ \A g \in 2..L : s[g].diff > 0
  <2>1. ASSUME NEW g \in 2..L PROVE s[g].diff > 0
    <3>1. H[g - 1] < H[g] /\ s[g].diff = H[g] - H[g - 1] /\ H[g - 1] \in Nat /\ H[g] \in Nat
      BY <1>1, RepFacts DEF L
    <3>2. QED
      BY <3>1
  <2>2. QED
    BY <1>1, <2>1, RepFacts
<1>3. /\ \A g \in 1..L : s[g].items \subseteq Counter /\ s[g].items # {}
      /\ \A g, h \in 1..L : g # h => s[g].items \cap s[h].items = {}
      /\ \A c \in Counter : \E g \in 1..L : c \in s[g].items
  BY <1>1, RepFacts
<1> HIDE DEF L
<1>4. \A g \in 1..L : g > 1 => g \in 2..L
  BY <1>2
<1>5. UNION {s[g].items : g \in 1..L} = Counter
  BY <1>3
<1>6. QED
  BY <1>2, <1>3, <1>4, <1>5 DEF Parts

Tallied == [c \in Counter |-> Groups!Count(c)]

(* The list of groups has the counts of the sketch.                        *)
LEMMA TalliedCounts ==
  Groups!Typed /\ Groups!GroupsPart => Counts(groups, Tallied)
BY CountsAreSums DEF Tallied

(* They are naturals.                                                      *)
LEMMA TalliedAre ==
  ASSUME Groups!Typed, Groups!GroupsPart
  PROVE  /\ Tallied \in [Counter -> Nat]
         /\ \A c \in Counter : Tallied[c] = Groups!Count(c) /\ Groups!Count(c) \in Nat
<1>1. Tallied \in [Counter -> Nat]
  BY TalliedCounts DEF Counts
<1>2. \A c \in Counter : Tallied[c] = Groups!Count(c)
  BY DEF Tallied
<1>3. QED
  BY <1>1, <1>2

(* A step to a list with given counts.                                     *)
LEMMA CountsFollow ==
  ASSUME NEW cnt, Counts(groups', cnt), Groups!Typed'
  PROVE  Groups!GroupsPart' /\ Tallied' = cnt /\ \A c \in Counter : Groups!Count(c)' = cnt[c]
<1>1. Groups!GroupsPart'
  <2>1. Parts(groups')
    BY CountsPart
  <2>2. QED
    BY <2>1 DEF Parts, Groups!GroupsPart
<1>2. Counts(groups, Tallied)'
  BY <1>1, TalliedCounts, PTL
<1>3. Counts(groups', Tallied')
  BY <1>2 DEF Counts, Rep
<1>4. Tallied' = cnt
  BY <1>3, CountsUnique
<1>5. \A c \in Counter : Tallied'[c] = Groups!Count(c)'
  BY DEF Tallied
<1>6. QED
  BY <1>1, <1>4, <1>5

(* With one free counter there is another group, which the round brings    *)
(* nearer or down to the free ones.                                        *)
LEMMA DecrementedCounts ==
  ASSUME Groups!Typed, Groups!GroupsPart, Cardinality(Groups!Free) = 1
  PROVE  Groups!Decremented \in Seq(GroupIn(n)) /\ Counts(Groups!Decremented, Less(Tallied))
<1> DEFINE t == Groups!Decremented
           L == Len(groups)
<1>1. /\ n \in Nat /\ L \in Nat /\ groups \in Seq(GroupIn(n)) /\ DOMAIN groups = 1..L
      /\ \A h \in 1..L : groups[h] \in GroupIn(n) /\ groups[h].diff \in 0..n /\ groups[h].items \subseteq Counter
  BY GroupsSeq
<1>2. Counts(groups, Tallied)
  BY TalliedCounts
<1>3. 2 \in 1..L
  <2>1. PICK H : Rep(groups, H)
    BY <1>2 DEF Counts
  <2>2. L \in Nat \ {0} /\ \A c \in Counter : \E g \in 1..L : c \in groups[g].items
    BY <2>1, RepFacts
  <2>3. L = 1 => groups[1].items = Counter
    <3> SUFFICES ASSUME L = 1 PROVE groups[1].items = Counter
      OBVIOUS
    <3>1. \A c \in Counter : c \in groups[1].items
      BY <2>2
    <3>2. groups[1].items \subseteq Counter
      BY <1>1
    <3>3. QED
      BY <3>1, <3>2
  <2>4. L # 1
    BY <2>3, GroupsSets DEF Groups!CounterAssumption, Groups!Free
  <2>5. L \in Nat \ {0}
    BY <2>2
  <2> HIDE DEF L
  <2>6. QED
    BY <2>4, <2>5
<1>4. groups[2].diff \in 1..n
  BY <1>1, <1>3 DEF Groups!GroupsPart
<1>5. L # 1
  BY <1>1, <1>3
<1>6. CASE groups[2].diff > 1
  <2>1. t = [groups EXCEPT ![2] = WithDiff(groups[2], groups[2].diff - 1)]
    BY <1>5, <1>6 DEF Groups!Decremented, WithDiff
  <2>2. groups[2] \in GroupIn(n) /\ groups[2].diff - 1 \in 0..n
    BY <1>1, <1>3, <1>4
  <2>3. /\ WithDiff(groups[2], groups[2].diff - 1) \in GroupIn(n)
        /\ WithDiff(groups[2], groups[2].diff - 1).diff = groups[2].diff - 1
        /\ WithDiff(groups[2], groups[2].diff - 1).items = groups[2].items
    BY <1>1, <2>2, WithDiffIs
  <2> HIDE DEF t
  <2>4. groups \in [1..L -> GroupIn(n)]
    BY <1>1
  <2>5. t \in [1..L -> GroupIn(n)]
    BY <2>1, <2>3, <2>4
  <2>6. t \in Seq(GroupIn(n)) /\ Len(t) = L /\ DOMAIN t = 1..L
    BY <1>1, <2>5
  <2>7. \A h \in 1..L : /\ t[h].items = groups[h].items
                        /\ t[h].diff = IF h = 2 THEN groups[h].diff - 1 ELSE groups[h].diff
    <3> SUFFICES ASSUME NEW h \in 1..L
                 PROVE  /\ t[h].items = groups[h].items
                        /\ t[h].diff = IF h = 2 THEN groups[h].diff - 1 ELSE groups[h].diff
      OBVIOUS
    <3>1. t[h] = IF h = 2 THEN WithDiff(groups[2], groups[2].diff - 1) ELSE groups[h]
      BY <2>1, <2>4
    <3>2. QED
      BY <2>3, <3>1
  <2>8. IsLowered(t, groups)
    BY <1>3, <1>6, <2>6, <2>7 DEF IsLowered, IsGroups, L
  <2>9. Counts(t, Less(Tallied))
    BY <1>2, <2>8, LoweredCounts
  <2>10. QED
    BY <2>6, <2>9 DEF t
<1>7. CASE ~ (groups[2].diff > 1)
  <2> DEFINE u == [groups EXCEPT ![1].items = @ \cup groups[2].items]
             cs == groups[1].items \cup groups[2].items
  <2>1. t = Cut(u, 2)
    BY <1>5, <1>7 DEF Groups!Decremented, Groups!DeleteFirstGroup, Groups!RemoveAt, Cut
  <2>2. u = [groups EXCEPT ![1] = WithItems(groups[1], cs)]
    BY DEF WithItems
  <2>3. 1 \in 1..L /\ cs \in SUBSET Counter
    BY <1>1, <1>3
  <2> HIDE DEF u, cs
  <2>4. /\ WithItems(groups[1], cs) \in GroupIn(n) /\ WithItems(groups[1], cs).diff = groups[1].diff
        /\ WithItems(groups[1], cs).items = cs
    BY <1>1, <2>3, ItemsChanged
  <2>5. groups \in [1..L -> GroupIn(n)]
    BY <1>1
  <2>6. /\ u \in [1..L -> GroupIn(n)] /\ u[1] = WithItems(groups[1], cs)
        /\ \A h \in 1..L : h # 1 => u[h] = groups[h]
    BY <2>2, <2>3, <2>4, <2>5
  <2>7. u \in Seq(GroupIn(n)) /\ Len(u) = L
    BY <1>1, <2>6
  <2> HIDE DEF t
  <2>8. /\ t \in Seq(GroupIn(n)) /\ Len(t) = L - 1
        /\ \A r \in 1..(L - 1) : t[r] = IF r < 2 THEN u[r] ELSE u[r + 1]
    <3>1. 2 \in 1..Len(u) /\ u \in Seq(GroupIn(n))
      BY <1>3, <2>7
    <3>2. t \in Seq(GroupIn(n)) /\ IsCut(t, u, 2)
      BY <2>1, <3>1, Removed
    <3>3. QED
      BY <2>7, <3>2 DEF IsCut
  <2>9. DOMAIN t = 1..Len(t)
    BY <2>8, LenProperties
  <2>10. t[1].diff = 0 /\ t[1].items = groups[1].items \cup groups[2].items
    <3>1. 1 \in 1..(L - 1)
      BY <1>1, <1>3
    <3>2. t[1] = WithItems(groups[1], cs)
      BY <2>6, <2>8, <3>1
    <3>3. groups[1].diff = 0
      BY DEF Groups!GroupsPart
    <3>4. QED
      BY <2>4, <3>2, <3>3 DEF cs
  <2>11. \A h \in 2..(L - 1) : t[h] = groups[h + 1]
    <3> SUFFICES ASSUME NEW h \in 2..(L - 1) PROVE t[h] = groups[h + 1]
      OBVIOUS
    <3>1. h \in 1..(L - 1) /\ ~(h < 2) /\ h + 1 \in 1..L /\ h + 1 # 1
      BY <1>1
    <3>2. QED
      BY <2>6, <2>8, <3>1
  <2>12. groups[2].diff = 1
    BY <1>4, <1>7
  <2>13. IsDropped(t, groups)
    BY <1>3, <2>8, <2>9, <2>10, <2>11, <2>12 DEF IsDropped, IsGroups, L
  <2>14. Counts(t, Less(Tallied))
    BY <1>2, <2>13, DroppedCounts
  <2>15. QED
    BY <2>8, <2>14 DEF t
<1>8. QED
  BY <1>6, <1>7

-----------------------------------------------------------------------------
(* The sum of the counts, and the invariant in terms of the counts.        *)

(* There are finitely many counters.                                       *)
LEMMA CountersFinite == IsFiniteSet(Counter) /\ Cardinality(Counter) \in Nat
BY GroupsSets, FS_CardinalityType DEF Groups!CounterAssumption

(* Sums of counts: one more for a raised counter, one less for each that   *)
(* was not at 0.                                                           *)
LEMMA MoreSum ==
  ASSUME NEW cnt \in [Counter -> Nat], NEW c \in Counter
  PROVE  SumFunctionOnSet(More(cnt, c), Counter) = SumFunctionOnSet(cnt, Counter) + 1
<1> DEFINE r == [d \in Counter \ {c} |-> cnt[d]]
           m2 == More(cnt, c)
           K == Counter
<1>1. /\ cnt \in [K -> Int] /\ m2 \in [K -> Int] /\ c \in K /\ r \in [K \ {c} -> Int]
      /\ \A d \in K \ {c} : cnt[d] = r[d] /\ m2[d] = r[d]
      /\ m2[c] = cnt[c] + 1 /\ cnt[c] \in Nat
  BY DEF More
<1>2. IsFiniteSet(K) /\ IsFiniteSet(K \ {c})
  BY CountersFinite, FS_Subset
<1> HIDE DEF r, m2, K
<1>3. /\ SumFunctionOnSet(cnt, K) = cnt[c] + SumFunctionOnSet(r, K \ {c})
      /\ SumFunctionOnSet(m2, K) = m2[c] + SumFunctionOnSet(r, K \ {c})
  BY <1>1, <1>2, SumWithout
<1>4. SumFunctionOnSet(r, K \ {c}) \in Int
  BY <1>1, <1>2, SumType
<1>5. SumFunctionOnSet(m2, K) = SumFunctionOnSet(cnt, K) + 1
  BY <1>1, <1>3, <1>4
<1>6. QED
  BY <1>5 DEF m2, K

(* A round with one counter at 0 takes one less than there are counters.   *)
LEMMA LessSum ==
  ASSUME NEW cnt \in [Counter -> Nat], NEW c \in Counter, cnt[c] = 0,
         \A d \in Counter : d # c => cnt[d] # 0
  PROVE  SumFunctionOnSet(cnt, Counter)
           = SumFunctionOnSet(Less(cnt), Counter) + (Cardinality(Counter) - 1)
<1> DEFINE K == Counter
           R == Counter \ {c}
           l == Less(cnt)
<1>1. /\ cnt \in [K -> Int] /\ l \in [K -> Int] /\ c \in K /\ l[c] = 0 /\ cnt[c] = 0
      /\ \A d \in R : cnt[d] = l[d] + 1 /\ l[d] \in Int
      /\ \A d \in K : cnt[d] \in Int /\ l[d] \in Int
  BY DEF Less
<1>2. IsFiniteSet(K) /\ IsFiniteSet(R) /\ R \subseteq K /\ R = K \ {c}
  BY CountersFinite, FS_Subset
<1>3. Cardinality(R) = Cardinality(K) - 1
  BY <1>1, <1>2, FS_RemoveElement
<1> HIDE DEF R, K, l
<1>4. PICK it : Sums(it, cnt, K) /\ SumFunctionOnSet(cnt, K) = it[K]
  BY <1>1, <1>2, SumIsFold
<1>5. PICK jt : Sums(jt, l, K) /\ SumFunctionOnSet(l, K) = jt[K]
  BY <1>1, <1>2, SumIsFold
<1>6. Commutes(it, cnt, K) /\ Commutes(jt, l, K)
  BY <1>1, <1>2, <1>4, <1>5, SumsCommute
<1> DEFINE Good == {T \in SUBSET R : it[T] = jt[T] + Cardinality(T)}
<1>7. ASSUME NEW T \in SUBSET R, \A x \in T : T \ {x} \in Good
      PROVE  T \in Good
  <2>1. IsFiniteSet(T) /\ T \in SUBSET K /\ Cardinality(T) \in Nat
    BY <1>2, FS_Subset, FS_CardinalityType
  <2>2. CASE T = {}
    <3>1. it[T] = 0 /\ jt[T] = 0 /\ Cardinality(T) = 0
      BY <1>4, <1>5, <2>1, <2>2, FS_EmptySet DEF Sums
    <3>2. QED
      BY <3>1
  <2>3. CASE T # {}
    <3>1. PICK x \in T : TRUE
      BY <2>3
    <3>2. it[T] = cnt[x] + it[T \ {x}] /\ jt[T] = l[x] + jt[T \ {x}]
      BY <1>6, <2>1 DEF Commutes
    <3>3. it[T \ {x}] = jt[T \ {x}] + Cardinality(T \ {x})
      BY <1>7
    <3>4. Cardinality(T \ {x}) = Cardinality(T) - 1
      BY <2>1, FS_RemoveElement
    <3>5. cnt[x] = l[x] + 1 /\ l[x] \in Int
      BY <1>1
    <3>6. jt[T \ {x}] \in Int
      BY <1>5, <2>1 DEF Sums
    <3>7. QED
      BY <2>1, <3>2, <3>3, <3>4, <3>5, <3>6
  <2>4. QED
    BY <2>2, <2>3
<1>8. R \in Good
  <2>1. SUBSET R \subseteq Good
    <3>1. IsFiniteSet(R)
      BY <1>2
    <3>2. \A T \in SUBSET R : (\A x \in T : T \ {x} \in Good) => T \in Good
      BY <1>7
    <3> HIDE DEF Good
    <3>3. QED
      BY <3>1, <3>2, SubsetInduction
  <2>2. QED
    BY <2>1
<1>9. it[K] = cnt[c] + it[R] /\ jt[K] = l[c] + jt[R]
  BY <1>1, <1>2, <1>6 DEF Commutes
<1>10. it[R] \in Int /\ jt[R] \in Int /\ Cardinality(K) \in Nat
  BY <1>2, <1>4, <1>5, FS_CardinalityType DEF Sums
<1>11. it[K] = jt[K] + (Cardinality(K) - 1)
  BY <1>1, <1>3, <1>8, <1>9, <1>10
<1>12. SumFunctionOnSet(cnt, K) = SumFunctionOnSet(l, K) + (Cardinality(K) - 1)
  BY <1>4, <1>5, <1>11
<1>13. QED
  BY <1>12 DEF K, l

(* Counts add up to a natural number.                                      *)
LEMMA CountsSum ==
  ASSUME NEW cnt \in [Counter -> Nat]
  PROVE  SumFunctionOnSet(cnt, Counter) \in Nat
<1> DEFINE K == Counter
<1>1. cnt \in [K -> Int] /\ IsFiniteSet(K) /\ \A x \in K : cnt[x] \in Nat
  BY CountersFinite
<1> HIDE DEF K
<1>2. PICK it : Sums(it, cnt, K) /\ SumFunctionOnSet(cnt, K) = it[K]
  BY <1>1, SumIsFold
<1>3. Commutes(it, cnt, K)
  BY <1>1, <1>2, SumsCommute
<1> DEFINE Good == {T \in SUBSET K : it[T] \in Nat}
<1>4. ASSUME NEW T \in SUBSET K, \A x \in T : T \ {x} \in Good
      PROVE  T \in Good
  <2>1. CASE T = {}
    BY <1>2, <2>1 DEF Sums
  <2>2. ASSUME NEW x \in T PROVE T \in Good
    <3>1. it[T] = cnt[x] + it[T \ {x}] /\ it[T \ {x}] \in Nat /\ cnt[x] \in Nat
      BY <1>1, <1>3, <1>4 DEF Commutes
    <3>2. QED
      BY <3>1
  <2>3. QED
    BY <2>1, <2>2
<1>5. SUBSET K \subseteq Good
  <2> HIDE DEF Good
  <2>1. QED
    BY <1>1, <1>4, SubsetInduction
<1>6. SumFunctionOnSet(cnt, K) \in Nat
  BY <1>2, <1>5
<1>7. QED
  BY <1>6 DEF K

(* The sum of the sketch is that of Tallied.                               *)
LEMMA PutsTallied ==
  Groups!PutsAddUp <=> SumFunctionOnSet(Tallied, Counter) + rounds * Cardinality(Counter) = n
<1>1. Groups!SumFunction(Tallied) = SumFunctionOnSet(Tallied, DOMAIN Tallied)
  BY Zenon DEF Groups!SumFunction, Groups!SumFunctionOnSet, Groups!FoldFunctionOnSet, Groups!MapThenFoldSet,
       SumFunctionOnSet, FoldFunctionOnSet, MapThenFoldSet
<1>2. DOMAIN Tallied = Counter
  BY DEF Tallied
<1>3. QED
  BY <1>1, <1>2, GroupsSets DEF Groups!PutsAddUp, Tallied

(* What the invariant of GroupFrequent says, with the counts as a function *)
(* that the list of groups has.                                            *)
Kept(cnt, it, fr, k, rs) ==
  /\ cnt \in [Counter -> Nat] /\ it \in [Counter -> Few \cup {NULLITEM}] /\ fr \in [Few -> 0..k]
  /\ k \in Nat /\ rs \in 0..k
  /\ \A c, d \in Counter : it[c] = it[d] /\ it[c] # NULLITEM => c = d
  /\ \A c \in Counter : IF it[c] = NULLITEM THEN cnt[c] = 0
                        ELSE cnt[c] <= fr[it[c]] /\ fr[it[c]] <= cnt[c] + rs
  /\ \A i \in Few : (\A c \in Counter : it[c] # i) => fr[i] <= rs
  /\ SumFunctionOnSet(cnt, Counter) + rs * Cardinality(Counter) = k

(* It says no less and no more.                                            *)
LEMMA GroupsKept ==
  ASSUME Groups!Typed, Groups!GroupsPart
  PROVE  Groups!IInv <=> Kept(Tallied, item, freq, n, rounds)
<1>1. \A c \in Counter : Tallied[c] = Groups!Count(c)
  BY TalliedAre
<1>2. \A c \in Counter : c \in Groups!Free <=> Tallied[c] = 0
  BY TalliedCounts, ZeroIsFree DEF Groups!Free
<1>3. Groups!OneCounterEach <=> \A c, d \in Counter : item[c] = item[d] /\ item[c] # NULLITEM => c = d
  BY DEF Groups!OneCounterEach
<1>4. Groups!CountersWithin <=>
        \A c \in Counter : IF item[c] = NULLITEM THEN Tallied[c] = 0
                           ELSE Tallied[c] <= freq[item[c]] /\ freq[item[c]] <= Tallied[c] + rounds
  BY <1>1, <1>2 DEF Groups!CountersWithin
<1>5. Groups!OthersWithin <=> \A i \in Few : (\A c \in Counter : item[c] # i) => freq[i] <= rounds
  BY DEF Groups!OthersWithin, Groups!NotFound
<1>6. /\ Tallied \in [Counter -> Nat] /\ item \in [Counter -> Few \cup {NULLITEM}] /\ freq \in [Few -> 0..n]
      /\ n \in Nat /\ rounds \in 0..n
  BY TalliedAre DEF Groups!Typed
<1>7. QED
  BY <1>3, <1>4, <1>5, <1>6, PutsTallied DEF Groups!IInv, Kept

-----------------------------------------------------------------------------
(* What a put does to it.                                                  *)

FewNull == NULLITEM \notin Few

(* What the assumptions say of the items and counters.                     *)
LEMMA FewAreItems == FewNull /\ Cardinality(Counter) > 2 /\ kMaxPuts \in Nat
BY GroupsSets DEF Groups!CounterAssumption, FewNull

(* One put that raises a counter, of the item already or free.             *)
LEMMA RaiseKeeps ==
  ASSUME NEW cnt, NEW it, NEW fr, NEW k, NEW rs, Kept(cnt, it, fr, k, rs),
         NEW i \in Few, NEW c \in Counter, NEW jt, NEW gr,
         gr = [fr EXCEPT ![i] = @ + 1],
         \/ it[c] = i /\ jt = it
         \/ (\A d \in Counter : it[d] # i) /\ cnt[c] = 0 /\ jt = [it EXCEPT ![c] = i]
  PROVE  Kept(More(cnt, c), jt, gr, k + 1, rs)
<1> DEFINE m2 == More(cnt, c)
<1>1. /\ cnt \in [Counter -> Nat] /\ it \in [Counter -> Few \cup {NULLITEM}] /\ fr \in [Few -> 0..k]
      /\ k \in Nat /\ rs \in 0..k
  BY DEF Kept
<1>2. \A a, b \in Counter : it[a] = it[b] /\ it[a] # NULLITEM => a = b
  BY DEF Kept
<1>3. \A a \in Counter : IF it[a] = NULLITEM THEN cnt[a] = 0
                        ELSE cnt[a] <= fr[it[a]] /\ fr[it[a]] <= cnt[a] + rs
  BY DEF Kept
<1>4. \A j \in Few : (\A a \in Counter : it[a] # j) => fr[j] <= rs
  BY DEF Kept
<1>5. m2 \in [Counter -> Nat] /\ m2[c] = cnt[c] + 1 /\ \A d \in Counter : d # c => m2[d] = cnt[d]
  BY <1>1, MoreType
<1>6. SumFunctionOnSet(m2, Counter) + rs * Cardinality(Counter) = k + 1
  <2>1. SumFunctionOnSet(m2, Counter) = SumFunctionOnSet(cnt, Counter) + 1
    BY <1>1, MoreSum
  <2>2. SumFunctionOnSet(cnt, Counter) \in Nat /\ SumFunctionOnSet(cnt, Counter) + rs * Cardinality(Counter) = k
    BY <1>1, CountsSum DEF Kept
  <2>3. rs * Cardinality(Counter) \in Int
    BY <1>1, CountersFinite
  <2> HIDE DEF m2
  <2>4. \A x, y, z \in Int : x + y = z => (x + 1) + y = z + 1
    OBVIOUS
  <2>5. QED
    BY <1>1, <2>1, <2>2, <2>3, <2>4
<1> HIDE DEF m2
<1>7. i # NULLITEM
  BY FewAreItems DEF FewNull
<1>8. /\ gr \in [Few -> 0..(k + 1)] /\ gr[i] = fr[i] + 1
      /\ \A j \in Few : fr[j] \in 0..k /\ (j # i => gr[j] = fr[j])
  BY <1>1
<1>9. /\ jt \in [Counter -> Few \cup {NULLITEM}] /\ jt[c] = i
      /\ \A d \in Counter : d # c => jt[d] = it[d] /\ it[d] # i
  <2>1. CASE it[c] = i /\ jt = it
    BY <1>1, <1>2, <1>7, <2>1
  <2>2. CASE (\A d \in Counter : it[d] # i) /\ jt = [it EXCEPT ![c] = i]
    BY <1>1, <2>2
  <2>3. QED
    BY <2>1, <2>2
<1>10. cnt[c] <= fr[i] /\ fr[i] <= cnt[c] + rs
  <2>1. CASE it[c] = i
    BY <1>3, <1>7, <2>1
  <2>2. CASE (\A d \in Counter : it[d] # i) /\ cnt[c] = 0
    BY <1>1, <1>4, <1>8, <2>2
  <2>3. QED
    BY <2>1, <2>2
<1>11. \A a, b \in Counter : jt[a] = jt[b] /\ jt[a] # NULLITEM => a = b
  BY <1>2, <1>9
<1>12. ASSUME NEW a \in Counter
       PROVE  IF jt[a] = NULLITEM THEN m2[a] = 0
              ELSE m2[a] <= gr[jt[a]] /\ gr[jt[a]] <= m2[a] + rs
  <2>1. CASE a = c
    <3>1. cnt[c] \in Nat /\ fr[i] \in Nat /\ rs \in Nat
      BY <1>1
    <3>2. cnt[c] + 1 <= fr[i] + 1 /\ fr[i] + 1 <= cnt[c] + 1 + rs
      BY <1>10, <3>1
    <3>3. QED
      BY <1>5, <1>7, <1>8, <1>9, <2>1, <3>2
  <2>2. CASE a # c
    <3>1. jt[a] = it[a] /\ it[a] # i /\ m2[a] = cnt[a]
      BY <1>5, <1>9, <2>2
    <3>2. it[a] # NULLITEM => gr[it[a]] = fr[it[a]]
      BY <1>1, <1>8, <3>1
    <3>3. QED
      BY <1>3, <3>1, <3>2
  <2>3. QED
    BY <2>1, <2>2
<1>13. ASSUME NEW j \in Few, \A a \in Counter : jt[a] # j
       PROVE  gr[j] <= rs
  <2>1. j # i
    BY <1>9, <1>13
  <2>2. CASE \A a \in Counter : it[a] # j
    BY <1>4, <1>8, <2>1, <2>2
  <2>3. CASE it[c] = j
    <3>1. cnt[c] = 0
      BY <2>1, <2>3
    <3>2. j # NULLITEM
      BY FewAreItems DEF FewNull
    <3>3. fr[j] <= 0 + rs
      BY <1>3, <2>3, <3>1, <3>2
    <3>4. QED
      BY <1>1, <1>8, <2>1, <3>3
  <2>4. QED
    BY <1>9, <1>13, <2>2, <2>3
<1>14. k + 1 \in Nat /\ rs \in 0..(k + 1)
  BY <1>1
<1>15. Kept(m2, jt, gr, k + 1, rs)
  BY <1>5, <1>6, <1>8, <1>9, <1>11, <1>12, <1>13, <1>14 DEF Kept
<1>16. QED
  BY <1>15 DEF m2

(* A round of decrements, with one counter at 0, for a put of an item that *)
(* has no other counter than that.                                         *)
LEMMA RoundKeeps ==
  ASSUME NEW cnt, NEW it, NEW fr, NEW k, NEW rs, Kept(cnt, it, fr, k, rs),
         NEW i \in Few, NEW c \in Counter, NEW gr,
         gr = [fr EXCEPT ![i] = @ + 1],
         cnt[c] = 0, \A d \in Counter : d # c => cnt[d] # 0 /\ it[d] # i
  PROVE  Kept(Less(cnt), it, gr, k + 1, rs + 1)
<1> DEFINE l == Less(cnt)
<1>1. /\ cnt \in [Counter -> Nat] /\ it \in [Counter -> Few \cup {NULLITEM}] /\ fr \in [Few -> 0..k]
      /\ k \in Nat /\ rs \in 0..k
  BY DEF Kept
<1>2. \A a, b \in Counter : it[a] = it[b] /\ it[a] # NULLITEM => a = b
  BY DEF Kept
<1>3. \A a \in Counter : IF it[a] = NULLITEM THEN cnt[a] = 0
                        ELSE cnt[a] <= fr[it[a]] /\ fr[it[a]] <= cnt[a] + rs
  BY DEF Kept
<1>4. \A j \in Few : (\A a \in Counter : it[a] # j) => fr[j] <= rs
  BY DEF Kept
<1>5. l \in [Counter -> Nat] /\ l[c] = 0 /\ \A d \in Counter : d # c => l[d] = cnt[d] - 1
  BY <1>1 DEF Less
<1>6. SumFunctionOnSet(l, Counter) + (rs + 1) * Cardinality(Counter) = k + 1
  <2>1. SumFunctionOnSet(cnt, Counter) = SumFunctionOnSet(l, Counter) + (Cardinality(Counter) - 1)
    BY <1>1, LessSum
  <2>2. SumFunctionOnSet(cnt, Counter) + rs * Cardinality(Counter) = k
    BY DEF Kept
  <2>3. SumFunctionOnSet(l, Counter) \in Nat
    BY <1>5, CountsSum
  <2> DEFINE C == Cardinality(Counter)
             s == SumFunctionOnSet(l, Counter)
  <2>4. C \in Nat /\ s \in Nat /\ rs \in Nat /\ s + (C - 1) + rs * C = k
    BY <1>1, <2>1, <2>2, <2>3, CountersFinite
  <2> HIDE DEF C, s, l
  <2>5. (rs + 1) * C = rs * C + C
    BY <2>4
  <2>6. rs * C \in Nat
    BY <2>4
  <2>7. s + (rs + 1) * C = k + 1
    <3> DEFINE x == rs * C
    <3>1. x \in Nat /\ s + (C - 1) + x = k /\ (rs + 1) * C = x + C
      BY <2>4, <2>5, <2>6
    <3> HIDE DEF x
    <3>2. QED
      BY <1>1, <2>4, <3>1
  <2>8. QED
    BY <2>7 DEF C, s
<1> HIDE DEF l
<1>7. i # NULLITEM
  BY FewAreItems DEF FewNull
<1>8. /\ gr \in [Few -> 0..(k + 1)] /\ gr[i] = fr[i] + 1
      /\ \A j \in Few : fr[j] \in 0..k /\ (j # i => gr[j] = fr[j])
  BY <1>1
<1>9. ASSUME NEW a \in Counter
      PROVE  IF it[a] = NULLITEM THEN l[a] = 0
             ELSE l[a] <= gr[it[a]] /\ gr[it[a]] <= l[a] + (rs + 1)
  <2>1. CASE it[a] = NULLITEM
    BY <1>3, <1>5, <2>1
  <2>2. CASE it[a] # NULLITEM
    <3>1. it[a] \in Few /\ fr[it[a]] \in Nat /\ cnt[a] \in Nat /\ rs \in Nat
      BY <1>1, <2>2
    <3>2. cnt[a] <= fr[it[a]] /\ fr[it[a]] <= cnt[a] + rs
      BY <1>3, <2>2
    <3>3. CASE a = c
      <4>1. l[a] = 0 /\ cnt[a] = 0
        BY <1>5, <3>3
      <4>2. gr[it[a]] \in {fr[it[a]], fr[it[a]] + 1}
        BY <1>8, <3>1
      <4>3. QED
        BY <2>2, <3>1, <3>2, <4>1, <4>2
    <3>4. CASE a # c
      <4>1. l[a] = cnt[a] - 1 /\ gr[it[a]] = fr[it[a]]
        BY <1>5, <1>8, <3>1, <3>4
      <4>2. QED
        BY <2>2, <3>1, <3>2, <4>1
    <3>5. QED
      BY <3>3, <3>4
  <2>3. QED
    BY <2>1, <2>2
<1>10. ASSUME NEW j \in Few, \A a \in Counter : it[a] # j
       PROVE  gr[j] <= rs + 1
  <2>1. fr[j] <= rs /\ fr[j] \in Nat /\ rs \in Nat
    BY <1>1, <1>4, <1>10
  <2>2. gr[j] \in {fr[j], fr[j] + 1}
    BY <1>8
  <2>3. QED
    BY <2>1, <2>2
<1>11. k + 1 \in Nat /\ rs + 1 \in 0..(k + 1)
  BY <1>1
<1>12. Kept(l, it, gr, k + 1, rs + 1)
  BY <1>1, <1>2, <1>5, <1>6, <1>8, <1>9, <1>10, <1>11 DEF Kept
<1>13. QED
  BY <1>12 DEF l

-----------------------------------------------------------------------------
(* The actions of GroupFrequent.                                           *)

(* All counters are free, and none counts anything.                        *)
LEMMA GroupsInit ==
  Groups!Init => Groups!IInv
<1> SUFFICES ASSUME Groups!Init PROVE Groups!IInv
  OBVIOUS
<1>1. /\ groups = <<Groups!Group(0, Counter)>> /\ item = [c \in Counter |-> NULLITEM]
      /\ n = 0 /\ freq = [i \in Few |-> 0] /\ rounds = 0
  BY DEF Groups!Init
<1> DEFINE cnt == [c \in Counter |-> 0]
           H == [h \in 1..1 |-> 0]
<1>2. Groups!Group(0, Counter) \in GroupIn(0) /\ groups[1].diff = 0 /\ groups[1].items = Counter
  BY <1>1, GroupTyped
<1>3. groups \in Seq(GroupIn(0)) /\ Len(groups) = 1 /\ DOMAIN groups = 1..1
  BY <1>1, <1>2
<1>4. Groups!Typed
  BY <1>1, <1>3, FewAreItems DEF Groups!Typed, GroupIn
<1>5. Counter # {}
  BY CountersFinite, FewAreItems, FS_EmptySet
<1>6. Rep(groups, H)
  <2>1. 1 \in 1..1 /\ \A g \in 1..1 : g = 1
    OBVIOUS
  <2>2. ~ \E g \in 2..1 : TRUE
    OBVIOUS
  <2>3. H \in [1..1 -> Nat] /\ H[1] = 0
    OBVIOUS
  <2> HIDE DEF H
  <2>4. QED
    BY <1>2, <1>3, <1>5, <2>1, <2>2, <2>3 DEF Rep
<1>7. Counts(groups, cnt)
  <2>1. \A g \in 1..Len(groups) : \A c \in groups[g].items : cnt[c] = H[g]
    BY <1>2, <1>3
  <2>2. cnt \in [Counter -> Nat]
    OBVIOUS
  <2> HIDE DEF cnt, H
  <2>3. QED
    BY <1>6, <2>1, <2>2 DEF Counts
<1>8. Groups!GroupsPart
  <2> HIDE DEF cnt
  <2>1. Parts(groups)
    BY <1>7, CountsPart
  <2>2. QED
    BY <2>1 DEF Parts, Groups!GroupsPart
<1>9. Tallied = cnt
  <2> HIDE DEF cnt
  <2>1. QED
    BY <1>4, <1>7, <1>8, TalliedCounts, CountsUnique
<1>10. SumFunctionOnSet(cnt, Counter) = 0
  <2>1. cnt \in [Counter -> Int] /\ \A c \in Counter : cnt[c] = 0
    OBVIOUS
  <2> HIDE DEF cnt
  <2>2. QED
    BY <2>1, CountersFinite, NothingAddsUp
<1>11. Kept(cnt, item, freq, n, rounds)
  <2>1. 0 * Cardinality(Counter) = 0
    BY CountersFinite
  <2>2. SumFunctionOnSet(cnt, Counter) + rounds * Cardinality(Counter) = n
    BY <1>1, <1>10, <2>1
  <2>3. cnt \in [Counter -> Nat] /\ \A c \in Counter : cnt[c] = 0
    OBVIOUS
  <2> HIDE DEF cnt
  <2>4. /\ item \in [Counter -> Few \cup {NULLITEM}] /\ \A c \in Counter : item[c] = NULLITEM
        /\ freq \in [Few -> 0..0] /\ \A i \in Few : freq[i] = 0
    BY <1>1
  <2>5. QED
    BY <1>1, <2>2, <2>3, <2>4 DEF Kept
<1>12. QED
  BY <1>4, <1>8, <1>9, <1>11, GroupsKept

(* GroupsKept, to be used of the state after a step.                       *)
LEMMA GroupsKeptThen ==
  Groups!Typed /\ Groups!GroupsPart => (Groups!IInv <=> Kept(Tallied, item, freq, n, rounds))
BY GroupsKept

(* The invariant follows from what it says of the counts after the step.   *)
LEMMA GroupsFollow ==
  ASSUME Groups!Typed', NEW cnt, Counts(groups', cnt), Kept(cnt, item', freq', n', rounds')
  PROVE  Groups!IInv'
<1>1. Groups!GroupsPart' /\ Tallied' = cnt
  BY CountsFollow
<1>2. (Groups!Typed /\ Groups!GroupsPart => (Groups!IInv <=> Kept(Tallied, item, freq, n, rounds)))'
  BY GroupsKeptThen, PTL
<1>3. Kept(Tallied, item, freq, n, rounds)'
  BY <1>1 DEF Kept
<1>4. QED
  BY <1>1, <1>2, <1>3

(* What a step does to the counts: it raises the item's counter, or one    *)
(* that is free but not the last free one, or it is a round that finds one *)
(* free counter.                                                           *)
RaiseOf(i) ==
  \E c \in Counter :
    /\ Tallied' = More(Tallied, c)
    /\ \/ item[c] = i /\ item' = item
       \/ Groups!NotFound(i) /\ Tallied[c] = 0 /\ item' = [item EXCEPT ![c] = i]
    /\ Tallied[c] = 0 => \E d \in Counter : d # c /\ Tallied[d] = 0

RoundOf(i) ==
  /\ Tallied' = Less(Tallied) /\ item' = item
  /\ \E c \in Counter :
       Tallied[c] = 0 /\ \A d \in Counter : d # c => Tallied[d] # 0 /\ item[d] # i

(* A step that raises a counter.                                           *)
LEMMA RaiseStep ==
  ASSUME Groups!IInv, NEW i \in Few, Groups!Tally(i), NEW g \in 1..Len(groups), NEW c \in groups[g].items,
         Raises(groups', g, c), rounds' = rounds,
         \/ item[c] = i /\ item' = item
         \/ Groups!NotFound(i) /\ g = 1 /\ item' = [item EXCEPT ![c] = i]
  PROVE  /\ Groups!IInv' /\ c \in Counter
         /\ Tallied' = More(Tallied, c) /\ (g = 1 <=> Tallied[c] = 0)
<1>1. Groups!Typed /\ Groups!GroupsPart /\ Kept(Tallied, item, freq, n, rounds)
  BY GroupsKept DEF Groups!IInv
<1>2. Counts(groups, Tallied) /\ c \in Counter
  BY <1>1, TalliedCounts, InOneGroup
<1>3. Counts(groups', More(Tallied, c))
  BY <1>2, RaisedCounts
<1>4. n < kMaxPuts /\ n' = n + 1 /\ freq' = [freq EXCEPT ![i] = @ + 1]
  BY DEF Groups!Tally
<1>5. g = 1 <=> Tallied[c] = 0
  <2>1. c \in groups[1].items <=> Tallied[c] = 0
    BY <1>2, ZeroIsFree
  <2>2. c \in groups[1].items <=> g = 1
    <3>1. PICK H : Rep(groups, H)
      BY <1>2 DEF Counts
    <3>2. 1 \in 1..Len(groups)
      BY <3>1, RepFacts
    <3>3. c \in groups[1].items => Groups!GroupOf(c) = 1
      BY <1>1, <3>2, InOneGroup
    <3>4. Groups!GroupOf(c) = g
      BY <1>1, InOneGroup
    <3>5. QED
      BY <3>3, <3>4
  <2>3. QED
    BY <2>1, <2>2
<1>6. Kept(More(Tallied, c), item', freq', n + 1, rounds)
  <2>1. CASE item[c] = i /\ item' = item
    BY <1>1, <1>2, <1>4, <2>1, RaiseKeeps
  <2>2. CASE Groups!NotFound(i) /\ g = 1 /\ item' = [item EXCEPT ![c] = i]
    <3>1. \A d \in Counter : item[d] # i
      BY <2>2 DEF Groups!NotFound
    <3>2. QED
      BY <1>1, <1>2, <1>4, <1>5, <2>2, <3>1, RaiseKeeps
  <2>3. QED
    BY <2>1, <2>2
<1>7. Groups!Typed'
  <2>1. groups' \in Seq(GroupIn(n'))
    BY <1>4 DEF Raises
  <2>2. n' \in 0..kMaxPuts
    BY <1>1, <1>4, FewAreItems DEF Groups!Typed
  <2>3. item' \in [Counter -> Few \cup {NULLITEM}] /\ freq' \in [Few -> 0..n'] /\ rounds' \in 0..n'
    BY <1>4, <1>6 DEF Kept
  <2>4. QED
    BY <2>1, <2>2, <2>3 DEF Groups!Typed, GroupIn
<1>8. Kept(More(Tallied, c), item', freq', n', rounds')
  BY <1>4, <1>6
<1>9. Groups!IInv'
  BY <1>3, <1>7, <1>8, GroupsFollow
<1>10. Tallied' = More(Tallied, c)
  BY <1>3, <1>7, CountsFollow
<1>11. QED
  BY <1>2, <1>5, <1>9, <1>10

(* A step that is a round.                                                 *)
LEMMA RoundStep ==
  ASSUME Groups!IInv, NEW i \in Few, Groups!Tally(i), Cardinality(Groups!Free) = 1,
         \A d \in Counter : item[d] = i => d \in Groups!Free,
         groups' = Groups!Decremented, rounds' = rounds + 1, item' = item
  PROVE  Groups!IInv' /\ RoundOf(i)
<1>1. Groups!Typed /\ Groups!GroupsPart /\ Kept(Tallied, item, freq, n, rounds)
  BY GroupsKept DEF Groups!IInv
<1>2. groups' \in Seq(GroupIn(n)) /\ Counts(groups', Less(Tallied))
  BY <1>1, DecrementedCounts
<1>3. n < kMaxPuts /\ n' = n + 1 /\ freq' = [freq EXCEPT ![i] = @ + 1]
  BY DEF Groups!Tally
<1>4. \A d \in Counter : d \in Groups!Free <=> Tallied[d] = 0
  BY <1>1, TalliedCounts, ZeroIsFree DEF Groups!Free
<1>5. Groups!Free \subseteq Counter
  <2>1. 1 \in 1..Len(groups)
    <3>1. PICK H : Rep(groups, H)
      BY <1>1, TalliedCounts DEF Counts
    <3>2. QED
      BY <3>1 DEF Rep
  <2>2. QED
    BY <1>1, <2>1, GroupsSeq DEF Groups!Free
<1>6. PICK c : Groups!Free = {c}
  BY <1>5, CountersFinite, FS_Subset, FS_Singleton
<1>7. /\ c \in Counter /\ Tallied[c] = 0
      /\ \A d \in Counter : d # c => Tallied[d] # 0 /\ item[d] # i
  BY <1>4, <1>5, <1>6
<1>8. Kept(Less(Tallied), item, freq', n + 1, rounds + 1)
  BY <1>1, <1>3, <1>7, RoundKeeps
<1>9. Groups!Typed'
  <2>1. n \in Nat /\ groups' \in Seq(GroupIn(n'))
    <3>1. n \in Nat
      BY <1>1 DEF Groups!Typed
    <3>2. QED
      BY <1>2, <1>3, <3>1, Wider
  <2>2. n' \in 0..kMaxPuts
    BY <1>3, <2>1, FewAreItems
  <2>3. item' \in [Counter -> Few \cup {NULLITEM}] /\ freq' \in [Few -> 0..n'] /\ rounds' \in 0..n'
    BY <1>3, <1>8 DEF Kept
  <2>4. QED
    BY <2>1, <2>2, <2>3 DEF Groups!Typed, GroupIn
<1>10. Kept(Less(Tallied), item', freq', n', rounds')
  BY <1>3, <1>8
<1>11. Groups!IInv' /\ Tallied' = Less(Tallied)
  BY <1>2, <1>9, <1>10, GroupsFollow, CountsFollow
<1>12. RoundOf(i)
  BY <1>7, <1>11 DEF RoundOf
<1>13. QED
  BY <1>11, <1>12

(* Each put of GroupFrequent is the one or the other.                      *)
LEMMA GroupsStep ==
  ASSUME Groups!IInv, Groups!Next
  PROVE  Groups!IInv' /\ \E i \in Few : RaiseOf(i) \/ RoundOf(i)
<1>1. PICK i \in Few : \/ Groups!Increment(i) \/ Groups!RecycleCounter(i)
                       \/ Groups!GetNewCounter(i) \/ Groups!DecrementCounters(i)
  BY DEF Groups!Next
<1>2. Groups!Typed /\ Groups!GroupsPart
  BY DEF Groups!IInv
<1>3. 1 \in 1..Len(groups) /\ \A c \in Counter : \E g \in 1..Len(groups) : c \in groups[g].items
  <2>1. PICK H : Rep(groups, H)
    BY <1>2, TalliedCounts DEF Counts
  <2>2. QED
    BY <2>1 DEF Rep
<1>4. /\ Groups!Free = groups[1].items /\ Groups!Free \subseteq Counter
      /\ \A d \in Counter : d \in Groups!Free <=> Tallied[d] = 0
  BY <1>2, <1>3, GroupsSeq, TalliedCounts, ZeroIsFree DEF Groups!Free
<1>5. \A c, d \in Counter : item[c] = item[d] /\ item[c] # NULLITEM => c = d
  BY DEF Groups!IInv, Groups!OneCounterEach
<1>6. i # NULLITEM
  BY FewAreItems DEF FewNull
<1>7. CASE Groups!Increment(i)
  <2>1. PICK c \in Counter \ Groups!Free : item[c] = i /\ groups' = Groups!Incremented(c)
    BY <1>7 DEF Groups!Increment
  <2>2. Groups!Tally(i) /\ item' = item /\ rounds' = rounds
    BY <1>7 DEF Groups!Increment
  <2>3. PICK g \in 1..Len(groups) : c \in groups[g].items
    BY <1>3
  <2>4. g # 1
    BY <1>4, <2>1, <2>3
  <2>5. Raises(groups', g, c)
    BY <1>2, <2>1, <2>3, <2>4, IncrementedRaises
  <2>6. Groups!IInv' /\ Tallied' = More(Tallied, c) /\ Tallied[c] # 0
    BY <2>1, <2>2, <2>3, <2>4, <2>5, RaiseStep
  <2>7. RaiseOf(i)
    BY <2>1, <2>2, <2>6 DEF RaiseOf
  <2>8. QED
    BY <2>6, <2>7
<1>8. CASE Groups!RecycleCounter(i)
  <2>1. PICK c \in Groups!Free :
          /\ item[c] = i
          /\ IF Groups!Free = {c}
             THEN groups' = Groups!Decremented /\ rounds' = rounds + 1
             ELSE groups' = Groups!FirstGroup(c) /\ rounds' = rounds
    BY <1>8 DEF Groups!RecycleCounter
  <2>2. Groups!Tally(i) /\ item' = item
    BY <1>8 DEF Groups!RecycleCounter
  <2>3. CASE Groups!Free = {c}
    <3>1. Cardinality(Groups!Free) = 1
      BY <2>3, FS_Singleton
    <3>2. \A d \in Counter : item[d] = i => d \in Groups!Free
      BY <1>4, <1>5, <1>6, <2>1
    <3>3. QED
      BY <2>1, <2>2, <2>3, <3>1, <3>2, RoundStep
  <2>4. CASE Groups!Free # {c}
    <3>1. Raises(groups', 1, c)
      BY <1>2, <1>3, <1>4, <2>1, <2>4, FirstGroupRaises
    <3>2. Groups!IInv' /\ Tallied' = More(Tallied, c)
      BY <1>3, <1>4, <2>1, <2>2, <2>4, <3>1, RaiseStep
    <3>3. \E d \in Counter : d # c /\ Tallied[d] = 0
      BY <1>4, <2>1, <2>4
    <3>4. RaiseOf(i)
      BY <1>4, <2>1, <2>2, <3>2, <3>3 DEF RaiseOf
    <3>5. QED
      BY <3>2, <3>4
  <2>5. QED
    BY <2>3, <2>4
<1>9. CASE Groups!GetNewCounter(i)
  <2>1. PICK c \in Groups!Free : item' = [item EXCEPT ![c] = i] /\ groups' = Groups!FirstGroup(c)
    BY <1>9 DEF Groups!GetNewCounter
  <2>2. /\ Groups!Tally(i) /\ rounds' = rounds /\ Groups!NotFound(i)
        /\ Groups!Cardinality(Groups!Free) > 1
    BY <1>9 DEF Groups!GetNewCounter
  <2>3. groups[1].items # {c}
    <3>1. Cardinality({c}) = 1
      BY FS_Singleton
    <3>2. Groups!Cardinality(groups[1].items) > 1
      BY <1>4, <2>2
    <3>3. Groups!Cardinality({c}) = 1
      BY <3>1, GroupsSets
    <3>4. QED
      BY <3>2, <3>3
  <2>4. Raises(groups', 1, c)
    BY <1>2, <1>3, <1>4, <2>1, <2>3, FirstGroupRaises
  <2>5. Groups!IInv' /\ Tallied' = More(Tallied, c)
    BY <1>3, <1>4, <2>1, <2>2, <2>4, RaiseStep
  <2>6. \E d \in Counter : d # c /\ Tallied[d] = 0
    BY <1>4, <2>1, <2>3
  <2>7. RaiseOf(i)
    BY <1>4, <2>1, <2>2, <2>5, <2>6 DEF RaiseOf
  <2>8. QED
    BY <2>5, <2>7
<1>10. CASE Groups!DecrementCounters(i)
  <2>1. /\ Groups!Tally(i) /\ rounds' = rounds + 1 /\ item' = item /\ groups' = Groups!Decremented
        /\ Groups!NotFound(i) /\ Groups!Cardinality(Groups!Free) = 1
    BY <1>10 DEF Groups!DecrementCounters
  <2>2. Cardinality(Groups!Free) = 1 /\ \A d \in Counter : item[d] # i
    BY <2>1, GroupsSets DEF Groups!NotFound
  <2>3. QED
    BY <2>1, <2>2, RoundStep
<1>11. QED
  BY <1>1, <1>7, <1>8, <1>9, <1>10

(* What the invariant says of the estimates.                               *)
LEMMA GroupsEstimates ==
  ASSUME Groups!IInv
  PROVE  /\ \A i \in Few : Groups!Estimate(i) <= freq[i] /\ freq[i] <= Groups!Estimate(i) + rounds
         /\ rounds * Cardinality(Counter) <= n
<1>1. Groups!Typed /\ Groups!GroupsPart /\ Kept(Tallied, item, freq, n, rounds)
  BY GroupsKept DEF Groups!IInv
<1>2. ASSUME NEW i \in Few
      PROVE  Groups!Estimate(i) <= freq[i] /\ freq[i] <= Groups!Estimate(i) + rounds
  <2> DEFINE own == {c \in Counter : item[c] = i}
  <2>1. i # NULLITEM
    BY FewAreItems DEF FewNull
  <2>2. freq[i] \in Nat /\ rounds \in Nat
    BY <1>1 DEF Kept
  <2>3. CASE own = {}
    <3>1. Groups!Estimate(i) = 0
      BY <2>3 DEF Groups!Estimate
    <3>2. freq[i] <= rounds
      BY <1>1, <2>3 DEF Kept
    <3>3. QED
      BY <2>2, <3>1, <3>2
  <2>4. CASE own # {}
    <3> DEFINE c == CHOOSE c \in own : TRUE
    <3>1. Groups!Estimate(i) = Groups!Count(c)
      BY <2>4 DEF Groups!Estimate
    <3>2. c \in Counter /\ item[c] = i
      BY <2>4
    <3> HIDE DEF c
    <3>3. Groups!Count(c) = Tallied[c]
      BY <1>1, <3>2, TalliedAre
    <3>4. QED
      BY <1>1, <2>1, <3>1, <3>2, <3>3 DEF Kept
  <2>5. QED
    BY <2>3, <2>4
<1>3. rounds * Cardinality(Counter) <= n
  <2>1. Tallied \in [Counter -> Nat] /\ rounds \in Nat /\ n \in Nat
    BY <1>1 DEF Kept
  <2>2. SumFunctionOnSet(Tallied, Counter) \in Nat
    BY <2>1, CountsSum
  <2>3. SumFunctionOnSet(Tallied, Counter) + rounds * Cardinality(Counter) = n
    BY <1>1 DEF Kept
  <2>4. rounds * Cardinality(Counter) \in Int
    BY <2>1, CountersFinite
  <2> DEFINE s == SumFunctionOnSet(Tallied, Counter)
             x == rounds * Cardinality(Counter)
  <2>5. s \in Nat /\ x \in Int /\ n \in Nat /\ s + x = n
    BY <2>1, <2>2, <2>3, <2>4
  <2> HIDE DEF s, x
  <2>6. x <= n
    BY <2>5
  <2>7. QED
    BY <2>6 DEF x
<1>4. QED
  BY <1>2, <1>3

-----------------------------------------------------------------------------
(* GroupFrequent and MisraGries.                                           *)

(* The estimates, given the counts and the items of the counters.          *)
Estimates(cnt, it) ==
  [i \in Few |-> LET own == {c \in Counter : it[c] = i}
                 IN  IF own = {} THEN 0 ELSE cnt[CHOOSE c \in own : TRUE]]

(* The sketch estimates just these.                                        *)
LEMMA EstimatesAre ==
  Groups!IInv => /\ [i \in Few |-> Groups!Estimate(i)] = Estimates(Tallied, item)
                 /\ Kept(Tallied, item, freq, n, rounds)
<1> SUFFICES ASSUME Groups!IInv
             PROVE  /\ [i \in Few |-> Groups!Estimate(i)] = Estimates(Tallied, item)
                    /\ Kept(Tallied, item, freq, n, rounds)
  OBVIOUS
<1>1. \A c \in Counter : Tallied[c] = Groups!Count(c)
  BY DEF Tallied
<1>2. ASSUME NEW i \in Few PROVE Groups!Estimate(i) = Estimates(Tallied, item)[i]
  <2> DEFINE own == {c \in Counter : item[c] = i}
             c == CHOOSE c \in own : TRUE
  <2>1. Groups!Estimate(i) = IF own = {} THEN 0 ELSE Groups!Count(c)
    BY DEF Groups!Estimate
  <2>2. Estimates(Tallied, item)[i] = IF own = {} THEN 0 ELSE Tallied[c]
    BY DEF Estimates
  <2>3. own # {} => c \in Counter
    OBVIOUS
  <2> HIDE DEF own, c
  <2>4. QED
    BY <1>1, <2>1, <2>2, <2>3
<1>3. Estimates(Tallied, item) = [i \in Few |-> Estimates(Tallied, item)[i]]
  BY DEF Estimates
<1>4. QED
  BY <1>2, <1>3, GroupsKept DEF Groups!IInv

(* The estimate of an item is the count of its counter, or 0.              *)
LEMMA EstimateOf ==
  ASSUME NEW cnt, NEW it, NEW fr, NEW k, NEW rs, Kept(cnt, it, fr, k, rs)
  PROVE  /\ Estimates(cnt, it) \in [Few -> Nat]
         /\ \A i \in Few : \A c \in Counter : it[c] = i => Estimates(cnt, it)[i] = cnt[c]
         /\ \A i \in Few : (\A c \in Counter : it[c] # i) => Estimates(cnt, it)[i] = 0
<1>1. \A a, b \in Counter : it[a] = it[b] /\ it[a] # NULLITEM => a = b
  BY DEF Kept
<1>2. cnt \in [Counter -> Nat]
  BY DEF Kept
<1>3. ASSUME NEW i \in Few
      PROVE  /\ Estimates(cnt, it)[i] \in Nat
             /\ \A c \in Counter : it[c] = i => Estimates(cnt, it)[i] = cnt[c]
             /\ (\A c \in Counter : it[c] # i) => Estimates(cnt, it)[i] = 0
  <2> DEFINE own == {c \in Counter : it[c] = i}
             d == CHOOSE c \in own : TRUE
  <2>1. Estimates(cnt, it)[i] = IF own = {} THEN 0 ELSE cnt[d]
    BY DEF Estimates
  <2>2. own # {} => d \in Counter /\ it[d] = i
    OBVIOUS
  <2>3. i # NULLITEM
    BY FewAreItems DEF FewNull
  <2>4. \A c \in Counter : it[c] = i => own # {}
    OBVIOUS
  <2>5. (\A c \in Counter : it[c] # i) => own = {}
    OBVIOUS
  <2> HIDE DEF own, d
  <2>6. QED
    BY <1>1, <1>2, <2>1, <2>2, <2>3, <2>4, <2>5
<1>4. Estimates(cnt, it) = [i \in Few |-> Estimates(cnt, it)[i]]
  BY DEF Estimates
<1>5. Estimates(cnt, it) \in [Few -> Nat]
  BY <1>3, <1>4
<1>6. QED
  BY <1>3, <1>5

(* As many items have an estimate as counters are in use.                  *)
LEMMA AsManyCounted ==
  ASSUME NEW cnt, NEW it, NEW fr, NEW k, NEW rs, Kept(cnt, it, fr, k, rs)
  PROVE  LET U == {c \in Counter : cnt[c] # 0}
             E == {i \in Few : Estimates(cnt, it)[i] > 0}
         IN  IsFiniteSet(U) /\ IsFiniteSet(E) /\ Cardinality(E) = Cardinality(U)
<1> DEFINE U == {c \in Counter : cnt[c] # 0}
           E == {i \in Few : Estimates(cnt, it)[i] > 0}
           f == [c \in U |-> it[c]]
<1>1. /\ cnt \in [Counter -> Nat] /\ it \in [Counter -> Few \cup {NULLITEM}]
      /\ \A a, b \in Counter : it[a] = it[b] /\ it[a] # NULLITEM => a = b
      /\ \A a \in Counter : it[a] = NULLITEM => cnt[a] = 0
  BY DEF Kept
<1>2. IsFiniteSet(U)
  BY CountersFinite, FS_Subset
<1>3. \A c \in U : it[c] \in E /\ it[c] # NULLITEM
  <2> SUFFICES ASSUME NEW c \in U PROVE it[c] \in E /\ it[c] # NULLITEM
    OBVIOUS
  <2>1. it[c] # NULLITEM /\ it[c] \in Few /\ cnt[c] \in Nat /\ cnt[c] # 0
    BY <1>1
  <2>2. Estimates(cnt, it)[it[c]] = cnt[c]
    BY <2>1, EstimateOf
  <2>3. QED
    BY <2>1, <2>2
<1>4. \A i \in E : \E c \in U : it[c] = i
  <2> SUFFICES ASSUME NEW i \in E PROVE \E c \in U : it[c] = i
    OBVIOUS
  <2>1. i \in Few /\ Estimates(cnt, it)[i] # 0
    BY EstimateOf
  <2>2. PICK c \in Counter : it[c] = i
    BY <2>1, EstimateOf
  <2>3. cnt[c] # 0
    BY <2>1, <2>2, EstimateOf
  <2>4. QED
    BY <2>2, <2>3
<1>5. f \in Bijection(U, E)
  <2>1. U \subseteq Counter
    OBVIOUS
  <2> HIDE DEF U, E
  <2>2. f \in [U -> E] /\ \A a, b \in U : f[a] = f[b] => a = b
    BY <1>1, <1>3, <2>1
  <2>3. \A i \in E : \E c \in U : f[c] = i
    BY <1>4
  <2>4. QED
    BY <2>2, <2>3 DEF Bijection, Injection, Surjection, IsInjective
<1>6. IsFiniteSet(E) /\ Cardinality(E) = Cardinality(U)
  <2>1. ExistsBijection(U, E)
    BY <1>5 DEF ExistsBijection
  <2> HIDE DEF U, E
  <2>2. QED
    BY <1>2, <2>1, FS_Bijection
<1>7. QED
  BY <1>2, <1>6

(* A raised counter raises the estimate of the item put, ...               *)
LEMMA RaiseEstimates ==
  ASSUME NEW cnt, NEW it, NEW fr, NEW k, NEW rs, Kept(cnt, it, fr, k, rs),
         NEW gr, NEW j, NEW jt, NEW ss, NEW c \in Counter, Kept(More(cnt, c), jt, gr, j, ss),
         NEW i \in Few,
         \/ it[c] = i /\ jt = it
         \/ (\A d \in Counter : it[d] # i) /\ cnt[c] = 0 /\ jt = [it EXCEPT ![c] = i]
  PROVE  Estimates(More(cnt, c), jt) = [Estimates(cnt, it) EXCEPT ![i] = @ + 1]
<1> DEFINE est == Estimates(cnt, it)
           fst == Estimates(More(cnt, c), jt)
<1>1. /\ cnt \in [Counter -> Nat] /\ it \in [Counter -> Few \cup {NULLITEM}]
      /\ \A a, b \in Counter : it[a] = it[b] /\ it[a] # NULLITEM => a = b
  BY DEF Kept
<1>2. More(cnt, c)[c] = cnt[c] + 1 /\ \A d \in Counter : d # c => More(cnt, c)[d] = cnt[d]
  BY <1>1, MoreType
<1>3. est \in [Few -> Nat] /\ fst \in [Few -> Nat]
  BY EstimateOf
<1>4. jt[c] = i /\ \A d \in Counter : d # c => jt[d] = it[d]
  BY <1>1
<1>5. fst[i] = est[i] + 1
  <2>1. fst[i] = cnt[c] + 1
    BY <1>2, <1>4, EstimateOf
  <2>2. est[i] = cnt[c]
    BY EstimateOf
  <2>3. QED
    BY <2>1, <2>2
<1>6. ASSUME NEW h \in Few, h # i PROVE fst[h] = est[h]
  <2>1. CASE \E d \in Counter : d # c /\ it[d] = h
    <3>1. PICK d \in Counter : d # c /\ it[d] = h
      BY <2>1
    <3>2. fst[h] = More(cnt, c)[d] /\ est[h] = cnt[d]
      BY <1>4, <3>1, EstimateOf
    <3>3. QED
      BY <1>2, <3>1, <3>2
  <2>2. CASE \A d \in Counter : d # c => it[d] # h
    <3>1. \A d \in Counter : jt[d] # h
      BY <1>4, <1>6, <2>2
    <3>2. fst[h] = 0
      BY <3>1, EstimateOf
    <3>3. est[h] = 0
      <4>1. CASE it[c] = h
        <5>1. cnt[c] = 0
          BY <1>6, <4>1
        <5>2. QED
          BY <4>1, <5>1, EstimateOf
      <4>2. CASE it[c] # h
        <5>1. \A d \in Counter : it[d] # h
          BY <2>2, <4>2
        <5>2. QED
          BY <5>1, EstimateOf
      <4>3. QED
        BY <4>1, <4>2
    <3>4. QED
      BY <3>2, <3>3
  <2>3. QED
    BY <2>1, <2>2
<1> HIDE DEF est, fst
<1>7. fst = [est EXCEPT ![i] = @ + 1]
  BY <1>3, <1>5, <1>6
<1>8. QED
  BY <1>7 DEF est, fst

(* ... and a round takes one from all that are not 0.                      *)
LEMMA RoundEstimates ==
  ASSUME NEW cnt, NEW it, NEW fr, NEW k, NEW rs, Kept(cnt, it, fr, k, rs),
         NEW gr, NEW j, NEW ss, Kept(Less(cnt), it, gr, j, ss)
  PROVE  Estimates(Less(cnt), it)
           = [h \in Few |-> IF Estimates(cnt, it)[h] > 0 THEN Estimates(cnt, it)[h] - 1 ELSE 0]
<1> DEFINE est == Estimates(cnt, it)
           fst == Estimates(Less(cnt), it)
<1>1. cnt \in [Counter -> Nat]
  BY DEF Kept
<1>2. est \in [Few -> Nat] /\ fst \in [Few -> Nat]
  BY EstimateOf
<1>3. ASSUME NEW h \in Few PROVE fst[h] = IF est[h] > 0 THEN est[h] - 1 ELSE 0
  <2>1. CASE \E d \in Counter : it[d] = h
    <3>1. PICK d \in Counter : it[d] = h
      BY <2>1
    <3>2. fst[h] = Less(cnt)[d] /\ est[h] = cnt[d]
      BY <3>1, EstimateOf
    <3>3. Less(cnt)[d] = IF cnt[d] = 0 THEN 0 ELSE cnt[d] - 1
      BY DEF Less
    <3>4. cnt[d] \in Nat
      BY <1>1
    <3>5. QED
      BY <3>2, <3>3, <3>4
  <2>2. CASE \A d \in Counter : it[d] # h
    <3>1. fst[h] = 0 /\ est[h] = 0
      BY <2>2, EstimateOf
    <3>2. QED
      BY <3>1
  <2>3. QED
    BY <2>1, <2>2
<1> HIDE DEF est, fst
<1>4. fst = [h \in Few |-> IF est[h] > 0 THEN est[h] - 1 ELSE 0]
  BY <1>2, <1>3
<1>5. QED
  BY <1>4 DEF est, fst

(* MisraGries has its own copy of Cardinality.                             *)
LEMMA CountingSets ==
  \A S : Counting!Cardinality(S) = Cardinality(S)
BY Zenon DEF Counting!IsFiniteSet, IsFiniteSet, Counting!Cardinality, Cardinality


(* MisraGries, with the estimates of the sketch for its counts.            *)
Estimated == [i \in Few |-> IF sketch = "GroupFrequent" THEN Groups!Estimate(i) ELSE 0]

CountsAre(x, y) ==
  LET capacity == Cardinality(Counter) - 1
      In == {i \in Few : x[i] > 0}
  IN  \E i \in Few :
        \/ x[i] > 0 /\ y = [x EXCEPT ![i] = @ + 1]
        \/ x[i] = 0 /\ Cardinality(In) < capacity /\ y = [x EXCEPT ![i] = 1]
        \/ x[i] = 0 /\ Cardinality(In) = capacity /\ y = [j \in Few |-> IF j \in In THEN x[j] - 1 ELSE 0]

(* MisraGries takes a step when its counts change in one of three ways.    *)
LEMMA CountingIs ==
  Counting!Next <=> CountsAre(Estimated, Estimated')
<1> DEFINE x == Estimated
           y == Estimated'
<1>1. Counting!Counted = {i \in Few : x[i] > 0}
  BY DEF Counting!Counted, Estimated
<1>2. ASSUME NEW i \in Few
      PROVE  /\ Counting!Count(i) <=> x[i] > 0 /\ y = [x EXCEPT ![i] = @ + 1]
             /\ Counting!Enter(i) <=> /\ x[i] = 0
                                      /\ Counting!Cardinality(Counting!Counted) < Cardinality(Counter) - 1
                                      /\ y = [x EXCEPT ![i] = 1]
             /\ Counting!Decrement(i) <=> /\ x[i] = 0
                                      /\ Counting!Cardinality(Counting!Counted) = Cardinality(Counter) - 1
                                      /\ y = [j \in Few |-> IF j \in Counting!Counted THEN x[j] - 1 ELSE 0]
  BY Zenon DEF Counting!Count, Counting!Enter, Counting!Decrement, Estimated
<1> HIDE DEF x, y
<1>3. Counting!Next <=> \E i \in Few : Counting!Count(i) \/ Counting!Enter(i) \/ Counting!Decrement(i)
  BY DEF Counting!Next
<1>4. Counting!Next <=> CountsAre(x, y)
  BY <1>1, <1>2, <1>3, CountingSets DEF CountsAre
<1>5. QED
  BY <1>4 DEF x, y

(* For GroupFrequent, they are the estimates.                              *)
LEMMA EstimatedIs ==
  Groups!IInv /\ sketch = "GroupFrequent" =>
    Estimated = Estimates(Tallied, item) /\ Kept(Tallied, item, freq, n, rounds)
BY EstimatesAre DEF Estimated

(* Every step of the sketch is one of MisraGries.                          *)
LEMMA CountingStep ==
  ASSUME Groups!IInv, Groups!Next, sketch = "GroupFrequent", sketch' = sketch
  PROVE  Counting!Next
<1> DEFINE est == Estimates(Tallied, item)
           C == Cardinality(Counter)
           U == {c \in Counter : Tallied[c] # 0}
           E == {i \in Few : est[i] > 0}
<1>1. PICK i \in Few : RaiseOf(i) \/ RoundOf(i)
  BY GroupsStep
<1>2. (Groups!IInv /\ sketch = "GroupFrequent")'
  BY GroupsStep
<1>3. Estimated = est /\ Kept(Tallied, item, freq, n, rounds)
  BY EstimatedIs
<1>4. (Estimated = Estimates(Tallied, item) /\ Kept(Tallied, item, freq, n, rounds))'
  BY <1>2, EstimatedIs, PTL
<1>5. Estimated' = Estimates(Tallied', item') /\ Kept(Tallied', item', freq', n', rounds')
  BY <1>4 DEF Estimates, Kept
<1>6. IsFiniteSet(U) /\ IsFiniteSet(E) /\ Cardinality(E) = Cardinality(U) /\ U \subseteq Counter
  BY <1>3, AsManyCounted
<1>7. est \in [Few -> Nat]
  BY <1>3, EstimateOf
<1>8. IsFiniteSet(Counter) /\ C \in Nat
  BY CountersFinite
<1>9. CASE RaiseOf(i)
  <2>1. PICK c \in Counter :
          /\ Tallied' = More(Tallied, c)
          /\ \/ item[c] = i /\ item' = item
             \/ Groups!NotFound(i) /\ Tallied[c] = 0 /\ item' = [item EXCEPT ![c] = i]
          /\ Tallied[c] = 0 => \E d \in Counter : d # c /\ Tallied[d] = 0
    BY <1>9 DEF RaiseOf
  <2>2. \/ item[c] = i /\ item' = item
        \/ (\A d \in Counter : item[d] # i) /\ Tallied[c] = 0 /\ item' = [item EXCEPT ![c] = i]
    BY <2>1 DEF Groups!NotFound
  <2>3. Kept(More(Tallied, c), item', freq', n', rounds')
    BY <1>5, <2>1
  <2>4. Estimated' = [est EXCEPT ![i] = @ + 1]
    <3>1. Estimates(More(Tallied, c), item') = [est EXCEPT ![i] = @ + 1]
      BY <1>3, <2>2, <2>3, RaiseEstimates
    <3>2. QED
      BY <1>5, <2>1, <3>1
  <2>5. est[i] = Tallied[c]
    BY <1>3, <2>2, EstimateOf
  <2>6. CASE Tallied[c] # 0
    <3>1. est[i] > 0
      BY <1>7, <2>5, <2>6
    <3> HIDE DEF est
    <3>2. QED
      BY <1>3, <2>4, <3>1, CountingIs DEF CountsAre
  <2>7. CASE Tallied[c] = 0
    <3>1. PICK d \in Counter : d # c /\ Tallied[d] = 0
      BY <2>1, <2>7
    <3> DEFINE R == Counter \ {c}
    <3>2. IsFiniteSet(R) /\ Cardinality(R) = C - 1
      BY <1>8, FS_RemoveElement
    <3>3. U \in SUBSET R /\ d \in R /\ d \notin U
      BY <2>7, <3>1
    <3>4. Cardinality(U) <= Cardinality(R) /\ (Cardinality(R) = Cardinality(U) => R = U)
      <4> HIDE DEF U, R
      <4>1. QED
        BY <3>2, <3>3, FS_Subset
    <3>5. Cardinality(U) # Cardinality(R)
      BY <3>3, <3>4
    <3>6. Cardinality(U) \in Nat
      BY <1>6, FS_CardinalityType
    <3> HIDE DEF U, R, C
    <3>7. Cardinality(E) < C - 1
      BY <1>6, <1>8, <3>2, <3>4, <3>5, <3>6
    <3>8. est[i] = 0
      BY <2>5, <2>7
    <3>9. Estimated' = [est EXCEPT ![i] = 1]
      BY <2>4, <3>8
    <3>10. {j \in Few : Estimated[j] > 0} = E
      BY <1>3
    <3> HIDE DEF est, E
    <3>11. QED
      BY <1>3, <3>7, <3>8, <3>9, <3>10, CountingIs DEF CountsAre, C
  <2>8. QED
    BY <2>6, <2>7
<1>10. CASE RoundOf(i)
  <2>1. PICK c \in Counter : Tallied[c] = 0 /\ \A d \in Counter : d # c => Tallied[d] # 0 /\ item[d] # i
    BY <1>10 DEF RoundOf
  <2>2. Tallied' = Less(Tallied) /\ item' = item
    BY <1>10 DEF RoundOf
  <2>3. Kept(Less(Tallied), item, freq', n', rounds')
    BY <1>5, <2>2
  <2>4. Estimated' = [h \in Few |-> IF est[h] > 0 THEN est[h] - 1 ELSE 0]
    <3>1. Estimates(Less(Tallied), item) = [h \in Few |-> IF est[h] > 0 THEN est[h] - 1 ELSE 0]
      BY <1>3, <2>3, RoundEstimates
    <3>2. QED
      BY <1>5, <2>2, <3>1
  <2>5. est[i] = 0
    <3>1. CASE item[c] = i
      BY <1>3, <2>1, <3>1, EstimateOf
    <3>2. CASE item[c] # i
      <4>1. \A d \in Counter : item[d] # i
        BY <2>1, <3>2
      <4>2. QED
        BY <1>3, <4>1, EstimateOf
    <3>3. QED
      BY <3>1, <3>2
  <2>6. Cardinality(E) = C - 1
    <3>1. U = Counter \ {c}
      BY <2>1
    <3>2. Cardinality(Counter \ {c}) = C - 1
      BY <1>8, FS_RemoveElement
    <3>3. QED
      BY <1>6, <3>1, <3>2
  <2>7. {j \in Few : Estimated[j] > 0} = E
    BY <1>3
  <2>8. Estimated' = [h \in Few |-> IF h \in E THEN Estimated[h] - 1 ELSE 0]
    BY <1>3, <2>4
  <2> HIDE DEF est, E, U, C
  <2>9. QED
    BY <1>3, <2>5, <2>6, <2>7, <2>8, CountingIs DEF CountsAre, C
<1>11. QED
  BY <1>1, <1>9, <1>10

-----------------------------------------------------------------------------
(* SpaceSaving                                                             *)

(* SpaceSaving, with the bags of the two sketches.                         *)
LazyBag == IF sketch = "GeneralLazySS" THEN Lazy!Bag ELSE NoCounters(_size)
StreamBag ==
  IF sketch = "SS" /\ Stream!ItemsFit THEN Stream!Bag ELSE NoCounters(m)
NoCounter == [item |-> NULLITEM, count |-> 0, delta |-> 0]

(* Changed is what SpaceSaving exchanges.                                  *)
LEMMA LazyExchange ==
  ASSUME Positive(LazyBag), NEW x \in DOMAIN LazyBag, NEW y, LazyBag' = Changed(LazyBag, x, y)
  PROVE  LazySaving!Exchange(x, y)
<1>1. LazySaving!(-)(LazyBag, LazySaving!SetToBag({x})) = TakenOut(LazyBag, x)
  BY DEF LazySaving!(-), LazySaving!SetToBag, TakenOut
<1>2. \A D : LazySaving!(+)(D, LazySaving!SetToBag({y})) = PutIn(D, y)
  BY DEF LazySaving!(+), LazySaving!SetToBag, PutIn
<1>3. LazyBag' = LazySaving!(+)(LazySaving!(-)(LazyBag, LazySaving!SetToBag({x})),
                                LazySaving!SetToBag({y}))
  BY <1>1, <1>2, ChangedIs
<1>4. QED
  BY <1>3, Zenon DEF LazySaving!Exchange, LazyBag

LEMMA StreamExchange ==
  ASSUME Positive(StreamBag), NEW x \in DOMAIN StreamBag, NEW y, StreamBag' = Changed(StreamBag, x, y)
  PROVE  StreamSaving!Exchange(x, y)
<1>1. StreamSaving!(-)(StreamBag, StreamSaving!SetToBag({x})) = TakenOut(StreamBag, x)
  BY DEF StreamSaving!(-), StreamSaving!SetToBag, TakenOut
<1>2. \A D : StreamSaving!(+)(D, StreamSaving!SetToBag({y})) = PutIn(D, y)
  BY DEF StreamSaving!(+), StreamSaving!SetToBag, PutIn
<1>3. StreamBag' = StreamSaving!(+)(StreamSaving!(-)(StreamBag, StreamSaving!SetToBag({x})),
                                StreamSaving!SetToBag({y}))
  BY <1>1, <1>2, ChangedIs
<1>4. QED
  BY <1>3, Zenon DEF StreamSaving!Exchange, StreamBag

(* The bag of GeneralLazySS is that of the proofs about it.                *)
LEMMA LazyBagIs ==
  Lazy!Bag = LazyProofs!Bag
<1>1. LazyProofs!Place = Lazy!Place /\ \A S : LazyProofs!Cardinality(S) = Lazy!Cardinality(S)
  BY LazySets
<1>2. QED
  BY <1>1, Zenon DEF LazyProofs!Bag, Lazy!Bag

LEMMA LazyChanged ==
  \A B, x, y : LazyProofs!Changed(B, x, y) = Changed(B, x, y)
BY Zenon DEF LazyProofs!Changed, Changed

(* Every step of GeneralLazySS is one of SpaceSaving.                      *)
LEMMA LazySavingStep ==
  ASSUME LazyProofs!IInv, sketch = "GeneralLazySS", sketch' = sketch, [Lazy!Next]_(Lazy!vars)
  PROVE  [LazySaving!Next]_LazyBag
<1>1. LazyBag = LazyProofs!Bag /\ LazyBag' = LazyProofs!Bag'
  <2>1. (Lazy!Bag = LazyProofs!Bag)'
    BY LazyBagIs, PTL
  <2>2. QED
    BY <2>1, LazyBagIs DEF LazyBag
<1>2. Positive(LazyBag)
  BY <1>1, LazySetting, LazyProofs!BagPositive, Zenon DEF LazyProofs!Positive, Positive
<1>3. DOMAIN LazyBag = LazySaving!BagToSet(LazyBag)
  BY DEF LazySaving!BagToSet
<1>4. ASSUME NEW i \in Item, Lazy!Hit(i) PROVE LazySaving!Next
  <2>1. LazyProofs!Hit(i) /\ LazyProofs!Bounded
    BY <1>4, LazyHitIs DEF LazyProofs!IInv
  <2>2. PICK x \in DOMAIN LazyProofs!Bag :
          /\ x.item = i
          /\ LazyProofs!Bag' = LazyProofs!Changed(LazyProofs!Bag, x, [x EXCEPT !.count = @ + 1])
    BY <2>1, LazySetting, LazyProofs!BagHit
  <2>3. x \in DOMAIN LazyBag /\ LazyBag' = Changed(LazyBag, x, [x EXCEPT !.count = @ + 1])
    BY <1>1, <2>2, LazyChanged
  <2>4. LazySaving!Exchange(x, [x EXCEPT !.count = @ + 1])
    BY <1>2, <2>3, LazyExchange
  <2>5. LazySaving!Count(i)
    BY <1>3, <2>2, <2>3, <2>4, Zenon DEF LazySaving!Count, LazyBag
  <2>6. QED
    BY <2>5 DEF LazySaving!Next
<1>5. ASSUME NEW i \in Item, Lazy!Evict(i) PROVE LazySaving!Next
  <2>1. LazyProofs!Evict(i)
    BY <1>5, LazyEvictIs
  <2>2. PICK x \in DOMAIN LazyProofs!Bag :
          /\ \A y \in DOMAIN LazyProofs!Bag : x.count <= y.count
          /\ LazyProofs!Bag' = LazyProofs!Changed(LazyProofs!Bag, x,
               [item |-> i, count |-> x.count + 1, delta |-> x.count])
    BY <2>1, LazySetting, LazyProofs!BagEvict
  <2>3. /\ x \in DOMAIN LazyBag /\ \A y \in DOMAIN LazyBag : x.count <= y.count
        /\ LazyBag' = Changed(LazyBag, x, [item |-> i, count |-> x.count + 1, delta |-> x.count])
    BY <1>1, <2>2, LazyChanged
  <2>4. LazySaving!Exchange(x, [item |-> i, count |-> x.count + 1, delta |-> x.count])
    BY <1>2, <2>3, LazyExchange
  <2>5. LazySaving!Least(x)
    BY <1>3, <2>3, Zenon DEF LazySaving!Least, LazyBag
  <2>6. LazySaving!HasCounter(i) => i \in Item \ Lazy!Sound
    <3>1. i \in LazyProofs!Sound => \A y \in DOMAIN LazyProofs!Bag : y.item # i
      BY <2>1, LazySetting, LazyProofs!BagEvict
    <3>2. i \in Lazy!Sound => \A y \in LazySaving!BagToSet(LazyBag) : y.item # i
      BY <1>1, <1>3, <3>1, LazySets
    <3>3. QED
      BY <3>2, Zenon DEF LazySaving!HasCounter, LazyBag
  <2>7. LazySaving!TakeOver(i)
    BY <1>3, <2>3, <2>4, <2>5, <2>6, Zenon DEF LazySaving!TakeOver, LazyBag
  <2>8. QED
    BY <2>7 DEF LazySaving!Next
<1>6. CASE Lazy!SiftDone \/ Lazy!SiftDown
  <2>1. LazyProofs!SiftDone \/ LazyProofs!SiftDown
    BY <1>6, LazySiftIs
  <2>2. QED
    BY <1>1, <2>1, LazySetting, LazyProofs!BagSift
<1>7. CASE UNCHANGED Lazy!vars
  BY <1>1, <1>7, Zenon DEF Lazy!vars, LazyProofs!Bag
<1>8. QED
  BY <1>4, <1>5, <1>6, <1>7 DEF Lazy!Next

(* The counters of SS, one at each of m places.                            *)
Held(q, p) ==
  IF p \in DOMAIN q
  THEN [item |-> q[p].v, count |-> q[p].f, delta |-> q[p].e]
  ELSE NoCounter
Places(q) == [p \in 1..m |-> Held(q, p)]

LEMMA StreamBagIs == Stream!Bag = BagOf(1..m, Places(pool))
<1>1. \A p \in 1..m : Places(pool)[p] = Held(pool, p)
  BY DEF Places
<1>2. {Places(pool)[p] : p \in 1..m} = {Held(pool, p) : p \in 1..m}
  BY <1>1
<1>3. \A e : {p \in 1..m : Places(pool)[p] = e} = {p \in 1..m : Held(pool, p) = e}
  BY <1>1
<1>4. BagOf(1..m, Places(pool)) =
        [e \in {Held(pool, p) : p \in 1..m} |-> Cardinality({p \in 1..m : Held(pool, p) = e})]
  BY <1>2, <1>3, Zenon DEF BagOf
<1>5. Stream!Bag =
        [e \in {Held(pool, p) : p \in 1..m} |-> Stream!Cardinality({p \in 1..m : Held(pool, p) = e})]
  BY Zenon DEF Stream!Bag, Held, NoCounter
<1>6. QED
  BY <1>4, <1>5, StreamSets

(* A put that changes the counter at one place exchanges it in the bag.    *)
LEMMA PlaceChanges ==
  ASSUME NEW q, NEW r, NEW p \in 1..m, \A d \in 1..m : d # p => Held(r, d) = Held(q, d)
  PROVE  /\ Held(q, p) \in DOMAIN BagOf(1..m, Places(q))
         /\ BagOf(1..m, Places(r)) = Changed(BagOf(1..m, Places(q)), Held(q, p), Held(r, p))
<1>1. IsFiniteSet(1..m)
  BY StreamSizes, FS_Interval
<1>2. PICK S, E, F, t : S = 1..m /\ E = Places(q) /\ F = Places(r) /\ t = p
  OBVIOUS
<1>3. /\ E[p] = Held(q, p) /\ F[p] = Held(r, p) /\ \A d \in S \ {t} : F[d] = E[d]
      /\ t \in S /\ IsFiniteSet(S)
  BY <1>1, <1>2 DEF Places
<1>4. E[t] \in DOMAIN BagOf(S, E) /\ BagOf(S, F) = Changed(BagOf(S, E), E[t], F[t])
  BY <1>3, BagChanges
<1>5. QED
  BY <1>2, <1>3, <1>4

(* What is at the m places: the counters in use and those yet to come.     *)
LEMMA PlacesHold ==
  ASSUME Stream!IInv, Stream!ItemsFit
  PROVE  /\ DOMAIN pool = 1..Len(pool) /\ Len(pool) \in Nat /\ Len(pool) <= m
         /\ \A p \in DOMAIN pool : p \in 1..m
         /\ \A z \in DOMAIN BagOf(1..m, Places(pool)) :
              z = NoCounter \/ \E p \in DOMAIN pool : z = Held(pool, p)
<1>1. DOMAIN pool = 1..Len(pool) /\ Len(pool) \in Nat /\ Len(pool) <= m
  BY StreamCounters DEF Stream!IInv, Stream!Sized
<1>2. \A z \in DOMAIN BagOf(1..m, Places(pool)) : \E p \in 1..m : z = Held(pool, p)
  BY DEF BagOf, Places
<1>3. \A p : p \notin DOMAIN pool => Held(pool, p) = NoCounter
  BY DEF Held
<1>4. QED
  BY <1>1, <1>2, <1>3, StreamSizes

(* A put counts the item of a counter, or takes over one that counts       *)
(* least: one not in use, or one of the first entry of the index.          *)
LEMMA HitSaves ==
  ASSUME Stream!IInv, Stream!ItemsFit, NEW i \in Few, Stream!Hit(i)
  PROVE  \E x \in DOMAIN BagOf(1..m, Places(pool)) :
           /\ x.item = i
           /\ BagOf(1..m, Places(pool')) =
                Changed(BagOf(1..m, Places(pool)), x, [x EXCEPT !.count = @ + 1])
<1> DEFINE c == byItem[i]
           new == [pool[c] EXCEPT !.f = @ + 1]
           x == Held(pool, c)
<1>1. Stream!Typed /\ Stream!EntriesSound /\ Stream!ItemsMatch
  BY DEF Stream!IInv
<1>2. i \in DOMAIN byItem /\ c \in DOMAIN pool /\ Moves(c, pool[c].f, new)
  BY <1>1, HitMoves
<1>3. pool[c] \in [v : Few, f : 1..n, e : 0..n] /\ pool[c].v = i
  BY <1>1, <1>2, StreamCounters DEF CounterUpTo, Stream!ItemsMatch
<1>4. new.v = pool[c].v /\ new.f = pool[c].f + 1 /\ new.e = pool[c].e
  BY <1>3
<1> HIDE DEF c, new
<1>5. /\ DOMAIN pool' = DOMAIN pool /\ pool'[c] = new
      /\ \A d \in DOMAIN pool : d # c => pool'[d] = pool[d]
  BY <1>1, <1>2, EntriesMoved
<1>6. \A d \in 1..m : d # c => Held(pool', d) = Held(pool, d)
  BY <1>5 DEF Held
<1>7. c \in 1..m
  BY <1>2, PlacesHold
<1>8. x.item = i /\ Held(pool', c) = [x EXCEPT !.count = @ + 1]
  BY <1>2, <1>3, <1>4, <1>5 DEF Held
<1>9. /\ Held(pool, c) \in DOMAIN BagOf(1..m, Places(pool))
      /\ BagOf(1..m, Places(pool')) = Changed(BagOf(1..m, Places(pool)), Held(pool, c), Held(pool', c))
  BY <1>6, <1>7, PlaceChanges
<1>10. /\ x \in DOMAIN BagOf(1..m, Places(pool))
       /\ BagOf(1..m, Places(pool')) =
            Changed(BagOf(1..m, Places(pool)), x, [x EXCEPT !.count = @ + 1])
  BY <1>8, <1>9
<1> HIDE DEF x
<1>11. QED
  BY <1>8, <1>10

TakesOver(B, C, x, i) ==
  /\ x \in DOMAIN B
  /\ \A z \in DOMAIN B : x.count <= z.count /\ z.item # i
  /\ C = Changed(B, x, [item |-> i, count |-> x.count + 1, delta |-> x.count])

(* An item without a counter is in none.                                   *)
LEMMA NoneHolds ==
  ASSUME Stream!IInv, Stream!ItemsFit, NEW i \in Few, i \notin DOMAIN byItem,
         NEW z \in DOMAIN BagOf(1..m, Places(pool))
  PROVE  z.item # i
<1>1. NULLITEM # i
  BY FewAreItems DEF FewNull
<1>2. \A p \in DOMAIN pool : Held(pool, p).item # i
  BY DEF Stream!IInv, Stream!ItemsMatch, Held
<1>3. QED
  BY <1>1, <1>2, PlacesHold DEF NoCounter

LEMMA FillSaves ==
  ASSUME Stream!IInv, Stream!ItemsFit, NEW i \in Few, Stream!Fill(i)
  PROVE  TakesOver(BagOf(1..m, Places(pool)), BagOf(1..m, Places(pool')), NoCounter, i)
<1> DEFINE c == Len(pool) + 1
<1>1. Stream!Typed /\ Stream!Sized
  BY DEF Stream!IInv
<1>2. /\ c \notin DOMAIN pool /\ DOMAIN pool' = DOMAIN pool \cup {c}
      /\ pool'[c] = [v |-> narrow[i], f |-> 1, e |-> 0]
      /\ \A d \in DOMAIN pool : pool'[d] = pool[d]
      /\ i \notin DOMAIN byItem /\ Cardinality(DOMAIN byItem) # m
  BY <1>1, FillAdds
<1>3. c \in 1..m
  <2>1. Len(pool) # m
    BY <1>1, <1>2, StreamSets DEF Stream!Sized
  <2>2. Len(pool) \in Nat /\ Len(pool) <= m
    BY PlacesHold
  <2>3. QED
    BY <2>1, <2>2, StreamSizes
<1> HIDE DEF c
<1>4. Held(pool, c) = NoCounter
  BY <1>2 DEF Held
<1>5. Held(pool', c) = [item |-> i, count |-> NoCounter.count + 1, delta |-> NoCounter.count]
  BY <1>2 DEF Held, NoCounter, Stream!ItemsFit
<1>6. \A d \in 1..m : d # c => Held(pool', d) = Held(pool, d)
  BY <1>2 DEF Held
<1>7. /\ Held(pool, c) \in DOMAIN BagOf(1..m, Places(pool))
      /\ BagOf(1..m, Places(pool')) = Changed(BagOf(1..m, Places(pool)), Held(pool, c), Held(pool', c))
  BY <1>3, <1>6, PlaceChanges
<1>8. ASSUME NEW z \in DOMAIN BagOf(1..m, Places(pool)) PROVE NoCounter.count <= z.count
  <2>1. \A p \in DOMAIN pool : 0 <= Held(pool, p).count
    BY <1>1, StreamCounters DEF Held
  <2>2. QED
    BY <2>1, PlacesHold DEF NoCounter
<1>9. QED
  BY <1>2, <1>4, <1>5, <1>7, <1>8, NoneHolds DEF TakesOver

LEMMA EvictSaves ==
  ASSUME Stream!IInv, Stream!ItemsFit, NEW i \in Few, Stream!Evict(i)
  PROVE  \E x : TakesOver(BagOf(1..m, Places(pool)), BagOf(1..m, Places(pool')), x, i)
<1>1. Stream!Typed /\ Stream!EntriesSound /\ Stream!EntriesMatch /\ Stream!Sized
  BY DEF Stream!IInv
<1>2. PICK c \in DOMAIN pool :
        /\ \A g \in DOMAIN index : pool[c].f <= g
        /\ i \notin DOMAIN byItem /\ Cardinality(DOMAIN byItem) = m
        /\ Moves(c, pool[c].f, [v |-> i, f |-> pool[c].f + 1, e |-> pool[c].f])
  BY <1>1, EvictMoves
<1> DEFINE new == [v |-> i, f |-> pool[c].f + 1, e |-> pool[c].f]
           x == Held(pool, c)
<1>3. Moves(c, pool[c].f, new)
  BY <1>2
<1>4. x.count = pool[c].f
  BY <1>2 DEF Held
<1> HIDE DEF new
<1>5. /\ DOMAIN pool' = DOMAIN pool /\ pool'[c] = new
      /\ \A d \in DOMAIN pool : d # c => pool'[d] = pool[d]
  BY <1>1, <1>3, EntriesMoved
<1>6. \A d \in 1..m : d # c => Held(pool', d) = Held(pool, d)
  BY <1>5 DEF Held
<1>7. c \in 1..m
  BY <1>2, PlacesHold
<1>8. Held(pool', c) = [item |-> i, count |-> x.count + 1, delta |-> x.count]
  BY <1>2, <1>4, <1>5 DEF Held, new
<1>9. /\ Held(pool, c) \in DOMAIN BagOf(1..m, Places(pool))
      /\ BagOf(1..m, Places(pool')) = Changed(BagOf(1..m, Places(pool)), Held(pool, c), Held(pool', c))
  BY <1>6, <1>7, PlaceChanges
<1>10. ASSUME NEW z \in DOMAIN BagOf(1..m, Places(pool)) PROVE x.count <= z.count
  <2>1. PICK p \in 1..m : z = Held(pool, p)
    BY DEF BagOf, Places
  <2>2. p \in DOMAIN pool
    BY <1>1, <1>2, PlacesHold, StreamSets DEF Stream!Sized
  <2>3. pool[p].f \in DOMAIN index
    BY <1>1, <2>2 DEF Stream!EntriesMatch
  <2>4. QED
    BY <1>2, <1>4, <2>1, <2>2, <2>3 DEF Held
<1> HIDE DEF x
<1>11. x \in DOMAIN BagOf(1..m, Places(pool)) /\ BagOf(1..m, Places(pool')) =
         Changed(BagOf(1..m, Places(pool)), x, [item |-> i, count |-> x.count + 1, delta |-> x.count])
  BY <1>8, <1>9 DEF x
<1>12. TakesOver(BagOf(1..m, Places(pool)), BagOf(1..m, Places(pool')), x, i)
  BY <1>2, <1>10, <1>11, NoneHolds DEF TakesOver
<1>13. QED
  BY <1>12

(* Every step of SS is one of SpaceSaving, if the items fit.               *)
LEMMA StreamSavingStep ==
  ASSUME Stream!IInv, Stream!ItemsFit, sketch = "SS", sketch' = sketch, [Stream!Next]_(Stream!vars)
  PROVE  [StreamSaving!Next]_StreamBag
<1> DEFINE B == BagOf(1..m, Places(pool))
<1>1. StreamBag = B /\ StreamBag' = BagOf(1..m, Places(pool'))
  <2>1. (Stream!Bag = BagOf(1..m, Places(pool)))'
    BY StreamBagIs, PTL
  <2>2. BagOf(1..m, Places(pool))' = BagOf(1..m, Places(pool'))
    BY DEF BagOf, Places, Held
  <2>3. Stream!ItemsFit'
    BY DEF Stream!ItemsFit
  <2>4. QED
    BY <2>1, <2>2, <2>3, StreamBagIs DEF StreamBag
<1> HIDE DEF B
<1>2. Positive(StreamBag)
  BY <1>1, BagType, StreamSizes, FS_Interval DEF B
<1>3. DOMAIN StreamBag = StreamSaving!BagToSet(StreamBag)
  BY DEF StreamSaving!BagToSet
<1>4. ASSUME NEW i \in Few, Stream!Hit(i) PROVE StreamSaving!Next
  <2>1. PICK x \in DOMAIN StreamBag :
          x.item = i /\ StreamBag' = Changed(StreamBag, x, [x EXCEPT !.count = @ + 1])
    BY <1>1, <1>4, HitSaves DEF B
  <2>2. StreamSaving!Exchange(x, [x EXCEPT !.count = @ + 1])
    BY <1>2, <2>1, StreamExchange
  <2>3. StreamSaving!Count(i)
    BY <1>3, <2>1, <2>2, Zenon DEF StreamSaving!Count, StreamBag
  <2>4. QED
    BY <2>3 DEF StreamSaving!Next
<1>5. ASSUME NEW i \in Few, Stream!Fill(i) \/ Stream!Evict(i) PROVE StreamSaving!Next
  <2>1. PICK x : TakesOver(StreamBag, StreamBag', x, i)
    BY <1>1, <1>5, FillSaves, EvictSaves DEF B
  <2>2. /\ x \in DOMAIN StreamBag
        /\ \A z \in DOMAIN StreamBag : x.count <= z.count
        /\ \A z \in DOMAIN StreamBag : z.item # i
        /\ StreamBag' = Changed(StreamBag, x, [item |-> i, count |-> x.count + 1, delta |-> x.count])
    BY <2>1 DEF TakesOver
  <2>3. StreamSaving!Exchange(x, [item |-> i, count |-> x.count + 1, delta |-> x.count])
    BY <1>2, <2>2, StreamExchange
  <2>4. StreamSaving!Least(x)
    BY <1>3, <2>2, Zenon DEF StreamSaving!Least, StreamBag
  <2>5. ~StreamSaving!HasCounter(i)
    BY <1>3, <2>2, Zenon DEF StreamSaving!HasCounter, StreamBag
  <2>6. StreamSaving!TakeOver(i)
    BY <1>3, <2>2, <2>3, <2>4, <2>5, Zenon DEF StreamSaving!TakeOver, StreamBag
  <2>7. QED
    BY <2>6 DEF StreamSaving!Next
<1>6. CASE UNCHANGED Stream!vars
  BY <1>1, <1>6 DEF Stream!vars, B
<1>7. QED
  BY <1>4, <1>5, <1>6 DEF Stream!Next

-----------------------------------------------------------------------------
(* Theorems.                                                               *)

(* SS keeps its invariant, ...                                             *)
LEMMA StreamStep ==
  ASSUME Stream!IInv, [Stream!Next]_(Stream!vars)
  PROVE  Stream!IInv'
<1>1. CASE Stream!Next
  <2>1. PICK i \in Few : Stream!Hit(i) \/ Stream!Fill(i) \/ Stream!Evict(i)
    BY <1>1 DEF Stream!Next
  <2>2. QED
    BY <2>1, StreamHit, StreamFill, StreamEvict
<1>2. CASE UNCHANGED Stream!vars
  <2>1. /\ pool' = pool /\ byItem' = byItem /\ index' = index /\ n' = n /\ freq' = freq
    BY <1>2 DEF Stream!vars
  <2>2. Stream!Typed' /\ Stream!EntriesSound'
    BY <2>1 DEF Stream!IInv, Stream!Typed, Stream!EntriesSound
  <2>3. ASSUME Stream!ItemsFit
        PROVE  Stream!EntriesMatch' /\ Stream!ItemsMatch' /\ Stream!Sized'
    BY <2>1, <2>3
    DEF Stream!IInv, Stream!EntriesMatch, Stream!ItemsMatch, Stream!Sized
  <2>4. QED
    BY <2>2, <2>3 DEF Stream!IInv, Stream!ItemsFit
<1>3. QED
  BY <1>1, <1>2

(* ... Frequent keeps its own, ...                                         *)
LEMMA NodesStep ==
  ASSUME Nodes!IInv, [Nodes!Next]_(Nodes!vars)
  PROVE  Nodes!IInv'
<1>1. CASE Nodes!Next
  <2>1. PICK i \in Few : Nodes!Hit(i) \/ Nodes!Fill(i) \/ Nodes!Replace(i) \/ Nodes!Decrement(i)
    BY <1>1 DEF Nodes!Next
  <2>2. QED
    BY <2>1, NodesHit, NodesFill, NodesReplace, NodesDecrement
<1>2. CASE UNCHANGED Nodes!vars
  BY <1>2 DEF Nodes!vars, Nodes!IInv, Nodes!Typed, Nodes!Distinct, Nodes!NodesWithin,
     Nodes!OthersWithin, Nodes!Places
<1>3. QED
  BY <1>1, <1>2

(* ... and GroupFrequent when nothing changes.                             *)
LEMMA GroupsStutter ==
  ASSUME Groups!IInv, UNCHANGED Groups!vars
  PROVE  Groups!IInv' /\ Tallied' = Tallied
<1>1. Groups!Typed /\ Groups!GroupsPart /\ Kept(Tallied, item, freq, n, rounds)
  BY GroupsKept DEF Groups!IInv
<1>2. groups' = groups /\ item' = item /\ freq' = freq /\ n' = n /\ rounds' = rounds
  BY DEF Groups!vars
<1>3. Counts(groups', Tallied) /\ Kept(Tallied, item', freq', n', rounds')
  BY <1>1, <1>2, TalliedCounts
<1>4. Groups!Typed'
  BY <1>1, <1>2 DEF Groups!Typed
<1>5. QED
  BY <1>3, <1>4, GroupsFollow, CountsFollow

(* GeneralLazySS keeps its own.                                            *)
LEMMA LazyStep ==
  ASSUME LazyProofs!IInv, [Lazy!Next]_(Lazy!vars)
  PROVE  LazyProofs!IInv'
BY LazySetting, LazyNextIs, LazyProofs!InvNext

(* The invariant of the sketch in use.                                     *)
SketchInv ==
  /\ sketch = "GeneralLazySS" => LazyProofs!IInv
  /\ sketch = "SS" => Stream!IInv
  /\ sketch = "Frequent" => Nodes!IInv
  /\ sketch = "GroupFrequent" => Groups!IInv

(* It holds at first, ...                                                  *)
LEMMA SketchInit ==
  Init => SketchInv
<1>1. Lazy!Init => LazyProofs!IInv
  BY LazySetting, LazyInitIs, LazyProofs!InvInit
<1>2. QED
  BY <1>1, StreamInit, NodesInit, GroupsInit DEF Init, SketchInv

(* ... and every step keeps it.                                            *)
LEMMA SketchStep ==
  SketchInv /\ [Next]_vars => SketchInv'
<1> SUFFICES ASSUME SketchInv, [Next]_vars PROVE SketchInv'
  OBVIOUS
<1>1. sketch' = sketch
  BY DEF Next, vars
<1>2. CASE sketch = "SS"
  <2>1. [Stream!Next]_(Stream!vars)
    BY <1>2 DEF Next, vars, Stream!vars, ssVars
  <2>2. Stream!IInv'
    BY <1>2, <2>1, StreamStep DEF SketchInv
  <2>3. QED
    BY <1>1, <1>2, <2>2 DEF SketchInv
<1>3. CASE sketch = "Frequent"
  <2>1. [Nodes!Next]_(Nodes!vars)
    BY <1>3 DEF Next, vars, Nodes!vars
  <2>2. Nodes!IInv'
    BY <1>3, <2>1, NodesStep DEF SketchInv
  <2>3. QED
    BY <1>1, <1>3, <2>2 DEF SketchInv
<1>4. CASE sketch = "GroupFrequent"
  <2>1. [Groups!Next]_(Groups!vars)
    BY <1>4 DEF Next, vars, Groups!vars, groupVars
  <2>2. Groups!IInv'
    BY <1>4, <2>1, GroupsStep, GroupsStutter DEF SketchInv
  <2>3. QED
    BY <1>1, <1>4, <2>2 DEF SketchInv
<1>5. CASE sketch = "GeneralLazySS"
  <2>1. [Lazy!Next]_(Lazy!vars)
    BY <1>5 DEF Next, vars, Lazy!vars, lazyVars
  <2>2. LazyProofs!IInv'
    BY <1>5, <2>1, LazyStep DEF SketchInv
  <2>3. QED
    BY <1>1, <1>5, <2>2 DEF SketchInv
<1>6. CASE sketch \notin {"GeneralLazySS", "SS", "Frequent", "GroupFrequent"}
  BY <1>1, <1>6 DEF SketchInv
<1>7. QED
  BY <1>2, <1>3, <1>4, <1>5, <1>6

(* Every put leaves the sketch in use with entries, nodes or groups that   *)
(* match its counters, items that differ and errors within its rounds.     *)
THEOREM SketchHolds == Spec => []SketchInv
BY SketchInit, SketchStep, PTL DEF Spec

(* Every sketch keeps its variables within what its code declares.         *)
THEOREM TypeCorrect == Spec => []TypeOK
<1>1. Nodes!IInv => Nodes!TypeOK
  <2> SUFFICES ASSUME Nodes!IInv PROVE Nodes!TypeOK
    OBVIOUS
  <2>1. n \in 0..kMaxPuts /\ kMaxPuts \in Nat
    BY FewAreItems DEF Nodes!IInv, Nodes!Typed
  <2>2. QED
    BY <2>1 DEF Nodes!IInv, Nodes!Typed, Nodes!TypeOK
<1>2. Groups!IInv => Groups!TypeOK
  <2> SUFFICES ASSUME Groups!IInv PROVE Groups!TypeOK
    OBVIOUS
  <2>1. n \in 0..kMaxPuts /\ kMaxPuts \in Nat
    BY FewAreItems DEF Groups!IInv, Groups!Typed
  <2>2. groups \in Seq([diff : 0..kMaxPuts, items : SUBSET Counter])
    <3>1. GroupIn(n) \subseteq GroupIn(kMaxPuts)
      BY <2>1 DEF GroupIn
    <3>2. Seq(GroupIn(n)) \subseteq Seq(GroupIn(kMaxPuts))
      BY <3>1
    <3>3. groups \in Seq(GroupIn(n))
      BY DEF Groups!IInv, Groups!Typed, GroupIn
    <3>4. groups \in Seq(GroupIn(kMaxPuts))
      BY <3>2, <3>3
    <3>5. QED
      BY <3>4 DEF GroupIn
  <2>3. QED
    BY <2>1, <2>2 DEF Groups!IInv, Groups!Typed, Groups!TypeOK
<1>3. Stream!IInv => Stream!TypeOK
  BY StreamTyped DEF Stream!IInv
<1>4. SketchInv => TypeOK
  BY <1>1, <1>2, <1>3, LazySafe DEF SketchInv, TypeOK
<1>5. QED
  BY <1>4, SketchHolds, PTL

(* GeneralLazySS: through all evictions and all rounds of Heapify, which   *)
(* move counters from place to place, each chain leads to the counters of  *)
(* its bucket, so that an item's counter is found and never doubled.       *)
THEOREM LinksFollowHeap == Spec => []FoundWhereItIs
<1>1. SketchInv => FoundWhereItIs
  BY LazySafe DEF SketchInv, FoundWhereItIs
<1>2. QED
  BY <1>1, SketchHolds, PTL

(* GeneralLazySS: no chain leads back into itself, not even that of bucket *)
(* 0, so find and the walk of put end.                                     *)
THEOREM ChainsAlwaysEnd == Spec => []ChainsEnd
<1>1. SketchInv => ChainsEnd
  BY LazySafe DEF SketchInv, ChainsEnd
<1>2. QED
  BY <1>1, SketchHolds, PTL

(* GeneralLazySS: a count exceeds the puts of its item by delta at most,   *)
(* and an item without a counter was put no more often than the least.     *)
THEOREM ErrorIsDelta == Spec => []WithinDelta
<1>1. SketchInv => WithinDelta
  BY LazySafe DEF SketchInv, WithinDelta
<1>2. QED
  BY <1>1, SketchHolds, PTL

(* GeneralLazySS: an item put more than n / _size times has a counter,     *)
(* since the counts add up to n.                                           *)
THEOREM HotNeverLost == Spec => []HotTracked
<1>1. SketchInv => HotTracked
  BY LazySafe DEF SketchInv, HotTracked
<1>2. QED
  BY <1>1, SketchHolds, PTL

(* GeneralLazySS: what the promotion reads of the sorted counters holds    *)
(* every item put more than n / kListed times, but for the counter at the  *)
(* last place, which the sort leaves out.                                  *)
THEOREM HotIsListed == Spec => []HotListed
<1>1. SketchInv => HotListed
  BY LazySafe DEF SketchInv, HotListed
<1>2. QED
  BY <1>1, SketchHolds, PTL

(* SS: no entry is empty or has a counter of another count, so that Evict  *)
(* finds a counter, whatever the items.  If they fit an int, the entries   *)
(* are those of the counts, each item is found by the counter that holds   *)
(* it, and a full sketch passes the check of the source.                   *)
THEOREM IndexCorrect == Spec => []IndexMatches
<1>1. SketchInv => IndexMatches
  <2> SUFFICES ASSUME SketchInv, sketch = "SS"
               PROVE  Stream!EntriesSound /\ (Stream!ItemsFit => Stream!IndexMatches)
    BY DEF IndexMatches
  <2>1. Stream!IInv
    BY DEF SketchInv
  <2>2. Stream!ItemsFit /\ Cardinality(DOMAIN byItem) = m => Stream!validate
    BY <2>1, EntriesValidate
  <2>3. QED
    BY <2>1, <2>2, StreamSets DEF Stream!IInv, Stream!IndexMatches
<1>2. QED
  BY <1>1, SketchHolds, PTL

(* Frequent, GroupFrequent: an item never gets a second node, and moving,  *)
(* merging and splitting groups leaves each counter in one group, none of  *)
(* them empty or with the count of another.                                *)
THEOREM DuplicatesNever == Spec => []NoDuplicates
<1>1. SketchInv => NoDuplicates
  BY NodesEstimates DEF SketchInv, NoDuplicates, Nodes!OneNodeEach, Groups!IInv
<1>2. QED
  BY <1>1, SketchHolds, PTL

(* Frequent, GroupFrequent: whatever is evicted, estimates never exceed    *)
(* the puts of an item and fall short by the rounds at most; in            *)
(* GroupFrequent these are at most one in as many puts as there are        *)
(* counters.                                                               *)
THEOREM ErrorBounded == Spec => []ErrorIsRounds
<1>1. SketchInv => ErrorIsRounds
  BY NodesEstimates, GroupsEstimates DEF SketchInv, ErrorIsRounds
<1>2. QED
  BY <1>1, SketchHolds, PTL

(* GroupFrequent implements MisraGries: each put counts its item, enters   *)
(* it while there is room, or takes one from every count.                  *)
THEOREM CountsLikeMisraGries == Spec => ImplementsMisraGries
<1>1. Init => Counting!Init
  <2> SUFFICES ASSUME Init PROVE Counting!Init
    OBVIOUS
  <2>1. CASE sketch = "GroupFrequent"
    <3>1. item = [c \in Counter |-> NULLITEM]
      BY <2>1 DEF Init, Groups!Init
    <3>2. \A i \in Few : Groups!Estimate(i) = 0
      BY <3>1, FewAreItems DEF FewNull, Groups!Estimate
    <3>3. QED
      BY <2>1, <3>2 DEF Counting!Init
  <2>2. CASE sketch # "GroupFrequent"
    BY <2>2 DEF Counting!Init
  <2>3. QED
    BY <2>1, <2>2
<1>2. SketchInv /\ [Next]_vars => [Counting!Next]_Estimated
  <2> SUFFICES ASSUME SketchInv, [Next]_vars PROVE Counting!Next \/ Estimated' = Estimated
    OBVIOUS
  <2>1. sketch' = sketch
    BY DEF Next, vars
  <2>2. CASE sketch # "GroupFrequent"
    BY <2>1, <2>2 DEF Estimated
  <2>3. CASE sketch = "GroupFrequent"
    <3>1. Groups!IInv /\ (Groups!Next \/ UNCHANGED Groups!vars)
      BY <2>3 DEF SketchInv, Next, vars, Groups!vars, groupVars
    <3>2. CASE Groups!Next
      BY <2>1, <2>3, <3>1, <3>2, CountingStep
    <3>3. CASE UNCHANGED Groups!vars
      <4>1. Groups!IInv' /\ Tallied' = Tallied /\ item' = item
        BY <3>1, <3>3, GroupsStutter DEF Groups!vars
      <4>2. (Groups!IInv /\ sketch = "GroupFrequent")'
        BY <2>1, <2>3, <4>1
      <4>3. (Estimated = Estimates(Tallied, item))'
        BY <4>2, EstimatedIs, PTL
      <4>4. Estimated' = Estimates(Tallied', item')
        BY <4>3 DEF Estimates
      <4>5. Estimated = Estimates(Tallied, item)
        BY <2>3, <3>1, EstimatedIs
      <4>6. QED
        BY <4>1, <4>4, <4>5
    <3>4. QED
      BY <3>1, <3>2, <3>3
  <2>4. QED
    BY <2>2, <2>3
<1>3. QED
  BY <1>1, <1>2, SketchHolds, PTL DEF Spec, ImplementsMisraGries, Counting!Spec, Estimated

(* GeneralLazySS and, of items that fit an int, SS implement SpaceSaving:  *)
(* a put adds one to the counter of its item or takes over a counter with  *)
(* the least count, whose count becomes the error of the new one.  Only    *)
(* items of bucket 0 of GeneralLazySS are taken for items without a        *)
(* counter while they have one.                                            *)
THEOREM CountsLikeSpaceSaving == Spec => ImplementsSpaceSaving
<1>1. Init => LazySaving!Init
  <2> SUFFICES ASSUME Init PROVE LazyBag = [x \in {NoCounter} |-> _size]
    BY Zenon DEF LazySaving!Init, LazySaving!Unused, LazyBag, NoCounter
  <2>1. CASE sketch = "GeneralLazySS"
    <3>1. LazyProofs!Init
      BY <2>1, LazyInitIs DEF Init
    <3>2. QED
      BY <2>1, <3>1, LazySetting, LazyBagIs, LazyProofs!BagInit DEF LazyBag, NoCounter
  <2>2. CASE sketch # "GeneralLazySS"
    BY <2>2 DEF LazyBag, NoCounters, NoCounter
  <2>3. QED
    BY <2>1, <2>2
<1>2. Init => StreamSaving!Init
  <2> SUFFICES ASSUME Init PROVE StreamBag = [x \in {NoCounter} |-> m]
    BY Zenon DEF StreamSaving!Init, StreamSaving!Unused, StreamBag, NoCounter
  <2>1. CASE sketch = "SS" /\ Stream!ItemsFit
    <3>1. pool = <<>> /\ DOMAIN pool = {}
      BY <2>1 DEF Init, Stream!Init
    <3>2. \A p \in 1..m : Places(pool)[p] = NoCounter
      BY <3>1 DEF Places, Held
    <3>3. {Places(pool)[p] : p \in 1..m} = {NoCounter}
      BY <3>2, StreamSizes
    <3>4. {p \in 1..m : Places(pool)[p] = NoCounter} = 1..m
      BY <3>2
    <3>5. Cardinality(1..m) = m
      BY StreamSizes, FS_Interval
    <3>6. BagOf(1..m, Places(pool)) = [x \in {NoCounter} |-> m]
      BY <3>3, <3>4, <3>5 DEF BagOf
    <3>7. QED
      BY <2>1, <3>6, StreamBagIs DEF StreamBag
  <2>2. CASE ~(sketch = "SS" /\ Stream!ItemsFit)
    BY <2>2 DEF StreamBag, NoCounters, NoCounter
  <2>3. QED
    BY <2>1, <2>2
<1>3. SketchInv /\ [Next]_vars => [LazySaving!Next]_LazyBag /\ [StreamSaving!Next]_StreamBag
  <2> SUFFICES ASSUME SketchInv, [Next]_vars
               PROVE  [LazySaving!Next]_LazyBag /\ [StreamSaving!Next]_StreamBag
    OBVIOUS
  <2>1. sketch' = sketch
    BY DEF Next, vars
  <2>2. [LazySaving!Next]_LazyBag
    <3>1. CASE sketch = "GeneralLazySS"
      BY <2>1, <3>1, LazySavingStep DEF SketchInv, Next, vars, Lazy!vars, lazyVars
    <3>2. CASE sketch # "GeneralLazySS"
      BY <2>1, <3>2 DEF LazyBag
    <3>3. QED
      BY <3>1, <3>2
  <2>3. [StreamSaving!Next]_StreamBag
    <3>1. CASE sketch = "SS" /\ Stream!ItemsFit
      BY <2>1, <3>1, StreamSavingStep DEF SketchInv, Next, vars, Stream!vars, ssVars
    <3>2. CASE ~(sketch = "SS" /\ Stream!ItemsFit)
      BY <2>1, <3>2 DEF StreamBag, Stream!ItemsFit
    <3>3. QED
      BY <3>1, <3>2
  <2>4. QED
    BY <2>2, <2>3
<1>4. QED
  BY <1>1, <1>2, <1>3, SketchHolds, PTL
  DEF Spec, ImplementsSpaceSaving, LazySaving!Spec, StreamSaving!Spec, LazyBag, StreamBag

=============================================================================
