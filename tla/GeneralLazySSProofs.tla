------------------------- MODULE GeneralLazySSProofs -------------------------
(***************************************************************************)
(* Proofs about GeneralLazySS, for any number of items, buckets, counters  *)
(* and puts.                                                               *)
(***************************************************************************)
EXTENDS GeneralLazySS, SumLemmas

(* What is assumed of the constants.                                       *)
Setting == SizeAssumption /\ HashAssumption /\ NullAssumption

-----------------------------------------------------------------------------
(* The inductive invariant.                                                *)

(* The chains: links are mutual, stay within a bucket and never lead back, *)
(* a bucket points to the front of a chain of its own, and every chain is  *)
(* pointed to, but for those of bucket 0.                                  *)
Mutual(c) == \A x, y \in Place : c[x].next = y <=> c[y].prev = x
SameBucket(c) == \A x, y \in Place : c[x].next = y => c[x].hash = c[y].hash
Ranks(r, c) == \A x, y \in Place : c[x].next = y => r[x] < r[y]
Acyclic(c) == \E r \in [Place -> Nat] : Ranks(r, c)
Fronts(c, h) ==
  \A b \in Bucket : h[b] \in Place => c[h[b]].prev = 0 /\ c[h[b]].hash = b
Fronted(c, h) ==
  \A x \in Place : c[x].hash # 0 /\ c[x].prev = 0 => h[c[x].hash] = x

Linked(c, h) == Mutual(c) /\ SameBucket(c) /\ Acyclic(c) /\ Fronts(c, h) /\ Fronted(c, h)

(* A counter not in use counts nothing and, unless it is the root, is in   *)
(* no chain; one in use counts something and has the hash of its item.     *)
Unused(c, p) == c[p].item = NULLITEM
Loose(c, h, p) == c[p].prev = 0 /\ c[p].next = 0 /\ h[0] # p
Filled(c, h) ==
  \A p \in Place :
    /\ Unused(c, p) <=> c[p].count = 0
    /\ ~Unused(c, p) => c[p].hash = hash[c[p].item]
    /\ Unused(c, p) => c[p].hash = 0 /\ c[p].delta = 0 /\ c[p].prev = 0
    /\ Unused(c, p) /\ p # root => Loose(c, h, p)

(* A heap, but for the counter at place t that is sifted down; it may      *)
(* leave its links to a counter not in use.                                *)
Child(p, q) == q = 2 * p \/ q = 2 * p + 1
Ordered(c, t) ==
  \A p, q \in Place : Child(p, q) =>
    /\ p # t => c[p].count <= c[q].count
    /\ q = t => \A s \in Place : Child(q, s) => c[p].count <= c[s].count
Sifted(c, h, t) ==
  t # 0 =>
    /\ ~Unused(c, t)
    /\ \A q \in Place : Child(t, q) /\ Unused(c, q) /\ c[t].hash = 0 =>
         /\ c[t].prev = 0
         /\ t # root => Loose(c, h, t)

(* What the counters count.                                                *)
Distinct(c) ==
  \A p, q \in Place : c[p].item = c[q].item /\ c[p].item \in Sound => p = q
Absent(c, i) == \A q \in Place : c[q].item # i
Estimates(c, f) ==
  \A i \in Sound : \A p \in Place :
    /\ c[p].item = i => f[i] <= c[p].count /\ c[p].count <= f[i] + c[p].delta
    /\ Absent(c, i) => f[i] <= c[p].count
Counts(c) == [p \in Place |-> c[p].count]
Total(c) == SumFunctionOnSet(Counts(c), Place)
Bounded ==
  /\ TypeOK
  /\ \A p \in Place : counters[p].count <= n /\ counters[p].delta <= n
  /\ \A i \in Item : freq[i] <= n

IInv ==
  /\ Bounded
  /\ Linked(counters, hashtable) /\ Filled(counters, hashtable)
  /\ Ordered(counters, ptr) /\ Sifted(counters, hashtable, ptr)
  /\ Distinct(counters) /\ Estimates(counters, freq) /\ Total(counters) = n

-----------------------------------------------------------------------------
(* Places, buckets and items.                                              *)

LEMMA SettingFacts ==
  ASSUME Setting
  PROVE  /\ _size \in Nat /\ _size >= 3 /\ kListed \in 1.._size /\ kMaxPuts \in Nat
         /\ root \in Place /\ 0 \notin Place /\ Place \subseteq Nat
         /\ Pointer = Place \cup {0}
         /\ 0 \in Bucket /\ Bucket \subseteq Nat
         /\ hash \in [Item -> Bucket]
         /\ NULLITEM \notin Item
         /\ IsFiniteSet(Place) /\ Cardinality(Place) = _size
<1>1. IsFiniteSet(1.._size) /\ Cardinality(1.._size) = _size
  BY FS_Interval DEF Setting, SizeAssumption
<1>2. QED
  BY <1>1 DEF Setting, SizeAssumption, HashAssumption, NullAssumption, Place, Pointer,
     Bucket, root

(* The fields of a counter.                                                *)
LEMMA FieldTypes ==
  ASSUME Setting, NEW c \in [Place -> Cell], NEW p \in Place
  PROVE  /\ c[p].item \in Item \cup {NULLITEM}
         /\ c[p].hash \in Bucket
         /\ c[p].count \in 0..kMaxPuts /\ c[p].count \in Nat
         /\ c[p].delta \in 0..kMaxPuts /\ c[p].delta \in Nat
         /\ c[p].prev \in Place \cup {0}
         /\ c[p].next \in Place \cup {0}
BY SettingFacts DEF Cell

LEMMA CellFields ==
  ASSUME Setting, TypeOK, NEW p \in Place
  PROVE  /\ counters[p].item \in Item \cup {NULLITEM}
         /\ counters[p].hash \in Bucket
         /\ counters[p].count \in 0..kMaxPuts
         /\ counters[p].delta \in 0..kMaxPuts
         /\ counters[p].prev \in Place \cup {0}
         /\ counters[p].next \in Place \cup {0}
BY FieldTypes DEF TypeOK

-----------------------------------------------------------------------------
(* Chains, and the counters they lead to.                                  *)

IsChain(at, b) ==
  /\ at \in [Place -> Pointer]
  /\ at[1] = hashtable[b]
  /\ \A k \in Place : k # 1 => at[k] = IF at[k - 1] = 0 THEN 0 ELSE counters[at[k - 1]].next

(* The chain of a bucket is the walk along its links.                      *)
LEMMA ChainIs ==
  ASSUME Setting, TypeOK, NEW b \in Bucket
  PROVE  IsChain(Chain(b), b)
<1> DEFINE After(x) == IF x = 0 THEN 0 ELSE counters[x].next
           Walk(at, k) == /\ at \in [1..k -> Pointer]
                          /\ \A j \in 1..k :
                               at[j] = IF j = 1 THEN hashtable[b] ELSE After(at[j - 1])
           Good == {k \in Nat : \E at : Walk(at, k)}
           Is(at) == at = [k \in Place |-> IF k = 1 THEN hashtable[b]
                             ELSE IF at[k - 1] = 0 THEN 0 ELSE counters[at[k - 1]].next]
<1>1. \A x \in Pointer : After(x) \in Pointer
  BY SettingFacts, CellFields
<1>2. hashtable[b] \in Pointer
  BY DEF TypeOK
<1> HIDE DEF After
<1>3. 0 \in Good
  <2>1. Walk([j \in 1..0 |-> 0], 0)
    OBVIOUS
  <2>2. \E at : Walk(at, 0)
    BY <2>1
  <2>3. QED
    BY <2>2
<1>4. ASSUME NEW k \in Nat, k \in Good PROVE k + 1 \in Good
  <2>1. PICK at : Walk(at, k)
    BY <1>4
  <2> DEFINE bt == [j \in 1..(k + 1) |->
                IF j = 1 THEN hashtable[b] ELSE After(at[j - 1])]
  <2>2. \A j \in 1..(k + 1) : j # 1 => j - 1 \in 1..k
    OBVIOUS
  <2>3. \A j \in 1..k : bt[j] = at[j]
    BY <2>1
  <2>4. bt \in [1..(k + 1) -> Pointer]
    BY <1>1, <1>2, <2>1, <2>2
  <2>5. \A j \in 1..(k + 1) : bt[j] = IF j = 1 THEN hashtable[b] ELSE After(bt[j - 1])
    <3> SUFFICES ASSUME NEW j \in 1..(k + 1), j # 1 PROVE bt[j] = After(bt[j - 1])
      OBVIOUS
    <3>1. bt[j] = After(at[j - 1])
      OBVIOUS
    <3>2. at[j - 1] = bt[j - 1]
      BY <2>2, <2>3
    <3>3. QED
      BY <3>1, <3>2
  <2>6. Walk(bt, k + 1)
    BY <2>4, <2>5
  <2> HIDE DEF bt, Walk
  <2>7. \E ct : Walk(ct, k + 1)
    BY <2>6
  <2>8. QED
    BY <2>7
<1>5. \E at : Is(at)
  <2>1. _size \in Good
    <3> HIDE DEF Good
    <3>1. QED
      BY <1>3, <1>4, NatInduct, SettingFacts
  <2>2. PICK at : Walk(at, _size)
    BY <2>1
  <2>3. at = [k \in Place |-> IF k = 1 THEN hashtable[b] ELSE After(at[k - 1])]
    BY <2>2 DEF Place
  <2>4. Is(at)
    BY <2>3 DEF After
  <2>5. QED
    <3> HIDE DEF Is
    <3>1. QED
      BY <2>4
<1>6. Chain(b) = CHOOSE at : Is(at)
  BY Zenon DEF Chain
<1>7. Is(Chain(b))
  <2> HIDE DEF Is
  <2>1. QED
    BY <1>5, <1>6
<1> DEFINE C == Chain(b)
<1>8. C = [k \in Place |-> IF k = 1 THEN hashtable[b]
             ELSE IF C[k - 1] = 0 THEN 0 ELSE counters[C[k - 1]].next]
  BY <1>7
<1> HIDE DEF C
<1>9. \A k \in Place : C[k] = IF k = 1 THEN hashtable[b] ELSE After(C[k - 1])
  BY <1>8 DEF After
<1>10. \A k \in Place : C[k] \in Pointer
  <2> DEFINE Typed == {k \in Nat : k + 1 \in Place => C[k + 1] \in Pointer}
  <2>1. 0 \in Typed
    BY <1>2, <1>9, SettingFacts
  <2>2. ASSUME NEW k \in Nat, k \in Typed PROVE k + 1 \in Typed
    <3> SUFFICES ASSUME (k + 1) + 1 \in Place PROVE C[(k + 1) + 1] \in Pointer
      OBVIOUS
    <3>1. k + 1 \in Place /\ (k + 1) + 1 # 1 /\ ((k + 1) + 1) - 1 = k + 1
      BY SettingFacts DEF Place
    <3>2. C[(k + 1) + 1] = After(C[k + 1])
      BY <1>9, <3>1
    <3>3. QED
      BY <1>1, <2>2, <3>1, <3>2
  <2>3. Nat \subseteq Typed
    <3> HIDE DEF Typed
    <3>1. QED
      BY <2>1, <2>2, NatInduct
  <2>4. \A k \in Place : k - 1 \in Nat /\ (k - 1) + 1 = k
    BY SettingFacts DEF Place
  <2>5. QED
    BY <2>3, <2>4
<1>11. C \in [Place -> Pointer]
  BY <1>8, <1>10
<1>12. C[1] = hashtable[b]
  BY <1>9, SettingFacts DEF root
<1>13. QED
  BY <1>9, <1>11, <1>12 DEF IsChain, C, After

(* Further down a chain the rank is higher.                                *)
LEMMA ChainRises ==
  ASSUME Setting, TypeOK, NEW b \in Bucket, NEW at, IsChain(at, b),
         NEW r \in [Place -> Nat], Ranks(r, counters)
  PROVE  \A j, k \in Place : j < k /\ at[k] # 0 => at[j] # 0 /\ r[at[j]] < r[at[k]]
<1> DEFINE Good == {k \in Nat : k \in Place /\ at[k] # 0 =>
              \A j \in Place : j < k => at[j] # 0 /\ r[at[j]] < r[at[k]]}
<1>1. 0 \in Good
  BY SettingFacts
<1>2. ASSUME NEW k \in Nat, k \in Good PROVE k + 1 \in Good
  <2> SUFFICES ASSUME k + 1 \in Place, at[k + 1] # 0, NEW j \in Place, j < k + 1
               PROVE  at[j] # 0 /\ r[at[j]] < r[at[k + 1]]
    OBVIOUS
  <2>1. k \in Place /\ k + 1 # 1 /\ (k + 1) - 1 = k /\ (j < k \/ j = k)
    BY SettingFacts DEF Place
  <2>2. at[k] # 0 /\ counters[at[k]].next = at[k + 1]
    BY <2>1 DEF IsChain
  <2>3. at[k] \in Place /\ at[k + 1] \in Place
    BY <2>1, <2>2, SettingFacts DEF IsChain
  <2>4. r[at[k]] < r[at[k + 1]] /\ r[at[k]] \in Nat /\ r[at[k + 1]] \in Nat
    BY <2>2, <2>3 DEF Ranks
  <2>5. CASE j < k
    <3>1. at[j] # 0 /\ r[at[j]] < r[at[k]]
      BY <1>2, <2>1, <2>2, <2>5
    <3>2. at[j] \in Place
      BY <3>1, SettingFacts DEF IsChain
    <3>3. r[at[j]] \in Nat
      BY <3>2
    <3>4. QED
      BY <2>4, <3>1, <3>3
  <2>6. QED
    BY <2>1, <2>2, <2>4, <2>5
<1>3. Nat \subseteq Good
  <2> HIDE DEF Good
  <2>1. QED
    BY <1>1, <1>2, NatInduct
<1>4. QED
  BY <1>3, SettingFacts

(* A chain that has not ended after as many links as there are counters    *)
(* has passed all of them.                                                 *)
LEMMA LongChain ==
  ASSUME Setting, TypeOK, Acyclic(counters), NEW b \in Bucket, NEW at, IsChain(at, b),
         at[_size] # 0
  PROVE  \A p \in Place : \E k \in Place : at[k] = p
<1>1. PICK r \in [Place -> Nat] : Ranks(r, counters)
  BY DEF Acyclic
<1>2. _size \in Place /\ \A k \in Place : k = _size \/ k < _size
  BY SettingFacts DEF Place
<1>3. \A k \in Place : at[k] # 0
  BY <1>1, <1>2, ChainRises
<1>4. \A k \in Place : at[k] \in Place
  BY <1>3, SettingFacts DEF IsChain
<1>5. \A j, k \in Place : at[j] = at[k] => j = k
  <2> SUFFICES ASSUME NEW j \in Place, NEW k \in Place, at[j] = at[k], j # k PROVE FALSE
    OBVIOUS
  <2>1. j < k \/ k < j
    BY SettingFacts
  <2>2. r[at[j]] < r[at[k]] \/ r[at[k]] < r[at[j]]
    BY <1>1, <1>3, <2>1, ChainRises
  <2>3. r[at[j]] \in Nat
    BY <1>4
  <2>4. QED
    BY <2>2, <2>3
<1>6. at \in Injection(Place, Place)
  <2>1. at \in [Place -> Place]
    BY <1>4 DEF IsChain
  <2>2. QED
    BY <1>5, <2>1 DEF Injection, IsInjective
<1>7. at \in Surjection(Place, Place)
  BY <1>6, FS_Injection, SettingFacts
<1>8. QED
  BY <1>7 DEF Surjection

(* Every chain ends.                                                       *)
LEMMA ChainsHaveEnds ==
  ASSUME Setting, TypeOK, Acyclic(counters)
  PROVE  ChainsEnd
<1> SUFFICES ASSUME NEW b \in Bucket, Chain(b)[_size] # 0, counters[Chain(b)[_size]].next # 0
             PROVE  FALSE
  BY DEF ChainsEnd
<1> DEFINE at == Chain(b)
           last == at[_size]
<1>1. IsChain(at, b)
  BY ChainIs
<1> HIDE DEF at
<1>2. PICK r \in [Place -> Nat] : Ranks(r, counters)
  BY DEF Acyclic
<1>3. _size \in Place /\ \A k \in Place : k = _size \/ k < _size
  BY SettingFacts DEF Place
<1>4. last # 0 /\ counters[last].next # 0
  BY DEF at
<1>5. last \in Place /\ counters[last].next \in Place
  BY <1>1, <1>3, <1>4, CellFields, SettingFacts DEF IsChain
<1>6. PICK k \in Place : at[k] = counters[last].next
  BY <1>1, <1>4, <1>5, LongChain
<1>7. r[last] < r[at[k]] /\ r[last] \in Nat /\ r[at[k]] \in Nat
  BY <1>2, <1>5, <1>6 DEF Ranks
<1>8. k = _size \/ r[at[k]] < r[last]
  BY <1>1, <1>2, <1>3, <1>4, ChainRises
<1>9. QED
  BY <1>7, <1>8

(* The chain of a bucket other than 0 leads to every counter of its hash.  *)
LEMMA ChainReaches ==
  ASSUME Setting, TypeOK, Linked(counters, hashtable), NEW b \in Bucket, b # 0,
         NEW at, IsChain(at, b), NEW p \in Place, counters[p].hash = b
  PROVE  \E k \in Place : at[k] = p
<1>1. CASE at[_size] # 0
  BY <1>1, LongChain DEF Linked
<1>2. CASE at[_size] = 0
  <2>1. PICK r \in [Place -> Nat] : Ranks(r, counters)
    BY DEF Linked, Acyclic
  <2> DEFINE Good == {k \in Nat : \A q \in Place :
                counters[q].hash = b /\ r[q] < k => \E j \in Place : at[j] = q}
  <2>2. 0 \in Good
    OBVIOUS
  <2>3. ASSUME NEW k \in Nat, k \in Good PROVE k + 1 \in Good
    <3> SUFFICES ASSUME NEW q \in Place, counters[q].hash = b, r[q] < k + 1
                 PROVE  \E j \in Place : at[j] = q
      OBVIOUS
    <3>1. CASE counters[q].prev = 0
      <4>1. hashtable[b] = q
        BY <3>1 DEF Linked, Fronted
      <4>2. QED
        BY <4>1, SettingFacts DEF IsChain, root
    <3>2. CASE counters[q].prev # 0
      <4> DEFINE o == counters[q].prev
      <4>1. o \in Place /\ counters[o].next = q
        BY <3>2, CellFields DEF Linked, Mutual
      <4>2. counters[o].hash = b /\ r[o] < r[q] /\ r[o] \in Nat /\ r[q] \in Nat
        BY <2>1, <4>1 DEF Linked, SameBucket, Ranks
      <4>3. PICK j \in Place : at[j] = o
        BY <2>3, <4>1, <4>2
      <4>4. j # _size /\ at[j] # 0
        BY <1>2, <4>1, <4>3, SettingFacts
      <4>5. j + 1 \in Place /\ j + 1 # 1 /\ (j + 1) - 1 = j
        BY <4>4, SettingFacts DEF Place
      <4>6. at[j + 1] = counters[o].next
        BY <4>3, <4>4, <4>5 DEF IsChain
      <4>7. QED
        BY <4>1, <4>5, <4>6
    <3>3. QED
      BY <3>1, <3>2
  <2>4. Nat \subseteq Good
    <3> HIDE DEF Good
    <3>1. QED
      BY <2>2, <2>3, NatInduct
  <2>5. r[p] + 1 \in Nat /\ r[p] < r[p] + 1
    OBVIOUS
  <2>6. QED
    BY <2>4, <2>5
<1>3. QED
  BY <1>1, <1>2

(* What find returns is a counter of the item, in its chain.               *)
LEMMA FindIs ==
  ASSUME Setting, TypeOK, NEW i \in Item
  PROVE  /\ find(i) \in Pointer
         /\ find(i) # 0 => find(i) \in Place /\ counters[find(i)].item = i
         /\ \A k \in Place :
              Chain(hash[i])[k] # 0 /\ counters[Chain(hash[i])[k]].item = i => find(i) # 0
<1> DEFINE at == Chain(hash[i])
           Found == {k \in Place : at[k] # 0 /\ counters[at[k]].item = i}
           First(x) == x \in Found /\ \A y \in Found : x <= y
<1>1. IsChain(at, hash[i])
  BY ChainIs, SettingFacts
<1>2. find(i) = IF Found = {} THEN 0 ELSE at[Min(Found)]
  BY Zenon DEF find
<1>3. Found # {} => Min(Found) \in Found
  <2> SUFFICES ASSUME Found # {} PROVE Min(Found) \in Found
    OBVIOUS
  <2>1. \E x : First(x)
    <3>1. Found \subseteq Nat
      BY SettingFacts
    <3> HIDE DEF Found
    <3>2. QED
      BY <3>1, LeastExists
  <2>2. Min(Found) = CHOOSE x : First(x)
    BY Zenon DEF Min
  <2> HIDE DEF First
  <2>3. First(Min(Found))
    BY <2>1, <2>2
  <2>4. QED
    BY <2>3 DEF First
<1> HIDE DEF at
<1>4. \A k \in Place : at[k] \in Pointer
  BY <1>1 DEF IsChain
<1>5. CASE Found = {}
  BY <1>2, <1>5, SettingFacts DEF at
<1>6. CASE Found # {}
  <2> DEFINE k == Min(Found)
  <2>1. find(i) = at[k] /\ k \in Place /\ at[k] # 0 /\ counters[at[k]].item = i
    BY <1>2, <1>3, <1>6
  <2> HIDE DEF k, Found
  <2>2. QED
    BY <1>4, <2>1, SettingFacts
<1>7. QED
  BY <1>5, <1>6

(* A counter of a bucket other than 0 is found under its item.             *)
LEMMA SoundIsFound ==
  ASSUME Setting, TypeOK, Linked(counters, hashtable), Filled(counters, hashtable),
         Distinct(counters)
  PROVE  FoundWhereItIs
<1> SUFFICES ASSUME NEW p \in Place, counters[p].item \in Sound
             PROVE  find(counters[p].item) = p
  BY DEF FoundWhereItIs
<1> DEFINE i == counters[p].item
<1>1. i \in Item /\ hash[i] # 0 /\ hash[i] \in Bucket
  BY SettingFacts DEF Sound
<1>2. counters[p].hash = hash[i]
  BY <1>1, SettingFacts DEF Filled, Unused
<1>3. PICK k \in Place : Chain(hash[i])[k] = p
  BY <1>1, <1>2, ChainIs, ChainReaches
<1>4. find(i) # 0
  BY <1>1, <1>3, FindIs, SettingFacts
<1>5. find(i) \in Place /\ counters[find(i)].item = i
  BY <1>1, <1>4, FindIs
<1>6. QED
  BY <1>5 DEF Distinct

-----------------------------------------------------------------------------
(* A round of Heapify exchanges the counters of two places.                *)

Other(p, q, x) == IF x = p THEN q ELSE IF x = q THEN p ELSE x

Exchanged(c, d, p, q) ==
  \A x \in Place : /\ d[x].item = c[Other(p, q, x)].item
                   /\ d[x].hash = c[Other(p, q, x)].hash
                   /\ d[x].count = c[Other(p, q, x)].count
                   /\ d[x].delta = c[Other(p, q, x)].delta

(* The links stay at their places, or they follow the counters.            *)
LinksStay(c, d) == \A x \in Place : d[x].prev = c[x].prev /\ d[x].next = c[x].next
LinksFollow(c, d, p, q) ==
  \A x \in Place : /\ d[x].prev = Other(p, q, c[Other(p, q, x)].prev)
                   /\ d[x].next = Other(p, q, c[Other(p, q, x)].next)

(* The child it is exchanged with.                                         *)
LEMMA LeastChild ==
  ASSUME Setting, TypeOK, ptr # 0, ~AtRest
  PROVE  /\ ptr \in Place /\ minchild \in Place /\ ptr # minchild /\ minchild # root
         /\ Child(ptr, minchild)
         /\ counters[minchild].count <= counters[ptr].count
         /\ \A s \in Place : Child(ptr, s) => counters[minchild].count <= counters[s].count
<1>1. ptr \in Place /\ 2 * ptr + 1 <= _size /\ ~(counters[ptr].count < counters[minchild].count)
  BY SettingFacts DEF TypeOK, AtRest, Pointer, Place
<1>2. 2 * ptr \in Place /\ 2 * ptr + 1 \in Place
  BY <1>1, SettingFacts DEF Place
<1>3. \A s \in Place : counters[s].count \in Nat
  BY CellFields, SettingFacts
<1>4. minchild \in {2 * ptr, 2 * ptr + 1}
  BY DEF minchild
<1>5. minchild \in Place /\ ptr # minchild /\ minchild # root /\ Child(ptr, minchild)
  BY <1>1, <1>2, <1>4, SettingFacts DEF Place, root, Child
<1>6. counters[minchild].count <= counters[ptr].count
  BY <1>1, <1>3, <1>5
<1>7. counters[minchild].count <= counters[2 * ptr].count
      /\ counters[minchild].count <= counters[2 * ptr + 1].count
  BY <1>2, <1>3 DEF minchild
<1>8. QED
  BY <1>1, <1>5, <1>6, <1>7 DEF Child

LEMMA WithinIs ==
  ASSUME Setting, TypeOK, ptr # 0, ~AtRest, SwapWithinChain
  PROVE  /\ counters' \in [Place -> Cell]
         /\ Exchanged(counters, counters', ptr, minchild)
         /\ LinksStay(counters, counters')
<1> DEFINE p == ptr
           q == minchild
           cp == [counters[q] EXCEPT !.prev = counters[p].prev, !.next = counters[p].next]
           cq == [counters[p] EXCEPT !.prev = counters[q].prev, !.next = counters[q].next]
<1>1. p \in Place /\ q \in Place /\ p # q
  BY LeastChild
<1>2. counters' = [counters EXCEPT ![p] = cp, ![q] = cq]
  BY DEF SwapWithinChain
<1>3. counters \in [Place -> Cell]
  BY DEF TypeOK
<1> HIDE DEF p, q
<1>4. cp \in Cell /\ cq \in Cell
  BY <1>1, <1>3 DEF Cell
<1>5. /\ cp.item = counters[q].item /\ cp.hash = counters[q].hash
      /\ cp.count = counters[q].count /\ cp.delta = counters[q].delta
      /\ cp.prev = counters[p].prev /\ cp.next = counters[p].next
  BY <1>1, <1>3 DEF Cell
<1>6. /\ cq.item = counters[p].item /\ cq.hash = counters[p].hash
      /\ cq.count = counters[p].count /\ cq.delta = counters[p].delta
      /\ cq.prev = counters[q].prev /\ cq.next = counters[q].next
  BY <1>1, <1>3 DEF Cell
<1> HIDE DEF cp, cq
<1>7. /\ counters'[p] = cp /\ counters'[q] = cq
      /\ \A x \in Place \ {p, q} : counters'[x] = counters[x]
      /\ counters' \in [Place -> Cell]
  BY <1>1, <1>2, <1>3, <1>4
<1>8. Exchanged(counters, counters', p, q) /\ LinksStay(counters, counters')
  BY <1>1, <1>5, <1>6, <1>7 DEF Exchanged, LinksStay, Other
<1>9. QED
  BY <1>7, <1>8 DEF p, q

(* What Relinked does to a place.                                          *)
LEMMA RelinkedIs ==
  ASSUME NEW c \in [Place -> Cell], NEW p \in Place, p \in Pointer
  PROVE  /\ Relinked(c, p) \in [Place -> Cell]
         /\ \A x \in Place :
              /\ Relinked(c, p)[x].item = c[x].item
              /\ Relinked(c, p)[x].hash = c[x].hash
              /\ Relinked(c, p)[x].count = c[x].count
              /\ Relinked(c, p)[x].delta = c[x].delta
              /\ Relinked(c, p)[x].next = IF x = c[p].prev THEN p ELSE c[x].next
              /\ Relinked(c, p)[x].prev = IF x = c[p].next THEN p ELSE c[x].prev
<1> DEFINE new(x) == [c[x] EXCEPT !.next = IF x = c[p].prev THEN p ELSE @,
                                  !.prev = IF x = c[p].next THEN p ELSE @]
<1>1. \A x \in Place : c[x] \in Cell
  OBVIOUS
<1>2. \A x \in Place :
        /\ new(x) \in Cell
        /\ new(x).item = c[x].item /\ new(x).hash = c[x].hash
        /\ new(x).count = c[x].count /\ new(x).delta = c[x].delta
        /\ new(x).next = IF x = c[p].prev THEN p ELSE c[x].next
        /\ new(x).prev = IF x = c[p].next THEN p ELSE c[x].prev
  BY <1>1 DEF Cell
<1>3. Relinked(c, p) = [x \in Place |-> new(x)]
  BY DEF Relinked
<1> HIDE DEF new
<1>4. QED
  BY <1>2, <1>3

LEMMA AcrossIs ==
  ASSUME Setting, TypeOK, Linked(counters, hashtable), ptr # 0, ~AtRest, SwapAcrossChains,
         counters[ptr].hash # counters[minchild].hash
  PROVE  /\ counters' \in [Place -> Cell]
         /\ Exchanged(counters, counters', ptr, minchild)
         /\ LinksFollow(counters, counters', ptr, minchild)
<1> DEFINE p == ptr
           q == minchild
           swapped == [counters EXCEPT ![p] = counters[q], ![q] = counters[p]]
           up == Relinked(swapped, p)
<1>1. p \in Place /\ q \in Place /\ p # q /\ p \in Pointer /\ q \in Pointer
  BY LeastChild, SettingFacts
<1>2. counters' = Relinked(up, q)
  BY DEF SwapAcrossChains
<1>3. counters \in [Place -> Cell]
  BY DEF TypeOK
<1>4. counters[p].hash # counters[q].hash
  OBVIOUS
<1> HIDE DEF p, q
<1>5. /\ swapped \in [Place -> Cell]
      /\ swapped[p] = counters[q] /\ swapped[q] = counters[p]
      /\ \A x \in Place \ {p, q} : swapped[x] = counters[x]
  BY <1>1, <1>3
<1> HIDE DEF swapped
<1> DEFINE Fields(c, d) == \A x \in Place :
             /\ c[x].item = d[x].item /\ c[x].hash = d[x].hash
             /\ c[x].count = d[x].count /\ c[x].delta = d[x].delta
<1>6. /\ up \in [Place -> Cell]
      /\ Fields(up, swapped)
      /\ \A x \in Place : /\ up[x].next = IF x = counters[q].prev THEN p ELSE swapped[x].next
                          /\ up[x].prev = IF x = counters[q].next THEN p ELSE swapped[x].prev
  BY <1>1, <1>5, RelinkedIs
<1> HIDE DEF up
<1>7. \A x, y \in Place : counters[x].next = y => x # y
  <2>1. PICK r \in [Place -> Nat] : Ranks(r, counters)
    BY DEF Linked, Acyclic
  <2>2. QED
    BY <2>1 DEF Ranks
<1>8. /\ counters[p].next \notin {p, q} /\ counters[q].next \notin {p, q}
      /\ counters[p].prev \notin {p, q} /\ counters[q].prev \notin {p, q}
  BY <1>1, <1>4, <1>7 DEF Linked, Mutual, SameBucket
<1>9. up[q].prev = counters[p].prev /\ up[q].next = counters[p].next
  BY <1>1, <1>5, <1>6, <1>8
<1>10. /\ counters' \in [Place -> Cell]
       /\ Fields(counters', up)
       /\ \A x \in Place : /\ counters'[x].next = IF x = counters[p].prev THEN q ELSE up[x].next
                           /\ counters'[x].prev = IF x = counters[p].next THEN q ELSE up[x].prev
  BY <1>1, <1>2, <1>6, <1>9, RelinkedIs
<1>11. Exchanged(counters, counters', p, q)
  BY <1>1, <1>5, <1>6, <1>10 DEF Exchanged, Other
<1>12. ASSUME NEW x \in Place
       PROVE  /\ counters'[x].prev = Other(p, q, counters[Other(p, q, x)].prev)
              /\ counters'[x].next = Other(p, q, counters[Other(p, q, x)].next)
  <2>1. /\ counters[x].next = p <=> counters[p].prev = x
        /\ counters[x].next = q <=> counters[q].prev = x
        /\ counters[p].next = x <=> counters[x].prev = p
        /\ counters[q].next = x <=> counters[x].prev = q
    BY <1>1 DEF Linked, Mutual
  <2>2. CASE x = p
    BY <1>1, <1>5, <1>6, <1>8, <1>10, <2>2 DEF Other
  <2>3. CASE x = q
    BY <1>1, <1>5, <1>6, <1>8, <1>10, <2>3 DEF Other
  <2>4. CASE x \notin {p, q}
    <3>1. Other(p, q, x) = x
      BY <2>4 DEF Other
    <3>2. counters'[x].next = Other(p, q, counters[x].next)
      BY <1>1, <1>5, <1>6, <1>10, <2>1, <2>4 DEF Other
    <3>3. counters'[x].prev = Other(p, q, counters[x].prev)
      BY <1>1, <1>5, <1>6, <1>10, <2>1, <2>4 DEF Other
    <3>4. QED
      BY <3>1, <3>2, <3>3
  <2>5. QED
    BY <2>2, <2>3, <2>4
<1>13. LinksFollow(counters, counters', p, q)
  BY <1>12 DEF LinksFollow
<1>14. QED
  BY <1>10, <1>11, <1>13 DEF p, q

-----------------------------------------------------------------------------
(* The order of the heap.                                                  *)

LEMMA ChildFacts ==
  ASSUME Setting, NEW p \in Place, NEW q \in Place, Child(p, q)
  PROVE  p < q /\ \A x \in Place : Child(x, q) => x = p
BY SettingFacts DEF Child

(* With no counter being sifted down, the root has the least count.        *)
LEMMA RootLeast ==
  ASSUME Setting, NEW c \in [Place -> Cell], Ordered(c, 0), NEW p \in Place
  PROVE  c[root].count <= c[p].count
<1> DEFINE Good == {k \in Nat : \A x \in Place : x <= k => c[root].count <= c[x].count}
<1>1. 0 \in Good
  BY SettingFacts DEF Place
<1>2. ASSUME NEW k \in Nat, k \in Good PROVE k + 1 \in Good
  <2> SUFFICES ASSUME NEW x \in Place, x <= k + 1 PROVE c[root].count <= c[x].count
    OBVIOUS
  <2>1. c[x].count \in Nat /\ c[root].count \in Nat
    BY FieldTypes, SettingFacts
  <2>2. CASE x = root
    BY <2>1, <2>2
  <2>3. CASE x # root
    <3>1. \E y \in Place : Child(y, x) /\ y < x
      <4>1. x \in Nat /\ x >= 2 /\ x <= _size /\ _size \in Nat
        BY <2>3, SettingFacts DEF Place, root
      <4>2. \E y \in Nat : x = 2 * y \/ x = 2 * y + 1
        <5>1. x \div 2 \in Nat /\ (x = 2 * (x \div 2) \/ x = 2 * (x \div 2) + 1)
          BY <4>1
        <5>2. QED
          BY <5>1
      <4>3. PICK y \in Nat : x = 2 * y \/ x = 2 * y + 1
        BY <4>2
      <4>4. y \in Place /\ y < x
        BY <4>1, <4>3 DEF Place
      <4>5. QED
        BY <4>3, <4>4 DEF Child
    <3>2. PICK y \in Place : Child(y, x) /\ y < x
      BY <3>1
    <3>3. y # 0 /\ y <= k
      BY <3>2, SettingFacts
    <3>4. c[root].count <= c[y].count /\ c[y].count <= c[x].count
      BY <1>2, <3>2, <3>3 DEF Ordered
    <3>5. c[y].count \in Nat
      BY FieldTypes
    <3>6. QED
      BY <2>1, <3>4, <3>5
  <2>4. QED
    BY <2>2, <2>3
<1>3. Nat \subseteq Good
  <2> HIDE DEF Good
  <2>1. QED
    BY <1>1, <1>2, NatInduct
<1>4. p \in Good /\ p <= p
  BY <1>3, SettingFacts
<1>5. QED
  BY <1>4

(* A counter that counts one more is sifted down from its place.           *)
LEMMA RaisedOrdered ==
  ASSUME Setting, NEW c \in [Place -> Cell], Ordered(c, 0), NEW d, NEW t \in Place,
         \A x \in Place : d[x].count = IF x = t THEN c[t].count + 1 ELSE c[x].count
  PROVE  Ordered(d, t)
<1> SUFFICES ASSUME NEW p \in Place, NEW q \in Place, Child(p, q)
             PROVE  /\ p # t => d[p].count <= d[q].count
                    /\ q = t => \A s \in Place : Child(q, s) => d[p].count <= d[s].count
  BY DEF Ordered
<1>1. \A x \in Place : c[x].count \in Nat /\ x # 0
  BY FieldTypes, SettingFacts
<1>2. \A x, y \in Place : Child(x, y) => c[x].count <= c[y].count
  BY <1>1 DEF Ordered
<1>3. p # t => d[p].count <= d[q].count
  <2>1. c[p].count <= c[q].count
    BY <1>2
  <2>2. QED
    BY <1>1, <2>1
<1>4. ASSUME q = t, NEW s \in Place, Child(q, s) PROVE d[p].count <= d[s].count
  <2>1. c[p].count <= c[q].count /\ c[q].count <= c[s].count
    BY <1>2, <1>4
  <2>2. p # t /\ s # t
    BY <1>4, ChildFacts, SettingFacts
  <2>3. d[p].count = c[p].count /\ d[s].count = c[s].count
    BY <2>2
  <2>4. QED
    BY <1>1, <2>1, <2>3
<1>5. QED
  BY <1>3, <1>4

(* The counter sifted down exchanges its place with the least child.       *)
LEMMA SwappedOrdered ==
  ASSUME Setting, NEW c \in [Place -> Cell], NEW d, NEW t \in Place, NEW q \in Place,
         Ordered(c, t), Exchanged(c, d, t, q), Child(t, q), c[q].count <= c[t].count,
         \A s \in Place : Child(t, s) => c[q].count <= c[s].count
  PROVE  Ordered(d, q)
<1> SUFFICES ASSUME NEW x \in Place, NEW y \in Place, Child(x, y)
             PROVE  /\ x # q => d[x].count <= d[y].count
                    /\ y = q => \A s \in Place : Child(y, s) => d[x].count <= d[s].count
  BY DEF Ordered
<1>1. t # q /\ t < q /\ x < y
  BY ChildFacts, SettingFacts
<1>2. /\ d[t].count = c[q].count /\ d[q].count = c[t].count
      /\ \A z \in Place \ {t, q} : d[z].count = c[z].count
  BY <1>1 DEF Exchanged, Other
<1>3. ASSUME x # q PROVE d[x].count <= d[y].count
  <2>1. CASE x = t /\ y = q
    BY <1>2, <2>1
  <2>2. CASE x = t /\ y # q
    <3>1. y # t
      BY <1>1, <2>2, SettingFacts
    <3>2. QED
      BY <1>2, <2>2, <3>1
  <2>3. CASE x # t /\ y = t
    <3>1. d[x].count = c[x].count /\ d[y].count = c[q].count
      BY <1>2, <1>3, <2>3
    <3>2. c[x].count <= c[q].count
      BY <2>3 DEF Ordered
    <3>3. QED
      BY <3>1, <3>2
  <2>4. CASE x # t /\ y # t
    <3>1. y # q
      BY <2>4, ChildFacts
    <3>2. d[x].count = c[x].count /\ d[y].count = c[y].count
      BY <1>2, <1>3, <2>4, <3>1
    <3>3. QED
      BY <2>4, <3>2 DEF Ordered
  <2>5. QED
    BY <2>1, <2>2, <2>3, <2>4
<1>4. ASSUME y = q, NEW s \in Place, Child(y, s) PROVE d[x].count <= d[s].count
  <2>1. x = t
    BY <1>4, ChildFacts
  <2>2. q < s
    BY <1>4, ChildFacts
  <2>3. s \notin {t, q}
    BY <1>1, <2>2, SettingFacts
  <2>4. c[q].count <= c[s].count
    BY <1>1, <1>4 DEF Ordered
  <2>5. QED
    BY <1>2, <2>1, <2>3, <2>4
<1>5. QED
  BY <1>3, <1>4

(* A counter at rest is in its place.                                      *)
LEMMA RestingOrdered ==
  ASSUME Setting, TypeOK, ptr # 0, Ordered(counters, ptr), AtRest
  PROVE  Ordered(counters, 0)
<1>1. ptr \in Place
  BY SettingFacts DEF TypeOK
<1>2. \A x \in Place : counters[x].count \in Nat
  BY CellFields, SettingFacts
<1>3. ASSUME NEW q \in Place, Child(ptr, q) PROVE counters[ptr].count <= counters[q].count
  <2>1. 2 * ptr + 1 <= _size
    <3>1. _size \in Nat /\ _size % 2 = 1 /\ q <= _size /\ ptr \in Nat /\ q \in Nat
      BY <1>1, SettingFacts DEF Place, Setting, SizeAssumption
    <3>2. QED
      BY <1>3, <3>1 DEF Child
  <2>2. 2 * ptr \in Place /\ 2 * ptr + 1 \in Place
    BY <1>1, <2>1, SettingFacts DEF Place
  <2>3. counters[ptr].count < counters[minchild].count
    BY <1>1, <2>1, SettingFacts DEF AtRest
  <2>4. /\ counters[minchild].count <= counters[2 * ptr].count
        /\ counters[minchild].count <= counters[2 * ptr + 1].count
        /\ counters[minchild].count \in Nat
    BY <1>2, <2>2 DEF minchild
  <2>5. counters[minchild].count <= counters[q].count
    BY <1>3, <2>4 DEF Child
  <2>6. QED
    BY <1>1, <1>2, <2>3, <2>4, <2>5
<1>4. \A q \in Place : q # 0
  BY SettingFacts
<1>5. QED
  BY <1>3, <1>4 DEF Ordered
-----------------------------------------------------------------------------
(* The links under the steps.                                              *)

LEMMA LinksKept ==
  ASSUME NEW c, NEW d, NEW h, Linked(c, h),
         \A x \in Place : d[x].prev = c[x].prev /\ d[x].next = c[x].next /\ d[x].hash = c[x].hash
  PROVE  Linked(d, h)
<1>1. Mutual(d) /\ SameBucket(d)
  BY DEF Linked, Mutual, SameBucket
<1>2. Acyclic(d)
  BY DEF Linked, Acyclic, Ranks
<1>3. Fronts(d, h) /\ Fronted(d, h)
  BY DEF Linked, Fronts, Fronted
<1>4. QED
  BY <1>1, <1>2, <1>3 DEF Linked

(* What a bucket points to after two counters of different chains          *)
(* exchanged their places.                                                 *)
Followed(c, h, k, p, q) ==
  \A b \in Bucket : k[b] =
    IF b = c[p].hash /\ c[p].prev = 0 THEN q
    ELSE IF b = c[q].hash /\ c[q].prev = 0 /\ ~Unused(c, q) THEN p ELSE h[b]

LEMMA LinksFollowed ==
  ASSUME Setting, NEW c \in [Place -> Cell], NEW d, NEW h \in [Bucket -> Pointer], NEW k,
         Linked(c, h), Filled(c, h),
         NEW p \in Place, NEW q \in Place, q # root, c[p].hash # c[q].hash,
         Exchanged(c, d, p, q), LinksFollow(c, d, p, q), Followed(c, h, k, p, q)
  PROVE  Linked(d, k)
<1> DEFINE O(x) == Other(p, q, x)
<1>1. /\ \A x \in Place : O(x) \in Place /\ O(O(x)) = x
      /\ O(p) = q /\ O(q) = p
      /\ \A x \in Place \cup {0} : O(x) = 0 <=> x = 0
      /\ \A x, y \in Place \cup {0} : O(x) = y <=> x = O(y)
  <2>1. /\ \A x \in Place : Other(p, q, x) \in Place /\ Other(p, q, Other(p, q, x)) = x
        /\ Other(p, q, p) = q /\ Other(p, q, q) = p
        /\ \A x \in Place \cup {0} : Other(p, q, x) = 0 <=> x = 0
        /\ \A x, y \in Place \cup {0} : Other(p, q, x) = y <=> x = Other(p, q, y)
    BY SettingFacts DEF Other
  <2>2. QED
    BY Zenon, <2>1
<1>2. \A x \in Place : c[x].prev \in Place \cup {0} /\ c[x].next \in Place \cup {0}
                       /\ c[x].hash \in Bucket
  BY FieldTypes
<1>3. \A x \in Place : d[x].prev = O(c[O(x)].prev) /\ d[x].next = O(c[O(x)].next)
                       /\ d[x].hash = c[O(x)].hash
  BY DEF LinksFollow, Exchanged
<1>4. \A x \in Place \ {p, q} : O(x) = x
  BY DEF Other
<1> HIDE DEF O
<1>5. \A x, y \in Place :
        (d[x].next = y <=> c[O(x)].next = O(y)) /\ (d[y].prev = x <=> c[O(y)].prev = O(x))
  BY <1>1, <1>2, <1>3
<1>6. Mutual(d)
  BY <1>1, <1>5 DEF Linked, Mutual
<1>7. SameBucket(d)
  BY <1>1, <1>3, <1>5 DEF Linked, SameBucket
<1>8. Acyclic(d)
  <2>1. PICK r \in [Place -> Nat] : Ranks(r, c)
    BY DEF Linked, Acyclic
  <2> DEFINE s == [x \in Place |-> r[O(x)]]
  <2>2. s \in [Place -> Nat]
    BY <1>1
  <2>3. Ranks(s, d)
    BY <1>1, <1>5, <2>1 DEF Ranks
  <2>4. QED
    BY <2>2, <2>3 DEF Acyclic
<1>9. /\ Unused(c, q) => h[0] # q /\ c[q].hash = 0
      /\ 0 \in Bucket /\ 0 \notin Place
  BY SettingFacts DEF Filled, Loose
<1>10. Fronts(d, k)
  <2> SUFFICES ASSUME NEW b \in Bucket, k[b] \in Place
               PROVE  d[k[b]].prev = 0 /\ d[k[b]].hash = b
    BY DEF Fronts
  <2>1. CASE b = c[p].hash /\ c[p].prev = 0
    <3>1. k[b] = q
      BY <2>1 DEF Followed
    <3>2. QED
      BY <1>1, <1>2, <1>3, <2>1, <3>1
  <2>2. CASE b = c[q].hash /\ c[q].prev = 0 /\ ~Unused(c, q)
    <3>1. k[b] = p
      BY <2>2 DEF Followed
    <3>2. QED
      BY <1>1, <1>2, <1>3, <2>2, <3>1
  <2>3. CASE ~(b = c[p].hash /\ c[p].prev = 0)
             /\ ~(b = c[q].hash /\ c[q].prev = 0 /\ ~Unused(c, q))
    <3>1. k[b] = h[b]
      BY <2>3 DEF Followed
    <3>2. c[h[b]].prev = 0 /\ c[h[b]].hash = b
      BY <3>1 DEF Linked, Fronts
    <3>3. h[b] \notin {p, q}
      BY <1>9, <2>3, <3>2
    <3>4. QED
      BY <1>1, <1>2, <1>3, <1>4, <3>1, <3>2, <3>3
  <2>4. QED
    BY <2>1, <2>2, <2>3
<1>11. Fronted(d, k)
  <2> SUFFICES ASSUME NEW x \in Place, d[x].hash # 0, d[x].prev = 0
               PROVE  k[d[x].hash] = x
    BY DEF Fronted
  <2> DEFINE y == O(x)
  <2>1. y \in Place /\ c[y].hash = d[x].hash /\ c[y].prev = 0 /\ O(y) = x
    BY <1>1, <1>2, <1>3
  <2>2. h[c[y].hash] = y /\ c[y].hash \in Bucket
    BY <1>2, <2>1 DEF Linked, Fronted
  <2> HIDE DEF y
  <2>3. CASE y = p
    <3>1. k[c[p].hash] = q
      BY <2>1, <2>2, <2>3 DEF Followed
    <3>2. QED
      BY <1>1, <2>1, <2>3, <3>1
  <2>4. CASE y = q
    <3>1. k[c[q].hash] = p
      BY <1>9, <2>1, <2>2, <2>4 DEF Followed
    <3>2. QED
      BY <1>1, <2>1, <2>4, <3>1
  <2>5. CASE y \notin {p, q}
    <3>1. ~(c[y].hash = c[p].hash /\ c[p].prev = 0)
      BY <2>1, <2>2, <2>5 DEF Linked, Fronted
    <3>2. ~(c[y].hash = c[q].hash /\ c[q].prev = 0)
      BY <2>1, <2>2, <2>5 DEF Linked, Fronted
    <3>3. k[c[y].hash] = y
      BY <2>2, <3>1, <3>2 DEF Followed
    <3>4. QED
      BY <1>4, <2>1, <2>5, <3>3
  <2>6. QED
    BY <2>3, <2>4, <2>5
<1>12. QED
  BY <1>6, <1>7, <1>8, <1>10, <1>11 DEF Linked

(* The root out of its chain.                                              *)
Without(c) ==
  [x \in Place |->
    IF x = root THEN [hash |-> 0, prev |-> 0, next |-> 0]
    ELSE [hash |-> c[x].hash,
          prev |-> IF x = c[root].next THEN c[root].prev ELSE c[x].prev,
          next |-> IF x = c[root].prev THEN c[root].next ELSE c[x].next]]

HeadsWithout(c, h) ==
  [b \in Bucket |-> IF c[root].prev = 0 /\ b = c[root].hash THEN c[root].next ELSE h[b]]

LEMMA RootLeaves ==
  ASSUME Setting, NEW c \in [Place -> Cell], NEW h \in [Bucket -> Pointer], Linked(c, h)
  PROVE  /\ Linked(Without(c), HeadsWithout(c, h))
         /\ \A b \in Bucket : HeadsWithout(c, h)[b] # root
<1> DEFINE e == Without(c)
           T == HeadsWithout(c, h)
<1>1. \A x \in Place : c[x].prev \in Place \cup {0} /\ c[x].next \in Place \cup {0}
                       /\ c[x].hash \in Bucket
  BY FieldTypes
<1>2. root \in Place /\ 0 \notin Place
  BY SettingFacts
<1>3. /\ e[root].hash = 0 /\ e[root].prev = 0 /\ e[root].next = 0
      /\ \A x \in Place \ {root} :
           /\ e[x].hash = c[x].hash
           /\ e[x].prev = IF x = c[root].next THEN c[root].prev ELSE c[x].prev
           /\ e[x].next = IF x = c[root].prev THEN c[root].next ELSE c[x].next
  BY <1>2 DEF Without
<1>4. \A b \in Bucket :
        T[b] = IF c[root].prev = 0 /\ b = c[root].hash THEN c[root].next ELSE h[b]
  BY DEF HeadsWithout
<1> HIDE DEF e, T
<1>5. PICK r \in [Place -> Nat] : Ranks(r, c)
  BY DEF Linked, Acyclic
<1>6. \A x, y \in Place : /\ c[x].next = y <=> c[y].prev = x
                          /\ c[x].next = y => c[x].hash = c[y].hash /\ r[x] < r[y]
  BY <1>5 DEF Linked, Mutual, SameBucket, Ranks
<1>7. c[root].next # root /\ c[root].prev # root
  BY <1>2, <1>5, <1>6
<1>8. Mutual(e)
  <2> SUFFICES ASSUME NEW x \in Place, NEW y \in Place PROVE e[x].next = y <=> e[y].prev = x
    BY DEF Mutual
  <2>1. CASE x = root
    BY <1>2, <1>3, <1>6, <1>7, <2>1
  <2>2. CASE y = root
    BY <1>2, <1>3, <1>6, <1>7, <2>2
  <2>3. CASE x # root /\ y # root
    BY <1>2, <1>3, <1>6, <1>7, <2>3
  <2>4. QED
    BY <2>1, <2>2, <2>3
<1>9. ASSUME NEW x \in Place, NEW y \in Place, e[x].next = y
      PROVE  e[x].hash = e[y].hash /\ r[x] < r[y]
  <2>1. x # root /\ y # root
    BY <1>2, <1>3, <1>8, <1>9 DEF Mutual
  <2>2. CASE x = c[root].prev
    <3>1. c[root].next = y /\ c[x].next = root
      BY <1>2, <1>3, <1>6, <1>9, <2>1, <2>2
    <3>2. r[x] < r[root] /\ r[root] < r[y] /\ c[x].hash = c[root].hash /\ c[root].hash = c[y].hash
      BY <1>2, <1>6, <3>1
    <3>3. r[x] \in Nat /\ r[y] \in Nat /\ r[root] \in Nat
      BY <1>2
    <3>4. QED
      BY <1>3, <2>1, <3>2, <3>3
  <2>3. CASE x # c[root].prev
    BY <1>3, <1>6, <1>9, <2>1, <2>3
  <2>4. QED
    BY <2>2, <2>3
<1>10. SameBucket(e) /\ Acyclic(e)
  BY <1>5, <1>9 DEF SameBucket, Acyclic, Ranks
<1>11. \A b \in Bucket : T[b] # root
  BY <1>2, <1>4, <1>7 DEF Linked, Fronts
<1>12. Fronts(e, T)
  <2> SUFFICES ASSUME NEW b \in Bucket, T[b] \in Place PROVE e[T[b]].prev = 0 /\ e[T[b]].hash = b
    BY DEF Fronts
  <2>1. T[b] # root
    BY <1>11
  <2>2. CASE c[root].prev = 0 /\ b = c[root].hash
    <3>1. T[b] = c[root].next
      BY <1>4, <2>2
    <3>2. c[T[b]].hash = b
      BY <1>2, <1>6, <2>2, <3>1
    <3>3. QED
      BY <1>3, <2>1, <2>2, <3>1, <3>2
  <2>3. CASE ~(c[root].prev = 0 /\ b = c[root].hash)
    <3>1. T[b] = h[b]
      BY <1>4, <2>3
    <3>2. c[T[b]].prev = 0 /\ c[T[b]].hash = b
      BY <3>1 DEF Linked, Fronts
    <3>3. T[b] # c[root].next
      BY <1>2, <1>6, <3>2
    <3>4. QED
      BY <1>3, <2>1, <3>2, <3>3
  <2>4. QED
    BY <2>2, <2>3
<1>13. Fronted(e, T)
  <2> SUFFICES ASSUME NEW x \in Place, e[x].hash # 0, e[x].prev = 0 PROVE T[e[x].hash] = x
    BY DEF Fronted
  <2>1. x # root /\ e[x].hash = c[x].hash /\ c[x].hash \in Bucket
    BY <1>1, <1>3
  <2>2. CASE x = c[root].next
    <3>1. c[root].prev = 0 /\ c[x].hash = c[root].hash
      BY <1>2, <1>3, <1>6, <2>1, <2>2
    <3>2. QED
      BY <1>4, <2>1, <2>2, <3>1
  <2>3. CASE x # c[root].next
    <3>1. c[x].prev = 0
      BY <1>3, <2>1, <2>3
    <3>2. h[c[x].hash] = x
      BY <2>1, <3>1 DEF Linked, Fronted
    <3>3. ~(c[root].prev = 0 /\ c[x].hash = c[root].hash)
      BY <1>2, <2>1, <3>2 DEF Linked, Fronted
    <3>4. QED
      BY <1>4, <2>1, <3>2, <3>3
  <2>4. QED
    BY <2>2, <2>3
<1>14. QED
  BY <1>8, <1>10, <1>11, <1>12, <1>13 DEF Linked, e, T

(* The root at the front of the chain of bucket b.                         *)
LEMMA RootEnters ==
  ASSUME Setting, NEW e, NEW T, Linked(e, T), NEW b \in Bucket,
         \A a \in Bucket : T[a] # root,
         e[root].prev = 0, e[root].next = 0, T[b] \in Place \cup {0},
         \A x \in Place : e[x].prev \in Place \cup {0} /\ e[x].hash \in Bucket,
         NEW d, NEW k,
         d[root].prev = 0, d[root].next = T[b], d[root].hash = b,
         \A x \in Place \ {root} :
           /\ d[x].hash = e[x].hash /\ d[x].next = e[x].next
           /\ d[x].prev = IF x = T[b] THEN root ELSE e[x].prev,
         \A a \in Bucket : k[a] = IF a = b THEN root ELSE T[a]
  PROVE  Linked(d, k)
<1>1. root \in Place /\ 0 \notin Place
  BY SettingFacts
<1>2. PICK r \in [Place -> Nat] : Ranks(r, e)
  BY DEF Linked, Acyclic
<1>3. \A x, y \in Place : /\ e[x].next = y <=> e[y].prev = x
                          /\ e[x].next = y => e[x].hash = e[y].hash /\ r[x] < r[y]
  BY <1>2 DEF Linked, Mutual, SameBucket, Ranks
<1>4. T[b] \in Place => e[T[b]].prev = 0 /\ e[T[b]].hash = b
  BY DEF Linked, Fronts
<1>5. \A x \in Place : e[x].next # root /\ e[x].prev # root
  BY <1>1, <1>3
<1>6. Mutual(d)
  <2> SUFFICES ASSUME NEW x \in Place, NEW y \in Place PROVE d[x].next = y <=> d[y].prev = x
    BY DEF Mutual
  <2>1. CASE y = root
    BY <1>1, <1>5, <2>1
  <2>2. CASE x = root /\ y # root
    BY <1>1, <1>5, <2>2
  <2>3. CASE x # root /\ y # root
    BY <1>1, <1>3, <1>4, <2>3
  <2>4. QED
    BY <2>1, <2>2, <2>3
<1>7. SameBucket(d)
  <2> SUFFICES ASSUME NEW x \in Place, NEW y \in Place, d[x].next = y PROVE d[x].hash = d[y].hash
    BY DEF SameBucket
  <2>1. y # root
    BY <1>1, <1>5
  <2>2. QED
    BY <1>3, <1>4, <2>1
<1>8. Acyclic(d)
  <2> DEFINE s == [x \in Place |-> IF x = root THEN 0 ELSE r[x] + 1]
  <2>1. s \in [Place -> Nat]
    OBVIOUS
  <2>2. Ranks(s, d)
    <3> SUFFICES ASSUME NEW x \in Place, NEW y \in Place, d[x].next = y PROVE s[x] < s[y]
      BY DEF Ranks
    <3>1. y # root
      BY <1>1, <1>5
    <3>2. s[y] = r[y] + 1 /\ r[y] \in Nat
      BY <3>1
    <3>3. CASE x = root
      BY <3>2, <3>3
    <3>4. CASE x # root
      <4>1. s[x] = r[x] + 1 /\ r[x] \in Nat /\ r[x] < r[y]
        BY <1>3, <3>4
      <4>2. QED
        BY <3>2, <4>1
    <3>5. QED
      BY <3>3, <3>4
  <2>3. QED
    BY <2>1, <2>2 DEF Acyclic
<1>9. Fronts(d, k)
  <2> SUFFICES ASSUME NEW a \in Bucket, k[a] \in Place PROVE d[k[a]].prev = 0 /\ d[k[a]].hash = a
    BY DEF Fronts
  <2>1. CASE a = b
    BY <2>1
  <2>2. CASE a # b
    <3>1. k[a] = T[a] /\ e[T[a]].prev = 0 /\ e[T[a]].hash = a
      BY <2>2 DEF Linked, Fronts
    <3>2. T[a] # T[b]
      BY <1>4, <2>2, <3>1
    <3>3. QED
      BY <3>1, <3>2
  <2>3. QED
    BY <2>1, <2>2
<1>10. Fronted(d, k)
  <2> SUFFICES ASSUME NEW x \in Place, d[x].hash # 0, d[x].prev = 0 PROVE k[d[x].hash] = x
    BY DEF Fronted
  <2>1. CASE x = root
    BY <2>1
  <2>2. CASE x # root
    <3>1. x # T[b] /\ e[x].prev = 0 /\ e[x].hash # 0 /\ d[x].hash = e[x].hash
      BY <1>1, <2>2
    <3>2. T[e[x].hash] = x
      BY <3>1 DEF Linked, Fronted
    <3>3. QED
      BY <3>1, <3>2
  <2>3. QED
    BY <2>1, <2>2
<1>11. QED
  BY <1>6, <1>7, <1>8, <1>9, <1>10 DEF Linked
-----------------------------------------------------------------------------
(* The counters not in use under the steps.                                *)

(* Below a counter not in use there are none that are in use: what is      *)
(* sifted down can only meet one whose children are not in use either.     *)
LEMMA UnusedAbove ==
  ASSUME Setting, NEW c \in [Place -> Cell], NEW h, NEW t, Filled(c, h), Ordered(c, t),
         NEW q \in Place, NEW s \in Place, Child(q, s), q # t, Unused(c, s)
  PROVE  Unused(c, q)
<1>1. c[s].count = 0
  BY DEF Filled
<1>2. c[q].count <= 0 /\ c[q].count \in Nat
  BY <1>1, FieldTypes DEF Ordered
<1>3. QED
  BY <1>2 DEF Filled

LEMMA WithinFilled ==
  ASSUME Setting, NEW c \in [Place -> Cell], NEW d, NEW h, NEW p \in Place, NEW q \in Place,
         Child(p, q), c[p].hash = c[q].hash, Exchanged(c, d, p, q), LinksStay(c, d),
         Filled(c, h), Ordered(c, p), Sifted(c, h, p)
  PROVE  Filled(d, h) /\ Sifted(d, h, q)
<1>1. p < q /\ p # q /\ q # root /\ p # 0 /\ q # 0
  BY ChildFacts, SettingFacts DEF Place, root
<1>2. /\ d[p].item = c[q].item /\ d[p].hash = c[q].hash
      /\ d[p].count = c[q].count /\ d[p].delta = c[q].delta
      /\ d[q].item = c[p].item /\ d[q].hash = c[p].hash
      /\ d[q].count = c[p].count /\ d[q].delta = c[p].delta
      /\ \A x \in Place \ {p, q} :
           /\ d[x].item = c[x].item /\ d[x].hash = c[x].hash
           /\ d[x].count = c[x].count /\ d[x].delta = c[x].delta
  BY <1>1 DEF Exchanged, Other
<1>3. \A x \in Place : d[x].prev = c[x].prev /\ d[x].next = c[x].next
  BY DEF LinksStay
<1>4. ~Unused(c, p)
  BY <1>1 DEF Sifted
<1>5. Unused(c, q) => c[p].prev = 0 /\ (p # root => Loose(c, h, p))
  BY <1>1 DEF Sifted, Filled
<1>6. ASSUME NEW x \in Place
      PROVE  /\ Unused(d, x) <=> d[x].count = 0
             /\ ~Unused(d, x) => d[x].hash = hash[d[x].item]
             /\ Unused(d, x) => d[x].hash = 0 /\ d[x].delta = 0 /\ d[x].prev = 0
             /\ Unused(d, x) /\ x # root => Loose(d, h, x)
  <2>1. CASE x = p
    BY <1>2, <1>3, <1>5, <2>1 DEF Filled, Unused, Loose
  <2>2. CASE x = q
    BY <1>2, <1>3, <1>4, <2>2 DEF Filled, Unused, Loose
  <2>3. CASE x \notin {p, q}
    BY <1>2, <1>3, <2>3 DEF Filled, Unused, Loose
  <2>4. QED
    BY <2>1, <2>2, <2>3
<1>7. Filled(d, h)
  BY <1>6 DEF Filled
<1>8. ASSUME NEW s \in Place, Child(q, s), Unused(d, s), d[q].hash = 0
      PROVE  d[q].prev = 0 /\ (q # root => Loose(d, h, q))
  <2>1. q < s /\ s \notin {p, q}
    BY <1>1, <1>8, ChildFacts, SettingFacts
  <2>2. Unused(c, s)
    BY <1>2, <1>8, <2>1 DEF Unused
  <2>3. Unused(c, q)
    BY <1>1, <1>8, <2>2, UnusedAbove
  <2>4. c[q].prev = 0 /\ Loose(c, h, q)
    BY <1>1, <2>3 DEF Filled
  <2>5. QED
    BY <1>3, <2>4 DEF Loose
<1>9. Sifted(d, h, q)
  BY <1>1, <1>2, <1>4, <1>8 DEF Sifted, Unused
<1>10. QED
  BY <1>7, <1>9

LEMMA AcrossFilled ==
  ASSUME Setting, NEW c \in [Place -> Cell], NEW d, NEW h \in [Bucket -> Pointer], NEW k,
         NEW p \in Place, NEW q \in Place, Child(p, q), c[p].hash # c[q].hash,
         Linked(c, h), Exchanged(c, d, p, q), LinksFollow(c, d, p, q), Followed(c, h, k, p, q),
         Filled(c, h), Ordered(c, p), Sifted(c, h, p)
  PROVE  Filled(d, k) /\ Sifted(d, k, q)
<1>1. p < q /\ p # q /\ q # root /\ p # 0 /\ q # 0 /\ 0 \in Bucket
  BY ChildFacts, SettingFacts DEF Place, root
<1>2. /\ d[p].item = c[q].item /\ d[p].hash = c[q].hash
      /\ d[p].count = c[q].count /\ d[p].delta = c[q].delta
      /\ d[q].item = c[p].item /\ d[q].hash = c[p].hash
      /\ d[q].count = c[p].count /\ d[q].delta = c[p].delta
      /\ \A x \in Place \ {p, q} :
           /\ d[x].item = c[x].item /\ d[x].hash = c[x].hash
           /\ d[x].count = c[x].count /\ d[x].delta = c[x].delta
  BY <1>1 DEF Exchanged, Other
<1>3. \A x \in Place \ {p, q} :
        /\ c[x].prev = 0 => d[x].prev = 0
        /\ c[x].next = 0 => d[x].next = 0
  BY <1>1 DEF LinksFollow, Other
<1>4. /\ c[q].prev = 0 => d[p].prev = 0
      /\ c[q].next = 0 => d[p].next = 0
  BY <1>1 DEF LinksFollow, Other
<1>5. ~Unused(c, p)
  BY <1>1 DEF Sifted
<1>6. k[0] \in {p, q, h[0]} /\ (k[0] = q => c[p].hash = 0 \/ h[0] = q)
      /\ (k[0] = p => (c[q].hash = 0 /\ ~Unused(c, q)) \/ h[0] = p)
  BY <1>1 DEF Followed
<1>7. ASSUME NEW x \in Place, Unused(d, x)
      PROVE  /\ d[x].hash = 0 /\ d[x].delta = 0 /\ d[x].prev = 0
             /\ x # root => Loose(d, k, x)
  <2>1. CASE x = p
    <3>1. Unused(c, q) /\ c[q].hash = 0 /\ c[q].delta = 0 /\ Loose(c, h, q)
      BY <1>1, <1>2, <1>7, <2>1 DEF Filled, Unused
    <3>2. h[0] # p
      BY <1>1, <3>1 DEF Linked, Fronts
    <3>3. k[0] # p
      BY <1>6, <3>1, <3>2
    <3>4. QED
      BY <1>2, <1>4, <2>1, <3>1, <3>3 DEF Loose
  <2>2. CASE x = q
    BY <1>2, <1>5, <1>7, <2>2 DEF Unused
  <2>3. CASE x \notin {p, q}
    <3>1. Unused(c, x)
      BY <1>2, <1>7, <2>3 DEF Unused
    <3>2. c[x].hash = 0 /\ c[x].delta = 0 /\ c[x].prev = 0 /\ (x # root => Loose(c, h, x))
      BY <3>1 DEF Filled
    <3>3. QED
      BY <1>2, <1>3, <1>6, <2>3, <3>2 DEF Loose
  <2>4. QED
    BY <2>1, <2>2, <2>3
<1>8. ASSUME NEW x \in Place
      PROVE  /\ Unused(d, x) <=> d[x].count = 0
             /\ ~Unused(d, x) => d[x].hash = hash[d[x].item]
  BY <1>2 DEF Filled, Unused
<1>9. Filled(d, k)
  BY <1>7, <1>8 DEF Filled
<1>10. ASSUME NEW s \in Place, Child(q, s), Unused(d, s), d[q].hash = 0 PROVE FALSE
  <2>1. q < s /\ s \notin {p, q}
    BY <1>1, <1>10, ChildFacts, SettingFacts
  <2>2. Unused(c, s)
    BY <1>2, <1>10, <2>1 DEF Unused
  <2>3. Unused(c, q)
    BY <1>1, <1>10, <2>2, UnusedAbove
  <2>4. c[q].hash = 0
    BY <2>3 DEF Filled
  <2>5. QED
    BY <1>2, <1>10, <2>4
<1>11. Sifted(d, k, q)
  BY <1>1, <1>2, <1>5, <1>10 DEF Sifted, Unused
<1>12. QED
  BY <1>9, <1>11

(* What a hit does to the counters.                                        *)
Raised(c, d, t) ==
  \A x \in Place : /\ d[x].count = IF x = t THEN c[t].count + 1 ELSE c[x].count
                   /\ d[x].item = c[x].item /\ d[x].hash = c[x].hash
                   /\ d[x].delta = c[x].delta
                   /\ d[x].prev = c[x].prev /\ d[x].next = c[x].next

LEMMA RaisedFilled ==
  ASSUME Setting, NEW c \in [Place -> Cell], NEW d, NEW h, NEW t \in Place,
         Filled(c, h), Ordered(c, 0), ~Unused(c, t), Raised(c, d, t)
  PROVE  Filled(d, h) /\ Sifted(d, h, t)
<1>1. c[t].count \in Nat /\ t # 0
  BY FieldTypes, SettingFacts
<1>2. Filled(d, h)
  BY <1>1 DEF Filled, Unused, Loose, Raised
<1>3. ASSUME NEW s \in Place, Child(t, s), Unused(d, s) PROVE FALSE
  BY <1>1, <1>3, UnusedAbove DEF Unused, Raised
<1>4. ~Unused(d, t)
  BY DEF Unused, Raised
<1>5. QED
  BY <1>2, <1>3, <1>4 DEF Sifted

(* What an eviction does to the counters and the buckets.                  *)
Evicted(c, h, d, k, i) ==
  LET head == HeadsWithout(c, h)[hash[i]]
  IN  /\ d[root].item = i /\ d[root].hash = hash[i]
      /\ d[root].count = c[root].count + 1 /\ d[root].delta = c[root].count
      /\ d[root].prev = 0 /\ d[root].next = head
      /\ \A x \in Place \ {root} :
           /\ d[x].item = c[x].item /\ d[x].hash = c[x].hash
           /\ d[x].count = c[x].count /\ d[x].delta = c[x].delta
           /\ d[x].next = IF x = c[root].prev THEN c[root].next ELSE c[x].next
           /\ d[x].prev = IF x = head THEN root
                          ELSE IF x = c[root].next THEN c[root].prev ELSE c[x].prev
      /\ \A b \in Bucket : k[b] = IF b = hash[i] THEN root ELSE HeadsWithout(c, h)[b]

LEMMA EvictedLinked ==
  ASSUME Setting, NEW c \in [Place -> Cell], NEW h \in [Bucket -> Pointer], Linked(c, h),
         NEW i \in Item, NEW d, NEW k, Evicted(c, h, d, k, i)
  PROVE  Linked(d, k)
<1> DEFINE e == Without(c)
           T == HeadsWithout(c, h)
<1>1. Linked(e, T) /\ \A b \in Bucket : T[b] # root
  BY RootLeaves
<1>2. \A x \in Place : c[x].prev \in Place \cup {0} /\ c[x].next \in Place \cup {0}
                       /\ c[x].hash \in Bucket
  BY FieldTypes
<1>3. root \in Place /\ hash[i] \in Bucket /\ 0 \in Bucket
  BY SettingFacts
<1>4. /\ e[root].hash = 0 /\ e[root].prev = 0 /\ e[root].next = 0
      /\ \A x \in Place \ {root} :
           /\ e[x].hash = c[x].hash
           /\ e[x].prev = IF x = c[root].next THEN c[root].prev ELSE c[x].prev
           /\ e[x].next = IF x = c[root].prev THEN c[root].next ELSE c[x].next
  BY <1>3 DEF Without
<1>5. T[hash[i]] \in Place \cup {0}
  BY <1>2, <1>3, SettingFacts DEF HeadsWithout
<1>6. /\ d[root].hash = hash[i] /\ d[root].prev = 0 /\ d[root].next = T[hash[i]]
      /\ \A x \in Place \ {root} :
           /\ d[x].hash = c[x].hash
           /\ d[x].next = IF x = c[root].prev THEN c[root].next ELSE c[x].next
           /\ d[x].prev = IF x = T[hash[i]] THEN root
                          ELSE IF x = c[root].next THEN c[root].prev ELSE c[x].prev
      /\ \A b \in Bucket : k[b] = IF b = hash[i] THEN root ELSE T[b]
  BY Zenon DEF Evicted
<1> HIDE DEF e, T
<1>7. \A x \in Place : e[x].prev \in Place \cup {0} /\ e[x].hash \in Bucket
  BY <1>2, <1>3, <1>4
<1>8. \A x \in Place \ {root} :
        /\ d[x].hash = e[x].hash /\ d[x].next = e[x].next
        /\ d[x].prev = IF x = T[hash[i]] THEN root ELSE e[x].prev
  BY <1>4, <1>6
<1>9. QED
  BY <1>1, <1>3, <1>4, <1>5, <1>6, <1>7, <1>8, RootEnters

LEMMA EvictedFilled ==
  ASSUME Setting, NEW c \in [Place -> Cell], NEW h \in [Bucket -> Pointer], Linked(c, h),
         Filled(c, h), NEW i \in Item, NEW d, NEW k, Evicted(c, h, d, k, i)
  PROVE  Filled(d, k) /\ Sifted(d, k, root)
<1> DEFINE T == HeadsWithout(c, h)
<1>1. root \in Place /\ hash[i] \in Bucket /\ 0 \in Bucket /\ 0 \notin Place /\ i # NULLITEM
      /\ c[root].count \in Nat
  BY SettingFacts, FieldTypes
<1>2. /\ d[root].item = i /\ d[root].hash = hash[i] /\ d[root].count = c[root].count + 1
      /\ d[root].prev = 0
      /\ \A x \in Place \ {root} :
           /\ d[x].item = c[x].item /\ d[x].hash = c[x].hash
           /\ d[x].count = c[x].count /\ d[x].delta = c[x].delta
           /\ d[x].next = IF x = c[root].prev THEN c[root].next ELSE c[x].next
           /\ d[x].prev = IF x = T[hash[i]] THEN root
                          ELSE IF x = c[root].next THEN c[root].prev ELSE c[x].prev
      /\ \A b \in Bucket : k[b] = IF b = hash[i] THEN root ELSE T[b]
  BY Zenon DEF Evicted
<1>3. \A b \in Bucket : T[b] = c[root].next \/ T[b] = h[b]
  BY DEF HeadsWithout
<1> HIDE DEF T
<1>4. ~Unused(d, root) /\ d[root].count # 0
  BY <1>1, <1>2 DEF Unused
<1>5. ASSUME NEW x \in Place, x # root, Unused(c, x)
      PROVE  d[x].hash = 0 /\ d[x].delta = 0 /\ d[x].prev = 0 /\ Loose(d, k, x)
  <2>1. c[x].hash = 0 /\ c[x].delta = 0 /\ Loose(c, h, x)
    BY <1>5 DEF Filled
  <2>2. x # c[root].prev /\ x # c[root].next
    BY <1>1, <2>1 DEF Linked, Mutual, Loose
  <2>3. \A b \in Bucket : h[b] # x
    BY <2>1 DEF Linked, Fronts, Loose
  <2>4. x # T[hash[i]] /\ x # T[0]
    BY <1>1, <1>3, <2>2, <2>3
  <2>5. QED
    BY <1>1, <1>2, <1>5, <2>1, <2>2, <2>4 DEF Loose
<1>6. \A x \in Place \ {root} : Unused(d, x) <=> Unused(c, x)
  BY <1>2 DEF Unused
<1>7. Filled(d, k)
  <2> SUFFICES ASSUME NEW x \in Place
               PROVE  /\ Unused(d, x) <=> d[x].count = 0
                      /\ ~Unused(d, x) => d[x].hash = hash[d[x].item]
                      /\ Unused(d, x) => d[x].hash = 0 /\ d[x].delta = 0 /\ d[x].prev = 0
                      /\ Unused(d, x) /\ x # root => Loose(d, k, x)
    BY DEF Filled
  <2>1. CASE x = root
    BY <1>2, <1>4, <2>1
  <2>2. CASE x # root
    BY <1>2, <1>5, <1>6, <2>2 DEF Filled
  <2>3. QED
    BY <2>1, <2>2
<1>8. Sifted(d, k, root)
  BY <1>2, <1>4 DEF Sifted
<1>9. QED
  BY <1>7, <1>8

-----------------------------------------------------------------------------
(* The counts under the steps.                                             *)

LEMMA CountsType ==
  ASSUME Setting, NEW c \in [Place -> Cell]
  PROVE  Counts(c) \in [Place -> Nat] /\ Counts(c) \in [Place -> Int] /\ Total(c) \in Int
<1>1. Counts(c) \in [Place -> Nat]
  BY FieldTypes DEF Counts
<1>2. Counts(c) \in [Place -> Int]
  BY <1>1
<1>3. QED
  BY <1>1, <1>2, SumType, SettingFacts DEF Total

LEMMA RaisedTotal ==
  ASSUME Setting, NEW c \in [Place -> Cell], NEW d \in [Place -> Cell], NEW t \in Place,
         \A x \in Place : d[x].count = IF x = t THEN c[t].count + 1 ELSE c[x].count
  PROVE  Total(d) = Total(c) + 1
<1> DEFINE f == Counts(c)
           g == Counts(d)
           R == Place \ {t}
           u == [x \in R |-> f[x]]
<1>1. f \in [Place -> Int] /\ g \in [Place -> Int] /\ IsFiniteSet(Place)
  BY CountsType, SettingFacts
<1>2. g[t] = f[t] + 1 /\ \A x \in R : g[x] = f[x]
  BY DEF Counts
<1> HIDE DEF f, g
<1>3. u \in [R -> Int] /\ \A x \in R : f[x] = u[x] /\ g[x] = u[x]
  BY <1>1, <1>2
<1> HIDE DEF u
<1>4. SumFunctionOnSet(f, Place) = f[t] + SumFunctionOnSet(u, R)
  BY <1>1, <1>3, SumWithout
<1>5. SumFunctionOnSet(g, Place) = g[t] + SumFunctionOnSet(u, R)
  BY <1>1, <1>3, SumWithout
<1>6. IsFiniteSet(R)
  BY <1>1, FS_RemoveElement
<1>7. SumFunctionOnSet(u, R) \in Int
  BY <1>3, <1>6, SumType
<1>8. QED
  BY <1>1, <1>2, <1>4, <1>5, <1>7 DEF Total, f, g

LEMMA SwappedTotal ==
  ASSUME Setting, NEW c \in [Place -> Cell], NEW d \in [Place -> Cell],
         NEW p \in Place, NEW q \in Place, p # q, Exchanged(c, d, p, q)
  PROVE  Total(d) = Total(c)
<1> DEFINE f == Counts(c)
           g == Counts(d)
           R == Place \ {p}
           S == R \ {q}
           fr == [x \in R |-> f[x]]
           gr == [x \in R |-> g[x]]
           u == [x \in S |-> f[x]]
<1>1. f \in [Place -> Int] /\ g \in [Place -> Int] /\ IsFiniteSet(Place)
  BY CountsType, SettingFacts
<1>2. g[p] = f[q] /\ g[q] = f[p] /\ \A x \in S : g[x] = f[x]
  BY DEF Counts, Exchanged, Other
<1> HIDE DEF f, g
<1>3. /\ fr \in [R -> Int] /\ \A x \in R : f[x] = fr[x]
      /\ gr \in [R -> Int] /\ \A x \in R : g[x] = gr[x]
      /\ q \in R /\ fr[q] = f[q] /\ gr[q] = g[q]
  BY <1>1
<1>4. u \in [S -> Int] /\ \A x \in S : fr[x] = u[x] /\ gr[x] = u[x]
  BY <1>1, <1>2
<1>5. IsFiniteSet(R) /\ IsFiniteSet(S)
  <2>1. IsFiniteSet(R)
    BY <1>1, FS_RemoveElement
  <2>2. QED
    BY <2>1, FS_RemoveElement
<1> HIDE DEF fr, gr, u, S
<1>6. SumFunctionOnSet(f, Place) = f[p] + SumFunctionOnSet(fr, R)
  BY <1>1, <1>3, SumWithout
<1>7. SumFunctionOnSet(g, Place) = g[p] + SumFunctionOnSet(gr, R)
  BY <1>1, <1>3, SumWithout
<1> HIDE DEF R
<1>8. SumFunctionOnSet(fr, R) = fr[q] + SumFunctionOnSet(u, S)
  BY <1>3, <1>4, <1>5, SumWithout DEF S
<1>9. SumFunctionOnSet(gr, R) = gr[q] + SumFunctionOnSet(u, S)
  BY <1>3, <1>4, <1>5, SumWithout DEF S
<1>10. SumFunctionOnSet(u, S) \in Int
  BY <1>4, <1>5, SumType
<1>11. QED
  BY <1>1, <1>2, <1>3, <1>6, <1>7, <1>8, <1>9, <1>10 DEF Total, f, g

(* Two counters that exchange their places estimate what they did.         *)
LEMMA SwappedEstimates ==
  ASSUME NEW c, NEW d, NEW f, NEW p \in Place, NEW q \in Place, p # q,
         Exchanged(c, d, p, q), Distinct(c), Estimates(c, f)
  PROVE  Distinct(d) /\ Estimates(d, f)
<1> DEFINE O(x) == Other(p, q, x)
<1>1. \A x \in Place : O(x) \in Place /\ O(O(x)) = x
  BY DEF Other
<1>2. \A x \in Place : /\ d[x].item = c[O(x)].item /\ d[x].count = c[O(x)].count
                       /\ d[x].delta = c[O(x)].delta
  BY DEF Exchanged
<1> HIDE DEF O
<1>3. Distinct(d)
  BY <1>1, <1>2 DEF Distinct
<1>4. \A i : Absent(d, i) => Absent(c, i)
  BY <1>1, <1>2 DEF Absent
<1>5. Estimates(d, f)
  BY <1>1, <1>2, <1>4 DEF Estimates
<1>6. QED
  BY <1>3, <1>5

(* What a put adds to how often its item was put.                          *)
Counted(f, g, i) == \A a \in Item : g[a] = IF a = i THEN f[a] + 1 ELSE f[a]

(* A hit raises the count of its item and the estimate alike.              *)
LEMMA RaisedEstimates ==
  ASSUME Setting, NEW c \in [Place -> Cell], NEW d, NEW f \in [Item -> Nat], NEW g,
         NEW i \in Item, NEW t \in Place, c[t].item = i, Distinct(c), Estimates(c, f),
         Counted(f, g, i),
         Raised(c, d, t)
  PROVE  Distinct(d) /\ Estimates(d, g)
<1>1. \A x \in Place : c[x].count \in Nat /\ c[x].delta \in Nat
  BY FieldTypes
<1>2. Distinct(d)
  BY DEF Distinct, Raised
<1>3. \A a : Absent(d, a) <=> Absent(c, a)
  BY DEF Absent, Raised
<1> USE DEF Raised, Counted
<1>4. ASSUME NEW a \in Sound, NEW p \in Place
      PROVE  /\ d[p].item = a => g[a] <= d[p].count /\ d[p].count <= g[a] + d[p].delta
             /\ Absent(d, a) => g[a] <= d[p].count
  <2>1. a \in Item /\ f[a] \in Nat
    BY DEF Sound
  <2>2. /\ c[p].item = a => f[a] <= c[p].count /\ c[p].count <= f[a] + c[p].delta
        /\ Absent(c, a) => f[a] <= c[p].count
    BY DEF Estimates
  <2>3. CASE a = i
    <3>1. g[a] = f[a] + 1 /\ ~Absent(c, a)
      BY <2>1, <2>3 DEF Absent
    <3>2. c[p].item = a => p = t
      BY <2>3 DEF Distinct
    <3>3. QED
      BY <1>1, <1>3, <2>1, <2>2, <3>1, <3>2
  <2>4. CASE a # i
    <3>1. g[a] = f[a]
      BY <2>1, <2>4
    <3>2. CASE p = t
      <4>1. d[p].item # a /\ d[p].count = c[p].count + 1
        BY <2>4, <3>2
      <4>2. QED
        BY <1>1, <1>3, <2>1, <2>2, <3>1, <4>1
    <3>3. CASE p # t
      <4>1. d[p].item = c[p].item /\ d[p].count = c[p].count /\ d[p].delta = c[p].delta
        BY <3>3
      <4>2. QED
        BY <1>3, <2>2, <3>1, <4>1
    <3>4. QED
      BY <3>2, <3>3
  <2>5. QED
    BY <2>3, <2>4
<1>5. Estimates(d, g)
  BY <1>4 DEF Estimates
<1>6. QED
  BY <1>2, <1>5

(* An eviction forgets the counter with the least count: what its item was *)
(* put is no more than every other count.                                  *)
LEMMA EvictedEstimates ==
  ASSUME Setting, NEW c \in [Place -> Cell], NEW h, NEW d, NEW k, NEW f \in [Item -> Nat], NEW g,
         NEW i \in Item, i \in Sound => Absent(c, i), Distinct(c), Estimates(c, f),
         Ordered(c, 0), Evicted(c, h, d, k, i), Counted(f, g, i)
  PROVE  Distinct(d) /\ Estimates(d, g)
<1>1. \A x \in Place : c[x].count \in Nat /\ c[x].delta \in Nat /\ c[root].count <= c[x].count
  BY FieldTypes, RootLeast
<1>2. /\ root \in Place
      /\ d[root].item = i /\ d[root].count = c[root].count + 1 /\ d[root].delta = c[root].count
      /\ \A x \in Place \ {root} : /\ d[x].item = c[x].item /\ d[x].count = c[x].count
                                   /\ d[x].delta = c[x].delta
  BY SettingFacts DEF Evicted
<1>3. Distinct(d)
  <2> SUFFICES ASSUME NEW p \in Place, NEW q \in Place, d[p].item = d[q].item, d[p].item \in Sound
               PROVE  p = q
    BY DEF Distinct
  <2>1. CASE p = root
    BY <1>2, <2>1 DEF Absent
  <2>2. CASE q = root
    BY <1>2, <2>2 DEF Absent
  <2>3. CASE p # root /\ q # root
    BY <1>2, <2>3 DEF Distinct
  <2>4. QED
    BY <2>1, <2>2, <2>3
<1> USE DEF Counted
<1>4. ASSUME NEW a \in Sound, NEW p \in Place
      PROVE  /\ d[p].item = a => g[a] <= d[p].count /\ d[p].count <= g[a] + d[p].delta
             /\ Absent(d, a) => g[a] <= d[p].count
  <2>1. a \in Item /\ f[a] \in Nat
    BY DEF Sound
  <2>2. \A x \in Place :
          /\ c[x].item = a => f[a] <= c[x].count /\ c[x].count <= f[a] + c[x].delta
          /\ Absent(c, a) => f[a] <= c[x].count
    BY DEF Estimates
  <2>3. CASE a = i
    <3>1. g[a] = f[a] + 1 /\ ~Absent(d, a) /\ f[a] <= c[root].count
      BY <1>2, <2>1, <2>2, <2>3 DEF Absent
    <3>2. d[p].item = a => p = root
      BY <1>2, <2>3 DEF Absent
    <3>3. QED
      BY <1>1, <1>2, <2>1, <3>1, <3>2
  <2>4. CASE a # i
    <3>1. g[a] = f[a]
      BY <2>1, <2>4
    <3>2. ASSUME d[p].item = a PROVE g[a] <= d[p].count /\ d[p].count <= g[a] + d[p].delta
      <4>1. p # root
        BY <1>2, <2>4, <3>2
      <4>2. QED
        BY <1>2, <2>2, <3>1, <3>2, <4>1
    <3>3. ASSUME Absent(d, a) PROVE g[a] <= d[p].count
      <4>1. f[a] <= c[root].count
        <5>1. CASE Absent(c, a)
          BY <1>2, <2>2, <5>1
        <5>2. CASE ~Absent(c, a)
          <6>1. PICK x \in Place : c[x].item = a
            BY <5>2 DEF Absent
          <6>2. x = root
            BY <1>2, <3>3, <6>1 DEF Absent
          <6>3. QED
            BY <2>2, <6>1, <6>2
        <5>3. QED
          BY <5>1, <5>2
      <4>2. c[root].count \in Nat /\ c[p].count \in Nat /\ c[root].count <= c[p].count
        BY <1>1, <1>2
      <4>3. d[p].count = c[p].count \/ d[p].count = c[root].count + 1
        BY <1>2
      <4>4. QED
        BY <2>1, <3>1, <4>1, <4>2, <4>3
    <3>4. QED
      BY <3>2, <3>3
  <2>5. QED
    BY <2>3, <2>4
<1>5. Estimates(d, g)
  BY <1>4 DEF Estimates
<1>6. QED
  BY <1>3, <1>5
-----------------------------------------------------------------------------
(* The steps.                                                              *)

LEMMA InvInit == Setting /\ Init => IInv
<1> SUFFICES ASSUME Setting, Init PROVE IInv
  OBVIOUS
<1> DEFINE new == [item |-> NULLITEM, hash |-> 0, count |-> 0, delta |-> 0, prev |-> 0, next |-> 0]
<1>1. /\ counters = [p \in Place |-> new] /\ hashtable = [b \in Bucket |-> 0]
      /\ n = 0 /\ ptr = 0 /\ freq = [i \in Item |-> 0]
  BY DEF Init, InitCounting
<1>2. new \in Cell
  BY SettingFacts DEF Cell
<1>3. TypeOK
  BY <1>1, <1>2, SettingFacts DEF TypeOK
<1>4. \A p \in Place : /\ counters[p].item = NULLITEM /\ counters[p].hash = 0
                       /\ counters[p].count = 0 /\ counters[p].delta = 0
                       /\ counters[p].prev = 0 /\ counters[p].next = 0
  BY <1>1
<1>5. Bounded
  BY <1>1, <1>3, <1>4, SettingFacts DEF Bounded
<1>6. Linked(counters, hashtable)
  <2>1. Mutual(counters) /\ SameBucket(counters)
    BY <1>4, SettingFacts DEF Mutual, SameBucket
  <2>2. Acyclic(counters)
    <3>1. [p \in Place |-> 0] \in [Place -> Nat] /\ Ranks([p \in Place |-> 0], counters)
      BY <1>4, SettingFacts DEF Ranks
    <3>2. QED
      BY <3>1 DEF Acyclic
  <2>3. Fronts(counters, hashtable) /\ Fronted(counters, hashtable)
    BY <1>1, <1>4, SettingFacts DEF Fronts, Fronted
  <2>4. QED
    BY <2>1, <2>2, <2>3 DEF Linked
<1>7. Filled(counters, hashtable)
  BY <1>1, <1>4, SettingFacts DEF Filled, Unused, Loose
<1>8. Ordered(counters, ptr)
  BY <1>1, <1>4, SettingFacts DEF Ordered
<1>9. Sifted(counters, hashtable, ptr)
  BY <1>1 DEF Sifted
<1>10. Distinct(counters) /\ Estimates(counters, freq)
  BY <1>1, <1>4, SettingFacts DEF Distinct, Estimates, Absent, Sound
<1>11. Total(counters) = n
  <2>1. Counts(counters) = [p \in Place |-> 0]
    BY <1>4 DEF Counts
  <2>2. SumFunctionOnSet([p \in Place |-> 0], Place) = 0
    <3>1. [p \in Place |-> 0] \in [Place -> Int]
      OBVIOUS
    <3>2. QED
      BY <3>1, NothingAddsUp, SettingFacts
  <2>3. QED
    BY <1>1, <2>1, <2>2 DEF Total
<1>12. QED
  BY <1>5, <1>6, <1>7, <1>8, <1>9, <1>10, <1>11 DEF IInv

(* What a put adds to the stream.                                          *)
LEMMA TallyIs ==
  ASSUME Setting, TypeOK, NEW i \in Item, Tally(i)
  PROVE  /\ ptr = 0 /\ n' = n + 1 /\ n' \in 0..kMaxPuts /\ n \in Nat
         /\ freq \in [Item -> Nat] /\ freq' = [freq EXCEPT ![i] = @ + 1]
         /\ Counted(freq, freq', i)
<1>1. n \in Nat /\ n < kMaxPuts /\ kMaxPuts \in Nat
  BY SettingFacts DEF TypeOK, Tally
<1>2. freq \in [Item -> Nat]
  BY SettingFacts DEF TypeOK
<1>3. QED
  BY <1>1, <1>2 DEF Tally, Counted

LEMMA TallyBounded ==
  ASSUME Setting, Bounded, NEW i \in Item, Tally(i),
         counters' \in [Place -> Cell], hashtable' \in [Bucket -> Pointer], ptr' \in Pointer,
         \A p \in Place : counters'[p].count <= n + 1 /\ counters'[p].delta <= n + 1
  PROVE  Bounded'
<1>1. /\ n' = n + 1 /\ n' \in 0..kMaxPuts /\ n \in Nat
      /\ freq \in [Item -> Nat] /\ freq' = [freq EXCEPT ![i] = @ + 1]
  BY TallyIs DEF Bounded
<1>2. \A a \in Item : freq[a] <= n
  BY DEF Bounded
<1>3. \A a \in Item : freq'[a] \in Nat /\ freq'[a] <= n + 1
  BY <1>1, <1>2
<1>4. freq' \in [Item -> 0..kMaxPuts]
  <2>1. freq' \in [Item -> Nat]
    BY <1>1
  <2>2. \A a \in Item : freq'[a] \in 0..kMaxPuts
    BY <1>1, <1>3, SettingFacts
  <2>3. QED
    BY <2>1, <2>2
<1>5. TypeOK'
  BY <1>1, <1>4 DEF TypeOK
<1>6. QED
  BY <1>1, <1>3, <1>5 DEF Bounded

LEMMA HitIs ==
  ASSUME Setting, Bounded, NEW i \in Item, Hit(i)
  PROVE  /\ find(i) \in Place /\ counters[find(i)].item = i /\ ptr' = find(i)
         /\ counters' \in [Place -> Cell] /\ hashtable' = hashtable
         /\ Raised(counters, counters', find(i))
<1> DEFINE t == find(i)
           new == [counters[t] EXCEPT !.count = @ + 1]
<1>1. TypeOK /\ counters \in [Place -> Cell]
  BY DEF Bounded, TypeOK
<1>2. t \in Place /\ counters[t].item = i
  BY <1>1, FindIs DEF Hit
<1>3. ptr' = t /\ hashtable' = hashtable /\ counters' = [counters EXCEPT ![t] = new]
  BY DEF Hit
<1> HIDE DEF t
<1>4. counters[t].count + 1 \in 0..kMaxPuts
  <2>1. Tally(i)
    BY DEF Hit
  <2>2. n \in Nat /\ n + 1 \in 0..kMaxPuts
    BY <1>1, <2>1, TallyIs
  <2>3. counters[t].count \in Nat /\ counters[t].count <= n
    BY <1>1, <1>2, FieldTypes DEF Bounded
  <2>4. QED
    BY <2>2, <2>3, SettingFacts
<1>5. counters[t] \in Cell
  BY <1>1, <1>2
<1>6. /\ new \in Cell
      /\ new.count = counters[t].count + 1
      /\ new.item = counters[t].item /\ new.hash = counters[t].hash
      /\ new.delta = counters[t].delta
      /\ new.prev = counters[t].prev /\ new.next = counters[t].next
  BY <1>4, <1>5 DEF Cell
<1> HIDE DEF new
<1>7. /\ counters' \in [Place -> Cell] /\ counters'[t] = new
      /\ \A x \in Place \ {t} : counters'[x] = counters[x]
  BY <1>1, <1>2, <1>3, <1>6
<1>8. QED
  BY <1>2, <1>3, <1>6, <1>7 DEF t, Raised

LEMMA InvHit ==
  ASSUME Setting, IInv, NEW i \in Item, Hit(i)
  PROVE  IInv'
<1> DEFINE t == find(i)
<1>1. Bounded /\ TypeOK /\ counters \in [Place -> Cell] /\ Tally(i)
  BY DEF IInv, Bounded, TypeOK, Hit
<1>2. /\ t \in Place /\ counters[t].item = i /\ ptr' = t
      /\ counters' \in [Place -> Cell] /\ hashtable' = hashtable
      /\ Raised(counters, counters', t)
  BY <1>1, HitIs
<1>3. /\ ptr = 0 /\ n' = n + 1 /\ n' \in 0..kMaxPuts /\ n \in Nat
      /\ freq \in [Item -> Nat] /\ Counted(freq, freq', i)
  BY <1>1, TallyIs
<1> HIDE DEF t
<1>4. \A x \in Place : counters[x].count \in Nat /\ counters[x].count <= n
                       /\ counters[x].delta \in Nat /\ counters[x].delta <= n
  BY <1>1, FieldTypes DEF Bounded
<1>5. Bounded'
  <2>1. \A x \in Place : counters'[x].count <= n + 1 /\ counters'[x].delta <= n + 1
    BY <1>2, <1>3, <1>4 DEF Raised
  <2>2. hashtable' \in [Bucket -> Pointer] /\ ptr' \in Pointer
    BY <1>1, <1>2, SettingFacts DEF TypeOK
  <2>3. QED
    BY <1>1, <1>2, <2>1, <2>2, TallyBounded
<1>6. Linked(counters', hashtable')
  <2>1. Linked(counters, hashtable)
    BY DEF IInv
  <2>2. QED
    BY <1>2, <2>1, LinksKept DEF Raised
<1>7. Filled(counters', hashtable') /\ Sifted(counters', hashtable', ptr')
  <2>1. ~Unused(counters, t)
    BY <1>2, SettingFacts DEF Unused
  <2>2. Filled(counters, hashtable) /\ Ordered(counters, 0)
    BY <1>3 DEF IInv
  <2>3. QED
    BY <1>1, <1>2, <2>1, <2>2, RaisedFilled
<1>8. Ordered(counters', ptr')
  <2>1. Ordered(counters, 0)
    BY <1>3 DEF IInv
  <2>2. QED
    BY <1>1, <1>2, <2>1, RaisedOrdered DEF Raised
<1>9. Distinct(counters') /\ Estimates(counters', freq')
  <2>1. Distinct(counters) /\ Estimates(counters, freq)
    BY DEF IInv
  <2>2. QED
    BY <1>1, <1>2, <1>3, <2>1, RaisedEstimates
<1>10. Total(counters') = n'
  <2>1. Total(counters') = Total(counters) + 1
    BY <1>1, <1>2, RaisedTotal DEF Raised
  <2>2. QED
    BY <1>3, <2>1 DEF IInv
<1>11. QED
  BY <1>5, <1>6, <1>7, <1>8, <1>9, <1>10 DEF IInv

LEMMA EvictIs ==
  ASSUME Setting, Bounded, NEW i \in Item, Evict(i)
  PROVE  /\ counters' \in [Place -> Cell] /\ hashtable' \in [Bucket -> Pointer] /\ ptr' = root
         /\ Evicted(counters, hashtable, counters', hashtable', i)
<1> DEFINE T == TableWithoutRoot
           H == HeadsWithout(counters, hashtable)
           W == CountersWithoutRoot
           head == T[hash[i]]
           new == [item |-> i, hash |-> hash[i], delta |-> counters[root].count,
                   count |-> counters[root].count + 1, prev |-> 0, next |-> head]
<1>1. /\ TypeOK /\ counters \in [Place -> Cell] /\ hashtable \in [Bucket -> Pointer]
      /\ Tally(i)
  BY DEF Bounded, TypeOK, Evict, EvictInto
<1>2. /\ root \in Place /\ 0 \in Pointer /\ root \in Pointer /\ hash[i] \in Bucket
      /\ Pointer = Place \cup {0}
  BY SettingFacts
<1>3. /\ counters[root].hash \in Bucket /\ counters[root].prev \in Pointer
      /\ counters[root].next \in Pointer
  BY <1>1, <1>2, FieldTypes
<1>4. T \in [Bucket -> Pointer] /\ \A b \in Bucket : T[b] = H[b]
  BY <1>1, <1>3 DEF TableWithoutRoot, HeadsWithout
<1>5. ASSUME NEW x \in Place
      PROVE  /\ W[x] \in Cell
             /\ W[x].item = counters[x].item /\ W[x].hash = counters[x].hash
             /\ W[x].count = counters[x].count /\ W[x].delta = counters[x].delta
             /\ W[x].next = IF x = counters[root].prev THEN counters[root].next
                            ELSE counters[x].next
             /\ W[x].prev = IF x = counters[root].next THEN counters[root].prev
                            ELSE counters[x].prev
  <2>1. counters[x] \in Cell
    BY <1>1
  <2>2. W[x] = [counters[x] EXCEPT
                 !.next = IF x = counters[root].prev THEN counters[root].next ELSE @,
                 !.prev = IF x = counters[root].next THEN counters[root].prev ELSE @]
    BY DEF CountersWithoutRoot
  <2> HIDE DEF W
  <2>3. QED
    BY <1>3, <2>1, <2>2 DEF Cell
<1>6. /\ counters' = [p \in Place |->
           IF p = root THEN new
           ELSE IF p = head THEN [W[p] EXCEPT !.prev = root] ELSE W[p]]
      /\ hashtable' = [T EXCEPT ![hash[i]] = root]
      /\ ptr' = root
  BY DEF Evict, EvictInto
<1>7. counters[root].count + 1 \in 0..kMaxPuts /\ counters[root].count \in 0..kMaxPuts
  <2>1. n \in Nat /\ n + 1 \in 0..kMaxPuts
    BY <1>1, TallyIs
  <2>2. counters[root].count \in Nat /\ counters[root].count <= n
    BY <1>1, <1>2, FieldTypes DEF Bounded
  <2>3. QED
    BY <2>1, <2>2, SettingFacts
<1> HIDE DEF T, W, H
<1>8. head \in Pointer
  BY <1>2, <1>4
<1>9. /\ new \in Cell /\ new.item = i /\ new.hash = hash[i]
      /\ new.count = counters[root].count + 1 /\ new.delta = counters[root].count
      /\ new.prev = 0 /\ new.next = head
  BY <1>2, <1>7, <1>8 DEF Cell
<1>10. ASSUME NEW x \in Place
       PROVE  /\ [W[x] EXCEPT !.prev = root] \in Cell
              /\ [W[x] EXCEPT !.prev = root].item = W[x].item
              /\ [W[x] EXCEPT !.prev = root].hash = W[x].hash
              /\ [W[x] EXCEPT !.prev = root].count = W[x].count
              /\ [W[x] EXCEPT !.prev = root].delta = W[x].delta
              /\ [W[x] EXCEPT !.prev = root].next = W[x].next
              /\ [W[x] EXCEPT !.prev = root].prev = root
  <2>1. W[x] \in Cell
    BY <1>5
  <2>2. QED
    BY <1>2, <2>1 DEF Cell
<1> HIDE DEF new, head
<1> DEFINE moved(x) == [W[x] EXCEPT !.prev = root]
<1>11. /\ counters' = [p \in Place |-> IF p = root THEN new ELSE IF p = head THEN moved(p) ELSE W[p]]
       /\ \A x \in Place :
            /\ moved(x) \in Cell /\ moved(x).item = W[x].item /\ moved(x).hash = W[x].hash
            /\ moved(x).count = W[x].count /\ moved(x).delta = W[x].delta
            /\ moved(x).next = W[x].next /\ moved(x).prev = root
  BY <1>6, <1>10
<1> HIDE DEF moved
<1>12. counters' \in [Place -> Cell]
  BY <1>5, <1>9, <1>11
<1>13. counters'[root] = new
  BY <1>2, <1>11
<1>14. ASSUME NEW x \in Place \ {root}
       PROVE  /\ counters'[x].item = counters[x].item /\ counters'[x].hash = counters[x].hash
              /\ counters'[x].count = counters[x].count /\ counters'[x].delta = counters[x].delta
              /\ counters'[x].next = IF x = counters[root].prev THEN counters[root].next
                                     ELSE counters[x].next
              /\ counters'[x].prev = IF x = head THEN root
                                     ELSE IF x = counters[root].next THEN counters[root].prev
                                     ELSE counters[x].prev
  <2>1. CASE x = head
    <3>1. counters'[x] = moved(x)
      BY <1>11, <2>1
    <3>2. QED
      BY <1>5, <1>11, <2>1, <3>1
  <2>2. CASE x # head
    <3>1. counters'[x] = W[x]
      BY <1>11, <2>2
    <3>2. QED
      BY <1>5, <2>2, <3>1
  <2>3. QED
    BY <2>1, <2>2
<1>15. head = H[hash[i]]
  BY <1>2, <1>4 DEF head
<1>16. hashtable' \in [Bucket -> Pointer]
       /\ \A b \in Bucket : hashtable'[b] = IF b = hash[i] THEN root ELSE H[b]
  BY <1>2, <1>4, <1>6
<1>17. Evicted(counters, hashtable, counters', hashtable', i)
  BY <1>9, <1>13, <1>14, <1>15, <1>16 DEF Evicted, H
<1>18. QED
  BY <1>6, <1>12, <1>16, <1>17

LEMMA InvEvict ==
  ASSUME Setting, IInv, NEW i \in Item, Evict(i)
  PROVE  IInv'
<1>1. /\ Bounded /\ TypeOK /\ counters \in [Place -> Cell] /\ hashtable \in [Bucket -> Pointer]
      /\ Tally(i) /\ find(i) = 0
      /\ Linked(counters, hashtable) /\ Filled(counters, hashtable)
      /\ Distinct(counters) /\ Estimates(counters, freq) /\ Total(counters) = n
  BY DEF IInv, Bounded, TypeOK, Evict, EvictInto
<1>2. /\ counters' \in [Place -> Cell] /\ hashtable' \in [Bucket -> Pointer] /\ ptr' = root
      /\ Evicted(counters, hashtable, counters', hashtable', i)
  BY <1>1, EvictIs
<1>3. /\ ptr = 0 /\ n' = n + 1 /\ n' \in 0..kMaxPuts /\ n \in Nat
      /\ freq \in [Item -> Nat] /\ Counted(freq, freq', i)
  BY <1>1, TallyIs
<1>4. Ordered(counters, 0)
  BY <1>3 DEF IInv
<1>5. /\ root \in Place /\ counters'[root].count = counters[root].count + 1
      /\ counters'[root].delta = counters[root].count
      /\ \A x \in Place \ {root} : /\ counters'[x].count = counters[x].count
                                   /\ counters'[x].delta = counters[x].delta
  BY <1>2, SettingFacts DEF Evicted
<1>6. \A x \in Place : counters'[x].count = IF x = root THEN counters[root].count + 1
                                            ELSE counters[x].count
  BY <1>5
<1>7. \A x \in Place : counters[x].count \in Nat /\ counters[x].count <= n
                       /\ counters[x].delta \in Nat /\ counters[x].delta <= n
  BY <1>1, FieldTypes DEF Bounded
<1>8. Bounded'
  <2>1. \A x \in Place : counters'[x].count <= n + 1 /\ counters'[x].delta <= n + 1
    BY <1>3, <1>5, <1>7
  <2>2. ptr' \in Pointer
    BY <1>2, SettingFacts
  <2>3. QED
    BY <1>1, <1>2, <2>1, <2>2, TallyBounded
<1>9. Linked(counters', hashtable')
  BY <1>1, <1>2, EvictedLinked
<1>10. Filled(counters', hashtable') /\ Sifted(counters', hashtable', ptr')
  BY <1>1, <1>2, EvictedFilled
<1>11. Ordered(counters', ptr')
  BY <1>1, <1>2, <1>4, <1>5, <1>6, RaisedOrdered
<1>12. Distinct(counters') /\ Estimates(counters', freq')
  <2>1. i \in Sound => Absent(counters, i)
    <3>1. FoundWhereItIs
      BY <1>1, SoundIsFound
    <3>2. QED
      BY <1>1, <3>1, SettingFacts DEF FoundWhereItIs, Absent
  <2>2. QED
    BY <1>1, <1>2, <1>3, <1>4, <2>1, EvictedEstimates
<1>13. Total(counters') = n'
  <2>1. Total(counters') = Total(counters) + 1
    BY <1>1, <1>2, <1>5, <1>6, RaisedTotal
  <2>2. QED
    BY <1>1, <1>3, <2>1
<1>14. QED
  BY <1>8, <1>9, <1>10, <1>11, <1>12, <1>13 DEF IInv

LEMMA InvSiftDone ==
  ASSUME Setting, IInv, SiftDone
  PROVE  IInv'
<1>1. /\ ptr # 0 /\ AtRest /\ ptr' = 0
      /\ UNCHANGED <<counters, hashtable, n, freq>>
  BY DEF SiftDone
<1>2. Bounded'
  BY <1>1, SettingFacts DEF IInv, Bounded, TypeOK
<1>3. Ordered(counters, 0)
  BY <1>1, RestingOrdered DEF IInv, Bounded
<1>4. Sifted(counters', hashtable', ptr')
  BY <1>1 DEF Sifted
<1>5. QED
  BY <1>1, <1>2, <1>3, <1>4 DEF IInv

(* What pointed to the one counter points to the other.                    *)
LEMMA FollowedIs ==
  ASSUME Setting, TypeOK, Linked(counters, hashtable), ptr # 0, ~AtRest, SwapAcrossChains,
         counters[ptr].hash # counters[minchild].hash
  PROVE  /\ hashtable' \in [Bucket -> Pointer]
         /\ Followed(counters, hashtable, hashtable', ptr, minchild)
<1> DEFINE p == ptr
           q == minchild
           swapped == [counters EXCEPT ![p] = counters[q], ![q] = counters[p]]
           up == Relinked(swapped, p)
           table == IF swapped[p].item = NULLITEM /\ swapped[p].prev = 0 THEN hashtable
                    ELSE Reheaded(hashtable, swapped, p)
<1>1. p \in Place /\ q \in Place /\ p # q /\ p \in Pointer /\ q \in Pointer /\ q # root
  BY LeastChild, SettingFacts
<1>2. hashtable' = Reheaded(table, up, q)
  BY DEF SwapAcrossChains
<1>3. counters \in [Place -> Cell] /\ hashtable \in [Bucket -> Pointer]
  BY DEF TypeOK
<1>4. counters[p].hash \in Bucket /\ counters[q].hash \in Bucket
  BY <1>1, FieldTypes, <1>3
<1>5. counters[p].hash # counters[q].hash
  OBVIOUS
<1>6. counters[q].next # q
  <2>1. PICK r \in [Place -> Nat] : Ranks(r, counters)
    BY DEF Linked, Acyclic
  <2>2. r[q] \in Nat
    BY <1>1
  <2>3. QED
    BY <1>1, <2>1, <2>2 DEF Ranks
<1> HIDE DEF p, q
<1>7. /\ swapped \in [Place -> Cell]
      /\ swapped[p] = counters[q] /\ swapped[q] = counters[p]
  BY <1>1, <1>3
<1> HIDE DEF swapped
<1>8. table = IF counters[q].prev = 0 /\ ~Unused(counters, q)
              THEN [hashtable EXCEPT ![counters[q].hash] = p] ELSE hashtable
  BY <1>7 DEF Unused, Reheaded
<1> HIDE DEF table
<1>9. /\ table \in [Bucket -> Pointer]
      /\ \A b \in Bucket : table[b] = IF b = counters[q].hash /\ counters[q].prev = 0
                                         /\ ~Unused(counters, q) THEN p ELSE hashtable[b]
  BY <1>1, <1>3, <1>4, <1>8
<1>10. up[q].hash = counters[p].hash /\ up[q].prev = counters[p].prev
  BY <1>1, <1>6, <1>7, RelinkedIs
<1> HIDE DEF up
<1>11. hashtable' = IF counters[p].prev = 0 THEN [table EXCEPT ![counters[p].hash] = q] ELSE table
  BY <1>2, <1>10 DEF Reheaded
<1>12. /\ hashtable' \in [Bucket -> Pointer]
       /\ \A b \in Bucket : hashtable'[b] = IF b = counters[p].hash /\ counters[p].prev = 0
                                             THEN q ELSE table[b]
  BY <1>1, <1>4, <1>9, <1>11
<1>13. Followed(counters, hashtable, hashtable', p, q)
  BY <1>9, <1>12 DEF Followed
<1>14. QED
  BY <1>12, <1>13 DEF p, q

LEMMA InvSiftDown ==
  ASSUME Setting, IInv, SiftDown
  PROVE  IInv'
<1> DEFINE p == ptr
           q == minchild
<1>1. /\ Bounded /\ TypeOK /\ counters \in [Place -> Cell] /\ hashtable \in [Bucket -> Pointer]
      /\ Linked(counters, hashtable) /\ Filled(counters, hashtable)
      /\ Ordered(counters, p) /\ Sifted(counters, hashtable, p)
      /\ Distinct(counters) /\ Estimates(counters, freq) /\ Total(counters) = n
  BY DEF IInv, Bounded, TypeOK
<1>2. /\ ptr # 0 /\ ~AtRest /\ ptr' = q /\ n' = n /\ freq' = freq
  BY DEF SiftDown
<1>3. /\ p \in Place /\ q \in Place /\ p # q /\ q # root /\ Child(p, q)
      /\ counters[q].count <= counters[p].count
      /\ \A s \in Place : Child(p, s) => counters[q].count <= counters[s].count
  BY <1>1, <1>2, LeastChild
<1>4. /\ counters' \in [Place -> Cell] /\ Exchanged(counters, counters', p, q)
      /\ hashtable' \in [Bucket -> Pointer]
      /\ Linked(counters', hashtable')
      /\ Filled(counters', hashtable') /\ Sifted(counters', hashtable', q)
  <2>1. CASE counters[p].hash = counters[q].hash
    <3>1. SwapWithinChain
      BY <2>1 DEF SiftDown
    <3>2. /\ counters' \in [Place -> Cell] /\ Exchanged(counters, counters', p, q)
          /\ LinksStay(counters, counters') /\ hashtable' = hashtable
      BY <1>1, <1>2, <3>1, WithinIs DEF SwapWithinChain
    <3> HIDE DEF p, q
    <3>3. Linked(counters', hashtable)
      <4>1. \A x \in Place : /\ counters'[x].prev = counters[x].prev
                             /\ counters'[x].next = counters[x].next
                             /\ counters'[x].hash = counters[x].hash
        BY <1>3, <2>1, <3>2 DEF LinksStay, Exchanged, Other
      <4>2. QED
        BY <1>1, <4>1, LinksKept
    <3>4. Filled(counters', hashtable) /\ Sifted(counters', hashtable, q)
      BY <1>1, <1>3, <2>1, <3>2, WithinFilled
    <3>5. QED
      BY <1>1, <3>2, <3>3, <3>4
  <2>2. CASE counters[p].hash # counters[q].hash
    <3>1. SwapAcrossChains
      BY <2>2 DEF SiftDown
    <3>2. /\ counters' \in [Place -> Cell] /\ Exchanged(counters, counters', p, q)
          /\ LinksFollow(counters, counters', p, q)
      BY <1>1, <1>2, <2>2, <3>1, AcrossIs
    <3>3. /\ hashtable' \in [Bucket -> Pointer]
          /\ Followed(counters, hashtable, hashtable', p, q)
      BY <1>1, <1>2, <2>2, <3>1, FollowedIs
    <3> HIDE DEF p, q
    <3>4. Linked(counters', hashtable')
      BY <1>1, <1>3, <2>2, <3>2, <3>3, LinksFollowed
    <3>5. Filled(counters', hashtable') /\ Sifted(counters', hashtable', q)
      BY <1>1, <1>3, <2>2, <3>2, <3>3, AcrossFilled
    <3>6. QED
      BY <3>2, <3>3, <3>4, <3>5
  <2>3. QED
    BY <2>1, <2>2
<1> HIDE DEF p, q
<1>5. Ordered(counters', q)
  BY <1>1, <1>3, <1>4, SwappedOrdered
<1>6. Distinct(counters') /\ Estimates(counters', freq)
  BY <1>1, <1>3, <1>4, SwappedEstimates
<1>7. Total(counters') = n
  <2>1. Total(counters') = Total(counters)
    BY <1>1, <1>3, <1>4, SwappedTotal
  <2>2. QED
    BY <1>1, <2>1
<1>8. Bounded'
  <2>1. q \in Pointer
    BY <1>3, SettingFacts
  <2>2. TypeOK'
    BY <1>1, <1>2, <1>4, <2>1 DEF TypeOK
  <2>3. \A x \in Place : counters'[x].count <= n /\ counters'[x].delta <= n
    BY <1>1, <1>3, <1>4 DEF Exchanged, Other, Bounded
  <2>4. QED
    BY <1>1, <1>2, <2>2, <2>3 DEF Bounded
<1>9. QED
  BY <1>2, <1>4, <1>5, <1>6, <1>7, <1>8 DEF IInv

LEMMA InvNext == Setting /\ IInv /\ [Next]_vars => IInv'
<1> SUFFICES ASSUME Setting, IInv, [Next]_vars PROVE IInv'
  OBVIOUS
<1>1. CASE UNCHANGED vars
  BY <1>1 DEF vars, IInv, Bounded, TypeOK
<1>2. CASE Next
  BY <1>2, InvHit, InvEvict, InvSiftDone, InvSiftDown DEF Next
<1>3. QED
  BY <1>1, <1>2

-----------------------------------------------------------------------------
(* What follows from the invariant.                                        *)

(* An item without a counter is put no more often than any count.          *)
LEMMA NotFound ==
  ASSUME Setting, IInv, NEW i \in Sound, find(i) = 0, NEW p \in Place
  PROVE  freq[i] <= counters[p].count
<1>1. FoundWhereItIs
  BY SoundIsFound DEF IInv, Bounded
<1>2. Absent(counters, i)
  BY <1>1, SettingFacts DEF FoundWhereItIs, Absent
<1>3. QED
  BY <1>2 DEF IInv, Estimates

(* An item that is found is put no more often than its counter counts.     *)
LEMMA CounterFound ==
  ASSUME Setting, IInv, NEW i \in Sound, find(i) # 0
  PROVE  /\ find(i) \in Place
         /\ freq[i] <= counters[find(i)].count
         /\ counters[find(i)].count <= freq[i] + counters[find(i)].delta
<1>1. find(i) \in Place /\ counters[find(i)].item = i
  BY FindIs DEF IInv, Bounded, Sound
<1>2. QED
  BY <1>1 DEF IInv, Estimates

LEMMA InvMeansSafe ==
  ASSUME Setting, IInv
  PROVE  TypeOK /\ FoundWhereItIs /\ ChainsEnd /\ WithinDelta
<1>1. TypeOK
  BY DEF IInv, Bounded
<1>2. FoundWhereItIs
  BY <1>1, SoundIsFound DEF IInv
<1>3. ChainsEnd
  BY <1>1, ChainsHaveEnds DEF IInv, Linked
<1>4. WithinDelta
  <2>1. root \in Place
    BY SettingFacts
  <2>2. QED
    BY <2>1, NotFound, CounterFound DEF WithinDelta
<1>5. QED
  BY <1>1, <1>2, <1>3, <1>4

(* If many counters count as often as an item was put, then it was put no  *)
(* more often than they can share the puts.                                *)
LEMMA Shared ==
  ASSUME Setting, IInv, NEW i \in Sound, NEW T \in SUBSET Place,
         \A p \in T : freq[i] <= counters[p].count
  PROVE  freq[i] * Cardinality(T) <= n
<1>1. TypeOK /\ counters \in [Place -> Cell] /\ freq[i] \in Nat /\ Total(counters) = n
  BY SettingFacts DEF IInv, Bounded, TypeOK, Sound
<1>2. Counts(counters) \in [Place -> Nat] /\ IsFiniteSet(Place)
  BY <1>1, CountsType, SettingFacts
<1>3. \A p \in T : freq[i] <= Counts(counters)[p]
  BY DEF Counts
<1>4. freq[i] * Cardinality(T) <= SumFunctionOnSet(Counts(counters), Place)
  <2> DEFINE f == Counts(counters)
             v == freq[i]
  <2> HIDE DEF f, v
  <2>1. f \in [Place -> Nat] /\ IsFiniteSet(Place) /\ v \in Nat /\ \A p \in T : v <= f[p]
    BY <1>1, <1>2, <1>3 DEF f, v
  <2>2. v * Cardinality(T) <= SumFunctionOnSet(f, Place)
    BY <2>1, SumAtLeast
  <2>3. QED
    BY <2>2 DEF f, v
<1>5. QED
  BY <1>1, <1>4 DEF Total

LEMMA InvMeansTracked ==
  ASSUME Setting, IInv
  PROVE  HotTracked
<1> SUFFICES ASSUME NEW i \in Sound, freq[i] * _size > n, find(i) = 0 PROVE FALSE
  BY DEF HotTracked
<1>1. freq[i] * Cardinality(Place) <= n
  BY NotFound, Shared
<1>2. freq[i] \in Nat /\ n \in Nat /\ _size \in Nat /\ Cardinality(Place) = _size
  BY SettingFacts DEF IInv, Bounded, TypeOK, Sound
<1>3. freq[i] * _size \in Nat
  BY <1>2
<1>4. QED
  BY <1>1, <1>2, <1>3

LEMMA LessTimes ==
  ASSUME NEW a \in Nat, NEW b \in Nat, NEW v \in Nat, a <= b
  PROVE  v * a <= v * b /\ v * a \in Nat /\ v * b \in Nat
OBVIOUS

LEMMA InvMeansListed ==
  ASSUME Setting, IInv
  PROVE  HotListed
<1> SUFFICES ASSUME NEW i \in Sound, freq[i] * kListed > n
             PROVE  find(i) = _size \/ (find(i) # 0 /\ output(find(i)) <= kListed)
  BY DEF HotListed
<1>1. /\ freq[i] \in Nat /\ n \in Nat /\ _size \in Nat /\ kListed \in Nat /\ kListed <= _size
      /\ Cardinality(Place) = _size /\ IsFiniteSet(Place)
      /\ counters \in [Place -> Cell]
  BY SettingFacts DEF IInv, Bounded, TypeOK, Sound
<1>2. find(i) # 0
  <2> SUFFICES ASSUME find(i) = 0 PROVE FALSE
    OBVIOUS
  <2>1. freq[i] * Cardinality(Place) <= n
    BY NotFound, Shared
  <2>2. freq[i] * kListed <= freq[i] * _size /\ freq[i] * kListed \in Nat
        /\ freq[i] * _size \in Nat
    BY <1>1, LessTimes
  <2>3. QED
    BY <1>1, <2>1, <2>2
<1> DEFINE p == find(i)
<1>3. p \in Place /\ freq[i] <= counters[p].count
  BY <1>2, CounterFound
<1> HIDE DEF p
<1>4. ASSUME p # _size, ~(output(p) <= kListed) PROVE FALSE
  <2> DEFINE T == {q \in 1..(_size - 1) : ~comp(p, q)}
  <2>1. output(p) = Cardinality(T)
    BY <1>4 DEF output
  <2>2. T \in SUBSET Place
    BY SettingFacts DEF Place
  <2>3. \A q \in T : freq[i] <= counters[q].count
    <3> SUFFICES ASSUME NEW q \in T PROVE freq[i] <= counters[q].count
      OBVIOUS
    <3>1. q \in Place /\ ~(counters[p].count > counters[q].count)
      BY <2>2 DEF comp
    <3>2. counters[p].count \in Nat /\ counters[q].count \in Nat
      BY <1>1, <1>3, <3>1, FieldTypes
    <3>3. QED
      BY <1>1, <1>3, <3>1, <3>2
  <2> HIDE DEF T
  <2>4. freq[i] * Cardinality(T) <= n
    BY <2>2, <2>3, Shared
  <2>5. Cardinality(T) \in Nat
    BY <1>1, <2>2, FS_Subset, FS_CardinalityType
  <2>6. kListed <= Cardinality(T)
    BY <1>1, <1>4, <2>1, <2>5
  <2>7. freq[i] * kListed <= freq[i] * Cardinality(T) /\ freq[i] * kListed \in Nat
        /\ freq[i] * Cardinality(T) \in Nat
    BY <1>1, <2>5, <2>6, LessTimes
  <2>8. QED
    BY <1>1, <2>4, <2>7
<1>5. QED
  BY <1>2, <1>4 DEF p

-----------------------------------------------------------------------------
(* The counters as a bag.                                                  *)

Entries(c) == [p \in Place |-> [item |-> c[p].item, count |-> c[p].count, delta |-> c[p].delta]]

LEMMA BagIs == Bag = BagOf(Place, Entries(counters))
<1> DEFINE Entry(p) == [item |-> counters[p].item, count |-> counters[p].count,
                        delta |-> counters[p].delta]
           E == Entries(counters)
<1>1. \A p \in Place : E[p] = Entry(p)
  BY DEF Entries
<1>2. Bag = [e \in {Entry(p) : p \in Place} |-> Cardinality({p \in Place : Entry(p) = e})]
  BY Zenon DEF Bag
<1> HIDE DEF Entry, E
<1>3. {Entry(p) : p \in Place} = {E[p] : p \in Place}
  BY <1>1
<1>4. \A e : {p \in Place : Entry(p) = e} = {p \in Place : E[p] = e}
  BY <1>1
<1>5. Bag = [e \in {E[p] : p \in Place} |-> Cardinality({p \in Place : E[p] = e})]
  BY <1>2, <1>3, <1>4
<1>6. QED
  BY <1>5 DEF BagOf, E

LEMMA BagNext == Bag' = BagOf(Place, Entries(counters'))
<1>1. (Bag = BagOf(Place, Entries(counters)))'
  BY BagIs, PTL
<1>2. Entries(counters)' = Entries(counters')
  BY DEF Entries
<1>3. QED
  BY <1>1, <1>2

LEMMA BagPositive ==
  ASSUME Setting
  PROVE  Positive(Bag)
BY BagIs, BagType, SettingFacts

(* At first all counters are alike.                                        *)
LEMMA BagInit ==
  ASSUME Setting, Init
  PROVE  Bag = [e \in {[item |-> NULLITEM, count |-> 0, delta |-> 0]} |-> _size]
<1> DEFINE E == Entries(counters)
           u == [item |-> NULLITEM, count |-> 0, delta |-> 0]
<1>1. \A p \in Place : E[p] = u
  BY DEF Init, InitCounting, Entries
<1> HIDE DEF E, u
<1>2. {E[p] : p \in Place} = {u} /\ {p \in Place : E[p] = u} = Place
  BY <1>1, SettingFacts
<1>3. BagOf(Place, E) = [e \in {u} |-> _size]
  BY <1>2, SettingFacts DEF BagOf
<1>4. QED
  BY <1>3, BagIs DEF E, u

(* A put exchanges one counter, ...                                        *)
LEMMA BagPut ==
  ASSUME Setting, NEW c, NEW d, NEW t \in Place,
         \A x \in Place \ {t} : d[x].item = c[x].item /\ d[x].count = c[x].count
                                /\ d[x].delta = c[x].delta
  PROVE  /\ Entries(c)[t] \in DOMAIN BagOf(Place, Entries(c))
         /\ BagOf(Place, Entries(d)) =
              Changed(BagOf(Place, Entries(c)), Entries(c)[t], Entries(d)[t])
<1> DEFINE E == Entries(c)
           F == Entries(d)
<1>1. \A x \in Place \ {t} : F[x] = E[x]
  BY DEF Entries
<1>2. IsFiniteSet(Place)
  BY SettingFacts
<1> HIDE DEF E, F
<1>3. E[t] \in DOMAIN BagOf(Place, E) /\ BagOf(Place, F) = Changed(BagOf(Place, E), E[t], F[t])
  BY <1>1, <1>2, BagChanges
<1>4. QED
  BY <1>3 DEF E, F

LEMMA BagHit ==
  ASSUME Setting, Bounded, NEW i \in Item, Hit(i)
  PROVE  \E x \in DOMAIN Bag :
           /\ x.item = i
           /\ Bag' = Changed(Bag, x, [x EXCEPT !.count = @ + 1])
<1> DEFINE t == find(i)
           x == Entries(counters)[t]
           y == Entries(counters')[t]
<1>1. t \in Place /\ counters[t].item = i /\ Raised(counters, counters', t)
  BY HitIs
<1> HIDE DEF t
<1>2. /\ x = [item |-> counters[t].item, count |-> counters[t].count,
              delta |-> counters[t].delta]
      /\ y = [item |-> counters'[t].item, count |-> counters'[t].count,
              delta |-> counters'[t].delta]
  BY <1>1 DEF Entries
<1>3. y = [x EXCEPT !.count = @ + 1] /\ x.item = i
  BY <1>1, <1>2 DEF Raised
<1> HIDE DEF x, y
<1>4. /\ x \in DOMAIN BagOf(Place, Entries(counters))
      /\ BagOf(Place, Entries(counters')) = Changed(BagOf(Place, Entries(counters)), x, y)
  BY <1>1, BagPut DEF Raised, x, y
<1>5. Bag' = BagOf(Place, Entries(counters'))
  BY BagNext
<1>6. QED
  BY <1>3, <1>4, <1>5, BagIs

LEMMA BagEvict ==
  ASSUME Setting, IInv, NEW i \in Item, Evict(i)
  PROVE  /\ \E x \in DOMAIN Bag :
              /\ \A y \in DOMAIN Bag : x.count <= y.count
              /\ Bag' = Changed(Bag, x, [item |-> i, count |-> x.count + 1, delta |-> x.count])
         /\ i \in Sound => \A y \in DOMAIN Bag : y.item # i
<1> DEFINE x == Entries(counters)[root]
           y == Entries(counters')[root]
<1>1. root \in Place /\ Evicted(counters, hashtable, counters', hashtable', i)
      /\ counters \in [Place -> Cell]
  BY EvictIs, SettingFacts DEF IInv, Bounded, TypeOK
<1>2. /\ x = [item |-> counters[root].item, count |-> counters[root].count,
              delta |-> counters[root].delta]
      /\ y = [item |-> counters'[root].item, count |-> counters'[root].count,
              delta |-> counters'[root].delta]
  BY <1>1 DEF Entries
<1>3. y = [item |-> i, count |-> x.count + 1, delta |-> x.count]
  BY <1>1, <1>2 DEF Evicted
<1>4. \A z \in {Entries(counters)[p] : p \in Place} : x.count <= z.count
  <2> SUFFICES ASSUME NEW p \in Place PROVE x.count <= Entries(counters)[p].count
    OBVIOUS
  <2>1. Ordered(counters, 0)
    BY DEF IInv, Evict, EvictInto, Tally
  <2>2. counters[root].count <= counters[p].count
    BY <1>1, <2>1, RootLeast
  <2>3. QED
    BY <1>2, <2>2 DEF Entries
<1> HIDE DEF x, y
<1>5. /\ x \in DOMAIN BagOf(Place, Entries(counters))
      /\ BagOf(Place, Entries(counters')) = Changed(BagOf(Place, Entries(counters)), x, y)
  BY <1>1, BagPut DEF Evicted, x, y
<1>6. DOMAIN BagOf(Place, Entries(counters)) = {Entries(counters)[p] : p \in Place}
  BY DEF BagOf
<1>7. Bag' = BagOf(Place, Entries(counters'))
  BY BagNext
<1>8. i \in Sound => \A z \in {Entries(counters)[p] : p \in Place} : z.item # i
  <2> SUFFICES ASSUME i \in Sound, NEW p \in Place PROVE Entries(counters)[p].item # i
    OBVIOUS
  <2>1. FoundWhereItIs /\ find(i) = 0
    BY SoundIsFound DEF IInv, Bounded, Evict, EvictInto
  <2>2. counters[p].item # i
    BY <2>1, SettingFacts DEF FoundWhereItIs
  <2>3. QED
    BY <2>2 DEF Entries
<1>9. QED
  BY <1>3, <1>4, <1>5, <1>6, <1>7, <1>8, BagIs

(* ... and Heapify leaves them as they are.                                *)
LEMMA BagSift ==
  ASSUME Setting, IInv, SiftDone \/ SiftDown
  PROVE  Bag' = Bag
<1>1. Bag' = BagOf(Place, Entries(counters'))
  BY BagNext
<1>2. CASE SiftDone
  BY <1>1, <1>2, BagIs DEF SiftDone
<1>3. CASE SiftDown
  <2> DEFINE p == ptr
             q == minchild
             O == [x \in Place |-> Other(p, q, x)]
  <2>1. TypeOK /\ ptr # 0 /\ ~AtRest /\ Linked(counters, hashtable)
    BY <1>3 DEF SiftDown, IInv, Bounded
  <2>2. p \in Place /\ q \in Place
    BY <2>1, LeastChild
  <2>3. Exchanged(counters, counters', p, q)
    BY <1>3, <2>1, WithinIs, AcrossIs DEF SiftDown
  <2> HIDE DEF p, q
  <2>4. O \in [Place -> Place] /\ \A x \in Place : O[O[x]] = x
    BY <2>2 DEF Other
  <2>5. \A x \in Place : Entries(counters')[x] = Entries(counters)[O[x]]
    BY <2>3, <2>4 DEF Exchanged, Entries
  <2> HIDE DEF O
  <2>6. BagOf(Place, Entries(counters')) = BagOf(Place, Entries(counters))
    BY <2>4, <2>5, BagStays, SettingFacts
  <2>7. QED
    BY <1>1, <2>6, BagIs
<1>4. QED
  BY <1>2, <1>3
=============================================================================
