---------------------------- MODULE GeneralLazySS ----------------------------
(***************************************************************************)
(* The heavy hitter sketch of a thread, as its arrays: the counters are a  *)
(* heap by count with the least at the root, and each one in use is linked *)
(* into the chain of its item's bucket.  A swap in the heap moves counters *)
(* to other places, which the links must follow.                           *)
(*                                                                         *)
(* A pointer to a counter is its place, and 0 the null pointer; the        *)
(* counter at place 0 is a dummy that is in neither structure.  A put is   *)
(* one action for the counter it changes and one for each round of the     *)
(* loop of Heapify.  Only its own thread uses a sketch.                    *)
(***************************************************************************)
EXTENDS Naturals, FiniteSets, FiniteSetsExt

CONSTANTS
  Item,
  NULLITEM,      \* the item of a counter not in use
  hash,          \* the bucket of each item
  hashsize,
  _size,         \* number of counters
  kListed,       \* how many of them the promotion reads (65535)
  kMaxPuts       \* bound: the puts to explore

SizeAssumption ==
  /\ _size \in Nat /\ _size >= 3 /\ _size % 2 = 1
  /\ hashsize \in Nat \ {0}
  /\ kListed \in 1.._size
  /\ kMaxPuts \in Nat
HashAssumption == hash \in [Item -> 0..(hashsize - 1)]
NullAssumption == NULLITEM \notin Item

Place == 1.._size
Pointer == 0.._size
Bucket == 0..(hashsize - 1)
root == 1

Cell == [item : Item \cup {NULLITEM}, hash : Bucket, count : 0..kMaxPuts,
         delta : 0..kMaxPuts, prev : Pointer, next : Pointer]

VARIABLES
  counters,
  hashtable,     \* the first counter of each bucket
  n,             \* sum of the values put
  ptr,           \* the place Heapify is at, 0 between two puts
  freq           \* history: how often each item was put

vars == <<counters, hashtable, n, ptr, freq>>

InitCounting(count) ==
  /\ counters = [p \in Place |->
       [item |-> NULLITEM, hash |-> 0, count |-> count, delta |-> 0, prev |-> 0, next |-> 0]]
  /\ hashtable = [b \in Bucket |-> 0]
  /\ n = 0
  /\ ptr = 0
  /\ freq = [i \in Item |-> 0]

(* A mutant of Init: the counters are not cleared.                         *)
InitUncleared == InitCounting(kMaxPuts + 1)

Init == InitCounting(0)

-----------------------------------------------------------------------------
(* The chain of a bucket, and the counter of an item in it.                *)

Chain(b) ==
  LET At[k \in Place] ==
        IF k = 1 THEN hashtable[b]
        ELSE IF At[k - 1] = 0 THEN 0 ELSE counters[At[k - 1]].next
  IN  At

find(i) ==
  LET chain == Chain(hash[i])
      Found == {k \in Place : chain[k] # 0 /\ counters[chain[k]].item = i}
  IN  IF Found = {} THEN 0 ELSE chain[Min(Found)]

-----------------------------------------------------------------------------
(* put                                                                     *)

Tally(i) ==
  /\ ptr = 0 /\ n < kMaxPuts
  /\ n' = n + 1
  /\ freq' = [freq EXCEPT ![i] = @ + 1]

Hit(i) ==
  /\ find(i) # 0
  /\ Tally(i)
  /\ counters' = [counters EXCEPT ![find(i)].count = @ + 1]
  /\ ptr' = find(i)
  /\ UNCHANGED hashtable

(* The root leaves its chain; being not in use, it leaves that of bucket 0. *)
TableWithoutRoot ==
  IF counters[root].prev = 0
  THEN [hashtable EXCEPT ![counters[root].hash] = counters[root].next]
  ELSE hashtable

(* A mutant of CountersWithoutRoot: the neighbours keep their links.       *)
CountersLinkedToRoot == counters

CountersWithoutRoot ==
  [p \in Place |-> [counters[p] EXCEPT
     !.next = IF p = counters[root].prev THEN counters[root].next ELSE @,
     !.prev = IF p = counters[root].next THEN counters[root].prev ELSE @]]

(* ... and enters the chain of its new item at the front.                  *)
EvictInto(i, count, delta) ==
  /\ find(i) = 0
  /\ Tally(i)
  /\ LET head == TableWithoutRoot[hash[i]]
         new == [item |-> i, hash |-> hash[i], delta |-> delta,
                 count |-> count, prev |-> 0, next |-> head]
     IN  counters' = [p \in Place |->
           IF p = root THEN new
           ELSE IF p = head THEN [CountersWithoutRoot[p] EXCEPT !.prev = root]
           ELSE CountersWithoutRoot[p]]
  /\ hashtable' = [TableWithoutRoot EXCEPT ![hash[i]] = root]
  /\ ptr' = root

(* Mutants of Evict: the count so far is lost, or it is not remembered.    *)
EvictCountLost(i) == EvictInto(i, 1, 0)
EvictDeltaLost(i) == EvictInto(i, counters[root].count + 1, 0)

Evict(i) == EvictInto(i, counters[root].count + 1, counters[root].count)

-----------------------------------------------------------------------------
(* Heapify                                                                 *)

(* A mutant of minchild: the greater child.                                *)
maxchild ==
  IF counters[2 * ptr].count < counters[2 * ptr + 1].count THEN 2 * ptr + 1 ELSE 2 * ptr

minchild ==
  IF counters[2 * ptr].count < counters[2 * ptr + 1].count THEN 2 * ptr ELSE 2 * ptr + 1

(* Heapify stops at a leaf, or at a counter below both of its children.    *)
AtRest ==
  IF 2 * ptr + 1 > _size THEN TRUE ELSE counters[ptr].count < counters[minchild].count

SiftDone ==
  /\ ptr # 0
  /\ AtRest
  /\ ptr' = 0
  /\ UNCHANGED <<counters, hashtable, n, freq>>

(* A mutant of SwapWithinChain: the counter moved up is not moved away.    *)
SwapCopying ==
  LET p == ptr  q == minchild
  IN  /\ counters' = [counters EXCEPT
           ![p] = [counters[q] EXCEPT !.prev = counters[p].prev, !.next = counters[p].next]]
      /\ UNCHANGED hashtable

(* Two counters of one bucket exchange all but their links.                *)
SwapWithinChain ==
  LET p == ptr  q == minchild
  IN  /\ counters' = [counters EXCEPT
           ![p] = [counters[q] EXCEPT !.prev = counters[p].prev, !.next = counters[p].next],
           ![q] = [counters[p] EXCEPT !.prev = counters[q].prev, !.next = counters[q].next]]
      /\ UNCHANGED hashtable

(* The neighbours of the counter that is now at place p point to it.       *)
Relinked(c, p) ==
  [x \in Place |-> [c[x] EXCEPT
     !.next = IF x = c[p].prev THEN p ELSE @,
     !.prev = IF x = c[p].next THEN p ELSE @]]

(* A mutant of Reheaded: the bucket still points to the old place.         *)
ReheadedForgotten(h, c, p) == h

Reheaded(h, c, p) == IF c[p].prev = 0 THEN [h EXCEPT ![c[p].hash] = p] ELSE h

SwapAcrossChains ==
  LET p == ptr  q == minchild
      swapped == [counters EXCEPT ![p] = counters[q], ![q] = counters[p]]
      up == Relinked(swapped, p)
      table == IF swapped[p].item = NULLITEM /\ swapped[p].prev = 0 THEN hashtable
               ELSE Reheaded(hashtable, swapped, p)
  IN  /\ counters' = Relinked(up, q)
      /\ hashtable' = Reheaded(table, up, q)

SiftDown ==
  /\ ptr # 0
  /\ ~AtRest
  /\ IF counters[ptr].hash = counters[minchild].hash
     THEN SwapWithinChain ELSE SwapAcrossChains
  /\ ptr' = minchild
  /\ UNCHANGED <<n, freq>>

Next ==
  \/ \E i \in Item : Hit(i) \/ Evict(i)
  \/ SiftDone \/ SiftDown

Spec == Init /\ [][Next]_vars

-----------------------------------------------------------------------------
(* Properties.                                                             *)

(* Every variable holds what its declaration in the code allows.           *)
TypeOK ==
  /\ counters \in [Place -> Cell]
  /\ hashtable \in [Bucket -> Pointer]
  /\ n \in 0..kMaxPuts
  /\ ptr \in Pointer
  /\ freq \in [Item -> 0..kMaxPuts]

(* Items of bucket 0 are shadowed by the counters not in use, which have   *)
(* the hash 0 but are in no chain; the others are kept apart from them.    *)
Sound == {i \in Item : hash[i] # 0}

(* The links follow the heap: a counter in use is found under its item, so *)
(* no item has two of them, however counters and chains were reshuffled.   *)
FoundWhereItIs ==
  \A p \in Place : counters[p].item \in Sound => find(counters[p].item) = p

(* Every chain ends, so neither find nor put can loop for ever: not even   *)
(* the chain of bucket 0, which loses counters and gains unused ones.      *)
ChainsEnd ==
  \A b \in Bucket :
    LET last == Chain(b)[_size] IN IF last = 0 THEN TRUE ELSE counters[last].next = 0

(* A counter overestimates how often its item was put, by delta at most;   *)
(* an item without a counter was put no more often than the least count.   *)
WithinDelta ==
  \A i \in Sound :
    IF find(i) # 0
    THEN /\ freq[i] <= counters[find(i)].count
         /\ counters[find(i)].count <= freq[i] + counters[find(i)].delta
    ELSE ptr = 0 => freq[i] <= counters[root].count

(* What the promotion of hot keys needs: an item put more than n / _size   *)
(* times has a counter.                                                    *)
HotTracked == \A i \in Sound : ptr = 0 /\ freq[i] * _size > n => find(i) # 0

comp(p, q) == counters[p].count > counters[q].count

(* A mutant of output: the least counts come first.                        *)
outputAscending(p) == Cardinality({q \in 1.._size : ~comp(q, p)})

(* Where output(true) puts the counter of place p, among the first places: *)
(* no further back than all those with no lower count.  The sort leaves    *)
(* out the last place.                                                     *)
output(p) ==
  IF p = _size THEN _size
  ELSE Cardinality({q \in 1..(_size - 1) : ~comp(p, q)})

(* What the promotion reads of the output holds every item put more than   *)
(* n / kListed times whose counter the sort did not leave out.             *)
HotListed ==
  \A i \in Sound :
    ptr = 0 /\ freq[i] * kListed > n =>
      find(i) = _size \/ (find(i) # 0 /\ output(find(i)) <= kListed)

(* The counters, as SpaceSaving has them.                                  *)
Bag ==
  LET Entry(p) == [item |-> counters[p].item, count |-> counters[p].count, delta |-> counters[p].delta]
  IN  [e \in {Entry(p) : p \in Place} |-> Cardinality({p \in Place : Entry(p) = e})]

=============================================================================
