# Verification of concurrent_ptr_sync

The repository is a collection of concurrent maps in C++ and the programs that
time them. This directory holds TLA+ models of the maps and of the parts they
are built from, TLC configurations that check them on small instances, and
TLAPS proofs, for instances of any size, of every safety property that the passing
runs check, up to the refinements that say what the trie, the implementations of
`HashMap` and three of the sketches promise.

There is no README or design document in the repository. What the code is meant
to do is taken from its comments, its names and its test programs.

## 1. The system

| Component | Source | State it keeps | Operations |
|---|---|---|---|
| trie map | `hash_map/concurrent_hash_map.h` 525-854 | `root_`, an array of atomic pointers to tree nodes: null, a data node, or (marked in the pointer) an array node of further such pointers | `Insert` (type ANY, MUST_EXIST, DOES_NOT_EXIST), `Find`, `DoInsert`, `FindByHash` |
| promotion cache | `hash_map/fast_table.h` | a table of atomic pointers whose upper 16 bits are a second hash | `Insert`, `CheckedInsert`, `TryUpdate`, `PinnedFind` |
| map with cache | `concurrent_hash_map.h` 569-653 | `stat_`, one counter and one heavy hitter sketch per thread id | `Insert`, `Find`, `AsyncInsert`, `AsyncFind` |
| heavy hitter sketch | `heavyhitter/GeneralLazySS.h` | an array of counters that is a heap, threaded by the chains of a hash table | `put`, `find`, `output`, `merge` |
| other sketches | `heavyhitter/SpaceSaving.h`, `Frequent.h`, `GroupFrequent.h` | counters indexed by count; a list of nodes; a list of groups of counters that hold differences | `put`, `add` |
| thread ids | `hash_map/thread.h`, `thread.cpp` | `id_used_`, 96 flags, and `next_index_` | `ReserveEntry`, `ReleaseEntry` |
| `HashMap` interface | `hash_map.h` | an array of values or nothing | `Get`, `Put`, (`Delete`, `Check`) |
| ownership transfer map | `unique_ownership_impl.cpp` | an array of atomic pointers, one value of which (1) means taken | `Get`, `Put` |
| hazard pointer map | `my_haz_ptr_impl.cpp` | an array of atomic pointers | `Get`, `Put` |
| hazard pointer map on folly | `haz_ptr_impl.cpp` | the same | `Get`, `Put` |
| counted pointer map | `boost_arc_impl.cpp` | an array of atomic shared pointers | `Get`, `Put` |
| mutex maps | `lock_based_impl.cpp`, `lock_based_no_allocating.cpp` | an array of pointers or values and their mutexes | `Get`, `Put` |
| hazard pointer library | submodule `my_haz_ptr`, not in the repository | hazard pointers, lists of retired nodes | `Pin`, `Repin`, `Reset`, `HazPtrRetire` |
| others | see section 8 | | |

How they interact. `ConcurrentHashMap::Insert` asks `Thread::id()` for an
index into `stat_`, records the hash in the thread's sketch, tries the cache and
ends in the trie's `DoInsert`; the thread with id 0 fills the cache, once, with
the keys its sketch names, each looked up in the trie by `FindByHash`. `Find`
asks the cache and then the trie. Trie and cache protect the nodes they read
with a `HazPtrHolder` and hand the nodes they replace to `HazPtrRetire`. All
sharing is through atomic pointers, flags and counters; nothing is persisted and
no messages are sent, so crashes and delivery play no part.

What is hard:

* a slot changes between the `Repin` that read it and the `compare_exchange`
  that acts on what was read, at any level of a tree that grows meanwhile;
* memory is reclaimed under readers, and addresses are used again;
* the trie and the cache hold the same key with different values;
* loops that restart on every lost race, and spinning on a mark that another
  thread must take back;
* bounds: 96 ids and 64 statistics, a 32-bit counter that wraps, a last level
  below which keys cannot be told apart;
* a heap whose elements other structures point into.

What makes each component correct is listed with its module in section 3;
`PROJECT.json` lists the hazards line by line with the properties that cover
each one.

## 2. Modules

```
HashIndex ──> TrieMap ──> TrieMapProofs
FastTableHash ──> FastTable ──> FastTableProofs
FastTableHash ──> CachedMap ──> CachedMapProofs
ThreadId ──> ThreadIdProofs
HashMapCalls ──> LockedMap, ArcMap, UniqueOwnership, HazPtrMap ──> FollyMap
HashMaps = one of these five                     SlotMap        <─ refined by HashMaps
HashMaps ──> HashMapsProofs
HeavyHitters = GeneralLazySS | SS                SpaceSaving    <─ refined by GeneralLazySS, SS
             | Frequent | GroupFrequent          MisraGries     <─ refined by GroupFrequent
HeavyHitters, SumLemmas ──> HeavyHittersProofs   ConcurrentMap  <─ refined by TrieMap
GeneralLazySS, SumLemmas ──> GeneralLazySSProofs
```

(`A ──> B`: B EXTENDS A. HeavyHittersProofs takes GeneralLazySSProofs by INSTANCE.) Each component has a module with one action per step
between two accesses to shared memory. `MC*` modules give hashes and symmetry
sets for TLC; a `.cfg` is named after its module and its question. HashMaps and HeavyHitters
hold alternatives: their initial states pick an implementation, whose steps the
behaviour then consists of (INSTANCE), so that what all of them promise is stated
once. Operators
introduced as "Mutant" are faulty variants of an action that show each
property can fail; no specification uses them.

Conventions of all modules of concurrent code: `pc[t]` is where thread `t` is,
`req[t]` the call it executes (or `NULL`), an answer is kept until `Return`.
Memory is the function `data` from addresses (`Node`) to contents or `FREE`; an
allocation picks any free address, so addresses are reused as soon as the
allocator may do so, and the ABA problem is in the models. The memory model is
sequentially consistent, as is every atomic access of the sources that names no
order.

### The external hazard pointer library

`Repin(ptr, filter)` is modelled as three steps, load, publish, load again and
compare, the last of which goes back to the first when the slot has changed.
`HazPtrRetire` puts an address into `retired`, and `Reclaim` may take any
retired address no thread's `hazard` names, at any time. These actions are
`external` in the map. Two things are assumed because the sources imply them:

* What the filter means. In the trie `IsArrayNode` is true for pointers that
  need **no** protection (`concurrent_hash_map.h:705,761`), in the cache
  `CompareSecondLevelHash` is true for pointers that **do**
  (`fast_table.h:82,114,139,164`). Without the library's source the two cannot
  be reconciled: each module takes Repin to protect what its user means. One of
  the two uses is unprotected in the real build.
* `HazPtrRetire` is passed pointers with tag bits, and null
  (`fast_table.h:107,131,154`): it is taken to ignore both.

## 3. What is modelled, and how it maps to the code

**HashIndex** is the constructor's arithmetic (`nextPowerOf2`, the minimum that
gives `max_depth_`) and the bits that pick a slot at each level. `PathOf(h, n)`
names the slot that hash `h` reaches at level `n`: arrays are never unlinked, so
the list of indices names the address for good, and `slot` is a function from
such paths.

**TrieMap** is `Find` and `DoInsert` over `slot`, `data`, `retired` and
`hazard`. A round of the code's loop is `RepinLoad`, `RepinPublish`,
`RepinValidate` and one of the branches: `FindReturn`, `FindDescend`,
`InsertDescend`, `RefuseAbsent`, `RefusePresent`, `FillEmpty`, `Replace`,
`Split`, `SplitLost`, `PushDown`, `Retry`, `GiveUp` (`exit(1)`). A
`compare_exchange` is in the action of its branch; `compare_exchange` on an
address that was reclaimed and reused would succeed in the model as it does in
the machine. The node `Insert` allocates is owned by `ptr[t]`, as by the
code's `unique_ptr`, until it is released into the tree or deleted on return.
The array that a lost split allocates has no address in the model: it leaks
without being reachable. The history `raced[t]` says that another thread's
`compare_exchange` changed the very slot `t` is at between `t`'s last `Repin` of it and
`t`'s own `compare_exchange`; `UndisturbedInsertKept` has no other premise about the rest of
the system, so it speaks of inserts that run among any others.

Safety: `PinnedAlive`, `RetiredUnreachable` (memory), `OneNodePerKey`,
`OnOwnPath`, `KeysStay` (tree), `ExitNeedsFullCollision`,
`UndisturbedInsertKept`. Refinement: **ConcurrentMap**, a map whose operations
take effect in one step between call and return, and which is weaker than the
name suggests in three ways that are part of its text: an insert that overlapped
another one may be acknowledged and lost; DOES_NOT_EXIST may be refused and
MUST_EXIST accepted because of a different key that is in the same slot.
Liveness: `SomeCallReturns`.

**FastTable** is the four operations on the cache's slots. The tag is part of
the pointer, so a slot with a stranger's tag is never dereferenced; an empty slot has
tag 0, as in the code. `FastTableHash` is the tag and index arithmetic.
`PinnedFind` ends with its result unpinned, and its caller's read is an action of
its own.

**CachedMap** composes warm-up, promotion, cache and trie, for all four calls of
the map: `AsyncFind` is the cache step of `Find` and answers PENDING without
going on to the trie, `AsyncInsert` (`AsyncBegin`, `GoOn`) counts nothing and
promotes nothing. The trie is an atomic map with the insert types' weaknesses of
ConcurrentMap (its lost inserts are left to TrieMap), and a cache node is
protected as FastTable shows, so `fresh[t]` says whether a `compare_exchange`
will succeed. `FindByHash` may come back with the node of another key in the slot
where the hash's path ends, as it does in the code; `Counter` is what `output`
returns, the dummy counter 0 with its item 0 included. What the promotion takes
from `output` is a set: that two counters of bucket 0 may hold one item (see
GeneralLazySS) is not represented here. `total` goes one past `kWarmUp` when the promotion
starts, and TypeOK says that it is there while the promotion runs: it runs once. The
histories `current` and `legal` say what a regular register may answer.

**GeneralLazySS** is `put`, `Heapify`, `find` and `output` of the sketch: `counters`
is the array from place 1, a pointer is a place, 0 is null. A put is `Hit` or
`Evict`, then one `SiftDown` per round of `Heapify` and `SiftDone`. It refines
**SpaceSaving**, a bag of counters in which a new item takes over a least
counter. A counter not in use has hash 0 and is in no chain, but
`put` unlinks it as if it were in the chain of bucket 0 (line 187), which
empties that chain: items whose bucket is 0 are overlooked now and then and get
a second counter. The properties are therefore stated for the `Sound` items of
the other buckets, and SpaceSaving has a parameter `Forgettable`; what the run
shows is that the damage stays inside bucket 0, and that even there no chain
becomes a ring (`ChainsEnd`). The arithmetic of `hash` is a constant function.
`output(p)` is the furthest place the sort can give a counter. The sort ends one
counter early, so `HotListed` promises the promotion every hot item but the one in
the last place.

**SS** is the same promise kept with other means: its counters are found by item,
and by count in an index whose entries come and go. An entry files a counter under the
item the counter holds, and the constructor of a counter takes the item as an `int`
(line 58), whatever the template's `IntType`: `narrow` is what that conversion leaves of each
item, `NewCounter` applies it, and `del` erases all counters of one remainder. For items
that fit (`ItemsFit`) SS refines SpaceSaving too, and its index is right (`IndexMatches`);
for wider ones neither is so (section 6), and what is left, by proof for any `narrow`, is that
no entry is empty or has a counter of another count (`EntriesSound`, part of `IndexMatches`).
Where `put` would go on with an iterator at the end of the index, the behaviour ends.
**Frequent** is a list of nodes meant to be sorted. It is not: the walk that finds
the new place of a node that was hit looks one node too far ahead (`NewPlace`), so that
whether the node passes its predecessor depends on the one before that. Frequencies at
0 hide in the middle and others get negative. What remains true, and is checked, is
that an estimate is never too high and too low by no more than the rounds of
decrements (`ErrorIsRounds`). **GroupFrequent** keeps counters of equal count in a
group, and in a group the difference to the one before; adding up what it moves
around gives **MisraGries**, a map from items to counts (`ImplementsMisraGries`),
and bounds the rounds by the puts. The rings of a group are sets. These
three are library code that no target includes.

**ThreadId** is `ReserveEntry` and `ReleaseEntry` with the word size as a
parameter, so that wrap-around of `next_index_` and of the scan's bound is
reached. `stat_size` is the number of entries
ConcurrentHashMap keeps for ids.

**HashMapCalls** is what the implementations of the `HashMap` interface share: a
slot per index, the memory of values, and calls. On it stand **LockedMap** (both
mutex maps, told apart by the constant `allocates`), **UniqueOwnership**,
**ArcMap** (a value is deleted when no slot and no local variable refers to it, `Counted`),
**HazPtrMap** and, for the steps it shares with that, **FollyMap**, whose map has
been filled through the overload of Put that looks before it retires.
**HashMaps** picks one of them and checks that it refines **SlotMap**: Get and Put
are atomic per slot. Where an implementation is less than that, SlotMap says so: it has
four ways to break the promise, and an implementation that needs one says which
(`MapAllows`). Calls and answers are the implementation's own, none is rewritten.

* `late`: a Put without overwrite of ArcMap, HazPtrMap and FollyMap looks first and stores
  later, so it may replace a value that appeared in between (`cleared`);
* `denied`: an overwriting Put of ArcMap stores and returns false (`boost_arc_impl.cpp:39`);
* `forced`: Put of `lock_based_no_alloc` ignores `overwrite`, and the map starts with
  zeros;
* `reread`: Get of UniqueOwnership reads again after it has put the pointer back
  (`unique_ownership_impl.cpp:43`); if a Put came in between it may answer with anything, what
  deleted memory holds included (`overtaken`), and if none did, with the contents.

`lock_based` needs none of them. TypeOK also says what calls return: a Put true or
false, a Get a value or none, and only a Get of UniqueOwnership `FREE`.

The benchmark fills its map with `Put(i, 0)` (`general_bench.cpp:59`), and the
literal selects the overload for temporaries. In the mutex maps and those with
hazard pointers it stores; in UniqueOwnership and ArcMap it does nothing, so these start
empty here as they do there.

## 4. Runs

| Run | What is checked | Instance | Distinct states |
|---|---|---|---|
| `trie_nodes` | TypeOK, IInv, PinnedAlive, RetiredUnreachable, OnOwnPath, ExitNeedsFullCollision, KeysStay | 2 threads, 3 keys of which 2 collide at every level, 3 levels, 3 addresses | 0.24 M |
| `trie_map` | OneNodePerKey, UndisturbedInsertKept, ImplementsMap | 2 threads, 3 keys that part at levels 1 and 2, 2 values, 3 addresses | 0.81 M |
| `trie_live` | SomeCallReturns | 2 threads, 2 keys that part at level 2, 3 addresses, fairness | 0.65 M |
| `trie_lost` | AcknowledgedInsertPresent, **violated** | 2 threads, 2 keys | |
| `fasttable_table` | TypeOK, PinnedAlive, RetiredUnreachable, OnlyInsertEvicts | 2 threads, 1 slot, 3 keys, 2 of one tag, 3 addresses | 2.6 M |
| `fasttable_find` | FoundAlive, **violated** | the same | |
| `cachedmap_cache` | TypeOK, CachedArePresent, StaleOnlyPastCache | 2 threads, 2 keys of one tag, 2 values, warm after 1 insert | 3.0 M |
| `cachedmap_stale` | RegularReads, **violated** | 1 thread, 1 key, 2 values | |
| `threadid_ids` | TypeOK, UniqueIds, FlagsMatchThreads, QuietScanIsRight | 4 threads, 3 ids, words of 10 values | 0.02 M |
| `threadid_stat` | StatEntryExists, **violated** | the same, with entries for 2 ids | |
| `hashmaps` | TypeOK, OneOwner, ReadAlive, OnePlace, RetiresPointer, ImplementsMap, SomeCallReturns | six implementations, 2 threads, 1 slot, 2 values, 3 addresses, 2 tries for 20, fairness | 0.34 M |
| `sketches` | TypeOK, FoundWhereItIs, ChainsEnd, WithinDelta, HotTracked, HotListed, IndexMatches, NoDuplicates, ErrorIsRounds, ImplementsSpaceSaving, ImplementsMisraGries | GeneralLazySS: 5 counters, 6 items in 3 buckets; SS and Frequent: 3 counters, 4 items; GroupFrequent: 4 counters, 4 items; items fit an int; 8 puts | 0.13 M |

Every property of a passing run has a mutant in `PROJECT.json`, a plausible
slip in one operation, under which the same run finds the property violated.

### Bounds, and why they are enough

* *Two threads*: every race in the trie, the cache and the slot maps is between
  one thread that holds an old view of a slot and another that changes it. A
  third would add other changers, which two threads that call repeatedly
  already stand for. The ids have four threads for three entries, because there
  the contention is for a resource.
* *Keys*: a slot at level 0 under which keys part at level 1, at level 2 and
  not at all takes `max_depth` 3 and fan-out 2. That reaches every branch of
  `DoInsert`, including a split below an array and a push-down followed by a
  split by someone else.
* *Addresses*: with three of them two inserts race over a slot that holds a
  node, or one insert runs in a tree of two nodes while retired nodes wait, and
  every address is reused. Two inserts in flight in a tree of two nodes
  need a fourth: the safety properties of both runs, refinement included, are
  proved for any number (section 5).
* *kWarmUp* is 1 or 2 for 5000000: what matters is the step from below to at and
  past it.
* *8 puts* on 5 counters fill GeneralLazySS, evict up to three items, and sift
  over both levels of the heap; the other sketches have fewer counters, so that there they
  lead through two rounds of evictions or decrements.
* *One slot* in `hashmaps`: no implementation touches the state of another slot, and what
  a thread holds (a lock, a mark, a hazard pointer) it holds for one slot at a time.
* *2 tries* for the 20 of ArcMap reach the first failure, which changes what the
  next try expects, and the last.
* *Words of 10 values*: scans start at every value of the counter, those from
  4 on have a bound that wraps, and 10 is no multiple of the table, as 2^32 is
  none of 96.
* *Symmetry* is used over threads, addresses, values and items of one bucket,
  which no definition of the specifications tells apart, and in no run with a
  liveness property.

`CHECK_DEADLOCK FALSE` is set where the modelled system may really stop: after
`exit(1)`, when every thread threw from `ReserveEntry`, and at the bounds, when
`kMaxPuts` is used up or lost inserts have leaked all addresses. `hashmaps`
checks deadlock.

### Fairness

Liveness assumes weak fairness of each thread's steps inside a call, its return
included, and nothing else: a thread that has called is scheduled again and again, as a preemptive
scheduler does. No thread must call, and no `compare_exchange` must succeed. In the
trie reclamation need not happen either; in `hashmaps` it is fair, only because the
model has three addresses where the program has a heap: a Put that found
none would wait for it. `SomeCallReturns` in the trie is lock-freedom; in
UniqueOwnership, where others spin on a mark, it says that the mark is always
taken back, and in LockedMap that the mutex is.

## 5. What is proved

TLAPS checks the theorems for all values of the constants under the named
assumptions of the modules. These say no more than the sources do: a positive depth, a hash for
every key, a table size that is a power of two, sizes of the sketches that are not 0 (for
GroupFrequent `k + 2` counters with a positive `k`; for GeneralLazySS an odd number from 3 on,
which is what `(1 + k) | 1` makes of a positive `k`, of which the promotion reads some), and for the rest that special
values (null, free memory, "no answer yet") differ from ordinary ones, and that
the owner of no mutex is no thread. `kMaxPuts` may be any number, so the sketches' theorems cover any
number of puts. Counts are numbers there, where the code has `int`: the theorems
say nothing of a stream long enough to overflow one. `narrow` may be any function on items; what
needs items that fit an int says so.

| Module | Theorems | What they state |
|---|---|---|
| `TrieMapProofs` | `Invariance`, `TypeCorrect`, `NoUseAfterReclaim`, `RetiredIsUnreachable`, `NoDuplicateKeys`, `NodesOnOwnPath`, `ExitOnlyOnCollision`, `KeysAreKept`, `UndisturbedInsertStays`, `TrieImplementsMap` | every property of `trie_nodes` and `trie_map`: TrieMap implements ConcurrentMap |
| `FastTableProofs` | `TableInvariance`, `TableTypeCorrect`, `ComparedNodesAlive`, `RetiredOutOfTable`, `UpdatesKeepKeys` | every property of `fasttable_table` |
| `CachedMapProofs` | `CacheInvariance`, `CacheTypeCorrect`, `CachedIsPresent`, `StaleNeedsBypass` | every property of `cachedmap_cache` |
| `ThreadIdProofs` | `ThreadTypeCorrect`, `IdsAreUnique`, `FlagsAreRight`, `QuietScansAreRight` | every property of `threadid_ids` |
| `HashMapsProofs` | `MapInvariance`, `MapTypeCorrect`, `OwnersAreUnique`, `ReadsAreAlive`, `RetiredIsNoNull`, `ValuesHaveOnePlace`, `MapImplemented` | every invariant of `hashmaps`; each of the six implementations implements SlotMap, with the exceptions of section 3 |
| `HeavyHittersProofs` | `SketchHolds`, `TypeCorrect`, `LinksFollowHeap`, `ChainsAlwaysEnd`, `ErrorIsDelta`, `HotNeverLost`, `HotIsListed`, `IndexCorrect`, `DuplicatesNever`, `ErrorBounded`, `CountsLikeMisraGries`, `CountsLikeSpaceSaving` | every property of `sketches`: GroupFrequent implements MisraGries, SS (for items that fit an int) and GeneralLazySS implement SpaceSaving |
| `GeneralLazySSProofs`, `SumLemmas` | lemmas | the inductive invariant of GeneralLazySS, step by step; sums and bags over finite sets |

**TrieMap.** `IInv` is TypeOK and, beyond the checked properties:

* `TreeShape`: below a slot that holds no array everything is null, and the last
  level holds no array. Without it `Split` could overwrite slots of a subtree.
* `LinkedNodes`: a linked node is alive, not retired, in one slot, on the path
  of its own key.
* `OwnedNode`: what a `unique_ptr` owns is the call's own key and value,
  unlinked, unretired, and owned by nobody else.
* `Position`: the levels above the one a call is at are arrays on its key's
  path, and what it acts on is pinned. This is where the last load of `Repin` is
  used: a node that was in the slot after its address was published cannot be
  reclaimed until the holder lets go, so a `compare_exchange` that succeeds
  found that very node and not another one at its address.

The step theorem goes action by action and, below each, conjunct by conjunct;
the lemmas before it are about paths (two keys that agree at level `n` agree
above, a child belongs to its parent only) and about memory.

*Its refinement.* `Contents` is defined by search in the tree; `LinkedContents`
restates it by the set of linked nodes, from which it can be seen at once what a step
changes. An insert takes effect at its `compare_exchange` (`FillEmpty`, `Split`, `Replace`), when it
loses a split (`SplitLost`), or at `RefusePresent`; a lookup, and an insert that must find
something, at the load that finds the slot empty; a lookup that finds a node at the last load of
`Repin`. `PushDown` moves a node and changes no contents, and everything else stutters. Two facts are needed beyond `IInv` (`RInv`): a call has an
answer exactly when it is done, and the key of a node that a call has found has been present ever since
(`Found`), since nothing is ever removed. The latter, with
the history `raced`, is also what proves `UndisturbedInsertKept`.

**FastTable.** The invariant has the tree's `Position` for one slot: a node whose tag
matched, published and then seen in the slot again, is pinned and was alive when
it was pinned. `TableNodes` puts each linked node in the slot of its hash, hence in one slot
only, so that the node a `compare_exchange` takes out is linked nowhere else when it is
retired. `OnlyInsertEvicts` follows, because the address compared still holds the
node whose key was compared.

**CachedMap.** The invariant says where a value that a find may see comes
from. `Watched`: as long as `fresh[t]` stands, the slot holds what the thread compared.
`ElemFromTrie`: the element on its way into the cache has a key of the trie and, unless the
key was bypassed, the trie's value. `Reads(k)` is what a find of `k` that starts now
would answer, from cache or trie; for a key that was never bypassed it is a
current value, or that of an insert about to acknowledge (`ReadsCurrent`), and
it is in the history of every find still to read (`ReadsLegal`). `RegularReads` itself does
not hold (section 6); the proof pins its failure on the two ways past the cache.

**ThreadId.** `HolderInv` (types, flags match holders, ids unique) is inductive
for any table and word size; `ScanInv` adds what an undisturbed scan has learnt,
every entry from its start to its index taken, and the arithmetic that
`2 * kMaxNumThreads` consecutive indices cover every entry.

**HashMaps.** Each implementation has an inductive invariant of its own and
`IInv` is that of the one in use. *lock_based*: a mutex has one owner.
*unq_based*: an allocated value is in a slot, or with the one thread whose mark is in
the slot, or with the writer that has not stored it; this partition is both
`OnePlace` and the reason a reader's value is alive. *my_haz_ptr_impl* and *haz_ptr_impl*:
a value is in one slot, retired, or not yet stored, and a reader's is pinned; a filled map stays
filled, so `Put(const T &)` retires no null. *boost_arc*: what is referenced is
allocated, and what a writer holds has its value until it is stored.

*Their refinement.* Get takes effect at the access that determines
its answer, Put at its exchange, store or successful `compare_exchange`. Each of SlotMap's
allowances (section 3) appears in the proof as the case that could not be closed
without it. It needs facts that the safety properties do not, `Calls` and what a Put or Get
remembers: a Put that retries has found a value (`ArcRetries`), an overwriting Put
looks at nothing (`HazLooks`), a Get about to read again still has its pointer
(`UnqAnswers`). Such a Get of *unq_based* is overtaken when the slot, marks set aside
(`Pointer`), holds another pointer than the one it read; a Put that brings its address back
into the slot undoes that, which is why SlotMap lets a store both set and clear
`overtaken`. What calls return (the last part of TypeOK) is an invariant of its
own over the same facts.

**GeneralLazySS.** The invariant (`IInv` of GeneralLazySSProofs) has five parts.

* `Linked`: `next` and `prev` are each other's inverse, a link stays within a bucket, some
  rank grows along `next`, a bucket points to a counter of its own without a predecessor
  and, but for bucket 0, every such counter is pointed to. The rank makes chains end; it is not unique,
  and a step names the new one: a swap exchanges two ranks, an eviction puts the root below all others.
  Mutual links make the counters of a bucket one chain, so that `find` meets each of them (by induction
  on the rank), and that is `FoundWhereItIs`.
* `Filled`: a counter not in use counts nothing, has hash 0 and, unless it is the root, nothing
  points to it. The code does not keep more than that: `put` unlinks the root as if it were in
  the chain of bucket 0. `Linked` survives because what is lost is a front of bucket 0 only.
* `Ordered` and `Sifted`: a heap but for the place `ptr`, whose children are no less than its
  parent; that place is in use, and where it may change places with a counter not in use of the same
  hash (0), it has no predecessor and, unless it is the root, is in no chain. This is what a swap
  within a chain needs, since there links stay where they are.
* `Distinct` and `Estimates`: one counter for each sound item, its count between the puts
  of the item and these plus delta; the puts of an item that has none are below every count,
  because the root, which an eviction takes, is the least of a heap.
* `Total`: the counts add up to `n`. An item put more than `n / _size` times that had no
  counter would have every count above that (`HotTracked`); and were there `kListed` other counters as
  high as its own, their sum would exceed `n` (`HotListed`).

**The other sketches.** *SS*: whatever the items, an entry is not empty and its counters have its
count (`EntriesSound`): of what `del` leaves over nothing changes. For items that fit an int,
where `del` takes out one counter only, entries and counts determine each
other (`EntriesMatch`), and so do items and counters (`ItemsMatch`); that all entries together have `m` items when the sketch is full
is a sum over the domain of the index, by induction over finite sets. *Frequent*:
errors are within the rounds for items with and without a node (`NodesWithin`,
`OthersWithin`), though the list is not sorted; `NewPlace` is a permutation whatever it
picks. *GroupFrequent* keeps differences, so what the operations do to a list
of groups is first translated into what they do to the function from counters to
counts that the list represents: each list operation (taking a counter out, joining the
next group, a new group, moving a group, deleting the first) is shown to keep the partition
and its effect on the counts is named; a put then raises one counter by 1 or lowers all of them.
`PutsAddUp`, counts and rounds times the number of counters make `n`, bounds the
rounds by the puts, and the same functions are the steps of MisraGries
(`CountsLikeMisraGries`).

*SpaceSaving* (`CountsLikeSpaceSaving`). The counters, as a bag, forget where they are: an element is
item, count and delta. A function that changes at one point changes its bag by one
element (`BagChanges`), and one whose values trade places keeps it (`BagStays`), so a put is
one exchange and `Heapify` none. That the counter taken over counts least comes from the heap in GeneralLazySS,
and from the first entry of the index in SS; that the item had no counter,
from `find`, which is where the items of bucket 0 (`Forgettable`) have to be excepted.

The induction theorems of the library that take an operator as an argument cannot be
used. Where a fold over a sequence or a finite set needs an induction, the
lemma says that a set, the subsets or lengths for which the claim holds,
contains all of them, and rests on well-foundedness of a relation, which the
library states without operators.

### Only model-checked

Liveness (`SomeCallReturns` of TrieMap and of HashMaps) and the absence of deadlock in
`hashmaps`: both need ENABLED, which is out of the prover's reach. Everything
else the passing runs check is a theorem.

## 6. Where the code does not do what it says

Shown by a run:

* `trie_lost`: `DoInsert` ignores the result of the `compare_exchange` that
  splits a slot (`concurrent_hash_map.h:804-810`). Of two inserts that split
  the same slot the loser returns true, and its key is nowhere.
* `fasttable_find`: `PinnedFind` returns a node that nobody pins any more
  (`fast_table.h:161-174`); its callers read it.
* `cachedmap_stale`: the insert that fills the cache puts the old value of its own
  key there and the new one in the trie, and every later `Find` answers with the
  old one (`concurrent_hash_map.h:608-639`), with a single thread.
* `threadid_stat`: ids run to 95 and the comment at the throw speaks of 64 active threads
  (`thread.h:60`); `stat_` has 64 entries (`concurrent_hash_map.h:562-565,604`). Since
  ids follow `next_index_`, the 65th thread of a process is out of range even
  when the others have ended.

Read in the code, modelled where it says so, and without a run of their own:

* `ReserveEntry` throws "Too many threads!" although entries are free, when
  other threads release behind its scan and take ahead of it, or when the
  scan's bound wraps in 32 bits and the loop makes no attempt (`thread.h:53-61`).
  `QuietScanIsRight` is what is left of the promise, and both exceptions are
  visible in its premises.
* `Insert` calls `TryUpdate` without the insert type (608): DOES_NOT_EXIST
  overwrites the value of a cached key (`TryLoad`, `TryCas` of CachedMap).
* the parameters of `concurrent_hash_test.cpp:12-16`, a `hash_map(16, 3)`, lead to
  `exit(1)`: keys 0 and 4096 agree on every level. `ExitNeedsFullCollision`
  says when this happens, and `GiveUp` is that branch.
* `Get` of the ownership transfer map reads the value a second time after it has
  put the pointer back (`unique_ownership_impl.cpp:43`), when a Put may have
  deleted it. `Reread` may return `FREE`, and SlotMap has to allow an overtaken Get
  any answer (`reread`).
* `CheckedInsert` fills an empty slot only for second level hash 0
  (`fast_table.h:116`), so most hot keys are never cached.
* a `max_depth` of 0 makes `max_depth_ - 1` the largest `size_t` (792); the
  assumption `DepthAssumption` excludes it.
* a sketch whose counters were sorted by `output(true)` is no heap any more, and
  its links are wrong (`GeneralLazySS.h:216`); the sort leaves out the last counter.
* an overwriting Put of the counted pointer map stores and returns false
  (`boost_arc_impl.cpp:39`, SlotMap's `denied`); one without overwrite may replace a value, from its second
  try on (31-35).
* `Put(const T &)` of the folly map retires the old pointer unchecked
  (`haz_ptr_impl.cpp:34`), which works on a map that was filled (`RetiresPointer`).
* the slots of the trie's root are constructed by `new(root_[i])`, at the address
  their uninitialised memory holds (`concurrent_hash_map.h:558`). In C++14 the constructor
  does nothing; the store after it is what counts.
* the counters of SS convert their items to `int` (`SpaceSaving.h:58`). Two items a and b of
  a wider type that agree after that share a key in the entries of the index, and a put of one
  takes the other's counter out as well (`del`, 76-78): after a, b, a, the counter of b is in no
  entry, and a put of b goes on with the end of the index. The check for this, "In
  counters but not in index", is commented out (168-171). `ItemsFit` says where it cannot happen.
* the list of Frequent does not stay sorted (`Frequent.h:45`), and `increase`
  returns no value (`Structure.h:27`).
* `SubtractCounter` of GroupFrequent adds (`GroupFrequent.h:243-257`).

## 7. Plan

Done: sections 2 to 5. What could follow:

1. The hazard pointer library, once its source is at hand: its filter decides which of
   the two uses of `Repin` is unprotected (section 2).
2. CachedMap over TrieMap in place of an atomic trie, with the inserts that a lost split
   drops, and the sketch itself in place of what its `output` may return.
3. `merge` of GeneralLazySS, and negative items in GroupFrequent, if the code ever uses them.

## 8. What is not modelled

* `mrsw_ptr_impl.cpp`: commented out of the build, it deletes the old value at
  once and relies on its library for the readers; the library is not in the
  repository, and nothing in the sources says what it does. `no_op_impl.cpp` does
  nothing.
* `BucketMap` (commented out), `ThreadIndexer` and `PreAllocator` (used by
  nothing).
* `LazySpaceSaving`: GeneralLazySS for 32-bit items, statement by statement, and included
  by no target. `ASS` in SpaceSaving.h is empty.
* `merge` of GeneralLazySS, which nothing calls, and puts of negative items into
  GroupFrequent.
* `Delete` and `Check` of the HashMap interface: the first is empty, the second a
  test helper that runs alone.
* Destructors: no caller destroys a map in use.
* Benchmarks, trials and Lua scripts: drivers without state of their own.
