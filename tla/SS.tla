---------------------------------- MODULE SS ----------------------------------
(***************************************************************************)
(* The sketch SS of SpaceSaving.h.  Its counters are objects, found by     *)
(* item in counters and, for the next eviction, by count in index, which   *)
(* has an entry for each count that some counter has.  Within an entry a   *)
(* counter is filed under the item it holds, and the constructor takes     *)
(* that item as an int: an item that does not fit is found under itself in *)
(* counters and held as another one in the counter.  Only its own thread   *)
(* uses a sketch.                                                          *)
(***************************************************************************)
EXTENDS Naturals, Sequences, FiniteSets, FiniteSetsExt

CONSTANTS
  Item, NULLITEM,
  narrow,        \* what is left of an item that was converted to int
  m,             \* number of counters
  kMaxPuts       \* bound: the puts to explore

CapacityAssumption == m \in Nat \ {0} /\ kMaxPuts \in Nat
NarrowAssumption == narrow \in [Item -> Item]

(* The items put fit an int.                                               *)
ItemsFit == \A i \in Item : narrow[i] = i

VARIABLES
  pool,          \* the counters allocated: item v, count f, error e
  counters,      \* the counter, by its place in pool, that an item is found by
  index,         \* the counters with each count
  n,             \* number of puts (t in the source)
  freq           \* history: how often each item was put (RAWSS)

vars == <<pool, counters, index, n, freq>>

Init ==
  /\ pool = <<>>
  /\ counters = [i \in {} |-> 0]
  /\ index = [f \in {} |-> {}]
  /\ n = 0
  /\ freq = [i \in Item |-> 0]

(* A new counter for item i.                                               *)
NewCounter(i) == [v |-> narrow[i], f |-> 1, e |-> 0]

(* The counters with count f, and what del(v) leaves of them: the counters *)
(* that hold item v all go.                                                *)
Entry(f) == IF f \in DOMAIN index THEN index[f] ELSE {}
del(v, f) == {c \in Entry(f) : pool[c].v # v}

(* A put is counted once more; RAWSS does nothing else.                    *)
Tally(i) ==
  /\ n < kMaxPuts
  /\ n' = n + 1
  /\ freq' = [freq EXCEPT ![i] = @ + 1]

(* Mutant of Moved: an entry is left in place when it gets empty.          *)
MovedLeavingEmpty(v, c, f) ==
  [g \in DOMAIN index \cup {f + 1} |->
     (IF g = f THEN del(v, f) ELSE Entry(g)) \cup (IF g = f + 1 THEN {c} ELSE {})]

(* Item v leaves the entry of count f, which is erased when that empties   *)
(* it, and counter c enters the next one.                                  *)
Moved(v, c, f) ==
  [g \in (DOMAIN index \ {h \in {f} : del(v, f) = {}}) \cup {f + 1} |->
     (IF g = f THEN del(v, f) ELSE Entry(g)) \cup (IF g = f + 1 THEN {c} ELSE {})]

(* The put of an item with a counter.  Without an entry for its count,     *)
(* which put does not look for, the code uses the end of index, and the    *)
(* behaviour of the model ends.                                            *)
Hit(i) ==
  /\ i \in DOMAIN counters
  /\ Tally(i)
  /\ LET c == counters[i]
     IN  /\ pool[c].f \in DOMAIN index
         /\ index' = Moved(pool[c].v, c, pool[c].f)
         /\ pool' = [pool EXCEPT ![c].f = @ + 1]
  /\ UNCHANGED counters

Fill(i) ==
  /\ i \notin DOMAIN counters
  /\ Cardinality(DOMAIN counters) # m
  /\ Tally(i)
  /\ LET c == Len(pool) + 1
     IN  /\ pool' = Append(pool, NewCounter(i))
         /\ counters' = [j \in DOMAIN counters \cup {i} |-> IF j = i THEN c ELSE counters[j]]
         /\ index' = [g \in DOMAIN index \cup {1} |-> Entry(g) \cup (IF g = 1 THEN {c} ELSE {})]

(* The entry with the least count gives up its first counter; the model    *)
(* leaves the order of the items open.  The new item is entered before the *)
(* old one is erased.                                                      *)
Evict(i) ==
  /\ i \notin DOMAIN counters
  /\ Cardinality(DOMAIN counters) = m
  /\ Tally(i)
  /\ LET f == Min(DOMAIN index)
     IN  \E c \in index[f] :
           /\ index' = Moved(pool[c].v, c, f)
           /\ pool' = [pool EXCEPT ![c] = [v |-> i, f |-> @.f + 1, e |-> @.f]]
           /\ counters' = [j \in (DOMAIN counters \cup {i}) \ {pool[c].v} |->
                IF j = i THEN c ELSE counters[j]]

Next == \E i \in Item : Hit(i) \/ Fill(i) \/ Evict(i)

Spec == Init /\ [][Next]_vars

-----------------------------------------------------------------------------
(* What the source has to check itself: as many items as counters.         *)
validate == MapThenSumSet(LAMBDA f : Cardinality(index[f]), DOMAIN index) = m

TypeOK ==
  /\ pool \in Seq([v : Item, f : 1..kMaxPuts, e : 0..kMaxPuts])
  /\ DOMAIN counters \in SUBSET Item
  /\ counters \in [DOMAIN counters -> DOMAIN pool]
  /\ DOMAIN index \in SUBSET (1..kMaxPuts)
  /\ index \in [DOMAIN index -> SUBSET DOMAIN pool]
  /\ n \in 0..kMaxPuts
  /\ freq \in [Item -> 0..kMaxPuts]

(* Whatever the items: no entry is empty or has a counter of another       *)
(* count, and there is an entry once there is a counter, so that Evict     *)
(* finds one with the least of the counts that the index knows.            *)
EntriesSound ==
  /\ \A f \in DOMAIN index : index[f] # {} /\ \A c \in index[f] : pool[c].f = f
  /\ DOMAIN counters # {} => DOMAIN index # {}

(* Every counter is in the entry of its count.                             *)
EntriesMatch ==
  /\ DOMAIN index = {pool[c].f : c \in DOMAIN pool}
  /\ \A f \in DOMAIN index : index[f] = {c \in DOMAIN pool : pool[c].f = f}

(* Every item is found by the counter that holds it, and every counter by  *)
(* its item.                                                               *)
ItemsMatch ==
  /\ \A i \in DOMAIN counters : pool[counters[i]].v = i
  /\ \A c \in DOMAIN pool : pool[c].v \in DOMAIN counters /\ counters[pool[c].v] = c

IndexMatches ==
  /\ EntriesMatch /\ ItemsMatch
  /\ Cardinality(DOMAIN counters) = m => validate

(* What is inductive.                                                      *)
Typed ==
  /\ n \in 0..kMaxPuts
  /\ pool \in Seq([v : Item, f : 1..n, e : 0..n])
  /\ DOMAIN counters \in SUBSET Item
  /\ counters \in [DOMAIN counters -> DOMAIN pool]
  /\ index \in [DOMAIN index -> SUBSET DOMAIN pool]
  /\ freq \in [Item -> 0..n]

Sized ==
  /\ IsFiniteSet(DOMAIN counters)
  /\ Cardinality(DOMAIN counters) = Len(pool) /\ Len(pool) <= m

IInv == Typed /\ EntriesSound /\ (ItemsFit => EntriesMatch /\ ItemsMatch /\ Sized)

(* The counters, as SpaceSaving has them: those yet to be allocated count  *)
(* nothing.                                                                *)
Bag ==
  LET Counts(p) ==
        IF p \in DOMAIN pool
        THEN [item |-> pool[p].v, count |-> pool[p].f, delta |-> pool[p].e]
        ELSE [item |-> NULLITEM, count |-> 0, delta |-> 0]
  IN  [e \in {Counts(p) : p \in 1..m} |-> Cardinality({p \in 1..m : Counts(p) = e})]

=============================================================================
