----------------------------- MODULE HeavyHitters -----------------------------
(***************************************************************************)
(* The sketches of heavyhitter/, each on its own on every stream of puts:  *)
(* Init picks one, which the steps are those of.  GeneralLazySS and SS are *)
(* to implement SpaceSaving, GroupFrequent to implement MisraGries.        *)
(***************************************************************************)
EXTENDS Integers, FiniteSets

CONSTANTS
  Item, NULLITEM, kMaxPuts,
  hash, hashsize, _size,   \* GeneralLazySS
  kListed,                 \* counters the promotion reads
  Few,                     \* the items put into the other sketches
  m,                       \* SS: number of counters
  narrow,                  \* SS: what is left of an item converted to int
  bsize,                   \* Frequent: number of nodes
  Counter                  \* GroupFrequent: the counters

VARIABLES
  sketch,                  \* the sketch in use
  n, freq,                 \* all of them
  counters, hashtable, ptr,  \* GeneralLazySS
  pool, byItem, index,     \* SS: counters allocated, by item, by count
  list,                    \* Frequent
  groups, item,            \* GroupFrequent
  rounds                   \* Frequent, GroupFrequent

lazyVars == <<counters, hashtable, ptr>>
ssVars == <<pool, byItem, index>>
groupVars == <<groups, item>>
vars == <<sketch, n, freq, lazyVars, ssVars, list, groupVars, rounds>>

Lazy == INSTANCE GeneralLazySS
Stream == INSTANCE SS WITH Item <- Few, counters <- byItem
Nodes == INSTANCE Frequent WITH Item <- Few
Groups == INSTANCE GroupFrequent WITH Item <- Few

ASSUME SketchAssumptions ==
  /\ Lazy!SizeAssumption /\ Lazy!HashAssumption /\ Lazy!NullAssumption
  /\ Stream!CapacityAssumption /\ Stream!NarrowAssumption
  /\ Nodes!SizeAssumption /\ Groups!CounterAssumption

(* A sketch that is not in use has no state.                               *)
NoLazy == counters = <<>> /\ hashtable = <<>> /\ ptr = 0
NoStream == pool = <<>> /\ byItem = <<>> /\ index = <<>>
NoGroups == groups = <<>> /\ item = <<>>

Init ==
  \/ sketch = "GeneralLazySS" /\ Lazy!Init /\ NoStream /\ list = <<>> /\ NoGroups /\ rounds = 0
  \/ sketch = "SS" /\ NoLazy /\ Stream!Init /\ list = <<>> /\ NoGroups /\ rounds = 0
  \/ sketch = "Frequent" /\ NoLazy /\ NoStream /\ Nodes!Init /\ NoGroups
  \/ sketch = "GroupFrequent" /\ NoLazy /\ NoStream /\ list = <<>> /\ Groups!Init

Next ==
  \/ /\ sketch = "GeneralLazySS" /\ Lazy!Next
     /\ UNCHANGED <<sketch, ssVars, list, groupVars, rounds>>
  \/ /\ sketch = "SS" /\ Stream!Next
     /\ UNCHANGED <<sketch, lazyVars, list, groupVars, rounds>>
  \/ /\ sketch = "Frequent" /\ Nodes!Next
     /\ UNCHANGED <<sketch, lazyVars, ssVars, groupVars>>
  \/ /\ sketch = "GroupFrequent" /\ Groups!Next
     /\ UNCHANGED <<sketch, lazyVars, ssVars, list>>

Spec == Init /\ [][Next]_vars

-----------------------------------------------------------------------------
(* Properties.                                                             *)

(* Every variable holds what its declaration in the code allows.           *)
TypeOK ==
  /\ sketch = "GeneralLazySS" => Lazy!TypeOK
  /\ sketch = "SS" => Stream!TypeOK
  /\ sketch = "Frequent" => Nodes!TypeOK
  /\ sketch = "GroupFrequent" => Groups!TypeOK

(* GeneralLazySS: the links follow the heap, so a counter in use is found  *)
(* under its item however counters and chains were reshuffled.             *)
FoundWhereItIs == sketch = "GeneralLazySS" => Lazy!FoundWhereItIs

(* GeneralLazySS: every chain ends, so neither find nor put loops for ever.*)
ChainsEnd == sketch = "GeneralLazySS" => Lazy!ChainsEnd

(* GeneralLazySS: what the promotion of hot keys reads of output(true)     *)
(* holds every item put more than n / kListed times, but for the one       *)
(* counter that the sort leaves out.                                       *)
HotListed == sketch = "GeneralLazySS" => Lazy!HotListed

(* GeneralLazySS: a count is too high by delta at most, and an item that   *)
(* has no counter was put no more often than the least count.              *)
WithinDelta == sketch = "GeneralLazySS" => Lazy!WithinDelta

(* GeneralLazySS: an item put more than n / _size times has a counter.     *)
HotTracked == sketch = "GeneralLazySS" => Lazy!HotTracked

(* SS: no entry is empty or has a counter of another count; and, of items  *)
(* that fit an int, every counter is in the entry of its count and found   *)
(* by its item, so an eviction takes one of the least and forgets its item.*)
IndexMatches ==
  sketch = "SS" =>
    Stream!EntriesSound /\ (Stream!ItemsFit => Stream!IndexMatches)

(* Frequent, GroupFrequent: no item has two nodes or counters, no group is *)
(* empty or has the count of another.                                      *)
NoDuplicates ==
  /\ sketch = "Frequent" => Nodes!OneNodeEach
  /\ sketch = "GroupFrequent" => Groups!GroupsPart

(* Frequent, GroupFrequent: an estimate is never too high, and too low by  *)
(* no more than the rounds of decrements, whatever was evicted meanwhile.  *)
(* A round of GroupFrequent takes one from each count and swallows its own *)
(* put, so there is at most one in as many puts as there are counters.     *)
ErrorIsRounds ==
  LET Within(i, estimate) == estimate <= freq[i] /\ freq[i] <= estimate + rounds
  IN  /\ sketch = "Frequent" => \A i \in Few : Within(i, Nodes!Estimate(i))
      /\ sketch = "GroupFrequent" =>
           /\ \A i \in Few : Within(i, Groups!Estimate(i))
           /\ rounds * Cardinality(Counter) <= n

NoCounters(size) == [x \in {[item |-> NULLITEM, count |-> 0, delta |-> 0]} |-> size]

(* GeneralLazySS implements SpaceSaving, but that it may take items of     *)
(* bucket 0 for items without a counter.                                   *)
LazySaving == INSTANCE SpaceSaving WITH
  Forgettable <- Item \ Lazy!Sound,
  bag <- IF sketch = "GeneralLazySS" THEN Lazy!Bag ELSE NoCounters(_size)

(* SS implements SpaceSaving, if the items put fit an int.                 *)
StreamSaving == INSTANCE SpaceSaving WITH
  Item <- Few, Forgettable <- {}, _size <- m,
  bag <- IF sketch = "SS" /\ Stream!ItemsFit THEN Stream!Bag ELSE NoCounters(m)

ImplementsSpaceSaving == LazySaving!Spec /\ StreamSaving!Spec

(* GroupFrequent implements MisraGries: the differences, the merging and   *)
(* the splitting of groups add up to one count per item.                   *)
Counting == INSTANCE MisraGries WITH
  Item <- Few, capacity <- Cardinality(Counter) - 1,
  count <- [i \in Few |-> IF sketch = "GroupFrequent" THEN Groups!Estimate(i) ELSE 0]

ImplementsMisraGries == Counting!Spec

=============================================================================
