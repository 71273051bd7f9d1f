----------------------------- MODULE GroupFrequent -----------------------------
(***************************************************************************)
(* The sketch GroupFrequent.  Counters with the same count form a group;   *)
(* the groups are a list by count, each holding the difference to the one  *)
(* before, so that decrementing all counters changes the first difference  *)
(* only.  The group at the head of the list is that of the counters at 0,  *)
(* which keep their items until they are given away.                       *)
(*                                                                         *)
(* The rings of counters in a group and in a bucket of the hash table are  *)
(* sets here, and any counter may be at the head of its ring.  The put of  *)
(* a negative item, which is to subtract, is left out.                     *)
(***************************************************************************)
EXTENDS Naturals, FiniteSets, FiniteSetsExt, SequencesExt

CONSTANTS
  Item,
  NULLITEM,      \* the item of a counter that never had one
  Counter,       \* the counters: k + 2 of them
  kMaxPuts       \* bound: the puts to explore

CounterAssumption ==
  /\ IsFiniteSet(Counter) /\ Cardinality(Counter) > 2
  /\ NULLITEM \notin Item
  /\ kMaxPuts \in Nat

VARIABLES
  groups,        \* the list of groups
  item,          \* the item of each counter; the hash table finds it
  n,             \* number of puts
  freq,          \* history: how often each item was put
  rounds         \* history: how often the counters were decremented

vars == <<groups, item, n, freq, rounds>>

Group(d, cs) == [diff |-> d, items |-> cs]

Init ==
  /\ groups = <<Group(0, Counter)>>
  /\ item = [c \in Counter |-> NULLITEM]
  /\ n = 0
  /\ freq = [i \in Item |-> 0]
  /\ rounds = 0

Tally(i) ==
  /\ n < kMaxPuts
  /\ n' = n + 1
  /\ freq' = [freq EXCEPT ![i] = @ + 1]

GroupOf(c) == CHOOSE g \in DOMAIN groups : c \in groups[g].items
Alone(c) == groups[GroupOf(c)].items = {c}
Free == groups[1].items

(* Group g of list gs is followed by one whose counters have one more.     *)
HasSuccessor(gs, g) == g < Len(gs) /\ gs[g + 1].diff = 1

(* Mutant of NewGroup: the group after the new one keeps its difference.   *)
NewGroupShifting(gs, g, c) == InsertAt(gs, g + 1, Group(1, {c}))

(* A new group for counter c after group g: the next one is nearer to it.  *)
NewGroup(gs, g, c) ==
  InsertAt([h \in DOMAIN gs |-> IF h = g + 1 THEN [gs[h] EXCEPT !.diff = @ - 1] ELSE gs[h]],
           g + 1, Group(1, {c}))

Without(c) == [g \in DOMAIN groups |-> [groups[g] EXCEPT !.items = @ \ {c}]]

InsertIntoFirstGroup(c) == [Without(c) EXCEPT ![2].items = @ \cup {c}]
CreateFirstGroup(c) == NewGroup(Without(c), 1, c)

(* The free counter counts 1.                                              *)
FirstGroup(c) ==
  IF HasSuccessor(groups, 1) THEN InsertIntoFirstGroup(c) ELSE CreateFirstGroup(c)

(* IncrementCounter: the counter joins the next group, takes its group     *)
(* along when it is alone in it, or starts a new one.                      *)
PutInNewGroup(c) ==
  LET g == GroupOf(c)
      joined == [Without(c) EXCEPT ![g + 1].items = @ \cup {c}]
  IN  IF Alone(c) THEN RemoveAt([joined EXCEPT ![g + 1].diff = @ + groups[g].diff], g)
      ELSE joined

Moved(c) ==
  LET g == GroupOf(c)
  IN  [h \in DOMAIN groups |->
         IF h = g THEN [groups[h] EXCEPT !.diff = @ + 1]
         ELSE IF h = g + 1 THEN [groups[h] EXCEPT !.diff = @ - 1] ELSE groups[h]]

Incremented(c) ==
  IF HasSuccessor(groups, GroupOf(c)) THEN PutInNewGroup(c)
  ELSE IF Alone(c) THEN Moved(c)
  ELSE NewGroup(Without(c), GroupOf(c), c)

(* Counters that come down to 0 join the free ones.                        *)
DeleteFirstGroup == RemoveAt([groups EXCEPT ![1].items = @ \cup groups[2].items], 2)

(* Mutant of Decremented: the group joins the free ones a round too late.  *)
DecrementedLate ==
  IF Len(groups) = 1 THEN groups
  ELSE IF groups[2].diff > 0 THEN [groups EXCEPT ![2].diff = @ - 1] ELSE DeleteFirstGroup

Decremented ==
  IF Len(groups) = 1 THEN groups
  ELSE IF groups[2].diff > 1 THEN [groups EXCEPT ![2].diff = @ - 1] ELSE DeleteFirstGroup

-----------------------------------------------------------------------------
(* put                                                                     *)

Increment(i) ==
  /\ Tally(i)
  /\ \E c \in Counter \ Free : item[c] = i /\ groups' = Incremented(c)
  /\ UNCHANGED <<item, rounds>>

(* The item's counter is at 0: it counts again, unless it is the last free *)
(* one.                                                                    *)
RecycleCounter(i) ==
  /\ Tally(i)
  /\ \E c \in Free :
       /\ item[c] = i
       /\ IF Free = {c}
          THEN groups' = Decremented /\ rounds' = rounds + 1
          ELSE groups' = FirstGroup(c) /\ UNCHANGED rounds
  /\ UNCHANGED item

NotFound(i) == \A c \in Counter : item[c] # i

(* Mutant of GetNewCounter: the counters in use are given away, too.       *)
GetAnyCounter(i) ==
  /\ NotFound(i)
  /\ Cardinality(Free) > 1
  /\ Tally(i)
  /\ \E c \in Counter :
       /\ item' = [item EXCEPT ![c] = i]
       /\ groups' = IF c \in Free THEN FirstGroup(c) ELSE Incremented(c)
  /\ UNCHANGED rounds

GetNewCounter(i) ==
  /\ NotFound(i)
  /\ Cardinality(Free) > 1
  /\ Tally(i)
  /\ \E c \in Free :
       /\ item' = [item EXCEPT ![c] = i]
       /\ groups' = FirstGroup(c)
  /\ UNCHANGED rounds

DecrementCounters(i) ==
  /\ NotFound(i)
  /\ Cardinality(Free) = 1
  /\ Tally(i)
  /\ groups' = Decremented
  /\ rounds' = rounds + 1
  /\ UNCHANGED item

Next ==
  \E i \in Item :
    Increment(i) \/ RecycleCounter(i) \/ GetNewCounter(i) \/ DecrementCounters(i)

Spec == Init /\ [][Next]_vars

-----------------------------------------------------------------------------
(* Every variable holds what its declaration in the code allows.           *)
TypeOK ==
  /\ groups \in Seq([diff : 0..kMaxPuts, items : SUBSET Counter])
  /\ item \in [Counter -> Item \cup {NULLITEM}]
  /\ n \in 0..kMaxPuts
  /\ freq \in [Item -> 0..kMaxPuts]
  /\ rounds \in 0..kMaxPuts

(* The groups part the counters, none is empty, and each has a count of    *)
(* its own: a difference of 0 would make two groups of one count.          *)
GroupsPart ==
  /\ groups[1].diff = 0
  /\ \A g \in DOMAIN groups :
       /\ groups[g].items # {}
       /\ g > 1 => groups[g].diff > 0
       /\ \A h \in DOMAIN groups : g # h => groups[g].items \cap groups[h].items = {}
  /\ UNION {groups[g].items : g \in DOMAIN groups} = Counter

Count(c) == FoldFunctionOnSet(+, 0, [g \in DOMAIN groups |-> groups[g].diff], 1..GroupOf(c))

(* What the sketch estimates for an item: 0 when it has no counter.        *)
Estimate(i) ==
  LET own == {c \in Counter : item[c] = i}
  IN  IF own = {} THEN 0 ELSE Count(CHOOSE c \in own : TRUE)

(* What is inductive: the groups part the counters, their items differ, an *)
(* item with a counter is underestimated by the rounds at most, one        *)
(* without was put in as many puts at most, and each put is counted once,  *)
(* or in a round for every counter.                                        *)
Typed ==
  /\ groups \in Seq([diff : 0..n, items : SUBSET Counter])
  /\ item \in [Counter -> Item \cup {NULLITEM}]
  /\ n \in 0..kMaxPuts /\ rounds \in 0..n
  /\ freq \in [Item -> 0..n]
OneCounterEach == \A c, d \in Counter : item[c] = item[d] /\ item[c] # NULLITEM => c = d
CountersWithin ==
  \A c \in Counter :
    IF item[c] = NULLITEM THEN c \in Free
    ELSE Count(c) <= freq[item[c]] /\ freq[item[c]] <= Count(c) + rounds
OthersWithin == \A i \in Item : NotFound(i) => freq[i] <= rounds
PutsAddUp == SumFunction([c \in Counter |-> Count(c)]) + rounds * Cardinality(Counter) = n

IInv ==
  /\ Typed /\ GroupsPart
  /\ OneCounterEach /\ CountersWithin /\ OthersWithin /\ PutsAddUp

=============================================================================
