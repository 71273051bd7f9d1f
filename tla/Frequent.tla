------------------------------- MODULE Frequent -------------------------------
(***************************************************************************)
(* The sketch Frequent: a list of nodes, the least frequent meant to be at *)
(* its end, and a table that finds the node of an item.  A new item takes  *)
(* over a node whose frequency has come down to 0; when the last node has  *)
(* not, every node is decremented instead.                                 *)
(*                                                                         *)
(* A node that was hit moves forward past nodes that are not more          *)
(* frequent, but the walk looks one node too far ahead: whether the node   *)
(* passes its predecessor is decided by the one before that.  So the list  *)
(* does not stay sorted, and a frequency can become negative.              *)
(***************************************************************************)
EXTENDS Integers, FiniteSets, FiniteSetsExt, SequencesExt

CONSTANTS
  Item,
  bsize,         \* number of nodes
  kMaxPuts       \* bound: the puts to explore

SizeAssumption == bsize \in Nat \ {0} /\ kMaxPuts \in Nat

VARIABLES
  list,          \* the nodes between head and tail
  n,             \* number of puts
  freq,          \* history: how often each item was put
  rounds         \* history: how often all nodes were decremented

vars == <<list, n, freq, rounds>>

Init ==
  /\ list = <<>>
  /\ n = 0
  /\ freq = [i \in Item |-> 0]
  /\ rounds = 0

Tally(i) ==
  /\ n < kMaxPuts
  /\ n' = n + 1
  /\ freq' = [freq EXCEPT ![i] = @ + 1]

Places(i) == {p \in DOMAIN list : list[p].index = i}

FreqAt(p) == IF p = 0 THEN -1 ELSE list[p].freq

(* Where the node at place p goes: after the place where the walk towards  *)
(* head, at place 0, stops.  It tests the node before the one it is at.    *)
NewPlace(p) ==
  1 + Max({0} \cup {q \in 1..(p - 1) : FreqAt(q - 1) > list[p].freq + 1})

Hit(i) ==
  /\ Tally(i)
  /\ \E p \in Places(i) :
       list' = InsertAt(RemoveAt(list, p), NewPlace(p), [list[p] EXCEPT !.freq = @ + 1])
  /\ UNCHANGED rounds

Fill(i) ==
  /\ Places(i) = {}
  /\ Len(list) < bsize
  /\ Tally(i)
  /\ list' = Append(list, [index |-> i, freq |-> 1])
  /\ UNCHANGED rounds

Full(i) == Places(i) = {} /\ Len(list) = bsize

(* Mutant of Replace: the last node goes, whatever its frequency.          *)
ReplaceLast(i) ==
  /\ Full(i)
  /\ Tally(i)
  /\ list' = [list EXCEPT ![bsize] = [index |-> i, freq |-> 1]]
  /\ UNCHANGED rounds

(* The first node of the run of zeros at the end is for the new item.      *)
Replace(i) ==
  /\ Full(i)
  /\ Last(list).freq = 0
  /\ Tally(i)
  /\ LET p == 1 + Max({0} \cup {q \in DOMAIN list : list[q].freq # 0})
     IN  list' = [list EXCEPT ![p] = [index |-> i, freq |-> 1]]
  /\ UNCHANGED rounds

Decrement(i) ==
  /\ Full(i)
  /\ Last(list).freq # 0
  /\ Tally(i)
  /\ list' = [p \in DOMAIN list |-> [list[p] EXCEPT !.freq = @ - 1]]
  /\ rounds' = rounds + 1

Next == \E i \in Item : Hit(i) \/ Fill(i) \/ Replace(i) \/ Decrement(i)

Spec == Init /\ [][Next]_vars

-----------------------------------------------------------------------------
(* Every variable holds what its declaration in the code allows.           *)
TypeOK ==
  /\ list \in Seq([index : Item, freq : Int])
  /\ Len(list) <= bsize
  /\ n \in 0..kMaxPuts
  /\ freq \in [Item -> 0..kMaxPuts]
  /\ rounds \in 0..kMaxPuts

(* What the sketch estimates for an item: 0 when it has no node.           *)
Estimate(i) == IF Places(i) = {} THEN 0 ELSE list[Min(Places(i))].freq

(* No item has two nodes.                                                  *)
OneNodeEach == \A i \in Item : Cardinality(Places(i)) <= 1

(* What is inductive: the items of the nodes differ, and the errors of the *)
(* nodes, and of the items without one, are within the rounds.             *)
Typed ==
  /\ list \in Seq([index : Item, freq : Int]) /\ Len(list) <= bsize
  /\ n \in 0..kMaxPuts /\ rounds \in 0..n
  /\ freq \in [Item -> 0..n]
Distinct == \A p, q \in DOMAIN list : list[p].index = list[q].index => p = q
NodesWithin ==
  \A p \in DOMAIN list :
    list[p].freq <= freq[list[p].index] /\ freq[list[p].index] <= list[p].freq + rounds
OthersWithin == \A i \in Item : Places(i) = {} => freq[i] <= rounds

IInv == Typed /\ Distinct /\ NodesWithin /\ OthersWithin

=============================================================================
