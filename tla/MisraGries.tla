------------------------------ MODULE MisraGries ------------------------------
(***************************************************************************)
(* What a sketch of frequent items promises: no more than capacity items   *)
(* have a count; the put of another item either gives it the count 1 or,   *)
(* when there is no room, takes one from every count.                      *)
(***************************************************************************)
EXTENDS Naturals, FiniteSets

CONSTANTS
  Item,
  capacity       \* how many items may have a count

VARIABLES
  count          \* the count of each item, 0 when it has none

Init == count = [i \in Item |-> 0]

Counted == {i \in Item : count[i] > 0}

Count(i) == count[i] > 0 /\ count' = [count EXCEPT ![i] = @ + 1]

Enter(i) ==
  /\ count[i] = 0
  /\ Cardinality(Counted) < capacity
  /\ count' = [count EXCEPT ![i] = 1]

Decrement(i) ==
  /\ count[i] = 0
  /\ Cardinality(Counted) = capacity
  /\ count' = [j \in Item |-> IF j \in Counted THEN count[j] - 1 ELSE 0]

Next == \E i \in Item : Count(i) \/ Enter(i) \/ Decrement(i)

Spec == Init /\ [][Next]_count

=============================================================================
