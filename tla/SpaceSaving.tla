----------------------------- MODULE SpaceSaving -----------------------------
(***************************************************************************)
(* What the heavy hitter sketch of a thread promises: a fixed number of    *)
(* counters; a put adds one to the counter of its item or, when the item   *)
(* has none, takes over a counter with the least count, whose count so far *)
(* becomes the error of the new one.  Items that are Forgettable may be    *)
(* taken for items without a counter at any time.                          *)
(***************************************************************************)
EXTENDS Naturals, Bags

CONSTANTS
  Item,
  Forgettable,   \* items whose counter a put may overlook
  NULLITEM,      \* the item of a counter not in use
  _size          \* number of counters

VARIABLES
  bag            \* the counters in use and not in use

Unused == [item |-> NULLITEM, count |-> 0, delta |-> 0]

Init == bag = [x \in {Unused} |-> _size]

Least(x) == \A y \in BagToSet(bag) : x.count <= y.count
HasCounter(i) == \E x \in BagToSet(bag) : x.item = i

Exchange(x, y) == bag' = (bag (-) SetToBag({x})) (+) SetToBag({y})

Count(i) ==
  \E x \in BagToSet(bag) :
    x.item = i /\ Exchange(x, [x EXCEPT !.count = @ + 1])

TakeOver(i) ==
  /\ HasCounter(i) => i \in Forgettable
  /\ \E x \in BagToSet(bag) :
       Least(x) /\ Exchange(x, [item |-> i, count |-> x.count + 1, delta |-> x.count])

Next == \E i \in Item : Count(i) \/ TakeOver(i)

Spec == Init /\ [][Next]_bag

=============================================================================
