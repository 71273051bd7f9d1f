---------------------------- MODULE FastTableHash ----------------------------
(***************************************************************************)
(* The two pieces of a hash FastTable looks at: the slot, and the second   *)
(* level hash it keeps in the upper 16 bits of the slot's pointer.         *)
(***************************************************************************)
EXTENDS Naturals

CONSTANTS
  size_,         \* number of slots
  kTagShift,     \* 2^16: the bits of a hash below its second level hash
  kTagRange      \* 2^16: the number of second level hashes

(* "size must be power of 2": a mask with size_ - 1 is then a remainder.   *)
ASSUME SizeAssumption ==
  /\ size_ \in Nat \ {0} /\ \E b \in 0..size_ : size_ = 2 ^ b
  /\ kTagShift \in Nat \ {0} /\ kTagRange \in Nat \ {0}

Index == 0..(size_ - 1)

GetIdx(h) == h % size_

(* Mutant: the mask is missing.                                            *)
GetSecondLevelHashUnmasked(h) == h \div kTagShift

GetSecondLevelHash(h) == (h \div kTagShift) % kTagRange

=============================================================================
