------------------------------ MODULE HashIndex ------------------------------
(***************************************************************************)
(* The index arithmetic of ConcurrentHashMap: how the constructor derives  *)
(* its parameters and which bits of a hash pick the slot at each level.    *)
(* A shift right by b is a division by 2^b, and a mask with 2^b - 1 a      *)
(* remainder modulo 2^b.                                                   *)
(***************************************************************************)
EXTENDS Naturals, Sequences

CONSTANTS
  root_size,            \* constructor argument
  max_depth,            \* constructor argument
  kArrayNodeSizeBits,   \* log2 of the fan-out of an ArrayNode
  kHashWordLength,      \* width of a hash
  kMaxDepth             \* hard limit on the number of levels

(* How many times a number can be halved before it is 0.                   *)
BitCount[n \in Nat] == IF n = 0 THEN 0 ELSE 1 + BitCount[n \div 2]

(* util::powerOf2: the position of the highest bit set.                    *)
powerOf2(n) == BitCount[n] - 1

(* util::nextPowerOf2: n itself when only its highest bit is set.          *)
nextPowerOf2(n) ==
  IF n # 0 /\ n = 2^powerOf2(n) THEN n ELSE 2^BitCount[n]

(* The members the constructor computes.                                   *)
root_size_ == nextPowerOf2(root_size)
root_bits_ == powerOf2(root_size_)

Least(S) == CHOOSE x \in S : \A y \in S : x <= y

max_depth_ ==
  Least({kMaxDepth, (kHashWordLength - root_bits_) \div kArrayNodeSizeBits, max_depth})

kArrayNodeSize == 2^kArrayNodeSizeBits

GetRootIdx(h) == h % root_size_

GetNthIdx(h, n) ==
  ((h \div 2^root_bits_) \div 2^((n - 1) * kArrayNodeSizeBits)) % kArrayNodeSize

(* The slot that hash h reaches at level n, named by the indices followed  *)
(* from the root: an ArrayNode, once linked, is never unlinked, so the     *)
(* path names the address for good.                                        *)
PathOf(h, n) ==
  [i \in 1..(n + 1) |-> IF i = 1 THEN GetRootIdx(h) ELSE GetNthIdx(h, i - 1)]

=============================================================================
