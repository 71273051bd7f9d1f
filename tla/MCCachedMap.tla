----------------------------- MODULE MCCachedMap -----------------------------
(***************************************************************************)
(* One root slot and one cache slot.  k0 and k1 share the second level     *)
(* hash 0 and differ in what is left of their hashes.                       *)
(***************************************************************************)
EXTENDS CachedMap, TLC

CONSTANTS t0, k0, k1

SameTag == k0 :> 0 @@ k1 :> 2
Alone == k0 :> 0

Symmetry == Permutations(Value)
=============================================================================
