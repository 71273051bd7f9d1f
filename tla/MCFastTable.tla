----------------------------- MODULE MCFastTable -----------------------------
(***************************************************************************)
(* One slot and one tag bit: k0 and k1 agree on both and differ in what is *)
(* left of their hashes, k2 has the other tag.                             *)
(***************************************************************************)
EXTENDS FastTable, TLC

CONSTANTS k0, k1, k2

Hashes == k0 :> 0 @@ k1 :> 2 @@ k2 :> 1

Symmetry == Permutations(Thread) \cup Permutations(Node)
=============================================================================
