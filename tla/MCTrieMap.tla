------------------------------ MODULE MCTrieMap ------------------------------
(***************************************************************************)
(* Instances of TrieMap.  Hashes are chosen so that keys meet and part at  *)
(* different levels: with one root slot and arrays of two, hashes 0 and 1  *)
(* part at level 1, hashes 0 and 2 at level 2.                             *)
(***************************************************************************)
EXTENDS TrieMap, TLC

CONSTANTS k0, k1, k2

Hash2 == k0 :> 0 @@ k1 :> 1
Hash2Deep == k0 :> 0 @@ k2 :> 2
Hash3 == k0 :> 0 @@ k1 :> 1 @@ k2 :> 2

(* 0 and 4 agree on both index bits, so these keys can never be told       *)
(* apart; 0 and 2 only meet at the root and at level 1.                    *)
HashCollide == k0 :> 0 @@ k1 :> 2 @@ k2 :> 4

Symmetry == Permutations(Thread) \cup Permutations(Node) \cup Permutations(Value)
=============================================================================
