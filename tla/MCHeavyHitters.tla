---------------------------- MODULE MCHeavyHitters ----------------------------
(***************************************************************************)
(* Three items that share a bucket, one of another one, and two in the     *)
(* bucket whose number is also the hash of the counters not in use, which  *)
(* only GeneralLazySS is given.  The items of SS fit an int.               *)
(***************************************************************************)
EXTENDS HeavyHitters, TLC

CONSTANTS i0, i1, i2, i3, i4, i5

Hashes == i0 :> 0 @@ i1 :> 1 @@ i2 :> 1 @@ i3 :> 1 @@ i4 :> 2 @@ i5 :> 0

AllFit == [i \in Few |-> i]

Symmetry ==
  Permutations({i1, i2, i3}) \cup Permutations({i0, i5})

=============================================================================
