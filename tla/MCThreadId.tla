----------------------------- MODULE MCThreadId -----------------------------
(***************************************************************************)
(* Instances of ThreadId. The word is small enough for next_index_ to wrap *)
(* around many times, and is not a multiple of the table's size, as 2^32   *)
(* is not of 96.                                                           *)
(***************************************************************************)
EXTENDS ThreadId, TLC

Symmetry == Permutations(Thread)
=============================================================================
