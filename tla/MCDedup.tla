------------------------------ MODULE MCDedup ------------------------------
(* An instance of Dedup for TLC. *)
EXTENDS Dedup, TLC

IdSymmetry == Permutations(Ids)
=============================================================================
