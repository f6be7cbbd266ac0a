----------------------------- MODULE MCNifStats ------------------------------
(* NifStats for TLC: the slots are interchangeable. *)
EXTENDS NifStats, TLC

OpSymmetry == Permutations(Ops)
=============================================================================
