---------------------------- MODULE MCLazyGraph ----------------------------
(* Instances of LazyGraph for TLC. *)
EXTENDS LazyGraph, TLC

Symmetry == Permutations(Ids)
=============================================================================
