---------------------------- MODULE MCDequeList ----------------------------
(* Instances of DequeList for TLC. *)
EXTENDS DequeList, TLC

Symmetry == Permutations(Lists) \cup Permutations(Values)
=============================================================================
