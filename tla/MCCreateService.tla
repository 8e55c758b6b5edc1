-------------------------- MODULE MCCreateService ---------------------------
(* Instances of CreateService for TLC. *)
EXTENDS CreateService, TLC

Symmetry == Permutations(Aggregates) \cup Permutations(Callers)
=============================================================================
