------------------------- MODULE MCUnitOfWorkParity -------------------------
(* Instances of UnitOfWorkParity for TLC. *)
EXTENDS UnitOfWorkParity, TLC

EveryService == SUBSET KnownHabits

Symmetry == Permutations(Aggregates) \cup Permutations(Events)
=============================================================================
