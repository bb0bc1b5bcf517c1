-------------------------- MODULE MCPersistentFlat --------------------------
(* Instances of PersistentFlat for TLC: ids and values are interchangeable. *)
EXTENDS PersistentFlat, TLC

Symmetry == Permutations(Ids) \cup Permutations(Values)
=============================================================================
