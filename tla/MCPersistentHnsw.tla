-------------------------- MODULE MCPersistentHnsw --------------------------
(* Instances of PersistentHnsw for TLC: ids and values are interchangeable. *)
EXTENDS PersistentHnsw, TLC

Symmetry == Permutations(Ids) \cup Permutations(Values)
(* Disk windows are never left and every property is about the index before *)
(* it hits one: states beyond are checked and not continued.                *)
Unexposed == ~DiskExposed
=============================================================================
