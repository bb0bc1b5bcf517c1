------------------------------ MODULE MCServer ------------------------------
(* Instances of Server for TLC: one contested name, a flat and an HNSW        *)
(* collection of the same metric and dimension; processes interchangeable.    *)
EXTENDS Server, TLC

MCMetas == {[type |-> "flat", space |-> "s"], [type |-> "hnsw", space |-> "s"]}
Symmetry == Permutations(Procs)
=============================================================================
