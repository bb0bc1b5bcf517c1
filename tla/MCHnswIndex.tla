---------------------------- MODULE MCHnswIndex ----------------------------
(* Instances of HnswIndex for TLC: ids and values are interchangeable.      *)
EXTENDS HnswIndex, TLC

Symmetry == Permutations(Ids) \cup Permutations(Values)
=============================================================================
