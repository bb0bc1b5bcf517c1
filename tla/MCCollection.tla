---------------------------- MODULE MCCollection ----------------------------
(* An instance of Collection for TLC: overlapping documents, points with and *)
(* without document and payload.                                             *)
EXTENDS Collection

CONSTANTS t1, t2, v1, v2, x, y

MCPoints ==
    {[vector |-> v1, document |-> t1 :> 1 @@ t2 :> 1, payload |-> x],
     [vector |-> v2, document |-> t1 :> 2 @@ t2 :> 0, payload |-> None],
     [vector |-> v2, document |-> None, payload |-> y]}
MCFilters == {{x}, {x, y}}
Symmetry == Permutations(Ids)
=============================================================================
