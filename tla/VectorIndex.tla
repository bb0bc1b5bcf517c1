---------------------------- MODULE VectorIndex ----------------------------
(***************************************************************************)
(* What the VectorIndex port of eidosdb-core promises of any index behind   *)
(* it: a map from vector ids to embeddings in which a successful insert     *)
(* adds ids that were absent (a present id is refused with DuplicateId), a  *)
(* remove deletes one, and nothing else ever changes what is stored: not a  *)
(* checkpoint, a compaction, a crash or a reopen.                           *)
(*                                                                          *)
(* `intact` turns FALSE when an implementation leaves the conditions under  *)
(* which it keeps the promise; from then on nothing is promised.            *)
(***************************************************************************)
EXTENDS Integers

CONSTANTS Ids, Values

VARIABLES contents, intact

vars == <<contents, intact>>

Init ==
    /\ contents = <<>>
    /\ intact = TRUE

\* A successful insert of one vector, or of a batch as one step.
Insert(new) ==
    /\ DOMAIN new \cap DOMAIN contents = {}
    /\ contents' = [id \in DOMAIN contents \cup DOMAIN new |->
                        IF id \in DOMAIN new THEN new[id] ELSE contents[id]]

Remove(id) ==
    /\ id \in DOMAIN contents
    /\ contents' = [other \in DOMAIN contents \ {id} |-> contents[other]]

Next ==
    \/ /\ intact /\ intact'
       /\ \/ \E S \in SUBSET Ids : \E new \in [S -> Values] : Insert(new)
          \/ \E id \in Ids : Remove(id)
    \/ ~intact'

Spec == Init /\ [][Next]_vars
=============================================================================
