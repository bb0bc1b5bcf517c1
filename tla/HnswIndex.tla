----------------------------- MODULE HnswIndex -----------------------------
(***************************************************************************)
(* HnswIndex (eidosdb-hnsw, index.rs): the in-memory approximate index.     *)
(* Every operation takes &mut self and runs to its end; what is hard is the *)
(* long sequence of inserts, removals and compactions.                      *)
(***************************************************************************)
EXTENDS HnswGraph

VARIABLE todo       \* the points compact has still to insert again

vars == <<graph, todo>>

Init == graph = Empty /\ todo = <<>>

\* Mutant: a live id is not refused.
insert_unchecked(id, v) ==
    /\ todo = <<>> /\ Len(graph.nodes) < MaxNodes
    /\ \E outcome \in insert_tracked(graph, id, v) : graph' = outcome.graph
    /\ UNCHANGED todo

insert(id, v) ==
    /\ todo = <<>> /\ Len(graph.nodes) < MaxNodes
    /\ id \notin LiveIds(graph)
    /\ \E outcome \in insert_tracked(graph, id, v) : graph' = outcome.graph
    /\ UNCHANGED todo

remove(id) ==
    /\ todo = <<>>
    /\ id \in LiveIds(graph)
    /\ graph' = remove_tracked(graph, id)
    /\ UNCHANGED todo

\* Collects the live vectors and resets the graph.
compact ==
    /\ todo = <<>>
    /\ todo' = LivePoints(graph) /\ graph' = Empty

\* The loop of compact: one vector inserted again.
CompactInserts ==
    /\ todo # <<>>
    /\ \E outcome \in insert_tracked(graph, Head(todo).id, Head(todo).val) :
        graph' = outcome.graph
    /\ todo' = Tail(todo)

Next ==
    \/ \E id \in Ids : remove(id) \/ \E v \in Values : insert(id, v)
    \/ compact \/ CompactInserts

Spec == Init /\ [][Next]_vars

\* The stored vectors: in the graph, or waiting to be inserted again.
Stored ==
    LET waiting == {todo[k].id : k \in 1..Len(todo)}
        place(id) == CHOOSE k \in 1..Len(todo) : todo[k].id = id
    IN [id \in LiveIds(graph) \cup waiting |->
            IF id \in waiting THEN todo[place(id)].val ELSE graph.nodes[NodeOf(graph, id)].val]

(***************************************************************************)
(* The index implements the port: inserts and removals change the stored    *)
(* vectors as promised, whatever the order in which ids are removed,        *)
(* inserted again and compacted away.                                       *)
(***************************************************************************)
Port == INSTANCE VectorIndex WITH contents <- Stored, intact <- TRUE

ImplementsVectorIndex == Port!Spec

(***************************************************************************)
(* index.rs:69, "Rebuilds the graph keeping only live nodes": no step of a  *)
(* compaction drops a vector, alters it or brings a removed one back.       *)
(***************************************************************************)
CompactionKeepsContents ==
    [][todo # <<>> \/ todo' # <<>> => Stored' = Stored]_vars
=============================================================================
