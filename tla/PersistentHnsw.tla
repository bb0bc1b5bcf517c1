--------------------------- MODULE PersistentHnsw ---------------------------
(***************************************************************************)
(* PersistentHnswIndex (eidosdb-storage, persistent_hnsw.rs): the durable   *)
(* approximate index.  The graph lives in RAM; hnsw.redb keeps a row and    *)
(* the neighbour lists of each node and the "state" row (entry point, node  *)
(* count); the segment file keeps one vector per node index.  open rebuilds *)
(* the graph from the rows, in index order, and the first node_count        *)
(* records.                                                                 *)
(*                                                                          *)
(* Operations take &mut self; they are split at their durable effects, at   *)
(* which the process may crash or the effect return an error.  RAM is not   *)
(* rolled back when a transaction fails.  The RNG position is the number of *)
(* nodes (each insert draws once, compact re-seeds), the level of the entry *)
(* point is its node's: neither is kept.                                    *)
(***************************************************************************)
EXTENDS HnswGraph

CONSTANTS
    Zero, Garbled,  \* records nobody wrote, see Segment
    MaxRecords,     \* bound: records of the segment an insert may reach
    MaxWidth,       \* bound: embedding length, in multiples of the dimension
    MaxCompactions, \* bound: compactions
    MaxLoad,        \* bound: points of a bulk_load
    MaxCrashes,     \* bound: process crashes
    MaxFaults       \* bound: errors redb or the file system return

\* Records nobody wrote are no embeddings; a bulk_load fits the bound on nodes.
ASSUME HnswAssumption ==
    /\ Zero \notin Values /\ Garbled \notin Values
    /\ MaxLoad \in 0..MaxNodes

INSTANCE Segment

VARIABLES
    \* On disk.
    store,          \* hnsw.redb: state of the file, rows by node index, "state" row
    file,           \* vectors.seg
    \* The operation in progress.
    pc,
    op,             \* the points to write and the nodes whose rows to commit
    \* History.
    contents,       \* what committed inserts and removes add up to
    exposed,        \* unsafe windows an operation has hit, see below
    compactions, crashes, faults

bounds == <<compactions, crashes, faults>>
vars == <<graph, store, file, pc, op, contents, exposed, bounds>>

(***************************************************************************)
(* Where the records of the segment and the rows of the tables part:        *)
(*   "stray"      the segment holds records that belong to no node (an      *)
(*                insert refused or failed after its append, a compaction   *)
(*                that dropped tombstones); the next open cuts them off     *)
(*   "ahead"      a transaction failed after the graph in RAM had changed   *)
(*   "misplaced"  an insert committed behind stray records, or anything     *)
(*                committed while ahead                                     *)
(*   "shifted"    a compaction renumbered nodes whose records did not move  *)
(*   "recreated"  create reset the state row of an index that had nodes     *)
(*   "creation"   a crash left a segment without header, which neither      *)
(*                create nor open accepts                                   *)
(***************************************************************************)
SessionWindows == {"stray", "ahead"}
DiskWindows == {"misplaced", "shifted", "recreated"}
Windows == SessionWindows \cup DiskWindows \cup {"creation"}

DiskExposed == exposed \cap DiskWindows # {}

NoOp == [points |-> <<>>, touched |-> {}]
NoStore == [state |-> "absent", rows |-> <<>>, entry |-> None, node_count |-> 0]

Init ==
    /\ graph = Empty /\ store = NoStore /\ file = NoFile
    /\ pc = "down" /\ op = NoOp
    /\ contents = <<>> /\ exposed = {}
    /\ compactions = 0 /\ crashes = 0 /\ faults = 0

Fault == faults < MaxFaults /\ faults' = faults + 1

ValuesOf(points) == [k \in 1..Len(points) |-> points[k].val]
Distinct(points) == \A i, j \in 1..Len(points) : points[i].id = points[j].id => i = j

-----------------------------------------------------------------------------
(* Rows.                                                                    *)

\* The row of a node, without its embedding, and lists for it.
RowWith(g, n, lists) ==
    [id |-> g.nodes[n].id, level |-> g.nodes[n].level,
     tombstone |-> g.nodes[n].tombstone, neighbors |-> lists]

\* node_snapshot: the row and lists of one node.
node_snapshot(g, n) == RowWith(g, n, g.nodes[n].neighbors)

\* snapshot: all of them.
AllRows(g) == [n \in Indices(g) |-> node_snapshot(g, n)]

\* The lists stored for a node; a layer that was never written reads as empty.
Lists(rows, n) == IF n \in DOMAIN rows THEN rows[n].neighbors ELSE <<>>
ListAt(lists, k) == IF k \in DOMAIN lists THEN lists[k] ELSE {}

\* Lists written over those stored before, layer by layer.
Overwritten(new, old) ==
    [k \in DOMAIN new \cup DOMAIN old |-> IF k \in DOMAIN new THEN new[k] ELSE old[k]]

\* The rows after an insert committed the nodes it touched, with their lists.
InsertedRows(rows, g, touched) ==
    [n \in DOMAIN rows \cup touched |->
        IF n \notin touched THEN rows[n]
        ELSE RowWith(g, n, Overwritten(g.nodes[n].neighbors, Lists(rows, n)))]

\* Mutant: the row is written under the next node's index.
RemovedRowsNext(rows, g, n) ==
    [m \in DOMAIN rows \cup {n + 1} |->
        IF m = n + 1 THEN RowWith(g, n, Lists(rows, n)) ELSE rows[m]]

\* The rows after a remove: the node row only, the lists stay as they are on disk.
RemovedRows(rows, g, n) ==
    [m \in DOMAIN rows \cup {n} |->
        IF m = n THEN RowWith(g, n, Lists(rows, n)) ELSE rows[m]]

\* state_meta, written with every transaction.
WithState(s, rows, g) ==
    [s EXCEPT !.rows = rows, !.entry = g.entry, !.node_count = Len(g.nodes)]

\* The row keys in index order; open numbers the nodes by their place in it.
Sorted(S) ==
    [k \in 1..Cardinality(S) |-> CHOOSE n \in S : Cardinality({m \in S : m <= n}) = k]

\* The graph from_snapshot builds, the k-th row with the k-th record.
Reloaded(s, f) ==
    LET keys == Sorted(DOMAIN s.rows)
        row(k) == s.rows[keys[k]]
    IN [nodes |-> [k \in 1..Len(keys) |->
                      [id |-> row(k).id, val |-> f.recs[k], level |-> row(k).level,
                       tombstone |-> row(k).tombstone,
                       neighbors |-> [l \in 0..row(k).level |-> ListAt(row(k).neighbors, l)]]],
        entry |-> s.entry]

(***************************************************************************)
(* Whether from_snapshot succeeds: a record for each row, and no row for an *)
(* id that an earlier row left live (add_node precedes tombstone).          *)
(***************************************************************************)
Reloadable(s) ==
    LET keys == Sorted(DOMAIN s.rows) IN
    /\ Len(keys) <= s.node_count
    /\ \A i, j \in 1..Len(keys) :
        i < j /\ s.rows[keys[i]].tombstone = "no" => s.rows[keys[i]].id # s.rows[keys[j]].id

\* Every index in the lists and the entry point names a node of the graph.
Closed(g) ==
    /\ g.entry \in {None} \cup Indices(g)
    /\ \A n \in Indices(g) : \A k \in 0..level(g, n) : neighbors(g, n, k) \subseteq Indices(g)

-----------------------------------------------------------------------------
(* Creating and opening.                                                    *)

\* create, and bulk_load with its points: redb creates or opens the file.
create(points) ==
    /\ pc = "down"
    /\ store' = [store EXCEPT !.state = IF @ = "absent" THEN "empty" ELSE @]
    /\ pc' = "create_state" /\ op' = [points |-> points, touched |-> {}]
    /\ UNCHANGED <<graph, file, contents, exposed, bounds>>

\* The tables are opened, not emptied; "config" and "state" are overwritten.
CreateCommits ==
    /\ pc = "create_state"
    /\ store' = [store EXCEPT !.state = "ready", !.entry = None, !.node_count = 0]
    /\ exposed' = exposed \cup (IF DOMAIN store.rows # {} THEN {"recreated"} ELSE {})
    /\ pc' = "create_segment"
    /\ UNCHANGED <<graph, file, op, contents, bounds>>

\* Segment::create, create_new.
CreateSegment ==
    /\ pc = "create_segment" /\ file.header = "absent"
    /\ file' = [NoFile EXCEPT !.header = "ok"]
    /\ graph' = Empty
    /\ pc' = IF op.points = <<>> THEN "idle" ELSE "load"
    /\ UNCHANGED <<store, op, contents, exposed, bounds>>

\* A segment is there already: create returns the error.
CreateRefused ==
    /\ pc = "create_segment" /\ file.header # "absent"
    /\ pc' = "down" /\ op' = NoOp
    /\ UNCHANGED <<graph, store, file, contents, exposed, bounds>>

Openable == store.state = "ready" /\ file.header = "ok"

OpensOn(f) ==
    /\ pc = "down" /\ Openable
    /\ file' = f
    /\ LET g == Reloaded(store, f) IN
        IF ~Reloadable(store) THEN UNCHANGED <<graph, pc>>
        ELSE IF ~Closed(g) THEN pc' = "unsound" /\ UNCHANGED graph
        ELSE pc' = "idle" /\ graph' = g
    /\ UNCHANGED <<store, op, contents, exposed, bounds>>

(***************************************************************************)
(* The segment is cut at the committed node count before the rows are read. *)
(* An index whose rows name nodes that do not exist is left in "unsound":   *)
(* what it does (beam_search indexes past its array) is not modelled.       *)
(***************************************************************************)
open == OpensOn(set_len(file, store.node_count))

OpenRefused ==
    /\ pc = "down" /\ store.state # "absent" /\ ~Openable
    /\ UNCHANGED vars

-----------------------------------------------------------------------------
(* bulk_load: append every vector, insert them in RAM, flush.               *)

BulkAppends ==
    /\ pc = "load"
    /\ file' = append(file, ValuesOf(op.points))
    /\ pc' = "flush"
    /\ UNCHANGED <<graph, store, op, contents, exposed, bounds>>

\* flush_snapshot_to_redb: the tables dropped and rewritten, one transaction.
flush_snapshot_to_redb(g) == store' = WithState(store, AllRows(g), g)

BulkFlushes ==
    /\ pc = "flush" /\ Distinct(op.points)
    /\ \E g \in Built(op.points) :
        /\ graph' = g
        /\ flush_snapshot_to_redb(g)
        /\ contents' = Held(g)
    /\ pc' = "idle" /\ op' = NoOp
    /\ UNCHANGED <<file, exposed, bounds>>

\* A repeated id ends bulk_insert, an error the append or the flush: no index is returned.
BulkFails ==
    /\ \/ pc = "load" /\ Fault /\ file' \in TornAppends(file, ValuesOf(op.points))
       \/ pc = "flush" /\ file' = file
          /\ IF Distinct(op.points) THEN Fault ELSE UNCHANGED faults
    /\ pc' = "down" /\ op' = NoOp /\ graph' = Empty
    /\ UNCHANGED <<store, contents, exposed, compactions, crashes>>

-----------------------------------------------------------------------------
(* Inserting: append to the segment, link in RAM, commit the touched rows.  *)

\* The embedding of a caller may be any multiple of the dimension long.
insert(id, v, width) ==
    /\ pc = "idle"
    /\ Len(graph.nodes) < MaxNodes /\ Len(file.recs) + width <= MaxRecords
    /\ op' = [points |-> [k \in 1..width |-> [id |-> id, val |-> v]], touched |-> {}]
    /\ pc' = "append"
    /\ UNCHANGED <<graph, store, file, contents, exposed, bounds>>

\* The checks of insert_tracked, made after the append.
Accepted == Len(op.points) = 1 /\ op.points[1].id \notin LiveIds(graph)

InsertAppends ==
    /\ pc = "append" /\ Accepted
    /\ file' = append(file, ValuesOf(op.points))
    /\ \E outcome \in insert_tracked(graph, op.points[1].id, op.points[1].val) :
        /\ graph' = outcome.graph
        /\ op' = [op EXCEPT !.touched = outcome.touched]
    /\ pc' = "commit"
    /\ UNCHANGED <<store, contents, exposed, bounds>>

\* DuplicateId or DimensionMismatch: returned with the records already appended.
InsertRefused ==
    /\ pc = "append" /\ ~Accepted
    /\ file' = append(file, ValuesOf(op.points))
    /\ exposed' = exposed \cup {"stray"}
    /\ pc' = "idle" /\ op' = NoOp
    /\ UNCHANGED <<graph, store, contents, bounds>>

InsertAppendFails ==
    /\ pc = "append" /\ Fault
    /\ file' \in TornAppends(file, ValuesOf(op.points))
    /\ exposed' = exposed \cup (IF file' = file THEN {} ELSE {"stray"})
    /\ pc' = "idle" /\ op' = NoOp
    /\ UNCHANGED <<graph, store, contents, compactions, crashes>>

\* What committing does to the windows: strays count only for a new node.
Committing(windows) == exposed \cup (IF exposed \cap windows # {} THEN {"misplaced"} ELSE {})

CommitsStore(s) ==
    /\ pc = "commit"
    /\ store' = s
    /\ contents' = [id \in DOMAIN contents \cup {op.points[1].id} |->
                        IF id = op.points[1].id THEN op.points[1].val ELSE contents[id]]
    /\ exposed' = Committing(SessionWindows)
    /\ pc' = "idle" /\ op' = NoOp
    /\ UNCHANGED <<graph, file, bounds>>

\* Mutant: the state row is not part of the transaction.
InsertCommitsRows ==
    CommitsStore([store EXCEPT !.rows = InsertedRows(@, graph, op.touched)])

InsertCommits ==
    CommitsStore(WithState(store, InsertedRows(store.rows, graph, op.touched), graph))

\* The new node stays in the graph.
InsertCommitFails ==
    /\ pc = "commit" /\ Fault
    /\ exposed' = exposed \cup {"ahead"}
    /\ pc' = "idle" /\ op' = NoOp
    /\ UNCHANGED <<graph, store, file, contents, compactions, crashes>>

-----------------------------------------------------------------------------
(* Removing and compacting: change the graph, then one transaction.         *)

remove(id) ==
    /\ pc = "idle" /\ id \in LiveIds(graph)
    /\ graph' = remove_tracked(graph, id)
    /\ store' = WithState(store, RemovedRows(store.rows, graph', NodeOf(graph, id)), graph')
    /\ contents' = [other \in DOMAIN contents \ {id} |-> contents[other]]
    /\ exposed' = Committing({"ahead"})
    /\ UNCHANGED <<file, pc, op, bounds>>

\* The transaction fails: the vector is gone from RAM and not from the disk.
RemoveCommitFails(id) ==
    /\ pc = "idle" /\ id \in LiveIds(graph) /\ Fault
    /\ graph' = remove_tracked(graph, id)
    /\ exposed' = exposed \cup {"ahead"}
    /\ UNCHANGED <<store, file, pc, op, contents, compactions, crashes>>

Tombstones(g) == Indices(g) \ LiveNodes(g)

\* Compaction renumbers a node when a tombstone precedes it.
Renumbers(g) == \E t \in Tombstones(g), n \in LiveNodes(g) : t < n

\* The records of the tombstones stay in the segment.
Leaves(g) == IF Tombstones(g) # {} THEN {"stray"} ELSE {}

compact ==
    /\ pc = "idle" /\ compactions < MaxCompactions
    /\ compactions' = compactions + 1
    /\ graph' \in Built(LivePoints(graph))
    /\ flush_snapshot_to_redb(graph')
    /\ exposed' = Committing({"ahead"}) \cup Leaves(graph)
                    \cup (IF Renumbers(graph) THEN {"shifted"} ELSE {})
    /\ UNCHANGED <<file, pc, op, contents, crashes, faults>>

\* The flush fails: the graph is rebuilt, the tables are the old ones.
CompactFlushFails ==
    /\ pc = "idle" /\ compactions < MaxCompactions /\ Fault
    /\ compactions' = compactions + 1
    /\ graph' \in Built(LivePoints(graph))
    /\ exposed' = exposed \cup {"ahead"} \cup Leaves(graph)
    /\ UNCHANGED <<store, file, pc, op, contents, crashes>>

-----------------------------------------------------------------------------
(* Stopping.                                                                *)

\* The effect in progress may have happened in part.
CrashedFiles ==
    CASE pc \in {"append", "load"} -> {file} \cup TornAppends(file, ValuesOf(op.points))
      [] pc = "create_segment" /\ file.header = "absent" ->
            {[NoFile EXCEPT !.header = h] : h \in {"absent", "torn", "ok"}}
      [] OTHER -> {file}

CrashExposes(f) ==
    (exposed \ SessionWindows) \cup (IF f.header = "torn" THEN {"creation"} ELSE {})

Crash ==
    /\ pc # "down" /\ crashes < MaxCrashes
    /\ crashes' = crashes + 1
    /\ \E f \in CrashedFiles : file' = f /\ exposed' = CrashExposes(f)
    /\ pc' = "down" /\ op' = NoOp /\ graph' = Empty
    /\ UNCHANGED <<store, contents, compactions, faults>>

\* An error on the way through create or open: the caller gets no index.
OpenFails ==
    /\ \/ pc = "down" /\ Openable /\ file' = set_len(file, store.node_count)
          /\ exposed' = exposed
       \/ pc \in {"create_state", "create_segment"}
          /\ \E f \in CrashedFiles : file' = f /\ exposed' = CrashExposes(f)
    /\ Fault
    /\ pc' = "down" /\ op' = NoOp /\ graph' = Empty
    /\ UNCHANGED <<store, contents, compactions, crashes>>

Close ==
    /\ pc \in {"idle", "unsound"}
    /\ exposed' = exposed \ SessionWindows
    /\ pc' = "down" /\ op' = NoOp /\ graph' = Empty
    /\ UNCHANGED <<store, file, contents, bounds>>

-----------------------------------------------------------------------------
Progress ==
    \/ CreateCommits \/ CreateSegment \/ CreateRefused \/ open
    \/ BulkAppends \/ BulkFlushes
    \/ InsertAppends \/ InsertRefused \/ InsertCommits

Failures ==
    \/ OpenFails \/ BulkFails \/ InsertAppendFails \/ InsertCommitFails
    \/ \E id \in Ids : RemoveCommitFails(id)
    \/ CompactFlushFails

Calls ==
    \/ \E id \in Ids :
        \/ remove(id)
        \/ \E v \in Values : \E width \in 1..MaxWidth : insert(id, v, width)
    \/ \E n \in 0..MaxLoad : \E ids \in [1..n -> Ids] : \E vals \in [1..n -> Values] :
        create([k \in 1..n |-> [id |-> ids[k], val |-> vals[k]]])
    \/ compact \/ Close

Next == Progress \/ Failures \/ Calls \/ OpenRefused \/ Crash

Spec == Init /\ [][Next]_vars

-----------------------------------------------------------------------------
(* Properties.                                                              *)

IsRow(r) ==
    /\ r.id \in Ids /\ r.level \in 0..MaxLevel /\ r.tombstone \in {"no", "yes"}
    /\ \A k \in DOMAIN r.neighbors : k \in 0..MaxLevel /\ r.neighbors[k] \subseteq 1..MaxNodes

TypeOK ==
    /\ GraphOK(graph) /\ file \in Files
    /\ store.state \in {"absent", "empty", "ready"}
    /\ \A n \in DOMAIN store.rows : n \in 1..MaxNodes /\ IsRow(store.rows[n])
    /\ store.entry \in 0..MaxNodes /\ store.node_count \in 0..MaxNodes
    /\ op.touched \subseteq 1..MaxNodes
    /\ pc \in {"down", "create_state", "create_segment", "load", "flush",
               "idle", "append", "commit", "unsound"}
    /\ DOMAIN contents \subseteq Ids /\ exposed \subseteq Windows

\* What an open at this moment would build.
OnDisk == Reloaded(store, set_len(file, store.node_count))

(***************************************************************************)
(* persistent_hnsw.rs:14, "reloads the full graph EXACTLY": at any idle     *)
(* moment the touched rows committed so far, the state row and the segment  *)
(* add up to the graph in RAM, to the last neighbour list.                  *)
(***************************************************************************)
ReloadsExactly ==
    (pc = "idle" /\ ~DiskExposed /\ "ahead" \notin exposed) =>
        Reloadable(store) /\ OnDisk = graph

(***************************************************************************)
(* Unless one of the disk windows was hit, the index opens again after a    *)
(* crash at any moment and holds the committed inserts minus the committed  *)
(* removes, each with the vector it was inserted with.                      *)
(***************************************************************************)
DurableContents ==
    (~DiskExposed /\ Openable) => Reloadable(store) /\ Closed(OnDisk) /\ Held(OnDisk) = contents

(***************************************************************************)
(* Until a disk window is hit, the durable index implements the port: what  *)
(* the next open would serve changes only by whole inserts, whole bulk      *)
(* loads and removes.                                                       *)
(***************************************************************************)
Stored == IF Openable /\ Reloadable(store) THEN Held(OnDisk) ELSE <<>>

Port == INSTANCE VectorIndex WITH contents <- Stored, intact <- ~DiskExposed

ImplementsVectorIndex == Port!Spec

(***************************************************************************)
(* persistent_hnsw.rs:5: "one record per node-index".  Read strictly, at    *)
(* an idle moment record n of the segment is the vector of node n, for      *)
(* every live node.                                                         *)
(***************************************************************************)
RecordPerNode ==
    pc = "idle" =>
        \A n \in LiveNodes(graph) : n <= Len(file.recs) /\ file.recs[n] = graph.nodes[n].val

(***************************************************************************)
(* persistent_hnsw.rs:14-15: "`open` reloads the full graph EXACTLY from    *)
(* redb".  Read strictly, an index that was used goes on to open.           *)
(***************************************************************************)
AlwaysReloads == (pc = "idle" /\ "recreated" \notin exposed) => Reloadable(store)
=============================================================================
