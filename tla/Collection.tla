----------------------------- MODULE Collection -----------------------------
(***************************************************************************)
(* A collection of eidosdb-query over its durable stores: a vector index, a *)
(* PersistentLexicalIndex and a PersistentPayloadStore, each with           *)
(* transactions of its own.  A call (upsert, a batch of upserts, delete,    *)
(* delete_by_filter) runs under the collection's write guard and commits    *)
(* one store after the other; any commit may fail, which ends the call, and *)
(* the process may crash between any two.                                   *)
(*                                                                          *)
(* The vector index is a map in RAM beside what a reopen would serve.  The  *)
(* two are equal until an insert or a remove fails: the error comes after   *)
(* bytes were appended or after the graph in RAM was changed, as            *)
(* PersistentFlat and PersistentHnsw show step by step, and "window" says   *)
(* how far the files are off since; so does Compact, which the server calls *)
(* on the index alone.  A filter is the set of payloads it matches.         *)
(***************************************************************************)
EXTENDS PersistentLexical

CONSTANTS
    Ids,
    Points,       \* what upsert stores: vector, document or None, payload or None
    Filters,      \* filters of delete_by_filter
    None,
    Garbled,      \* whatever vector bytes at the wrong place make
    MaxBatch,     \* points per batch
    MaxFaults,    \* transactions that fail
    MaxCrashes

ASSUME CollectionAssumption ==
    /\ IsFiniteSet(Terms) /\ IsFiniteSet(Ids)     \* ids are 128-bit UUIDs
    /\ \A p \in Points : p = [vector |-> p.vector, document |-> p.document, payload |-> p.payload]
    /\ \A p \in Points : p.document # None => p.document \in [Terms -> Nat]
    /\ MaxBatch \in Nat \ {0} /\ MaxFaults \in Nat /\ MaxCrashes \in Nat

VARIABLES
    index,        \* the vector index in RAM: id -> vector
    stored,       \* the same as a reopen would serve it
    window,       \* what a failed operation of the index left in its files
    lexical,      \* tables of the lexical index
    stats,        \* its statistics in RAM
    payloads,     \* the payloads table: id -> payload
    count,        \* PersistentPayloadStore.count
    pc,           \* the next step of the running call; "idle" or "down"
    op,           \* its arguments and what is left of it
    oracle,       \* history: the in-memory lexical index after the same commits
    acked,        \* history: id -> the point of the last call that returned Ok
    attempted,    \* history: what calls that did not return Ok aimed at, per id
    faults, crashes

stores == <<index, stored, window, lexical, stats, payloads, count>>
vars == <<index, stored, window, lexical, stats, payloads, count, pc, op, oracle, acked, attempted,
          faults, crashes>>

Absent == [vector |-> None, document |-> None, payload |-> None]
NoOp == [todo |-> <<>>, filter |-> {}, removed |-> 0, had |-> 0]

Init ==
    /\ index = <<>> /\ stored = <<>> /\ window = "none" /\ payloads = <<>> /\ count = 0
    /\ lexical = EmptyTables /\ stats = open(EmptyTables)
    /\ pc = "idle" /\ op = NoOp
    /\ oracle = EmptyOracle
    /\ acked = [id \in Ids |-> Absent] /\ attempted = [id \in Ids |-> {}]
    /\ faults = 0 /\ crashes = 0

-----------------------------------------------------------------------------
(* Calls.  op.todo lists the ids still to do with the point each is to hold; *)
(* delete aims at Absent.  op.removed is the count a delete returns; op.had  *)
(* is history, the ids it found that had a vector.                           *)

Start(todo, filter) ==
    /\ pc = "idle" /\ todo # <<>>
    /\ op' = [todo |-> todo, filter |-> filter, removed |-> 0,
              had |-> Cardinality({e \in Range(todo) : e.id \in DOMAIN index})]
    /\ pc' = "remove_vector"
    /\ UNCHANGED <<stores, oracle, acked, attempted, faults, crashes>>

\* upsert, batch_upsert and each chunk of bulk_upsert: the points in order.
Upsert ==
    \E n \in 1 .. MaxBatch : \E todo \in [1 .. n -> [id : Ids, point : Points]] :
        Start(todo, {})

Delete == \E id \in Ids : Start(<<[id |-> id, point |-> Absent]>>, {})

matching_ids(filter) == {id \in DOMAIN payloads : payloads[id] \in filter}

\* The matching ids are collected first, then deleted in the order of a hash set.
DeleteByFilter ==
    \E filter \in Filters :
        LET ids == matching_ids(filter)
        IN  \E order \in {f \in [1 .. Cardinality(ids) -> ids] : Range(f) = ids} :
                Start([i \in DOMAIN order |-> [id |-> order[i], point |-> Absent]], filter)

-----------------------------------------------------------------------------
(* The steps of one id: index.remove, index.insert (upsert only), the        *)
(* document, the payload.                                                    *)

Current == Head(op.todo)
Upserting == Current.point # Absent

\* PayloadStore.set and remove: the row, then the cached count.
SetPayload(id, payload) ==
    /\ payloads' = With(payloads, id, payload)
    /\ count' = IF id \in DOMAIN payloads THEN count ELSE count + 1
\* Mutant: the row stays.
KeepPayload(id) == UNCHANGED <<payloads, count>>
RemovePayload(id) ==
    /\ payloads' = Without(payloads, {id})
    /\ count' = IF id \in DOMAIN payloads THEN count - 1 ELSE count

\* window:
\*   "none"       RAM and files agree;
\*   "tail"       bytes lie behind the segment's counted end;
\*   "ahead"      RAM holds or lacks a vector the tables do not;
\*   "misplaced"  a later call built on one of these and returned Ok, or the index was
\*                compacted: what a reopen serves is open from here on;
\*   "spoilt"     what the open index serves is open too.
Intact == window \in {"none", "tail", "ahead"}

\* remove touches the tables only when the id is there; an id that is gone from RAM
\* alone is reported absent and stays in the tables.
RemoveFromIndex(id) ==
    LET commits == id \in DOMAIN index
        misses  == ~commits /\ id \in DOMAIN stored
        off     == window = "misplaced" \/ (window = "ahead" /\ (commits \/ misses))
    IN  /\ index' = Without(index, {id})
        /\ window' = IF off THEN "misplaced" ELSE window
        /\ stored' = IF off THEN <<>> ELSE Without(stored, {id})

\* insert appends to the segment, behind whatever lies there.
InsertIntoIndex(id, vector) ==
    /\ index' = With(index, id, vector)
    /\ window' = IF window \in {"tail", "ahead"} THEN "misplaced" ELSE window
    /\ stored' = IF window = "none" THEN With(stored, id, vector) ELSE <<>>

RemovesVector(counted, paid) ==
    /\ pc = "remove_vector"
    /\ RemoveFromIndex(Current.id)
    /\ op' = [op EXCEPT !.removed = @ + (IF counted THEN 1 ELSE 0)]
    /\ pc' = IF Upserting THEN "insert_vector" ELSE "document"
    /\ IF paid THEN UNCHANGED <<payloads, count>> ELSE RemovePayload(Current.id)
    /\ UNCHANGED <<lexical, stats, oracle, acked, attempted, faults, crashes>>

\* Mutants: every id counts as removed; delete drops the payload first.
RemoveVectorCounting == RemovesVector(TRUE, TRUE)
RemoveVectorAndPayload == RemovesVector(Current.id \in DOMAIN index, Upserting)

RemoveVector == RemovesVector(Current.id \in DOMAIN index, TRUE)

InsertVector ==
    /\ pc = "insert_vector"
    /\ InsertIntoIndex(Current.id, Current.point.vector)
    /\ pc' = "document"
    /\ UNCHANGED <<lexical, stats, payloads, count, op, oracle, acked, attempted, faults, crashes>>

WritesDocument(keep) ==
    /\ pc = "document"
    /\ LET id == Current.id
           document == Current.point.document
       IN  \/ /\ document # None
              /\ lexical' = insert(lexical, id, document)
              /\ stats' = insert_stats(stats, lexical, id, document)
              /\ oracle' = oracle_insert(oracle, id, document)
           \/ /\ document = None /\ ~keep
              /\ lexical' = remove(lexical, id)
              /\ stats' = remove_stats(stats, lexical, id)
              /\ oracle' = forget(oracle, id)
           \/ document = None /\ keep /\ UNCHANGED <<lexical, stats, oracle>>
    /\ pc' = "payload"
    /\ UNCHANGED <<index, stored, window, payloads, count, op, acked, attempted, faults, crashes>>

\* Mutant: an upsert without a document keeps the old one.
WriteDocumentKeeping == WritesDocument(Upserting)

WriteDocument == WritesDocument(FALSE)

\* The last step of an id: the call goes on to the next one or returns Ok.
WritePayload ==
    /\ pc = "payload"
    /\ LET id == Current.id
           payload == Current.point.payload
       IN  /\ IF payload # None THEN SetPayload(id, payload) ELSE RemovePayload(id)
           /\ acked' = [acked EXCEPT ![id] = Current.point]
           /\ attempted' = [attempted EXCEPT ![id] = {}]
    /\ IF Len(op.todo) = 1
       THEN pc' = "idle" /\ op' = NoOp
       ELSE pc' = "remove_vector" /\ op' = [op EXCEPT !.todo = Tail(@)]
    /\ UNCHANGED <<index, stored, window, lexical, stats, oracle, faults, crashes>>

-----------------------------------------------------------------------------
(* Failures *)

Running == pc \notin {"idle", "down"}

\* The call stops inside Current: what it aimed at may be there in part.  The
\* ids behind it in todo were not touched.
Abandon ==
    /\ op' = NoOp
    /\ attempted' = [attempted EXCEPT ![Current.id] = @ \cup {Current.point}]

\* The step fails before it changed anything; for the document and the payload,
\* one transaction each, that is the only way.
FailsClean == UNCHANGED <<index, stored, window>>

\* insert fails in its append or, the flat one, in its commit: bytes are left.
FailsWithTail ==
    /\ pc = "insert_vector"
    /\ window' = IF window = "none" THEN "tail" ELSE window
    /\ UNCHANGED <<index, stored>>

\* The commit of the HNSW index fails after the graph in RAM was changed.
FailsAhead ==
    /\ \/ pc = "remove_vector" /\ Current.id \in DOMAIN index
          /\ index' = Without(index, {Current.id})
       \/ pc = "insert_vector" /\ index' = With(index, Current.id, Current.point.vector)
    /\ window' = IF Intact THEN "ahead" ELSE window
    /\ UNCHANGED stored

\* The next step fails and its error returns through `?`.
StepFails ==
    /\ Running /\ faults < MaxFaults
    /\ faults' = faults + 1
    /\ pc' = "idle"
    /\ Abandon
    /\ FailsClean \/ FailsWithTail \/ FailsAhead
    /\ UNCHANGED <<lexical, stats, payloads, count, oracle, acked, crashes>>

Crash ==
    /\ pc # "down" /\ crashes < MaxCrashes
    /\ crashes' = crashes + 1
    /\ pc' = "down"
    /\ IF Running THEN Abandon ELSE op' = NoOp /\ UNCHANGED attempted
    /\ UNCHANGED <<stores, oracle, acked, faults>>

\* The index with no claim left on what it holds: any id may be there with any vector.
Damaged ==
    /\ window' = "spoilt" /\ stored' = <<>>
    /\ \E ids \in SUBSET Ids : index' = [id \in ids |-> Garbled]

\* CollectionKind::compact.  The flat index writes its files anew from what it serves;
\* an error after it emptied them leaves it with nothing to read.  The HNSW index
\* renumbers its nodes over a segment that stays, so that a reopen gives ids each
\* other's vectors; so does a crash in the middle of the flat one.
Compact ==
    /\ pc = "idle"
    /\ \/ /\ \/ window' = "none" /\ stored' = index
             \/ window' = "misplaced" /\ stored' = <<>>
          /\ window # "spoilt" /\ UNCHANGED <<index, faults>>
       \/ faults < MaxFaults /\ faults' = faults + 1 /\ Damaged
    /\ UNCHANGED <<lexical, stats, payloads, count, pc, op, oracle, acked, attempted, crashes>>

\* PersistentPayloadStore::open takes its count from the table.
open_payloads == Cardinality(DOMAIN payloads)

\* The index as it opens: bytes behind the counted end are cut and RAM starts from the
\* tables.  Otherwise it is damaged, or does not open and the collection stays down.
ReopenIndex ==
    \/ Intact /\ index' = stored /\ window' = "none" /\ UNCHANGED stored
    \/ ~Intact /\ Damaged

\* open_flat, open_hnsw: the three stores are opened again.
Reopen ==
    /\ pc = "down"
    /\ ReopenIndex
    /\ stats' = open(lexical)
    /\ count' = open_payloads
    /\ pc' = "idle"
    /\ UNCHANGED <<lexical, payloads, op, oracle, acked, attempted, faults, crashes>>

Next ==
    \/ Upsert \/ Delete \/ DeleteByFilter
    \/ RemoveVector \/ InsertVector \/ WriteDocument \/ WritePayload
    \/ StepFails \/ Compact \/ Crash \/ Reopen

Spec == Init /\ [][Next]_vars
-----------------------------------------------------------------------------
(* Properties *)

View(id) == [vector   |-> Get(index, id, None),
             document |-> Get(oracle.docs, id, None),
             payload  |-> Get(payloads, id, None)]
InProgress(id) == Running /\ id = Current.id

\* TypeOK: the shape of the stores and of the running call.
TypeOK ==
    /\ DOMAIN index \cup DOMAIN stored \cup DOMAIN payloads \subseteq Ids
    /\ window \in {"none", "tail", "ahead", "misplaced", "spoilt"}
    /\ DOMAIN lexical.doc_terms = DOMAIN lexical.doc_lengths
    /\ DOMAIN lexical.doc_terms \subseteq Ids
    /\ stats \in [corpus_size : Nat, total_tokens : Nat] /\ count \in Nat
    /\ pc \in {"idle", "down", "remove_vector", "insert_vector", "document", "payload"}
    /\ Running => op.todo # <<>> /\ op.removed \in 0 .. Cardinality(Ids) + MaxBatch
    /\ acked \in [Ids -> Points \cup {Absent}]
    /\ attempted \in [Ids -> SUBSET (Points \cup {Absent})]

\* StoresAgree: an id that no call is working on, and that no failed call or
\* crash left half written since its last successful one, is held by the three
\* stores exactly as that call was given it, and a later successful call on a
\* half-written id puts the three back in agreement; also after crashes and reopens.
\* The vector is excepted from there on where the index itself gave up its promise: a
\* reopen after a compaction or after a call that built on what a failed one left, a
\* compaction that failed (Collection::upsert and delete, five transactions apart).
StoresAgree ==
    \A id \in Ids :
        attempted[id] = {} /\ ~InProgress(id) =>
            /\ View(id).document = acked[id].document /\ View(id).payload = acked[id].payload
            /\ window # "spoilt" => View(id).vector = acked[id].vector

\* NothingForeign: even half written, each part of an id is the part of a point
\* some caller gave for it; only the vector may be missing beyond that, between
\* index.remove and index.insert.  Exceptions for the vector as in StoresAgree.
NothingForeign ==
    \A id \in Ids :
        LET tried == attempted[id] \cup (IF InProgress(id) THEN {Current.point} ELSE {})
        IN  \A part \in {"document", "payload"} \cup (IF window = "spoilt" THEN {} ELSE {"vector"}) :
                \/ \E p \in {acked[id]} \cup tried : View(id)[part] = p[part]
                \/ part = "vector" /\ tried # {} /\ View(id).vector = None

\* PurgeCanBeRetried: a delete_by_filter or delete that was cut short on an id
\* leaves the payload in place as long as anything else of the id is there, so
\* running the same filter again finds it and finishes the work.
PurgeCanBeRetried ==
    \A id \in Ids :
        /\ attempted[id] = {Absent} /\ ~InProgress(id)
        /\ View(id).vector # None \/ View(id).document # None
        => View(id).payload = acked[id].payload

\* LexicalParity: the persistent index answers every query as the in-memory one
\* would after the same inserts, replacements and removals, through failures and
\* reopens (insert, remove, scored; the claim of its doc comment, "Parity-checked
\* against InMemoryLexicalIndex").  Searches run between two calls: upsert and delete
\* take the collection as &mut self.
Queries == UNION {[1 .. n -> Terms] : n \in 1 .. 2}
LexicalParity ==
    pc = "idle" =>
        \A query \in Queries : \A admissible \in {Ids} \cup {{id} : id \in Ids} :
            scored(lexical, stats, query, admissible)
                = oracle_search(oracle, query, admissible)

\* CountersExact: the numbers kept in RAM beside the tables (corpus_size,
\* total_tokens with saturating arithmetic, count) are those a reopen would count.
CountersExact ==
    pc # "down" =>
        /\ stats = open(lexical)
        /\ count = Cardinality(DOMAIN payloads)

\* PurgeIsComplete: when delete_by_filter returns Ok no payload is left that the
\* filter matches, and the count it returns is that of the ids it found that had
\* a vector (half-written ids have none).
PurgeReturnsOk == pc = "payload" /\ op.filter # {} /\ pc' = "idle" /\ faults' = faults
PurgeIsComplete ==
    [][PurgeReturnsOk =>
          /\ \A id \in DOMAIN payloads' : payloads'[id] \notin op.filter
          /\ op.removed = op.had]_vars
=============================================================================
