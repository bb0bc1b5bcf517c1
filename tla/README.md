# EidosDB in TLA+

Specifications of EidosDB from the segment file to the command line, the TLC
models that check them and the TLAPS proofs about them. Paths below are relative
to `src/crates/`.

## The system

EidosDB is a vector database: a gRPC server (`eidosdb-server`) holds named
collections, each made of a vector index (exact "flat" or approximate HNSW), a
lexical index and a payload store. Durable state is a redb database per store
plus one *segment file* per vector index.

| Component | State | Operations | Interacts with |
|---|---|---|---|
| Segment (`eidosdb-storage/src/segment.rs`) | file of fixed-size records, read-only memory map, `mapped_records` | create, open (cut at a record count), append + fsync, remap, truncate | owned by one index |
| Catalog, Manifest (`catalog.rs`, `manifest.rs`) | redb: `id -> slot`, watermark `record_count` | insert, remove, replace slots, one transaction each | owned by the flat index |
| PersistentFlatIndex (`persistent_flat.rs`) | counters, RAM tail of vectors not mapped yet | open, insert, insert_batch, remove, checkpoint, compact, snapshot, search | catalog, segment |
| HnswIndex (`eidosdb-hnsw`) | nodes, neighbour lists per layer, tombstones, entry point | insert_tracked, remove_tracked, compact, bulk_insert, search | - |
| PersistentHnswIndex (`persistent_hnsw.rs`) | graph in RAM; redb rows per node, lists, "state" row; segment | create, open, bulk_load, insert, remove, compact | HnswIndex, segment |
| VectorIndex port (`eidosdb-core/src/index.rs`) | - | insert, remove, search | implemented by both indexes |
| PersistentLexicalIndex, PersistentPayloadStore | redb tables, corpus statistics | insert, remove, search; set, get, remove, match | collection |
| Collection (`eidosdb-query`) | a vector index, a lexical index, a payload store | upsert, delete, delete_by_filter, search, search_hybrid | the three stores, in sequence |
| Registry, service (`eidosdb-server`) | `name -> handle` under a lock, one directory per collection, a write guard per handle | create, drop, get, list, scan at start-up; twelve RPC handlers | collections, file system |
| Conversions (`eidosdb-proto`) | - | domain value to message and back | service, client |
| Client, CLI (`eidosdb-client`, `eidosdb-cli`) | - | typed methods; commands with JSON in and out | service |

What is hard here. Within an index nothing runs concurrently (`&mut self`,
one write lock per collection), so the enemy is *failure*: every operation
writes two places (segment and redb) and may crash or get an error between or
inside the two. RAM state (counters, map, tail, graph) must stay in step with
what was committed, through errors that the process survives. In the graph it
is the long sequence: remove the entry point, insert again, compact. A
collection is three stores without a common transaction. In the server it is
interleaving: create, drop and writes of one name, none of which holds a lock
from its check to its effect. Between caller and collection it is validation
and translation: five layers that each refuse, default or convert something.

What makes each part correct:

* segment: a held map stays inside the file; what open cuts off was never committed;
* flat index: reopening serves exactly the committed vectors; reads agree
  whether they come from the map or the tail; `len()` is exact;
* graph: bounded lists, a live top-level entry point, live vectors reachable,
  compaction changes nothing that is stored;
* durable HNSW: reopening rebuilds the graph exactly;
* both: they implement the port, an id-to-vector map;
* collection: the three stores agree on every id that no failed call touched,
  and a failed call can be repeated; the lexical index equals its in-memory
  counterpart;
* server: the disk holds what the map serves, chunks are atomic to readers, a
  stream writes to one incarnation of a name, no request waits for ever;
* requests: what is stored is valid whoever sent it, a refused request changed
  nothing, and a remote call equals the same call in the process.

`PROJECT.json` lists the components, the hazards at their source lines and the
source lines behind each definition.

## Modules

* `VectorIndex` - the abstract specification: `contents` changes by whole
  inserts of absent ids and by removes. `intact` turns FALSE when an
  implementation has left the conditions under which it keeps the promise.
* `Segment` - the file as a value: a header state, the whole records, and
  whether a fraction of a record trails them. `TornAppends` is what a failed or
  interrupted append may leave, `set_len` what open does at the watermark.
  A record nobody wrote is `Zero`, one that straddles two writes `Garbled`.
* `PersistentFlat` - one action per durable effect of each operation; `pc`
  says which effect comes next. Error returns (`...Fails`) leave RAM as the
  code leaves it. `contents` is the history of committed inserts and removes.
* `HnswGraph` - the graph and its algorithms as operators. Distances are a
  choice: `insert_tracked` yields every outcome some placement of the vectors
  could produce (closest candidate always linked, lists within their limit).
  Beams are assumed to hold all nodes. The steps of the code that change a node
  have operators of their own (`Relisted`, `tombstone`). `HnswIndex` is the
  in-memory index as a state machine.
* `PersistentHnsw` - the durable index over `HnswGraph` and `Segment`. open
  numbers nodes by row order and pairs the k-th row with the k-th record, as
  the code does. A row is the node without its vector (`RowWith`); an insert
  writes lists over the stored ones layer by layer (`Overwritten`), a remove
  leaves them. The RNG position equals the number of nodes and the entry
  level is a function of the entry point, so neither is a variable.
* `PersistentLexical` - the durable BM25 index and the in-memory one, as
  operators. A document is its term frequencies; a score is represented by the
  inputs of the formula, so equal inputs mean equal scores. The in-memory index
  drops a document's postings one term after the other (`retain`).
* `Collection` - one collection over its three stores. A call works through
  `op.todo`, one transaction of one store per step (`index.remove`,
  `index.insert`, document, payload); each may fail, and the process may crash
  between any two; `Compact` is the server's call on the index alone. The
  vector index is `index`, the map in RAM, beside `stored`, what a reopen would
  serve; `window` says what a failed step has left in its files (below).
  `acked` and `attempted` are history: what the last successful call on an id
  gave, and what calls cut short on it were aiming at since.
* `Database` - the abstract specification of the server: a map from names to
  collections that appear empty, gain points and disappear as a whole. A stop
  or a restart takes no collection and no point of the other names away;
  nothing is promised of the names in `unsure`.
* `Server` - the registry and the requests that race on it. A step is one lock
  acquisition or one file-system or redb call. A directory is the set of its
  files, and a database file is named after who created it, so two incarnations
  of a name can be told apart. A drop unlinks file by file. The start-up scan
  (`Restarts`) stops in any directory at any of its calls and skips it.
  `damage` is `window` seen from here; `unsure` and `cut` are history (below).
* `Query` - eidosdb-query as operators: values, filters, the searches with
  their ranking, fusion, and what each call does to the three stores when
  nothing fails. `Wire` - the conversions to and from messages, `X_from_pb`
  giving `None` where the code refuses. `Cli` - argument parsing and printing.
  `Requests` - a request from command or typed call through message and handler
  back to the caller, one at a time; `call`, `wire`, `answer` and `result` are
  the four stages. Commands, typed calls and messages of other programs, which
  need not be well formed, are three sources of requests. Filters nest up to
  `MaxDepth`; the two conversions and `evaluate` recurse over what is nested.
  Scores that are fractions (BM25 for one term, reciprocal ranks) are compared
  exactly, by cross-multiplication. `given` is history: which JSON payload each
  stored point came with.
* `*_proofs` - the theorems about the module each is named after, and the lemmas
  about its operators; `Collection_proofs` has the lexical index too. `MC*` -
  arguments, symmetry and constraints for TLC.

The layers meet at the port: `PersistentFlat` and `PersistentHnsw` implement
`VectorIndex` until they hit a disk window (below). `Collection` takes from them
both the promise and how it ends: its `window` is "tail" or "ahead" when a step
has failed as theirs do, "misplaced" once a call has built on that or a
compaction has moved the vectors, and "spoilt" when such an index was opened
again or a compaction failed. `Server` treats a collection as a set of points
with a write guard, and keeps of `window` whether an index is sound, exposed or
misplaced. In `Requests`, where nothing fails, a collection is three maps.

redb is external: a transaction applies all or nothing, and one that returns an
error applied nothing. The file system is external: `fsync` is honoured, a
write without it may be there in part.

### Unsafe windows

Both indexes have moments in which a failure does lose something. The models do
not exclude those failures: they record each in `exposed` and let the system
run on, and the invariants say what still holds. A window belongs to the disk
(it outlives the process) or to the session (a reopen clears it).

| Flat | Meaning |
|---|---|
| `creation` | crash between creating catalog and segment: never opens again |
| `orphan_tail` (session) | a failed insert left bytes behind the watermark |
| `misplaced` (disk) | slots committed behind such bytes |
| `compaction` (disk) | segment rewritten, slots not committed |
| `map` (session) | failed compaction: map and tail describe two segments |

| HNSW | Meaning |
|---|---|
| `stray` (session) | records that belong to no node: refused or failed insert, compacted tombstones |
| `ahead` (session) | a transaction failed after the graph changed |
| `misplaced` (disk) | an insert committed behind strays, anything committed while ahead |
| `shifted` (disk) | compaction renumbered nodes, their records stayed |
| `recreated` (disk) | create over an existing index reset its state row |
| `creation` | a segment without header |

In `Collection` and `Server` a failed insert leaves bytes in the segment or the
graph in RAM ahead of its tables. By itself that is harmless: a reopen cuts it
off. What `flat_append_error`, `hnsw_remove_error` and `hnsw_compact` show is
what follows when it is not reopened first, and there both modules give up what
they say of the vectors: any id may then hold `Garbled`, any point may be gone,
or the index may not open. `Collection` goes on promising the document, the
payload, the order of a purge and, until the next open, the vectors.

In `Server` the names in `unsure` have had

* a create overlap a drop of the same name or a create with other parameters
  (`server_reload` shows what then happens), a removal that was cut short, or a
  `collection.meta` torn while its collection was registered;
* a point written on top of a failed one, an HNSW compaction, or a flat one that
  failed or was stopped: the index is misplaced, and an open may lose points of
  it or fail;
* a scan that skipped the directory although it was fit to be loaded. It stays on disk
  and its name is free: a create of it opens the old flat index with its points,
  or resets the old HNSW one.

Nothing is promised of them for good, because the directory on disk outlives the
race. `cut` holds the streams that an error or a stop ended inside a chunk:
their first points stay, as the code means them to. It also holds the streams
that an open has lost points of. A create that failed or was interrupted may
reappear as an empty collection after a restart: `Database` allows it, since a
client that got no answer, or an error, was promised neither outcome.

## Runs

| Run | Instance | Shows |
|---|---|---|
| `flat_safety` | 3 ids, 2 values, 4 records, batches of 2, 2 crashes, 1 error of either kind | contents durable and served, counters, map safety, refinement of the port |
| `flat_recovery` | 1 id, 2 values, 2 records, 1 crash, 1 error, 2 snapshots, fairness | snapshots are consistent stores; the index comes back |
| `flat_compact_crash` | 1 crash, no error | violated: the watermark outruns the segment after a crash in compact |
| `flat_append_error` | 1 error, no crash | violated: an insert after a failed append is not durable |
| `hnsw_index` | 3 ids, 2 values, 4 nodes on 2 layers, M = 2 | links, entry point, reachability, compaction, refinement of the port |
| `hnsw_safety` | 2 ids, 2 values, 3 nodes on 2 layers, bulk loads of 2, 1 compaction, 1 crash, 1 error | exact reload, durable contents, refinement of the port |
| `hnsw_compact` | no failure, 1 compaction | violated: a record per node index, after a compaction |
| `hnsw_remove_error` | 1 failed transaction | violated: the index still loads, after a failed remove and a new insert of the id |
| `collection` | 2 ids, 3 points with and without document and payload, batches of 2, 2 filters, compactions, 1 error, 1 crash | agreement of the stores, nothing foreign in half-written ids, purges complete and repeatable, lexical parity, counters |
| `server_safety` | 3 processes on 1 name, flat and HNSW, streams of 2 chunks of 2, compactions, 1 error (in the scan, too), 1 restart | disk mirrors map, atomic chunks, one incarnation per stream, one handle per index, no request stuck, refinement of `Database` |
| `server_reload` | 2 processes, no failure | violated: what is registered reloads, after two overlapping creates |
| `requests` | 1 collection of up to 3 points, all 12 RPCs, from CLI, client and foreign messages | stored data valid, clean rejection, remote equals embedded, exact search, fusion, comparison, printed payloads |

Why the bounds suffice. Slots are assigned in order and compared for position
only, so misplacement by one record shows with two live vectors of different
value; three ids and four records add a batch beside an older vector and a slot
freed in the middle. Two crashes cover a crash during recovery from the first;
one error followed by any number of successful calls is the shape of every
window. In the graph M = 2 is the smallest degree the configuration accepts;
four nodes are the fewest with which a list of an upper layer (limit 2)
overflows. `LiveReachable` is stated for graphs whose layer 0 lists (limit 4)
cannot have been cut: beyond that HNSW promises nothing, and the code says
nothing. In `hnsw_safety` the constraint `Unexposed` checks the states in which
a disk window has just been hit and does not continue from them: disk windows
are never left and the properties speak of the index before one.

In `collection` two ids suffice for a batch that fails between its points and
for postings that two documents share; the three points cover every way from one
presence of document and payload to another. `server_safety` needs three
processes for a stream during a drop and a create. Its two metas share metric
and dimension, the case in which one index mistakes the other's segment for its
own. A request of a process that has answered is not followed by another: a
client that goes on is another process. In `requests` every argument set holds,
for each check on the way, a value that passes it and one that it refuses;
floats lie one apart up to 4, two apart up to 8 and four apart up to 12 on both
sides of zero, `i64` is -8 .. 7 and `u32` ends at 300, so that rounding,
rounding to even and narrowing happen; filters nest once (`MaxDepth`). Its state
space is closed: calls go on for ever, over the finitely many collections the
arguments can build.

Fairness. Only `flat_recovery` uses it: weak fairness of `Progress`, the next
step of a started operation and the open of a store that is down. An operation
blocks on nothing but the file system and redb, and the server opens its
collections when it starts. Callers owe nothing; failures are never owed, and
bounded. For the server, that requests end is stated as the invariant
`NeverStuck`: whenever some request runs, one of them can take a step. Requests
have finitely many steps and wait only for a guard, so with a fair scheduler it
means every request is answered. Deadlock is checked in every run but the two of
`Server`, where it is the normal end: all requests answered, no restart left.

### Findings

The five violated runs state what a comment in the code says:

* `manifest.rs:21`, "Number of valid records in the segment (the durability
  watermark)": not after a crash between `truncate_to_empty` and
  `replace_slots`; open then fills the gap with zero vectors.
* `persistent_flat.rs:158`, "every insert is already durable": not the insert
  that follows a failed one in the same session. Reopening in between heals it.
* `persistent_hnsw.rs:5`, "one record per node-index": not after `compact`,
  which renumbers nodes and leaves the segment; the next open pairs rows with
  other nodes' vectors.
* `persistent_hnsw.rs:14`, "reloads the full graph EXACTLY": after a remove
  whose commit failed, an insert of the same id leaves two live rows for it and
  open fails with DuplicateId.
* `registry.rs:64`, "reloading all collections found on disk", and
  `registry.rs:173`, "Reject duplicates": two creates of one name that both pass
  the duplicate check. One registers; the other has already overwritten
  `collection.meta` when it fails at the existing segment. What the first
  collection then stores is served until the restart, which opens the directory
  with the other index type and finds nothing.

Two more came out of the server proofs, where the invariant failed before
`unsure` covered them; they take more processes than the runs have:

* `write_meta` (`meta.rs:40`) overwrites in place. A second create of a name
  that is already registered with the same parameters, past its duplicate check
  before the first registered, rewrites the file; a stop inside that write
  leaves a `collection.meta` that does not parse, for a collection that has
  answered and may hold points, and the next start skips it.
* An HNSW directory takes its parameters from `hnsw.redb` when it reloads, and
  `collection.meta` is not compared with it: after a create that failed late
  and another with other parameters, the two may differ.

Behaviour the models record without a run of its own: a crash in the first open
of a flat index, between catalog and segment, leaves a directory that no later
open creates or opens (`persistent_flat.rs:76`; window `creation`, which
`ComesBack` excepts); a refused insert into an HNSW index leaves its vector in
the segment, one record before that of the next node (`persistent_hnsw.rs:283`;
windows `stray` and `misplaced`); in the process, `Collection::upsert` with a
wrong dimension removes the prior vector before the index refuses
(`collection.rs:68`), which the dimension checks of the service keep remote
callers from; a point without payload matches no filter, not even a negation; a
JSON integer above or below `i64` is stored as the nearest float, which
`ShownIsGiven` leaves out; non-finite values are refused in payloads but not in
filters; empty text, non-positive fusion parameters and an empty stream are
refused over the wire only (`NotOnTheWire`). `RemoteIsEmbedded` compares the
collections after calls that succeed; what a refused one leaves is the subject
of `RejectionIsClean`, and what the client refuses while it encodes never
becomes a message, so neither property speaks of it.

## Proofs

The theorems hold for every set of ids, values, names, processes, points and
arguments and for every bound: the bounds of the runs appear in them as
arbitrary naturals. They cover every invariant, action property and refinement
that the passing runs check, but `NeverStuck`.

| Module | Theorems |
|---|---|
| `PersistentFlat_proofs` | `TypeCorrect`, `CountersAlwaysExact`, `MapAlwaysWithinFile`, `FileNeverShrinksUnderMap`, `ContentsAreDurable`, `ContentsAreServed`, `SnapshotAlwaysConsistent`, `FlatImplementsVectorIndex` |
| `HnswIndex_proofs` | `AlwaysWellLinked`, `EntryAlwaysTop`, `LiveAlwaysReachable`, `CompactionAlwaysKeepsContents`, `IndexImplementsVectorIndex` |
| `PersistentHnsw_proofs` | `TypeCorrect`, `AlwaysReloadsExactly`, `ContentsAlwaysDurable`, `HnswImplementsVectorIndex` |
| `Collection_proofs` | `TypeCorrect`, `StoresAlwaysAgree`, `NothingForeignEver`, `PurgeCanAlwaysBeRetried`, `PurgeAlwaysComplete`, `CountersAlwaysExact`, `AlwaysSameDocuments`, `LexicalParityEveryQuery`, `LexicalParityAlways` |
| `Server_proofs` | `TypeCorrect`, `AlwaysOneHandlePerIndex`, `ChunksAlwaysAtomic`, `StreamsStayInOneIncarnation`, `DiskAlwaysMirrorsMap`, `ServerImplementsDatabase` |
| `Requests_proofs` | `RegistryIsTyped`, `OnlyValidIsStored`, `WhatIsGivenIsShown`, `ComparisonsAreSound`, `RejectionsAreClean`, `RemoteCallsAreEmbedded`, `FlatSearchIsExact`, `FusionKeepsOrder` |

`Segment_proofs` and `HnswGraph_proofs` hold lemmas about operators.

Assumptions are those of the modules; TLC evaluates them on its instances.
Bounds are naturals. Marks for the absence of something (`Zero`, `Garbled`,
`Missing`, `None`) are none of the things they stand beside:
`SegmentAssumption`, `FlatAssumption`, `HnswAssumption`, `ServerAssumption`,
`NoneAssumption`. In `HnswAssumption` a bulk load fits the bound on nodes, as
the bound on inserts makes every insert fit. `CollectionAssumption`: `Terms` and
`Ids` are finite (ids are UUIDs of 128 bits, a query and a corpus have finitely
many terms), and points are well-formed records. In `Requests`, `FloatTypes`
says that there is a float and that the finite ones and `i64` lie between the
marks for NaN and infinity. `CliTypes`, `ClientTypes` and `OtherTypes` say that
arguments and messages have the types that Rust and protobuf give them, and no
more: an argument of a typed call went through the validating constructors, a
message of another program has only the shape of its type, with kinds missing,
lengths wrong and values not finite; a filter nests no deeper than `MaxDepth`,
which is arbitrary.

Induction over data. The library's induction theorems are out of reach, so
facts about sums, walks through a graph, descents and repeated inserts are
proved from well-foundedness of the naturals: the set of numbers for which the
claim fails has no least element. The recursive functions inside `Reach`,
`Descent`, `Built` and `retain` are first shown to exist as functions with their
recursion equations (`WalkExists`, `DescentExists`, `GrowthExists`).

### Flat index

Two layers. `StructInv` is what holds through every failure, windows included:
types, what `op` holds at each `pc` (`InsertInFlight`, `CompactionInFlight`),
slots below the watermark, counters equal to the catalog, the map inside the
file, creation only from an empty directory. It is inductive by itself and
gives the first four theorems. `IInv` adds what holds outside the windows.
`DiskInv` says that each committed slot names a record that holds the committed
value: it is stronger than `DurableContents`, which speaks through `set_len` and
says nothing about a file too short by records no slot names. `AlignedInv` says
that with no orphan tail the file ends where the watermark says, which is what
lets an append land on its slot. `TailInv` ties the map and the tail to the
file, record by record, so that reads return what is on disk. `RewriteInv` says
that during a compaction `op` holds the whole contents, the only copy there is
between the truncation and the commit. Each has a step lemma with one case per
action. For the refinement, a step of the index maps to an insert (commit of
slots), a remove, or a stutter; in the middle of a compaction the mapped
contents are those in `op`. `SnapInv` adds that the segment of an open
index has a valid header and that a snapshot in progress has already written to
the destination the catalog (slots and record count) it is about to pair with
the segment.

### Graph

`IndexInv` says that the graph is `Sound` and that the points a compaction has
still to insert are distinct and absent. `Sound` is four parts. `Shape`: lists
per layer up to a node's level, of nodes that exist. `Links` and `Top` are the
properties `WellLinked` and `EntryIsTop` of any graph; a new node is linked only
to nodes of its layer because a search at a layer stays on it, which `Descent`
inherits from layer to layer. `Connected` is what makes `LiveReachable`
inductive: as long as no list of layer 0 can have been cut there is a component
that holds every live node: no link of any layer leaves it, and each of its
nodes reaches all of it on layer 0. A new node joins it because its search
starts at the entry point, which is in it, and always finds a candidate there.
Tombstones stay in the component, so removing the entry point does not take it
apart. What is stored, `Held`, gains the new pair, loses the removed one, and is
rebuilt by a compaction, node by node in the order of the live nodes.

### Durable HNSW index

`HoldsIn(store, file, contents, g)` says that the disk holds the graph `g`: it
is sound, the rows are those of `g` (`Mirrors`), record n is the vector of node
n, a live node is the newest of its id (`Newest`, without which a reload would
find a duplicate id), and what `g` stores is `contents`. Such a `g` is what open
rebuilds (`MirrorReloads`: with rows for 1..n, sorting numbers them by
themselves). The invariant `Inv` is `TypeInv` and, outside the disk windows:

* `DiskInv`: the disk holds some graph, at every step of every operation;
* `RamInv`: between operations it is the graph in RAM, unless a transaction
  failed, and the segment ends at the node count, unless strays were left;
* `CommitInv`: before the commit of an insert the graph in RAM is one insert
  ahead of the one on disk, and the new record is in the place of the new node;
* `CreateInv`: an index under creation has no nodes, and a bulk load appends to
  an empty segment.

The heart is `InsertedRowsMirror`: the rows of the *touched* nodes suffice,
because every list the insert changed belongs to one of them. A compaction
keeps `HoldsIn` when no tombstone precedes a live node; otherwise it hits the
window `shifted`. Nothing is assumed of the windows in `TypeInv`: open may then
build any graph whose indexes exist.

### Collection

`StoreInv` ties the index in RAM to what a reopen would serve: equal while
`window` is "none" or "tail". The rest of `Inv` speaks of one id at a time.
`KeptAt` is that tie while `window` is "ahead": `stored` still has the vector of
every id that no failed call touched, and of the others one that was given.
`StageInv` says what the steps of the current id have done so far; `IdInv`
states `StoresAgree`, `NothingForeign` and the order of deletions (payload last,
so a purge that failed finds its points again) for an id, with the id under way
counted as attempted. `PurgeInv` ties the points a purge has still to remove to
those that match its filter. `CountInv` ties the statistics in RAM to those a
reopen would sum up.

Lexical parity is a relation between the tables and the in-memory index after
the same commits: the same documents, postings that are the documents seen from
their terms, and equal lengths, hence equal sums. It gives equal inputs of the
score for every query (`LexicalParityEveryQuery`), not only for the ones the run
tries.

### Server

`HandleInv`, `FileInv`, `WriterInv` and `StreamInv` hold whatever fails: a handle
that is registered, held by a stream or being dropped was created for that name;
every database file lies in the directory of the name its creator worked for,
and no two handles have one open; whoever applies points holds the write guard;
a stream's points are in the database of its handle, whole chunk by whole chunk
unless it was cut. For names outside `unsure`, `DirInv` adds that a registered
collection has all its files, a create has the files of the steps it has made,
concurrent creates agree on their parameters, a drop is alone, where nothing
is registered nothing is stored, and (`SoundAt`) no database in the directory is
misplaced, so that an open keeps all its points. `RestartAtStops` says what a
restart makes of a directory wherever its scan stops: one that is skipped though
it was fit becomes unsure, any other is what it was or has the files an
interrupted creation lacked. From this a restart finds exactly what was
served, which is `DiskMirrorsMap` and the refinement of `Database`: what a
client sees while the server is up, or would see after a restart while it is
down, changes only as `Database` allows.

### Requests

`Inv` is one part per stage. `Registry`: metadata that `create_collection`
accepts and stores that are `Sane` (finitely many vectors, finite and of the
dimension; documents that are lists of words and not blank; typed, finite
payloads; none without a vector). `SentOK`: what is on the wire is a message of
its type and, unless another program sent it, the encoding of the argument of
`call`, which is typed. `GivenOK`: each entry of `given` is the JSON from which
the stored payload was parsed. `AnswerOK`: hits on their way back are those of
the store. Four arguments rest on it.

*Round trips.* Every conversion decodes what it encoded, from values up to
points, batches, queries and hits (`ValueRoundTrip` ... `HitsRoundTrip`). Filters
are trees: along the rank that `IsFilter` demands, encoding is shown to exist as
a function, to be injective on what is nested in a filter (`FilterInverts`,
`MessagesDiffer`), and hence to be undone by decoding (`FilterRoundTrip`).
Printing undoes parsing up to the integers outside `i64` (`JsonPayload`,
`PrintedHits`).

*Remote equals embedded.* One lemma per method (`CreateAgrees` ...
`HybridAgrees`). Where the two sides are not the same by the round trip, there is
something to show: a batch is checked for its dimension before any write, the
Collection finds out at the first bad point, and both end in the same code
(`UpsertAllRefuses`); a stream is the loop over its batches (`StreamAgrees`); an
empty text beside a vector is dropped by the service, while the Collection fuses
with its empty ranking, which changes nothing (`FusionOfOne`).

*Ranking.* `Ranked` places x by the number of elements before it. For a strict
total order of a finite set that is a bijection in the right order
(`RankedFacts`), and cutting it gives the k best (`TruncatedFacts`). The orders
are scores with ties by id (`NearerIsOrder`) and fractions with ties by id
(`FractionsAreOrder`, whose transitivity is `Chain`). This gives the exact search.

*Fusion.* Dense and lexical search each give a front of one list whatever depth
is asked for (`DenseList`, `LexicalList`). If a is not behind b in the complete
list and b is in the cut one, a is in it before b (`PlaceAhead`), so a's share
of the score is larger, and where b is not in the cut list it has no share
there. Shares add up (`SumOfFractions`), and cutting the fused list keeps its
front (`CutAhead`).

The proof of `ShownIsGiven` found a flaw of the model: `given` stayed as it was
when a stream failed half way, though its earlier chunks had overwritten points.
`GivenAfter` now keeps only entries whose stored point is the same as before,
and the run has such a stream.

### Only model-checked

`ComesBack` (liveness under fairness) and `NeverStuck` (`ENABLED`) are beyond
the prover.

## Not modelled

* Floating-point scores and their rounding: `Query` ranks by exact integers
  over multiples of one vector, BM25 for queries of one distinct term, and hits
  carry no score. Beam widths: an HNSW search in `Requests` is exact, which the
  code guarantees only for small graphs, so the ranking properties speak of flat
  collections. `fuse_rrf` adds exact fractions where `fusion.rs:16` adds `f64`:
  with `rrf_k` at 2^53 or above neighbouring ranks tie in the code.
* Deletes that race with other requests: `Server` has no delete, `Collection`
  has its transactions. Which point of a cut chunk failed is not tracked.
* Power failures after a write without `fsync`: `snapshot` writes the copy of the
  segment that way (`persistent_flat.rs:191`), and `write_meta` its file
  (`meta.rs:40`). What is said of a snapshot, and the crashes of `Server`, are
  about stops of the process.
* Level generation (`rng.rs`: any level up to a bound); byte formats of the
  manifest, rows and header; the redb v2 upgrade.
* redb, the file system, tokio, tonic, clap and the generated protobuf code:
  external, modelled from how they are used. The client does not retry and sets
  no timeouts, so there are none.
* Lock poisoning: it takes a panic under a guard, and no handler is meant to panic.
* `list_collections` racing a drop and create of a name (metadata first, then
  one lookup per count): nothing promises a snapshot, and `Requests` serves one
  request at a time.
* `CollectionKind::bulk_load_hnsw`, which no RPC calls; benchmarks.

What an index does after opening rows that name missing nodes is left at
`unsound`.

## Plan

1. Shorten the larger proofs (`Server_proofs`, `HnswGraph_proofs`,
   `Requests_proofs`) around shared lemmas on directories, lists and loops.
2. BM25 for queries of several terms, where the idf is no common factor.
3. A run with more processes for the torn `collection.meta`, should
   `write_meta` become atomic.
