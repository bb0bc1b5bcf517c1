------------------------------- MODULE Server -------------------------------
(***************************************************************************)
(* The collection registry of eidosdb-server and the requests that run on   *)
(* it concurrently.  Each process serves one request: create_collection,    *)
(* drop_collection, a stream of point chunks (upsert and batch_upsert are   *)
(* streams of one chunk), compact or a read.  A step is what one lock       *)
(* acquisition or one file-system or redb call does; the others run in      *)
(* between.  The server may be stopped at any moment and started again.     *)
(*                                                                          *)
(* What a vector index promises is Collection's `window`, seen from here:   *)
(* `damage` says of each index database that it is sound, that a failed     *)
(* write has left it exposed, or that it is misplaced: the next open may    *)
(* lose any of its points, or fail.                                         *)
(*                                                                          *)
(* A collection directory is its files.  `stores` stands for lexical.redb   *)
(* and payload.redb, which are opened the same way one after the other.     *)
(* A redb file that a live handle has open cannot be opened again (redb     *)
(* locks it); an unlinked one lives on with its handle.                     *)
(***************************************************************************)
EXTENDS Integers, FiniteSets

CONSTANTS
    Procs, Names, None,
    Metas,        \* [type : {"flat", "hnsw"}, space : metric, dimension, parameters]
    ChunkSize,    \* points per chunk
    MaxChunks,    \* chunks per stream
    MaxFaults,    \* file-system and redb calls that fail
    MaxCrashes

ASSUME ServerAssumption ==
    /\ Names \cap Procs = {} /\ None \notin Names \cup Procs \cup Metas
    /\ \A m \in Metas : DOMAIN m = {"type", "space"} /\ m.type \in {"flat", "hnsw"}
    /\ \A m \in Metas : m.space # None
    /\ ChunkSize \in Nat \ {0} /\ MaxChunks \in Nat \ {0}
    /\ MaxFaults \in Nat /\ MaxCrashes \in Nat

VARIABLES
    up,           \* the server runs
    map,          \* Registry.map: name -> handle or None
    handles,      \* CollectionHandle by its creator: meta and opened database
    writer,       \* holder of the write guard of each handle
    dirs,         \* the directory of each name, or None
    content,      \* points in each index database, by its creator
    damage,       \* what failed writes and compactions have made of it
    pc, req,      \* per process: next step, request
    hold,         \* the handle a process holds (an Arc, or one being built)
    prog,         \* progress of a stream: chunk, points applied in it
    seen,         \* what a read returned
    unsure,       \* history: names whose directory a race or failure may have spoilt
    cut,          \* history: streams with a chunk that ended inside or lost points
    faults, crashes

vars == <<up, map, handles, writer, dirs, content, damage, pc, req, hold, prog, seen, unsure,
          cut, faults, crashes>>

\* A handle, and a file, is named after the process that created it; what the
\* start-up scan opens or creates is named after the collection.
Owners == Procs \cup Names
Tokens == Procs \X (1 .. MaxChunks) \X (1 .. ChunkSize)
EmptyDir == [meta |-> None, catalog |-> None, hnsw |-> None, segment |-> None, stores |-> None]
Files == DOMAIN EmptyDir
Torn == [type |-> "torn", space |-> None]     \* a meta file that does not parse
Put(d, file, value) == [d EXCEPT ![file] = value]
Present(d) == IF d = None THEN {} ELSE {f \in Files : d[f] # None}

\* What a directory may hold: an index database says who created it and for which
\* parameters.  What clients see of a collection.  None is none of these.
Spaces == {m.space : m \in Metas}
Databases == [by : Owners, space : Spaces]
Directories == [meta : Metas \cup {Torn, None}, catalog : Databases \cup {None},
                hnsw : Databases \cup {None}, segment : Spaces \cup {None},
                stores : Owners \cup {None}]
Collections == [meta : Metas, points : SUBSET Tokens]
ASSUME NoneAssumption == None \notin Databases \cup Directories \cup Collections

-----------------------------------------------------------------------------
(* Registry::open: what the scan finds in a directory. *)

\* The index named by collection.meta opens: open_flat creates a missing catalog
\* and segment, or wants both with the stored parameters; open_hnsw wants both
\* and takes the parameters from its own file.
Reopens(d) ==
    /\ d # None /\ d.meta \in Metas
    /\ IF d.meta.type = "flat"
       THEN \/ d.catalog = None /\ d.segment = None
            \/ /\ d.catalog # None
               /\ d.catalog.space = d.meta.space /\ d.segment = d.meta.space
       ELSE d.hnsw # None /\ d.segment = d.hnsw.space

Database(d) == IF d.meta.type = "flat" THEN d.catalog ELSE d.hnsw

\* The catalog is missing: the scan creates it.
Fresh(d) == d # None /\ d.meta \in Metas /\ d.meta.type = "flat" /\ d.catalog = None

\* What clients would find under n after a restart, and what they find now.
Stored(n) ==
    IF ~Reopens(dirs[n]) THEN None
    ELSE [meta |-> dirs[n].meta,
          points |-> IF Fresh(dirs[n]) THEN {} ELSE content[Database(dirs[n]).by]]
Served(n) ==
    IF map[n] = None THEN None
    ELSE [meta |-> handles[map[n]].meta, points |-> content[handles[map[n]].db]]

Init ==
    /\ up = TRUE
    \* An empty root, or collections created earlier and loaded by the scan.
    /\ \E old \in [Names -> Metas \cup {None}] :
         /\ map = [n \in Names |-> IF old[n] = None THEN None ELSE n]
         /\ handles = [h \in Owners |->
                IF h \in Names /\ old[h] # None THEN [meta |-> old[h], db |-> h]
                ELSE [meta |-> None, db |-> None]]
         /\ dirs = [n \in Names |->
                IF old[n] = None THEN None
                ELSE LET db == [by |-> n, space |-> old[n].space]
                     IN  [meta |-> old[n], segment |-> old[n].space, stores |-> n,
                          catalog |-> IF old[n].type = "flat" THEN db ELSE None,
                          hnsw |-> IF old[n].type = "hnsw" THEN db ELSE None]]
    /\ writer = [h \in Owners |-> None]
    /\ content = [h \in Owners |-> {}] /\ damage = [h \in Owners |-> "sound"]
    /\ pc = [p \in Procs |-> "ready"] /\ req = [p \in Procs |-> None]
    /\ hold = [p \in Procs |-> None]
    /\ prog = [p \in Procs |-> [chunk |-> 1, applied |-> 0]]
    /\ seen = [p \in Procs |-> {}]
    /\ unsure = {} /\ cut = {} /\ faults = 0 /\ crashes = 0

-----------------------------------------------------------------------------
(* Processes *)

Goto(p, step) == pc' = [pc EXCEPT ![p] = step]
Running(p) == pc[p] \notin {"ready", "ok", "error", "aborted"}
Creating(p) == Running(p) /\ req[p].kind = "create"
Dropping(p) == Running(p) /\ req[p].kind = "drop"

\* The handler returns: it lets go of its handle (the last Arc closes the files).
Return(p, answer) ==
    /\ Goto(p, answer)
    /\ hold' = [hold EXCEPT ![p] = None]

Live(h) == (\E n \in Names : map[n] = h) \/ (\E p \in Procs : hold[p] = h)
\* redb refuses a file that a live handle has open.  External.
InUse(owner) == \E h \in Owners : Live(h) /\ handles[h].db = owner

Receive(p, r) ==
    /\ up /\ pc[p] = "ready"
    /\ req' = [req EXCEPT ![p] = r]

-----------------------------------------------------------------------------
(* Registry::create *)

\* Steps 1 and 2: the name is valid, and not registered under the read lock.
\* A create that overlaps a drop of the name, or a create with other
\* parameters, may leave a directory that does not match the map.
StartCreate(p, n, m) ==
    /\ Receive(p, [kind |-> "create", name |-> n, meta |-> m])
    /\ IF map[n] # None
       THEN Goto(p, "error") /\ UNCHANGED <<hold, unsure>>
       ELSE /\ Goto(p, "mkdir")
            /\ hold' = [hold EXCEPT ![p] = p]
            /\ unsure' = IF \E q \in Procs : /\ \/ Dropping(q)
                                                \/ Creating(q) /\ req[q].meta # m
                                             /\ req[q].name = n
                         THEN unsure \cup {n} ELSE unsure
    /\ UNCHANGED <<up, map, handles, writer, dirs, content, damage, prog, seen, cut,
                   faults, crashes>>

Name(p) == req[p].name
Dir(p) == dirs[Name(p)]
SetFile(p, file, value) == dirs' = [dirs EXCEPT ![Name(p)] = Put(@, file, value)]

\* create_dir_all keeps a directory that is there.
Ensured(d) == IF d = None THEN EmptyDir ELSE d

\* Step 3: create_dir_all.
MakesDir(p, step) ==
    /\ pc[p] = "mkdir"
    /\ dirs' = [dirs EXCEPT ![Name(p)] = Ensured(@)]
    /\ Goto(p, step)
    /\ UNCHANGED <<up, map, handles, writer, content, damage, req, hold, prog, seen,
                   unsure, cut, faults, crashes>>

\* Mutant: the metadata is never written.
MakeDirOnly(p) == MakesDir(p, "database")
MakeDir(p) == MakesDir(p, "meta")

\* Step 4: write_meta replaces whatever is there; it needs the directory.
WriteMeta(p) ==
    /\ pc[p] = "meta"
    /\ IF Dir(p) = None
       THEN Return(p, "error") /\ UNCHANGED dirs
       ELSE SetFile(p, "meta", req[p].meta) /\ Goto(p, "database") /\ UNCHANGED hold
    /\ UNCHANGED <<up, map, handles, writer, content, damage, req, prog, seen, unsure,
                   cut, faults, crashes>>

\* Opening index databases: those made anew are empty; of the others an open cuts
\* what a failed write has left, and a misplaced one may lose any of its points.
Opens(old, new) ==
    \E lost \in SUBSET UNION {content[o] : o \in {o \in old : damage[o] = "misplaced"}} :
        /\ content' = [o \in Owners |->
               IF o \in new THEN {}
               ELSE IF o \in old /\ damage[o] = "misplaced" THEN content[o] \ lost
               ELSE content[o]]
        /\ damage' = [o \in Owners |->
               IF o \in new \/ (o \in old /\ damage[o] = "exposed") THEN "sound" ELSE damage[o]]
        /\ cut' = cut \cup {t[1] : t \in lost}

\* The index of p is the one in the database file of that owner.
Takes(p, owner) == handles' = [handles EXCEPT ![p] = [meta |-> req[p].meta, db |-> owner]]

\* Step 5, open_flat: PersistentFlatIndex::open creates the directory again if a
\* drop has removed it, opens an existing catalog with its segment, or creates
\* the catalog and then the segment.
OpensFlat(p, locked) ==
    /\ pc[p] = "database" /\ req[p].meta.type = "flat"
    /\ LET d == Ensured(Dir(p))
           space == req[p].meta.space
           owner == d.catalog.by
       IN  IF d.catalog = None
           THEN /\ dirs' = [dirs EXCEPT ![Name(p)] =
                                Put(d, "catalog", [by |-> p, space |-> space])]
                /\ Takes(p, p) /\ Opens({}, {p})
                /\ Goto(p, "segment") /\ UNCHANGED hold
           ELSE \/ /\ ~(locked /\ InUse(owner))
                   /\ d.catalog.space = space /\ d.segment = space
                   /\ Takes(p, owner) /\ Opens({owner}, {})
                   /\ Goto(p, "stores") /\ UNCHANGED <<dirs, hold>>
                \/ /\ \/ locked /\ InUse(owner)
                      \/ d.catalog.space # space \/ d.segment # space
                      \/ damage[owner] = "misplaced"
                   /\ Return(p, "error") /\ UNCHANGED <<handles, dirs, content, damage, cut>>
    /\ UNCHANGED <<up, map, writer, req, prog, seen, unsure, faults, crashes>>

\* Mutant: the catalog is opened without its lock.
OpenFlatUnlocked(p) == OpensFlat(p, FALSE)
OpenFlat(p) == OpensFlat(p, TRUE)

\* Step 5, create_hnsw: PersistentHnswIndex::create opens hnsw.redb if it is
\* there and resets it, before it finds out about the segment.
CreateHnsw(p) ==
    /\ pc[p] = "database" /\ req[p].meta.type = "hnsw"
    /\ LET d == Ensured(Dir(p))
           owner == IF d.hnsw = None THEN p ELSE d.hnsw.by
       IN  IF d.hnsw # None /\ InUse(owner)
           THEN Return(p, "error") /\ UNCHANGED <<handles, dirs, content, damage, cut>>
           ELSE /\ dirs' = [dirs EXCEPT ![Name(p)] =
                       Put(d, "hnsw", [by |-> owner, space |-> req[p].meta.space])]
                /\ Takes(p, owner) /\ Opens({}, {owner})
                /\ Goto(p, "segment") /\ UNCHANGED hold
    /\ UNCHANGED <<up, map, writer, req, prog, seen, unsure, faults, crashes>>

\* Segment::create refuses an existing file and needs the directory.
CreateSegment(p) ==
    /\ pc[p] = "segment"
    /\ IF Dir(p) = None \/ (Dir(p) # None /\ Dir(p).segment # None)
       THEN Return(p, "error") /\ UNCHANGED dirs
       ELSE /\ SetFile(p, "segment", req[p].meta.space)
            /\ Goto(p, "stores") /\ UNCHANGED hold
    /\ UNCHANGED <<up, map, handles, writer, content, damage, req, prog, seen, unsure,
                   cut, faults, crashes>>

\* PersistentLexicalIndex::open and PersistentPayloadStore::open: opened or created.
OpenStores(p) ==
    /\ pc[p] = "stores"
    /\ IF Dir(p) = None
       THEN Return(p, "error") /\ UNCHANGED dirs
       ELSE /\ SetFile(p, "stores", IF Dir(p).stores = None THEN p ELSE Dir(p).stores)
            /\ Goto(p, "register") /\ UNCHANGED hold
    /\ UNCHANGED <<up, map, handles, writer, content, damage, req, prog, seen, unsure,
                   cut, faults, crashes>>

\* Step 6: the handle goes into the map, over whatever is there.
Register(p) ==
    /\ pc[p] = "register"
    /\ map' = [map EXCEPT ![Name(p)] = p]
    /\ Return(p, "ok")
    /\ UNCHANGED <<up, handles, writer, dirs, content, damage, req, prog, seen, unsure,
                   cut, faults, crashes>>

-----------------------------------------------------------------------------
(* Registry::drop_collection *)

\* The handle leaves the map under the write lock; its directory goes next.
StartDrop(p, n) ==
    /\ Receive(p, [kind |-> "drop", name |-> n, left |-> Present(dirs[n])])
    /\ map' = [map EXCEPT ![n] = None]
    /\ hold' = [hold EXCEPT ![p] = map[n]]
    /\ Goto(p, IF map[n] = None THEN "ok" ELSE "removing")
    /\ unsure' = IF map[n] # None /\ \E q \in Procs : Creating(q) /\ Name(q) = n
                 THEN unsure \cup {n} ELSE unsure
    /\ UNCHANGED <<up, handles, writer, dirs, content, damage, prog, seen, cut, faults,
                   crashes>>

\* remove_dir_all unlinks the files it lists, in any order, and then the
\* directory.  Of the files that appear meanwhile it may see some; one that it
\* missed makes it fail, and so does a directory that is gone.
RemoveFile(p) ==
    /\ pc[p] = "removing"
    /\ \E f \in Present(Dir(p)) :
           /\ SetFile(p, f, None)
           /\ req' = [req EXCEPT ![p].left = @ \ {f}]
    /\ UNCHANGED <<up, map, handles, writer, content, damage, pc, hold, prog, seen,
                   unsure, cut, faults, crashes>>

RemoveDir(p) ==
    /\ pc[p] = "removing" /\ req[p].left \cap Present(Dir(p)) = {}
    /\ IF Dir(p) = EmptyDir
       THEN dirs' = [dirs EXCEPT ![Name(p)] = None] /\ Return(p, "ok")
       ELSE Return(p, "error") /\ UNCHANGED dirs
    /\ UNCHANGED <<up, map, handles, writer, content, damage, req, prog, seen, unsure,
                   cut, faults, crashes>>

-----------------------------------------------------------------------------
(* upsert, batch_upsert, bulk_upsert; search, describe; compact *)

\* Registry::get: the handle is looked up once, NOT_FOUND without one.
GetHandle(p, n, step) ==
    IF map[n] = None
    THEN Goto(p, "error") /\ UNCHANGED hold
    ELSE Goto(p, step) /\ hold' = [hold EXCEPT ![p] = map[n]]

StartWrite(p, n) ==
    /\ Receive(p, [kind |-> "write", name |-> n])
    /\ GetHandle(p, n, "lock")
    /\ UNCHANGED <<up, map, handles, writer, dirs, content, damage, prog, seen, unsure,
                   cut, faults, crashes>>

StartRead(p, n) ==
    /\ Receive(p, [kind |-> "read", name |-> n])
    /\ GetHandle(p, n, "read")
    /\ UNCHANGED <<up, map, handles, writer, dirs, content, damage, prog, seen, unsure,
                   cut, faults, crashes>>

StartCompact(p, n) ==
    /\ Receive(p, [kind |-> "compact", name |-> n])
    /\ GetHandle(p, n, "compact")
    /\ UNCHANGED <<up, map, handles, writer, dirs, content, damage, prog, seen, unsure,
                   cut, faults, crashes>>

\* run_blocking: the write guard of the handle for the whole chunk.
Lock(p) ==
    /\ pc[p] = "lock" /\ writer[hold[p]] = None
    /\ writer' = [writer EXCEPT ![hold[p]] = p]
    /\ Goto(p, "apply")
    /\ UNCHANGED <<up, map, handles, dirs, content, damage, req, hold, prog, seen, unsure,
                   cut, faults, crashes>>

\* The names whose directory has one of these databases.
Holding(dbs) ==
    {n \in Names : /\ dirs[n] # None
                   /\ \E f \in {"catalog", "hnsw"} : dirs[n][f] # None /\ dirs[n][f].by \in dbs}
Misplaced(dbs) == [o \in Owners |-> IF o \in dbs THEN "misplaced" ELSE damage[o]]
Misplaces(db) == damage' = Misplaced({db}) /\ unsure' = unsure \cup Holding({db})

\* One point of the chunk; the guard is dropped after the last.  On an exposed index
\* it lands in a row of the segment that is not the one its slot names.
Applies(p, last) ==
    /\ pc[p] = "apply"
    /\ LET k == prog[p].applied + 1
           db == handles[hold[p]].db
       IN  /\ content' = [content EXCEPT ![db] = @ \cup {<<p, prog[p].chunk, k>>}]
           /\ IF damage[db] = "exposed" THEN Misplaces(db) ELSE UNCHANGED <<damage, unsure>>
           /\ prog' = [prog EXCEPT ![p].applied = k]
           /\ IF k = last
              THEN Goto(p, "next") /\ writer' = [writer EXCEPT ![hold[p]] = None]
              ELSE UNCHANGED <<pc, writer>>
    /\ UNCHANGED <<up, map, handles, dirs, req, hold, seen, cut, faults, crashes>>

\* Mutant: one point too many.
ApplyBeyond(p) == Applies(p, ChunkSize + 1)
Apply(p) == Applies(p, ChunkSize)

\* The stream ends, or brings another chunk for the same handle.
Continues(p, handle) ==
    /\ pc[p] = "next"
    /\ \/ Return(p, "ok") /\ UNCHANGED prog
       \/ /\ prog[p].chunk < MaxChunks /\ handle # None
          /\ prog' = [prog EXCEPT ![p] = [chunk |-> @.chunk + 1, applied |-> 0]]
          /\ Goto(p, "lock") /\ hold' = [hold EXCEPT ![p] = handle]
    /\ UNCHANGED <<up, map, handles, writer, dirs, content, damage, req, seen, unsure,
                   cut, faults, crashes>>

\* Mutant: the name is looked up again for every chunk.
NextChunkByName(p) == Continues(p, map[Name(p)])
NextChunk(p) == Continues(p, hold[p])

\* A chunk of another dimension or collection, one that does not decode, or a broken
\* stream ends the call outside the guard: a chunk under way is finished first.
BadChunk(p) ==
    /\ pc[p] \in {"lock", "next"}
    /\ Return(p, "error")
    /\ UNCHANGED <<up, map, handles, writer, dirs, content, damage, req, prog, seen,
                   unsure, cut, faults, crashes>>

\* run_blocking_read: readers share the guard and exclude the writer.  A misplaced
\* index may have nothing to read where a row should be.
Reads(p, guarded) ==
    /\ pc[p] = "read" /\ (guarded => writer[hold[p]] = None)
    /\ LET db == handles[hold[p]].db
       IN  \/ seen' = [seen EXCEPT ![p] = content[db]] /\ Return(p, "ok")
           \/ damage[db] = "misplaced" /\ Return(p, "error") /\ UNCHANGED seen
    /\ UNCHANGED <<up, map, handles, writer, dirs, content, damage, req, prog, unsure,
                   cut, faults, crashes>>

\* Mutant: a read does not wait for the writer.
ReadUnguarded(p) == Reads(p, FALSE)
Read(p) == Reads(p, TRUE)

\* run_blocking again: the whole compaction under the write guard.  The flat index
\* writes its files anew; an error or a stop in between leaves them misplaced.  The
\* HNSW index may renumber its nodes over a segment that stays as it is.
Compacting(p) == pc[p] = "compact" /\ writer[hold[p]] = None

CompactIndex(p) ==
    /\ Compacting(p)
    /\ LET db == handles[hold[p]].db
           flat == handles[hold[p]].meta.type = "flat"
           clean == [damage EXCEPT ![db] = IF @ = "exposed" /\ flat THEN "sound" ELSE @]
       IN  \/ /\ Return(p, "ok") /\ UNCHANGED faults
              /\ \/ damage' = clean /\ UNCHANGED unsure
                 \/ ~flat /\ Misplaces(db)
           \/ /\ faults < MaxFaults /\ faults' = faults + 1
              /\ Return(p, "error")
              /\ \/ UNCHANGED <<damage, unsure>>
                 \/ Misplaces(db)
    /\ UNCHANGED <<up, map, handles, writer, dirs, content, req, prog, seen, cut,
                   crashes>>

-----------------------------------------------------------------------------
(* Failures *)

\* A file-system or redb call of a create fails before it changes anything; only
\* write_meta, which writes in place, may leave a file that does not parse.  That
\* harms whoever else has registered or is creating the name.  A removal that
\* fails leaves the rest of the directory.
WritingMeta(p) == pc[p] = "meta" /\ Dir(p) # None
Shared(p) == \/ map[Name(p)] # None
             \/ \E q \in Procs \ {p} : Creating(q) /\ Name(q) = Name(p)

LifecycleFails(p) ==
    /\ pc[p] \in {"mkdir", "meta", "database", "segment", "stores", "removing"}
    /\ faults < MaxFaults
    /\ faults' = faults + 1
    /\ Return(p, "error")
    /\ \/ /\ UNCHANGED dirs
          /\ unsure' = IF Dropping(p) THEN unsure \cup {Name(p)} ELSE unsure
       \/ /\ WritingMeta(p) /\ SetFile(p, "meta", Torn)
          /\ unsure' = IF Shared(p) THEN unsure \cup {Name(p)} ELSE unsure
    /\ UNCHANGED <<up, map, handles, writer, content, damage, req, prog, seen, cut,
                   crashes>>

\* A point of a chunk fails: the error returns, the points before it stay.  If it
\* failed in the index, bytes may be left in its segment or its graph be ahead.
AbandonsChunk(p, holder) ==
    /\ pc[p] = "apply" /\ faults < MaxFaults
    /\ faults' = faults + 1
    /\ writer' = [writer EXCEPT ![hold[p]] = holder]
    /\ cut' = cut \cup {p}
    /\ LET db == handles[hold[p]].db
       IN  \/ UNCHANGED damage
           \/ damage' = [damage EXCEPT ![db] = IF @ = "sound" THEN "exposed" ELSE @]
    /\ Return(p, "error")
    /\ UNCHANGED <<up, map, handles, dirs, content, req, prog, seen, unsure,
                   crashes>>

\* Mutant: the guard outlives the error.
ApplyFailsLocked(p) == AbandonsChunk(p, p)
ApplyFails(p) == AbandonsChunk(p, None)

\* The server stops (eidosd does not drain requests): everything in RAM is gone.
\* A meta file being written may be left unreadable, a registered collection's too,
\* and an index that is being compacted misplaced.
Crash ==
    /\ up /\ crashes < MaxCrashes
    /\ crashes' = crashes + 1
    /\ up' = FALSE
    /\ \E torn \in SUBSET {p \in Procs : WritingMeta(p)},
          broken \in SUBSET {p \in Procs : Compacting(p)} :
           LET dbs == {handles[hold[p]].db : p \in broken}
           IN  /\ dirs' = [n \in Names |-> IF \E p \in torn : Name(p) = n
                                           THEN Put(dirs[n], "meta", Torn) ELSE dirs[n]]
               /\ damage' = Misplaced(dbs)
               /\ unsure' = unsure \cup Holding(dbs) \cup {Name(p) : p \in {q \in Procs :
                                 Dropping(q) \/ (q \in torn /\ map[Name(q)] # None)}}
    /\ map' = [n \in Names |-> None]
    /\ handles' = [h \in Owners |-> [meta |-> None, db |-> None]]
    /\ writer' = [h \in Owners |-> None]
    /\ pc' = [p \in Procs |-> IF Running(p) THEN "aborted" ELSE pc[p]]
    /\ hold' = [p \in Procs |-> None]
    /\ cut' = cut \cup {p \in Procs : pc[p] = "apply"}
    /\ UNCHANGED <<content, req, prog, seen, faults>>

\* Where the scan of a directory stops: before its index is opened, once the catalog
\* of a new one is there, before the stores, or nowhere.
Stops == {"index", "segment", "stores", "never"}

\* A directory after the scan: a missing flat index and missing stores are
\* created; a catalog is even if the segment then stops it.
AfterScan(n, stop) ==
    LET d == dirs[n]
        catalogued == IF Fresh(d) /\ stop # "index"
                      THEN Put(d, "catalog", [by |-> n, space |-> d.meta.space]) ELSE d
        segmented == IF Fresh(d) /\ d.segment = None /\ stop \in {"stores", "never"}
                     THEN Put(catalogued, "segment", d.meta.space) ELSE catalogued
    IN  IF Reopens(d) /\ d.stores = None /\ stop = "never"
        THEN Put(segmented, "stores", n) ELSE segmented

\* A stop that needs no failing call: the index is misplaced and does not open.
Unopenable(n) ==
    Reopens(dirs[n]) /\ ~Fresh(dirs[n]) /\ damage[Database(dirs[n]).by] = "misplaced"

\* Registry::open: every directory whose metadata reads and whose index opens.  One
\* that an error stops is skipped: it stays on disk, and its name is free.
Restarts(keep) ==
    /\ ~up /\ up' = TRUE
    /\ \E stop \in [Names -> Stops] :
         LET skipped == {n \in Names : stop[n] # "never"}
             loaded == {n \in Names \ skipped : Reopens(dirs[n])}
             new == {n \in Names : Fresh(dirs[n]) /\ stop[n] # "index"}
             anew == {n \in loaded : ~keep}
         IN  /\ \A n \in skipped : dirs[n] # None
             /\ faults' = faults + Cardinality({n \in skipped : ~Unopenable(n)})
             /\ faults' <= MaxFaults
             /\ map' = [n \in Names |-> IF n \in loaded THEN n ELSE None]
             /\ dirs' = [n \in Names |-> AfterScan(n, stop[n])]
             /\ handles' = [h \in Owners |->
                    IF h \in loaded
                    THEN [meta |-> dirs[h].meta,
                          db |-> IF Fresh(dirs[h]) THEN h ELSE Database(dirs[h]).by]
                    ELSE [meta |-> None, db |-> None]]
             /\ Opens({Database(dirs[n]).by : n \in loaded \ new}, new \cup anew)
             /\ unsure' = unsure \cup {n \in skipped : Reopens(dirs[n])}
    /\ UNCHANGED <<writer, pc, req, hold, prog, seen, crashes>>

\* Mutant: the scan starts the collection's own index anew.
RestartAnew == Restarts(FALSE)
Restart == Restarts(TRUE)

-----------------------------------------------------------------------------
Step(p) ==
    \/ MakeDir(p) \/ WriteMeta(p) \/ OpenFlat(p) \/ CreateHnsw(p) \/ CreateSegment(p)
    \/ OpenStores(p) \/ Register(p)
    \/ RemoveFile(p) \/ RemoveDir(p)
    \/ Lock(p) \/ Apply(p) \/ NextChunk(p) \/ Read(p) \/ CompactIndex(p)

Request(p) ==
    \E n \in Names :
        \/ \E m \in Metas : StartCreate(p, n, m)
        \/ StartDrop(p, n) \/ StartWrite(p, n) \/ StartRead(p, n) \/ StartCompact(p, n)

Next ==
    \/ \E p \in Procs : Request(p) \/ Step(p) \/ BadChunk(p) \/ LifecycleFails(p)
                            \/ ApplyFails(p)
    \/ Crash \/ Restart

Spec == Init /\ [][Next]_vars

-----------------------------------------------------------------------------
(* Properties *)

\* TypeOK: the shape of map, handles, directories and processes.
TypeOK ==
    /\ map \in [Names -> Owners \cup {None}]
    /\ handles \in [Owners -> [meta : Metas \cup {None}, db : Owners \cup {None}]]
    /\ writer \in [Owners -> Procs \cup {None}]
    /\ dirs \in [Names -> Directories \cup {None}]
    /\ content \in [Owners -> SUBSET Tokens]
    /\ damage \in [Owners -> {"sound", "exposed", "misplaced"}]
    /\ hold \in [Procs -> Owners \cup {None}]
    /\ unsure \subseteq Names /\ cut \subseteq Procs

\* DiskMirrorsMap: what a registered collection serves is what a restart would
\* load, its parameters and every point, unless lifecycle requests on its name
\* have overlapped, a removal was cut short, its index was misplaced or a scan has
\* skipped it (Registry::create writes four files and then the map;
\* drop_collection the other way round).
DiskMirrorsMap ==
    \A n \in Names \ unsure : map[n] # None => Stored(n) = Served(n)

Changing(n) == \E p \in Procs : (Creating(p) \/ Dropping(p)) /\ Name(p) = n

\* RegisteredReloads: the same of every name that no request is changing:
\* Registry::open is documented as "reloading all collections found on disk".
RegisteredReloads ==
    \A n \in Names : map[n] # None /\ ~Changing(n) => Stored(n) = Served(n)

\* ChunksAreAtomic: a read sees all points of a chunk or none, unless the chunk
\* was cut short by an error or a stop, or a misplaced index lost some of them
\* (batch_upsert and each chunk of bulk_upsert hold one write guard).
ChunksAreAtomic ==
    \A r \in Procs : \A t \in seen[r] :
        t[1] \notin cut => \A k \in 1 .. ChunkSize : <<t[1], t[2], k>> \in seen[r]

\* OneIncarnation: all points of a stream land in one incarnation of the
\* collection, also when the name is dropped and created again between chunks.
OneIncarnation ==
    \A g, h \in Owners : \A s \in content[g] : \A t \in content[h] :
        s[1] = t[1] => g = h

\* OneHandlePerIndex: no two registered handles, and no registered and one being
\* built, have the same index database open.
OneHandlePerIndex ==
    \A g, h \in Owners : /\ Live(g) /\ Live(h) /\ g # h
                         /\ handles[g].db # None
                         => handles[g].db # handles[h].db

\* NeverStuck: while requests are running one of them can take its next step, so
\* each is answered in the end: a request has finitely many steps, and waits only
\* for a guard whose holder can go on (run_blocking holds one guard at a time and
\* drops it on every path).
NeverStuck == (\E p \in Procs : Running(p)) => \E p \in Procs : ENABLED Step(p)

\* ImplementsDatabase: to its clients the server is a map from names to
\* collections from which stops and restarts take nothing, as long as the name is
\* not in `unsure`: no scan has skipped it, nothing was written on top of a failed
\* write, no compaction has misplaced its index, and its creates and drops did
\* not overlap (Registry::open, Registry::create, CollectionKind::compact).
Colls == [n \in Names |-> IF up THEN Served(n) ELSE Stored(n)]
Abstract == INSTANCE Database WITH colls <- Colls
ImplementsDatabase == Abstract!Spec
=============================================================================
