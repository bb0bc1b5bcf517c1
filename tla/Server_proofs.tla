---------------------------- MODULE Server_proofs ----------------------------
(***************************************************************************)
(* Proofs about Server for every set of processes and names, every chunk    *)
(* size and every number of failures and stops.                             *)
(*                                                                          *)
(* Inv, the invariant of handles, files, guards and streams, is inductive   *)
(* and holds of every name.  DirInv relates the directory of a name that no *)
(* race or failure has spoilt to the map; given Inv it is inductive too.    *)
(* The properties of Server and the refinement of Database follow.          *)
(***************************************************************************)
EXTENDS Server, TLAPS

Early == {"ready", "mkdir", "meta", "database"}
Late == {"segment", "stores", "register"}
CreateSteps == {"mkdir", "meta", "database"} \cup Late
StreamSteps == {"lock", "apply", "next"}
Finished == {"ok", "error", "aborted"}

CreateRequests == [kind : {"create"}, name : Names, meta : Metas]
DropRequests == [kind : {"drop"}, name : Names, left : SUBSET Files]
WriteRequests == [kind : {"write"}, name : Names]
ReadRequests == [kind : {"read"}, name : Names]
CompactRequests == [kind : {"compact"}, name : Names]
Requests == CreateRequests \cup DropRequests \cup WriteRequests \cup ReadRequests
                \cup CompactRequests

(***************************************************************************)
(* The step a process is at goes with the request it serves; a stopped      *)
(* server runs none.                                                        *)
(***************************************************************************)
RequestInv ==
    /\ up \in BOOLEAN
    /\ pc \in [Procs -> {"ready", "removing", "read", "compact"} \cup CreateSteps
                        \cup StreamSteps \cup Finished]
    /\ req \in [Procs -> Requests \cup {None}]
    /\ \A p \in Procs :
        /\ pc[p] \in CreateSteps => req[p] \in CreateRequests
        /\ pc[p] = "removing" => req[p] \in DropRequests
        /\ pc[p] \in StreamSteps => req[p] \in WriteRequests
        /\ pc[p] = "read" => req[p] \in ReadRequests
        /\ pc[p] = "compact" => req[p] \in CompactRequests
    /\ ~up => \A p \in Procs : pc[p] \in {"ready"} \cup Finished

ProgressInv ==
    /\ prog \in [Procs -> [chunk : 1 .. MaxChunks, applied : 0 .. ChunkSize]]
    /\ seen \in [Procs -> SUBSET Tokens]
    /\ \A p \in Procs : /\ pc[p] \in {"ready", "lock"} => prog[p].applied = 0
                        /\ pc[p] = "apply" => prog[p].applied < ChunkSize

TypeInv == TypeOK /\ RequestInv /\ ProgressInv

(***************************************************************************)
(* Who a handle or a file belongs to.  A process has opened its index once  *)
(* it is past the step "database"; a registered handle was built by a       *)
(* create that has finished, or by the scan.                                *)
(***************************************************************************)
Home(o) == IF o \in Names THEN o ELSE req[o].name
Opened(o) == o \in Procs => pc[o] \notin Early /\ req[o] \in CreateRequests
Registered(h, n) ==
    /\ h \in Owners /\ handles[h].db # None /\ Home(h) = n
    /\ h \in Procs => pc[h] = "ok" /\ req[h] \in CreateRequests

HandleInv ==
    /\ \A n \in Names : map[n] # None => up /\ Registered(map[n], n)
    /\ \A p \in Procs :
        /\ pc[p] \in CreateSteps => hold[p] = p
        /\ pc[p] \in Late => handles[p].db # None
        /\ pc[p] \in {"removing", "read", "compact"} \cup StreamSteps =>
              Registered(hold[p], Name(p))
        /\ ~Running(p) => hold[p] = None

HandlesAtHome ==
    \A g \in Owners : LET o == handles[g].db
                      IN  o # None => Opened(g) /\ Opened(o) /\ Home(g) = Home(o)

DbFiles == {"catalog", "hnsw"}
DbFile(m) == IF m.type = "flat" THEN "catalog" ELSE "hnsw"
FilesAtHome ==
    \A n \in Names : dirs[n] # None =>
        \A f \in DbFiles : LET db == dirs[n][f]
                           IN  db # None => Opened(db.by) /\ Home(db.by) = n

FileInv == HandlesAtHome /\ FilesAtHome /\ OneHandlePerIndex

\* The write guard.
WriterInv == \A p \in Procs : pc[p] = "apply" => writer[hold[p]] = p

(***************************************************************************)
(* The points of a stream.  While it runs they are all in the database of   *)
(* the handle it holds; those of the chunk under way up to the last one     *)
(* applied; every other chunk is there as a whole, or was cut.              *)
(***************************************************************************)
PointsBelong ==
    \A g \in Owners : \A t \in content[g] :
        /\ pc[t[1]] # "ready" /\ req[t[1]] \in WriteRequests
        /\ t[2] <= prog[t[1]].chunk
        /\ pc[t[1]] = "lock" => t[2] < prog[t[1]].chunk
        /\ pc[t[1]] \in StreamSteps => g = handles[hold[t[1]]].db

ChunkUnderWay ==
    \A p \in Procs : pc[p] = "apply" =>
        \A k \in 1 .. prog[p].applied :
            <<p, prog[p].chunk, k>> \in content[handles[hold[p]].db]

ChunksWhole ==
    \A g \in Owners : \A t \in content[g] :
        \/ t[1] \in cut
        \/ pc[t[1]] = "apply" /\ t[2] = prog[t[1]].chunk
        \/ \A k \in 1 .. ChunkSize : <<t[1], t[2], k>> \in content[g]

StreamInv ==
    PointsBelong /\ ChunkUnderWay /\ ChunksWhole /\ OneIncarnation /\ ChunksAreAtomic

(***************************************************************************)
(* The directory of a name that nothing has spoilt: a registered handle has *)
(* all its files there, and so has a create as far as it has come; creates  *)
(* of the name agree on the parameters, and a drop runs alone.              *)
(***************************************************************************)
Holds(n, h) ==
    /\ dirs[n] # None /\ handles[h].meta \in Metas
    /\ dirs[n][DbFile(handles[h].meta)] # None
    /\ dirs[n][DbFile(handles[h].meta)].by = handles[h].db
Complete(n, h) ==
    /\ Holds(n, h)
    /\ dirs[n].meta = handles[h].meta
    /\ dirs[n].segment = dirs[n][DbFile(handles[h].meta)].space
    /\ handles[h].meta.type = "flat" => dirs[n].segment = handles[h].meta.space

Creator(p, n) == pc[p] \in CreateSteps /\ req[p].name = n
Dropper(p, n) == pc[p] = "removing" /\ req[p].name = n

Stage(p, n) ==
    /\ pc[p] # "mkdir" => dirs[n] # None
    /\ pc[p] \in {"database"} \cup Late => dirs[n].meta = req[p].meta
    /\ pc[p] \in Late => /\ Holds(n, p) /\ handles[p].meta = req[p].meta
                         /\ dirs[n][DbFile(req[p].meta)].space = req[p].meta.space
    /\ pc[p] \in {"stores", "register"} => dirs[n].segment = req[p].meta.space

CreatorOK(p, n) ==
    /\ map[n] # None => handles[map[n]].meta = req[p].meta
    /\ \A q \in Procs : Creator(q, n) => req[q].meta = req[p].meta
    /\ \A q \in Procs : ~Dropper(q, n)
    /\ Stage(p, n)

DropperOK(p, n) ==
    /\ map[n] = None /\ dirs[n] # None /\ Present(dirs[n]) \subseteq req[p].left
    /\ \A q \in Procs : Dropper(q, n) => q = p

NameInv(n) ==
    /\ map[n] # None => Complete(n, map[n])
    /\ \A p \in Procs : Creator(p, n) => CreatorOK(p, n)
    /\ \A p \in Procs : Dropper(p, n) => DropperOK(p, n)

(***************************************************************************)
(* Where nothing is registered, nothing is stored: what a create takes over *)
(* is empty, and a stream whose handle has been dropped writes where nobody *)
(* will look again.                                                         *)
(***************************************************************************)
AllEmpty(n) ==
    dirs[n] # None => \A f \in DbFiles : dirs[n][f] # None => content[dirs[n][f].by] = {}
Away(n, o) ==
    dirs[n] # None => \A f \in DbFiles : dirs[n][f] # None => dirs[n][f].by # o

EmptyInv(n) ==
    /\ up /\ map[n] = None /\ (\A q \in Procs : ~Dropper(q, n)) => AllEmpty(n)
    /\ ~up /\ ~Reopens(dirs[n]) => AllEmpty(n)
    /\ \A p \in Procs : pc[p] \in StreamSteps /\ req[p].name = n =>
          \/ map[n] = hold[p] \/ \E q \in Procs : Dropper(q, n)
          \/ Away(n, handles[hold[p]].db)

(***************************************************************************)
(* The index of an unspoilt name is not misplaced: its next open keeps all  *)
(* of its points.                                                           *)
(***************************************************************************)
SoundAt(n) ==
    dirs[n] # None => \A f \in DbFiles : dirs[n][f] # None =>
                         damage[dirs[n][f].by] # "misplaced"

DirInv == \A n \in Names \ unsure : NameInv(n) /\ EmptyInv(n) /\ SoundAt(n)

(* Directories *)

\* create_dir_all leaves a directory, and one that is there alone.
LEMMA EnsuredIsDirectory ==
  ASSUME NEW d \in Directories \cup {None}
  PROVE  Ensured(d) \in Directories /\ (d # None => Ensured(d) = d)
BY DEF Ensured, EmptyDir, Directories

\* Writing one file of a directory changes that file only.
LEMMA PutFile ==
  ASSUME NEW d \in Directories, NEW file \in Files, NEW value,
         file = "meta" => value \in Metas \cup {Torn, None},
         file \in {"catalog", "hnsw"} => value \in Databases \cup {None},
         file = "segment" => value \in Spaces \cup {None},
         file = "stores" => value \in Owners \cup {None}
  PROVE  /\ Put(d, file, value) \in Directories
         /\ Put(d, file, value)[file] = value
         /\ \A f \in Files \ {file} : Put(d, file, value)[f] = d[f]
<1> Files = {"meta", "catalog", "hnsw", "segment", "stores"}
  BY DEF Files, EmptyDir
<1> DEFINE e == Put(d, file, value)
<1>1. CASE file = "meta"
  BY <1>1 DEF Directories, Put
<1>2. CASE file = "catalog"
  BY <1>2 DEF Directories, Put
<1>3. CASE file = "hnsw"
  BY <1>3 DEF Directories, Put
<1>4. CASE file = "segment"
  BY <1>4 DEF Directories, Put
<1>5. CASE file = "stores"
  BY <1>5 DEF Directories, Put
<1> QED BY <1>1, <1>2, <1>3, <1>4, <1>5

\* The files of a collection directory.
LEMMA FileNames == Files = {"meta", "catalog", "hnsw", "segment", "stores"}
BY DEF Files, EmptyDir

\* The kind of a running request is told by its step.
LEMMA KindOfStep ==
  ASSUME RequestInv, NEW p \in Procs
  PROVE  /\ Running(p) <=>
              pc[p] \in {"removing", "read", "compact"} \cup CreateSteps \cup StreamSteps
         /\ Creating(p) <=> pc[p] \in CreateSteps
         /\ Dropping(p) <=> pc[p] = "removing"
         /\ Creating(p) \/ Dropping(p) => Name(p) \in Names
BY DEF RequestInv, Running, Creating, Dropping, CreateRequests, DropRequests,
   WriteRequests, ReadRequests, CompactRequests, CreateSteps, StreamSteps, Late, Finished,
   Name

\* Every step leaves each process at a step of the request it serves.
LEMMA RequestStep ==
  ASSUME TypeInv, [Next]_vars
  PROVE  RequestInv'
<1> USE DEF TypeInv, RequestInv, Running, Goto, Return, Early, Late, CreateSteps,
   StreamSteps, Finished, Requests, CreateRequests, DropRequests, WriteRequests,
   ReadRequests, CompactRequests
<1>1. ASSUME NEW p \in Procs, NEW n \in Names, NEW m \in Metas, StartCreate(p, n, m)
   PROVE RequestInv'
  BY <1>1 DEF StartCreate, Receive
<1>2. ASSUME NEW p \in Procs, MakeDir(p) PROVE RequestInv'
  BY <1>2 DEF MakeDir, MakesDir
<1>3. ASSUME NEW p \in Procs, WriteMeta(p) PROVE RequestInv'
  BY <1>3 DEF WriteMeta, SetFile
<1>4. ASSUME NEW p \in Procs, OpenFlat(p) PROVE RequestInv'
  BY <1>4 DEF OpenFlat, OpensFlat, Takes
<1>5. ASSUME NEW p \in Procs, CreateHnsw(p) PROVE RequestInv'
  BY <1>5 DEF CreateHnsw, Takes
<1>6. ASSUME NEW p \in Procs, CreateSegment(p) PROVE RequestInv'
  BY <1>6 DEF CreateSegment, SetFile
<1>7. ASSUME NEW p \in Procs, OpenStores(p) PROVE RequestInv'
  BY <1>7 DEF OpenStores, SetFile
<1>8. ASSUME NEW p \in Procs, Register(p) PROVE RequestInv'
  BY <1>8 DEF Register
<1>9. ASSUME NEW p \in Procs, NEW n \in Names, StartDrop(p, n) PROVE RequestInv'
  BY <1>9 DEF StartDrop, Receive, Present
<1>10. ASSUME NEW p \in Procs, RemoveFile(p) PROVE RequestInv'
  BY <1>10 DEF RemoveFile, SetFile
<1>11. ASSUME NEW p \in Procs, RemoveDir(p) PROVE RequestInv'
  BY <1>11 DEF RemoveDir
<1>12. ASSUME NEW p \in Procs, NEW n \in Names, StartWrite(p, n) PROVE RequestInv'
  BY <1>12 DEF StartWrite, Receive, GetHandle
<1>13. ASSUME NEW p \in Procs, NEW n \in Names, StartRead(p, n) PROVE RequestInv'
  BY <1>13 DEF StartRead, Receive, GetHandle
<1>14. ASSUME NEW p \in Procs, Lock(p) PROVE RequestInv'
  BY <1>14 DEF Lock
<1>15. ASSUME NEW p \in Procs, Apply(p) PROVE RequestInv'
  BY <1>15 DEF Apply, Applies
<1>16. ASSUME NEW p \in Procs, NextChunk(p) PROVE RequestInv'
  BY <1>16 DEF NextChunk, Continues
<1>17. ASSUME NEW p \in Procs, BadChunk(p) PROVE RequestInv'
  BY <1>17 DEF BadChunk
<1>18. ASSUME NEW p \in Procs, Read(p) PROVE RequestInv'
  BY <1>18 DEF Read, Reads
<1>19. ASSUME NEW p \in Procs, LifecycleFails(p) PROVE RequestInv'
  BY <1>19 DEF LifecycleFails, SetFile
<1>20. ASSUME NEW p \in Procs, ApplyFails(p) PROVE RequestInv'
  BY <1>20 DEF ApplyFails, AbandonsChunk
<1>21. ASSUME Crash PROVE RequestInv'
  BY <1>21 DEF Crash
<1>22. ASSUME Restart PROVE RequestInv'
  BY <1>22 DEF Restart, Restarts
<1>23. CASE UNCHANGED vars
  BY <1>23 DEF vars
<1>24. ASSUME NEW p \in Procs, NEW n \in Names, StartCompact(p, n) PROVE RequestInv'
  BY <1>24 DEF StartCompact, Receive, GetHandle
<1>25. ASSUME NEW p \in Procs, CompactIndex(p) PROVE RequestInv'
  BY <1>25 DEF CompactIndex, Compacting
<1> QED BY <1>1, <1>2, <1>3, <1>4, <1>5, <1>6, <1>7, <1>8, <1>9, <1>10, <1>11, <1>12,
   <1>13, <1>14, <1>15, <1>16, <1>17, <1>18, <1>19, <1>20, <1>21, <1>22, <1>23,
   <1>24, <1>25 DEF Next, Request, Step

\* Every step keeps the progress of the streams within a chunk.
LEMMA ProgressStep ==
  ASSUME TypeInv, HandleInv, [Next]_vars
  PROVE  ProgressInv'
<1> USE DEF TypeInv, TypeOK, RequestInv, ProgressInv, Goto, Return, Early, Late,
   CreateSteps, StreamSteps, Finished
<1>1. ASSUME NEW p \in Procs, NEW n \in Names, NEW m \in Metas, StartCreate(p, n, m)
   PROVE ProgressInv'
  BY <1>1 DEF StartCreate, Receive
<1>2. ASSUME NEW p \in Procs, MakeDir(p) PROVE ProgressInv'
  BY <1>2 DEF MakeDir, MakesDir
<1>3. ASSUME NEW p \in Procs, WriteMeta(p) PROVE ProgressInv'
  BY <1>3 DEF WriteMeta, SetFile
<1>4. ASSUME NEW p \in Procs, OpenFlat(p) PROVE ProgressInv'
  BY <1>4 DEF OpenFlat, OpensFlat, Takes
<1>5. ASSUME NEW p \in Procs, CreateHnsw(p) PROVE ProgressInv'
  BY <1>5 DEF CreateHnsw, Takes
<1>6. ASSUME NEW p \in Procs, CreateSegment(p) PROVE ProgressInv'
  BY <1>6 DEF CreateSegment, SetFile
<1>7. ASSUME NEW p \in Procs, OpenStores(p) PROVE ProgressInv'
  BY <1>7 DEF OpenStores, SetFile
<1>8. ASSUME NEW p \in Procs, Register(p) PROVE ProgressInv'
  BY <1>8 DEF Register
<1>9. ASSUME NEW p \in Procs, NEW n \in Names, StartDrop(p, n) PROVE ProgressInv'
  BY <1>9 DEF StartDrop, Receive
<1>10. ASSUME NEW p \in Procs, RemoveFile(p) PROVE ProgressInv'
  BY <1>10 DEF RemoveFile, SetFile
<1>11. ASSUME NEW p \in Procs, RemoveDir(p) PROVE ProgressInv'
  BY <1>11 DEF RemoveDir
<1>12. ASSUME NEW p \in Procs, NEW n \in Names, StartWrite(p, n) PROVE ProgressInv'
  BY <1>12 DEF StartWrite, Receive, GetHandle
<1>13. ASSUME NEW p \in Procs, NEW n \in Names, StartRead(p, n) PROVE ProgressInv'
  BY <1>13 DEF StartRead, Receive, GetHandle
<1>14. ASSUME NEW p \in Procs, Lock(p) PROVE ProgressInv'
  BY <1>14, ServerAssumption DEF Lock
<1>15. ASSUME NEW p \in Procs, Apply(p) PROVE ProgressInv'
  <2>1. prog[p].applied + 1 \in 0 .. ChunkSize
    BY <1>15, ServerAssumption DEF Apply, Applies
  <2>2. prog' = [prog EXCEPT ![p].applied = prog[p].applied + 1]
    BY <1>15 DEF Apply, Applies
  <2>3. prog' \in [Procs -> [chunk : 1 .. MaxChunks, applied : 0 .. ChunkSize]]
    BY <2>1, <2>2
  <2> QED BY <1>15, <2>1, <2>2, <2>3, ServerAssumption DEF Apply, Applies
<1>16. ASSUME NEW p \in Procs, NextChunk(p) PROVE ProgressInv'
  <2>1. CASE prog' = prog /\ Return(p, "ok")
    BY <1>16, <2>1 DEF NextChunk, Continues, Return
  <2>2. CASE /\ prog[p].chunk < MaxChunks
             /\ prog' = [prog EXCEPT ![p] = [chunk |-> @.chunk + 1, applied |-> 0]]
             /\ Goto(p, "lock")
    <3>1. /\ prog[p].chunk + 1 \in 1 .. MaxChunks /\ 0 \in 0 .. ChunkSize
          /\ prog' = [prog EXCEPT ![p] = [chunk |-> prog[p].chunk + 1, applied |-> 0]]
      BY <2>2, ServerAssumption
    <3>2. prog' \in [Procs -> [chunk : 1 .. MaxChunks, applied : 0 .. ChunkSize]]
      BY <3>1
    <3>3. prog'[p].applied = 0 /\ seen' = seen
      BY <1>16, <3>1 DEF NextChunk, Continues
    <3> QED BY <2>2, <3>1, <3>2, <3>3 DEF Goto
  <2> QED BY <1>16, <2>1, <2>2 DEF NextChunk, Continues
<1>17. ASSUME NEW p \in Procs, BadChunk(p) PROVE ProgressInv'
  BY <1>17 DEF BadChunk
<1>18. ASSUME NEW p \in Procs, Read(p) PROVE ProgressInv'
  <2>1. handles[hold[p]].db \in Owners
    BY <1>18 DEF Read, Reads, HandleInv, Registered
  <2>2. seen' \in [Procs -> SUBSET Tokens]
    <3>1. CASE seen' = [seen EXCEPT ![p] = content[handles[hold[p]].db]]
      BY <2>1, <3>1
    <3>2. CASE UNCHANGED seen
      BY <3>2
    <3> QED BY <1>18, <3>1, <3>2 DEF Read, Reads
  <2>3. /\ prog' = prog
        /\ pc' = [pc EXCEPT ![p] = "ok"] \/ pc' = [pc EXCEPT ![p] = "error"]
    BY <1>18 DEF Read, Reads
  <2> QED BY <2>2, <2>3
<1>19. ASSUME NEW p \in Procs, LifecycleFails(p) PROVE ProgressInv'
  BY <1>19 DEF LifecycleFails, SetFile
<1>20. ASSUME NEW p \in Procs, ApplyFails(p) PROVE ProgressInv'
  BY <1>20 DEF ApplyFails, AbandonsChunk
<1>21. ASSUME Crash PROVE ProgressInv'
  BY <1>21 DEF Crash
<1>22. ASSUME Restart PROVE ProgressInv'
  BY <1>22 DEF Restart, Restarts
<1>23. CASE UNCHANGED vars
  BY <1>23 DEF vars
<1>24. ASSUME NEW p \in Procs, NEW n \in Names, StartCompact(p, n) PROVE ProgressInv'
  BY <1>24 DEF StartCompact, Receive, GetHandle
<1>25. ASSUME NEW p \in Procs, CompactIndex(p) PROVE ProgressInv'
  BY <1>25 DEF CompactIndex, Compacting
<1> QED BY <1>1, <1>2, <1>3, <1>4, <1>5, <1>6, <1>7, <1>8, <1>9, <1>10, <1>11, <1>12,
   <1>13, <1>14, <1>15, <1>16, <1>17, <1>18, <1>19, <1>20, <1>21, <1>22, <1>23,
   <1>24, <1>25 DEF Next, Request, Step

\* What the start-up scan makes of a directory is a directory, with a catalog
\* of its own where it was missing; all of it when nothing stops the scan.
LEMMA ScannedDirectory ==
  ASSUME NEW n \in Names, NEW stop \in Stops, dirs[n] \in Directories \cup {None}
  PROVE  /\ AfterScan(n, stop) \in Directories \cup {None}
         /\ dirs[n] = None => AfterScan(n, stop) = None
         /\ dirs[n] # None =>
              /\ AfterScan(n, stop) \in Directories
              /\ AfterScan(n, stop).meta = dirs[n].meta
              /\ AfterScan(n, stop).hnsw = dirs[n].hnsw
              /\ Fresh(dirs[n]) /\ stop # "index" =>
                    AfterScan(n, stop).catalog = [by |-> n, space |-> dirs[n].meta.space]
              /\ Fresh(dirs[n]) /\ dirs[n].segment = None /\ stop = "never" =>
                    AfterScan(n, stop).segment = dirs[n].meta.space
              /\ ~Fresh(dirs[n]) \/ stop = "index" =>
                    AfterScan(n, stop).catalog = dirs[n].catalog
              /\ ~Fresh(dirs[n]) \/ dirs[n].segment # None =>
                    AfterScan(n, stop).segment = dirs[n].segment
<1>1. CASE dirs[n] = None
  BY <1>1 DEF AfterScan, Fresh, Reopens
<1>2. CASE dirs[n] \in Directories /\ dirs[n] # None
  <2> DEFINE d == dirs[n]
             space == d.meta.space
             db == [by |-> n, space |-> space]
             catalogued == IF Fresh(d) /\ stop # "index" THEN Put(d, "catalog", db) ELSE d
             segmented == IF Fresh(d) /\ d.segment = None /\ stop \in {"stores", "never"}
                          THEN Put(catalogued, "segment", space) ELSE catalogued
  <2>1. Fresh(d) => space \in Spaces /\ db \in Databases
    BY DEF Fresh, Spaces, Databases, Owners
  <2> HIDE DEF db
  <2>2. /\ catalogued \in Directories
        /\ catalogued.catalog = IF Fresh(d) /\ stop # "index" THEN db ELSE d.catalog
        /\ \A f \in Files \ {"catalog"} : catalogued[f] = d[f]
    BY <1>2, <2>1, PutFile, FileNames
  <2> HIDE DEF catalogued
  <2>5. ASSUME Fresh(d)
        PROVE  /\ Put(catalogued, "segment", space) \in Directories
               /\ Put(catalogued, "segment", space)["segment"] = space
               /\ \A f \in Files \ {"segment"} :
                     Put(catalogued, "segment", space)[f] = catalogued[f]
    <3>1. space \in Spaces /\ catalogued \in Directories /\ "segment" \in Files
      BY <2>1, <2>2, <2>5, FileNames
    <3> HIDE DEF space, d
    <3> QED BY <3>1, PutFile
  <2>3. /\ segmented \in Directories
        /\ segmented.segment = IF Fresh(d) /\ d.segment = None /\ stop \in {"stores", "never"}
                               THEN space ELSE d.segment
        /\ \A f \in Files \ {"segment"} : segmented[f] = catalogued[f]
    <3>1. CASE segmented = catalogued /\ ~(Fresh(d) /\ d.segment = None /\ stop \in {"stores", "never"})
      BY <2>2, <3>1, FileNames
    <3>2. CASE Fresh(d) /\ d.segment = None /\ stop \in {"stores", "never"}
      BY <2>5, <3>2
    <3> QED BY <3>1, <3>2
  <2> HIDE DEF segmented
  <2>4. /\ AfterScan(n, stop) \in Directories
        /\ \A f \in Files \ {"stores"} : AfterScan(n, stop)[f] = segmented[f]
    <3>1. Put(segmented, "stores", n) \in Directories
          /\ \A f \in Files \ {"stores"} : Put(segmented, "stores", n)[f] = segmented[f]
      BY <2>3, PutFile, FileNames DEF Owners
    <3>2. AfterScan(n, stop) \in {segmented, Put(segmented, "stores", n)}
      BY DEF AfterScan, segmented, catalogued, db
    <3> QED BY <2>3, <3>1, <3>2
  <2> QED BY <1>2, <2>2, <2>3, <2>4, FileNames DEF db
<1> QED BY <1>1, <1>2

\* One file of an existing directory has changed.
Edited(n, f, v) ==
    /\ n \in Names /\ dirs[n] # None /\ dirs'[n] \in Directories
    /\ dirs'[n][f] = v
    /\ \A g \in Files \ {f} : dirs'[n][g] = dirs[n][g]
    /\ dirs' \in [Names -> Directories \cup {None}]
    /\ \A k \in Names \ {n} : dirs'[k] = dirs[k]

\* SetFile changes one file of one directory.
LEMMA Editing ==
  ASSUME TypeOK, NEW p \in Procs, NEW f \in Files, NEW v, SetFile(p, f, v),
         Name(p) \in Names, Dir(p) # None,
         f = "meta" => v \in Metas \cup {Torn, None},
         f \in {"catalog", "hnsw"} => v \in Databases \cup {None},
         f = "segment" => v \in Spaces \cup {None},
         f = "stores" => v \in Owners \cup {None}
  PROVE  Edited(Name(p), f, v)
<1>1. dirs[Name(p)] \in Directories /\ dirs \in [Names -> Directories \cup {None}]
  BY DEF TypeOK, Dir
<1> DEFINE e == Put(dirs[Name(p)], f, v)
<1>2. e \in Directories /\ e[f] = v /\ \A g \in Files \ {f} : e[g] = dirs[Name(p)][g]
  BY <1>1, PutFile
<1>3. dirs' = [dirs EXCEPT ![Name(p)] = e]
  BY DEF SetFile
<1> HIDE DEF e
<1> QED BY <1>1, <1>2, <1>3 DEF Edited, Dir

(***************************************************************************)
(* What opening databases does to the points: a new one is empty, an old    *)
(* one loses some only if it is misplaced, and their streams count as cut.  *)
(***************************************************************************)
Reopening(old, new) ==
    /\ content' \in [Owners -> SUBSET Tokens]
    /\ damage' \in [Owners -> {"sound", "exposed", "misplaced"}]
    /\ cut \subseteq cut' /\ cut' \subseteq Procs
    /\ \A o \in Owners \cap new : content'[o] = {} /\ damage'[o] = "sound"
    /\ \A o \in Owners \ new :
          /\ content'[o] \subseteq content[o]
          /\ \A t \in content[o] : t \in content'[o] \/ t[1] \in cut'
          /\ o \notin old \/ damage[o] # "misplaced" => content'[o] = content[o]
          /\ damage[o] # "misplaced" => damage'[o] # "misplaced"

LEMMA OpensReopens ==
  ASSUME TypeOK, NEW old \in SUBSET Owners, NEW new, Opens(old, new)
  PROVE  Reopening(old, new)
<1>1. PICK lost \in SUBSET UNION {content[o] : o \in {o \in old : damage[o] = "misplaced"}} :
        /\ content' = [o \in Owners |->
               IF o \in new THEN {}
               ELSE IF o \in old /\ damage[o] = "misplaced" THEN content[o] \ lost
               ELSE content[o]]
        /\ damage' = [o \in Owners |->
               IF o \in new \/ (o \in old /\ damage[o] = "exposed") THEN "sound" ELSE damage[o]]
        /\ cut' = cut \cup {t[1] : t \in lost}
  BY DEF Opens
<1>2. /\ content \in [Owners -> SUBSET Tokens] /\ cut \subseteq Procs
      /\ damage \in [Owners -> {"sound", "exposed", "misplaced"}]
  BY DEF TypeOK
<1>3. \A t \in lost : t \in Tokens
  BY <1>2
<1>4. cut \subseteq cut' /\ cut' \subseteq Procs
  BY <1>1, <1>2, <1>3 DEF Tokens
<1>5. content' \in [Owners -> SUBSET Tokens]
  BY <1>1, <1>2
<1>6. damage' \in [Owners -> {"sound", "exposed", "misplaced"}]
  BY <1>1, <1>2
<1>7. ASSUME NEW o \in Owners \ new PROVE
         /\ content'[o] \subseteq content[o]
         /\ \A t \in content[o] : t \in content'[o] \/ t[1] \in cut'
         /\ o \notin old \/ damage[o] # "misplaced" => content'[o] = content[o]
         /\ damage[o] # "misplaced" => damage'[o] # "misplaced"
  BY <1>1, <1>7
<1>8. \A o \in Owners \cap new : content'[o] = {} /\ damage'[o] = "sound"
  BY <1>1
<1> QED BY <1>4, <1>5, <1>6, <1>7, <1>8 DEF Reopening

(***************************************************************************)
(* A restart, by where the scan of each directory stops.                    *)
(***************************************************************************)
Loaded(stop) == {n \in Names : stop[n] = "never" /\ Reopens(dirs[n])}
New(stop) == {n \in Names : Fresh(dirs[n]) /\ stop[n] # "index"}
RestartsAt(stop) ==
    /\ ~up /\ up' = TRUE /\ UNCHANGED <<writer, pc, req, hold, prog, seen>>
    /\ map' = [n \in Names |-> IF n \in Loaded(stop) THEN n ELSE None]
    /\ dirs' = [n \in Names |-> AfterScan(n, stop[n])]
    /\ handles' = [h \in Owners |->
           IF h \in Loaded(stop)
           THEN [meta |-> dirs[h].meta,
                 db |-> IF Fresh(dirs[h]) THEN h ELSE Database(dirs[h]).by]
           ELSE [meta |-> None, db |-> None]]
    /\ unsure' = unsure \cup {n \in Names : stop[n] # "never" /\ Reopens(dirs[n])}
    /\ Reopening(Owners, New(stop))

LEMMA RestartAtStops ==
  ASSUME TypeOK, Restart
  PROVE  \E stop \in [Names -> Stops] : RestartsAt(stop)
<1>1. PICK stop \in [Names -> Stops] :
         LET skipped == {n \in Names : stop[n] # "never"}
             loaded == {n \in Names \ skipped : Reopens(dirs[n])}
             new == {n \in Names : Fresh(dirs[n]) /\ stop[n] # "index"}
             anew == {n \in loaded : ~TRUE}
         IN  /\ map' = [n \in Names |-> IF n \in loaded THEN n ELSE None]
             /\ dirs' = [n \in Names |-> AfterScan(n, stop[n])]
             /\ handles' = [h \in Owners |->
                    IF h \in loaded
                    THEN [meta |-> dirs[h].meta,
                          db |-> IF Fresh(dirs[h]) THEN h ELSE Database(dirs[h]).by]
                    ELSE [meta |-> None, db |-> None]]
             /\ Opens({Database(dirs[n]).by : n \in loaded \ new}, new \cup anew)
             /\ unsure' = unsure \cup {n \in skipped : Reopens(dirs[n])}
  BY DEF Restart, Restarts
<1> DEFINE old == {Database(dirs[n]).by : n \in Loaded(stop) \ New(stop)}
<1>2. Loaded(stop) = {n \in Names \ {k \in Names : stop[k] # "never"} : Reopens(dirs[n])}
  BY DEF Loaded
<1>3. Opens(old, New(stop))
  <2>1. New(stop) = {n \in Names : Fresh(dirs[n]) /\ stop[n] # "index"}
                      \cup {n \in Loaded(stop) : ~TRUE}
    BY DEF New
  <2> QED BY <1>1, <1>2, <2>1 DEF New
<1>4. old \subseteq Owners
  <2> SUFFICES ASSUME NEW n \in Loaded(stop) \ New(stop) PROVE Database(dirs[n]).by \in Owners
    OBVIOUS
  <2>1. n \in Names /\ stop[n] = "never" /\ Reopens(dirs[n]) /\ ~Fresh(dirs[n])
    BY DEF Loaded, New
  <2>2. dirs[n] \in Directories /\ Database(dirs[n]) # None
    BY <2>1 DEF TypeOK, Reopens, Fresh, Database
  <2> QED BY <2>2 DEF Database, Directories, Databases
<1> HIDE DEF old
<1>5. Reopening(old, New(stop))
  BY <1>3, <1>4, OpensReopens
<1>6. Reopening(Owners, New(stop))
  BY <1>5, <1>4 DEF Reopening
<1>7. unsure' = unsure \cup {n \in Names : stop[n] # "never" /\ Reopens(dirs[n])}
  BY <1>1
<1>8. ~up /\ up' = TRUE /\ UNCHANGED <<writer, pc, req, hold, prog, seen>>
  BY DEF Restart, Restarts
<1> QED BY <1>1, <1>2, <1>6, <1>7, <1>8 DEF RestartsAt

(***************************************************************************)
(* Opening the index: p takes the database that o created, which is p's own *)
(* new one or one that nobody has open, and empties it unless it is a flat  *)
(* index that is already complete.                                          *)
(***************************************************************************)
IndexTaken(p, o) ==
    LET n == Name(p)
        m == req[p].meta
        f == DbFile(m)
    IN  /\ o \in Owners
        /\ handles' = [handles EXCEPT ![p] = [meta |-> m, db |-> o]]
        /\ \/ o = p /\ Ensured(dirs[n])[f] = None
           \/ dirs[n] # None /\ dirs[n][f] # None /\ dirs[n][f].by = o /\ ~InUse(o)
        /\ dirs' \in [Names -> Directories \cup {None}]
        /\ \A k \in Names \ {n} : dirs'[k] = dirs[k]
        /\ dirs'[n] \in Directories /\ dirs'[n][f] = [by |-> o, space |-> m.space]
        /\ \A g \in Files \ {f} : dirs'[n][g] = Ensured(dirs[n])[g]
        /\ \/ pc' = [pc EXCEPT ![p] = "segment"] /\ Reopening({}, {o})
           \/ /\ pc' = [pc EXCEPT ![p] = "stores"] /\ Reopening({o}, {})
              /\ dirs' = dirs /\ dirs'[n].segment = m.space /\ ~InUse(o)
        /\ hold' = hold

IndexSteps(p) ==
    /\ pc[p] = "database" /\ Name(p) \in Names /\ req[p] \in CreateRequests
    /\ \/ Return(p, "error") /\ UNCHANGED <<handles, dirs, content, damage, cut>>
       \/ \E o \in Owners : IndexTaken(p, o)
    /\ UNCHANGED <<up, map, writer, req, prog, seen, unsure>>

\* PersistentFlatIndex::open takes a database nobody has open, or fails.
LEMMA OpenFlatTakes ==
  ASSUME TypeInv, NEW p \in Procs, OpenFlat(p)
  PROVE  IndexSteps(p)
<1> DEFINE n == Name(p)
           m == req[p].meta
           d == Ensured(Dir(p))
           db == [by |-> p, space |-> m.space]
<1>1. /\ n \in Names /\ m \in Metas /\ m.type = "flat" /\ req[p] \in CreateRequests
      /\ pc[p] = "database" /\ m.space \in Spaces
  BY DEF OpenFlat, OpensFlat, TypeInv, RequestInv, CreateSteps, CreateRequests, Name,
     Spaces
<1>2. dirs \in [Names -> Directories \cup {None}] /\ d \in Directories
      /\ (dirs[n] # None => d = dirs[n])
  BY <1>1, EnsuredIsDirectory DEF TypeInv, TypeOK, Dir
<1>3. UNCHANGED <<up, map, writer, req, prog, seen, unsure>>
  BY DEF OpenFlat, OpensFlat
<1>4. CASE d.catalog = None
  <2>1. /\ dirs' = [dirs EXCEPT ![n] = Put(d, "catalog", db)]
        /\ handles' = [handles EXCEPT ![p] = [meta |-> m, db |-> p]]
        /\ Opens({}, {p})
        /\ pc' = [pc EXCEPT ![p] = "segment"] /\ hold' = hold
    BY <1>4 DEF OpenFlat, OpensFlat, Takes, Goto
  <2>2. db \in Databases
    BY <1>1 DEF Databases, Owners
  <2>3. /\ Put(d, "catalog", db) \in Directories /\ Put(d, "catalog", db)["catalog"] = db
        /\ \A g \in Files \ {"catalog"} : Put(d, "catalog", db)[g] = d[g]
    <3> HIDE DEF d, db
    <3> QED BY <1>2, <2>2, PutFile, FileNames
  <2>6. Reopening({}, {p})
    BY <2>1, OpensReopens DEF TypeInv
  <2> HIDE DEF d
  <2>4. /\ dirs' \in [Names -> Directories \cup {None}]
        /\ \A k \in Names \ {n} : dirs'[k] = dirs[k]
        /\ dirs'[n] = Put(d, "catalog", db)
    BY <1>1, <1>2, <2>1, <2>3
  <2>5. IndexTaken(p, p)
    BY <1>1, <1>4, <2>1, <2>3, <2>4, <2>6 DEF IndexTaken, DbFile, Owners, d, Dir
  <2> QED BY <1>1, <1>3, <2>5 DEF IndexSteps, Owners
<1>5. ASSUME d.catalog # None, ~InUse(d.catalog.by),
             d.catalog.space = m.space, d.segment = m.space,
             Takes(p, d.catalog.by), Opens({d.catalog.by}, {}), Goto(p, "stores"),
             UNCHANGED <<dirs, hold>>
      PROVE  IndexSteps(p)
  <2>1. /\ handles' = [handles EXCEPT ![p] = [meta |-> m, db |-> d.catalog.by]]
        /\ pc' = [pc EXCEPT ![p] = "stores"] /\ UNCHANGED <<dirs, hold>>
    BY <1>5 DEF Takes, Goto
  <2>2. dirs[n] # None /\ d = dirs[n]
    BY <1>2, <1>5 DEF Ensured, EmptyDir, Dir
  <2>3. d.catalog.by \in Owners /\ d.catalog = [by |-> d.catalog.by, space |-> m.space]
    BY <1>2, <1>5 DEF Directories, Databases
  <2>4. Reopening({d.catalog.by}, {})
    <3> HIDE DEF d
    <3> QED BY <1>5, <2>3, OpensReopens DEF TypeInv
  <2> HIDE DEF d
  <2>5. IndexTaken(p, d.catalog.by)
    BY <1>1, <1>2, <1>5, <2>1, <2>2, <2>3, <2>4 DEF IndexTaken, DbFile, Ensured
  <2> QED BY <1>1, <1>3, <2>3, <2>5 DEF IndexSteps
<1>6. CASE Return(p, "error") /\ UNCHANGED <<handles, dirs, content, damage, cut>>
  BY <1>1, <1>3, <1>6 DEF IndexSteps
<1>7. CASE d.catalog # None
  <2>1. \/ /\ ~InUse(d.catalog.by) /\ d.catalog.space = m.space /\ d.segment = m.space
           /\ Takes(p, d.catalog.by) /\ Opens({d.catalog.by}, {})
           /\ Goto(p, "stores") /\ UNCHANGED <<dirs, hold>>
        \/ Return(p, "error") /\ UNCHANGED <<handles, dirs, content, damage, cut>>
    BY <1>7 DEF OpenFlat, OpensFlat
  <2> HIDE DEF d
  <2> QED BY <1>5, <1>6, <1>7, <2>1
<1> QED BY <1>4, <1>7

\* PersistentHnswIndex::create takes a database nobody has open, or fails.
LEMMA CreateHnswTakes ==
  ASSUME TypeInv, NEW p \in Procs, CreateHnsw(p)
  PROVE  IndexSteps(p)
<1> DEFINE n == Name(p)
           m == req[p].meta
           d == Ensured(Dir(p))
           owner == IF d.hnsw = None THEN p ELSE d.hnsw.by
           db == [by |-> owner, space |-> m.space]
<1>1. /\ n \in Names /\ m \in Metas /\ m.type = "hnsw" /\ req[p] \in CreateRequests
      /\ pc[p] = "database" /\ m.space \in Spaces
  BY DEF CreateHnsw, TypeInv, RequestInv, CreateSteps, CreateRequests, Name, Spaces
<1>2. dirs \in [Names -> Directories \cup {None}] /\ d \in Directories
      /\ (dirs[n] # None => d = dirs[n])
  BY <1>1, EnsuredIsDirectory DEF TypeInv, TypeOK, Dir
<1>3. UNCHANGED <<up, map, writer, req, prog, seen, unsure>>
  BY DEF CreateHnsw
<1>4. CASE ~(d.hnsw # None /\ InUse(owner))
  <2>1. /\ dirs' = [dirs EXCEPT ![n] = Put(d, "hnsw", db)]
        /\ handles' = [handles EXCEPT ![p] = [meta |-> m, db |-> owner]]
        /\ Opens({}, {owner})
        /\ pc' = [pc EXCEPT ![p] = "segment"] /\ hold' = hold
    BY <1>4 DEF CreateHnsw, Takes, Goto
  <2>2. owner \in Owners /\ db \in Databases
    BY <1>1, <1>2 DEF Databases, Directories, Owners
  <2>3. /\ Put(d, "hnsw", db) \in Directories /\ Put(d, "hnsw", db)["hnsw"] = db
        /\ \A g \in Files \ {"hnsw"} : Put(d, "hnsw", db)[g] = d[g]
    <3> HIDE DEF d, owner, db
    <3> QED BY <1>2, <2>2, PutFile, FileNames
  <2>4. \/ owner = p /\ d.hnsw = None
        \/ dirs[n] # None /\ dirs[n].hnsw # None /\ dirs[n].hnsw.by = owner /\ ~InUse(owner)
    BY <1>2, <1>4 DEF Ensured, EmptyDir, Dir
  <2> HIDE DEF d, owner
  <2>7. Reopening({}, {owner})
    BY <2>1, OpensReopens DEF TypeInv
  <2>5. /\ dirs' \in [Names -> Directories \cup {None}]
        /\ \A k \in Names \ {n} : dirs'[k] = dirs[k]
        /\ dirs'[n] = Put(d, "hnsw", db)
    BY <1>1, <1>2, <2>1, <2>3
  <2>6. IndexTaken(p, owner)
    BY <1>1, <2>1, <2>2, <2>3, <2>4, <2>5, <2>7 DEF IndexTaken, DbFile, d, Dir
  <2> QED BY <1>1, <1>3, <2>2, <2>6 DEF IndexSteps
<1>5. CASE d.hnsw # None /\ InUse(owner)
  <2>1. Return(p, "error") /\ UNCHANGED <<handles, dirs, content, damage, cut>>
    BY <1>5 DEF CreateHnsw
  <2> QED BY <1>1, <1>3, <2>1 DEF IndexSteps
<1> QED BY <1>4, <1>5

\* Every step keeps the types of map, handles, directories and contents.
LEMMA TypeStep ==
  ASSUME TypeInv, [Next]_vars
  PROVE  TypeOK'
<1> USE ServerAssumption DEF TypeInv, TypeOK, Owners, RequestInv, Name, Early, Late,
   CreateSteps, StreamSteps, Finished, Goto, Return, CreateRequests, DropRequests
<1>1. ASSUME NEW p \in Procs, NEW n \in Names, NEW m \in Metas, StartCreate(p, n, m)
   PROVE TypeOK'
  BY <1>1 DEF StartCreate, Receive
<1>2. ASSUME NEW p \in Procs, MakeDir(p) PROVE TypeOK'
  <2>1. Name(p) \in Names /\ Ensured(dirs[Name(p)]) \in Directories
    BY <1>2, EnsuredIsDirectory DEF MakeDir, MakesDir
  <2> QED BY <1>2, <2>1 DEF MakeDir, MakesDir
<1>3. ASSUME NEW p \in Procs, WriteMeta(p) PROVE TypeOK'
  <2>1. Name(p) \in Names /\ req[p].meta \in Metas
    BY <1>3 DEF WriteMeta, SetFile
  <2>2. Dir(p) # None => Put(Dir(p), "meta", req[p].meta) \in Directories
    <3>1. req[p].meta.space \in Spaces
      BY <2>1 DEF Spaces
    <3>2. Dir(p) # None => Dir(p) \in Directories
      BY <2>1 DEF Dir
    <3> QED BY <2>1, <3>1, <3>2, PutFile, FileNames
  <2> QED BY <1>3, <2>1, <2>2 DEF WriteMeta, SetFile, Dir
<1>4. ASSUME NEW p \in Procs, OpenFlat(p) PROVE TypeOK'
  <2>1. IndexSteps(p)
    BY <1>4, OpenFlatTakes
  <2>2. CASE Return(p, "error") /\ UNCHANGED <<handles, dirs, content, damage, cut>>
    BY <2>1, <2>2 DEF IndexSteps
  <2>3. ASSUME NEW o \in Owners, IndexTaken(p, o) PROVE TypeOK'
    <3>1. /\ handles' = [handles EXCEPT ![p] = [meta |-> req[p].meta, db |-> o]]
          /\ dirs' \in [Names -> Directories \cup {None}]
          /\ hold' = hold /\ content' \in [Owners -> SUBSET Tokens]
          /\ damage' \in [Owners -> {"sound", "exposed", "misplaced"}]
          /\ cut' \subseteq Procs
      BY <2>3 DEF IndexTaken, Reopening
    <3>2. req[p].meta \in Metas /\ UNCHANGED <<map, writer, unsure>>
      BY <2>1 DEF IndexSteps
    <3> QED BY <3>1, <3>2
  <2> QED BY <2>1, <2>2, <2>3 DEF IndexSteps
<1>5. ASSUME NEW p \in Procs, CreateHnsw(p) PROVE TypeOK'
  <2>1. IndexSteps(p)
    BY <1>5, CreateHnswTakes
  <2>2. CASE Return(p, "error") /\ UNCHANGED <<handles, dirs, content, damage, cut>>
    BY <2>1, <2>2 DEF IndexSteps
  <2>3. ASSUME NEW o \in Owners, IndexTaken(p, o) PROVE TypeOK'
    <3>1. /\ handles' = [handles EXCEPT ![p] = [meta |-> req[p].meta, db |-> o]]
          /\ dirs' \in [Names -> Directories \cup {None}]
          /\ hold' = hold /\ content' \in [Owners -> SUBSET Tokens]
          /\ damage' \in [Owners -> {"sound", "exposed", "misplaced"}]
          /\ cut' \subseteq Procs
      BY <2>3 DEF IndexTaken, Reopening
    <3>2. req[p].meta \in Metas /\ UNCHANGED <<map, writer, unsure>>
      BY <2>1 DEF IndexSteps
    <3> QED BY <3>1, <3>2
  <2> QED BY <2>1, <2>2, <2>3 DEF IndexSteps
<1>6. ASSUME NEW p \in Procs, CreateSegment(p) PROVE TypeOK'
  <2>1. Name(p) \in Names /\ req[p].meta \in Metas
    BY <1>6 DEF CreateSegment, SetFile
  <2>2. Dir(p) # None => Put(Dir(p), "segment", req[p].meta.space) \in Directories
    <3>1. req[p].meta.space \in Spaces
      BY <2>1 DEF Spaces
    <3>2. Dir(p) # None => Dir(p) \in Directories
      BY <2>1 DEF Dir
    <3> QED BY <2>1, <3>1, <3>2, PutFile, FileNames
  <2> QED BY <1>6, <2>1, <2>2 DEF CreateSegment, SetFile, Dir
<1>7. ASSUME NEW p \in Procs, OpenStores(p) PROVE TypeOK'
  <2>1. Name(p) \in Names
    BY <1>7 DEF OpenStores
  <2> DEFINE by == IF Dir(p).stores = None THEN p ELSE Dir(p).stores
  <2>2. Dir(p) # None => Put(Dir(p), "stores", by) \in Directories
    <3>1. Dir(p) # None => by \in Owners /\ Dir(p) \in Directories
      BY <2>1 DEF Directories, Dir
    <3> QED BY <3>1, PutFile, FileNames
  <2> QED BY <1>7, <2>1, <2>2 DEF OpenStores, SetFile, Dir
<1>8. ASSUME NEW p \in Procs, Register(p) PROVE TypeOK'
  BY <1>8 DEF Register
<1>9. ASSUME NEW p \in Procs, NEW n \in Names, StartDrop(p, n) PROVE TypeOK'
  BY <1>9 DEF StartDrop, Receive
<1>10. ASSUME NEW p \in Procs, RemoveFile(p) PROVE TypeOK'
  <2>1. Name(p) \in Names /\ (Dir(p) # None => Dir(p) \in Directories)
    BY <1>10 DEF RemoveFile, Dir
  <2>2. PICK f \in Present(Dir(p)) : SetFile(p, f, None)
    BY <1>10 DEF RemoveFile
  <2>3. Put(Dir(p), f, None) \in Directories
    BY <2>1, <2>2, PutFile DEF Present
  <2> QED BY <1>10, <2>1, <2>2, <2>3 DEF RemoveFile, SetFile, Dir
<1>11. ASSUME NEW p \in Procs, RemoveDir(p) PROVE TypeOK'
  BY <1>11 DEF RemoveDir
<1>12. ASSUME NEW p \in Procs, NEW n \in Names, StartWrite(p, n) PROVE TypeOK'
  BY <1>12 DEF StartWrite, Receive, GetHandle
<1>13. ASSUME NEW p \in Procs, NEW n \in Names, StartRead(p, n) PROVE TypeOK'
  BY <1>13 DEF StartRead, Receive, GetHandle
<1>14. ASSUME NEW p \in Procs, Lock(p) PROVE TypeOK'
  BY <1>14 DEF Lock
<1>15. ASSUME NEW p \in Procs, Apply(p) PROVE TypeOK'
  <2>1. <<p, prog[p].chunk, prog[p].applied + 1>> \in Tokens
    BY <1>15 DEF Apply, Applies, Tokens, ProgressInv
  <2>2. damage' \in [Owners -> {"sound", "exposed", "misplaced"}] /\ unsure' \subseteq Names
    BY <1>15 DEF Apply, Applies, Misplaces, Misplaced, Holding
  <2>3. content' \in [Owners -> SUBSET Tokens] /\ writer' \in [Owners -> Procs \cup {None}]
    BY ZenonT(40), <1>15, <2>1 DEF Apply, Applies
  <2> QED BY <1>15, <2>2, <2>3 DEF Apply, Applies
<1>16. ASSUME NEW p \in Procs, NextChunk(p) PROVE TypeOK'
  BY <1>16 DEF NextChunk, Continues
<1>17. ASSUME NEW p \in Procs, BadChunk(p) PROVE TypeOK'
  BY <1>17 DEF BadChunk
<1>18. ASSUME NEW p \in Procs, Read(p) PROVE TypeOK'
  BY <1>18 DEF Read, Reads
<1>19. ASSUME NEW p \in Procs, LifecycleFails(p) PROVE TypeOK'
  <2>1. Name(p) \in Names
    BY <1>19 DEF LifecycleFails
  <2>2. WritingMeta(p) => Put(Dir(p), "meta", Torn) \in Directories
    BY <2>1, PutFile, FileNames DEF WritingMeta, Dir
  <2>3. dirs' \in [Names -> Directories \cup {None}]
    BY <1>19, <2>1, <2>2 DEF LifecycleFails, SetFile, Dir
  <2> QED BY <1>19, <2>1, <2>3 DEF LifecycleFails
<1>20. ASSUME NEW p \in Procs, ApplyFails(p) PROVE TypeOK'
  <2>1. damage' \in [Owners -> {"sound", "exposed", "misplaced"}]
    BY <1>20 DEF ApplyFails, AbandonsChunk
  <2> QED BY <1>20, <2>1 DEF ApplyFails, AbandonsChunk
<1>21. ASSUME Crash PROVE TypeOK'
  <2>1. PICK torn \in SUBSET {p \in Procs : WritingMeta(p)},
             broken \in SUBSET {p \in Procs : Compacting(p)} :
           LET dbs == {handles[hold[p]].db : p \in broken}
           IN  /\ dirs' = [n \in Names |-> IF \E p \in torn : Name(p) = n
                                           THEN Put(dirs[n], "meta", Torn) ELSE dirs[n]]
               /\ damage' = Misplaced(dbs)
               /\ unsure' = unsure \cup Holding(dbs) \cup {Name(p) : p \in {q \in Procs :
                                 Dropping(q) \/ (q \in torn /\ map[Name(q)] # None)}}
    BY <1>21 DEF Crash
  <2>2. \A p \in torn : Name(p) \in Names /\ dirs[Name(p)] \in Directories
    BY DEF WritingMeta, Dir
  <2>3. dirs' \in [Names -> Directories \cup {None}]
    BY SMTT(30), <2>1, <2>2, PutFile, FileNames
  <2>4. unsure' \subseteq Names
    BY <2>1, <2>2, KindOfStep DEF Holding
  <2>5. damage' \in [Owners -> {"sound", "exposed", "misplaced"}]
    BY <2>1 DEF Misplaced
  <2>6. cut' \subseteq Procs
    BY <1>21 DEF Crash
  <2>7. UNCHANGED content
    BY <1>21 DEF Crash
  <2> QED BY <1>21, <2>3, <2>4, <2>5, <2>6, <2>7 DEF Crash
<1>22. ASSUME Restart PROVE TypeOK'
  <2>1. PICK stop \in [Names -> Stops] : RestartsAt(stop)
    BY <1>22, RestartAtStops
  <2>2. dirs' \in [Names -> Directories \cup {None}]
    BY <2>1, ScannedDirectory DEF RestartsAt
  <2>3. handles' \in [Owners -> [meta : Metas \cup {None}, db : Owners \cup {None}]]
    BY <2>1 DEF RestartsAt, Loaded, Reopens, Fresh, Database, Directories, Databases
  <2> QED BY <2>1, <2>2, <2>3 DEF RestartsAt, Reopening, Loaded
<1>23. CASE UNCHANGED vars
  BY <1>23 DEF vars
<1>24. ASSUME NEW p \in Procs, NEW n \in Names, StartCompact(p, n) PROVE TypeOK'
  BY <1>24 DEF StartCompact, Receive, GetHandle
<1>25. ASSUME NEW p \in Procs, CompactIndex(p) PROVE TypeOK'
  BY SMTT(30), <1>25 DEF CompactIndex, Misplaces, Misplaced, Holding
<1> QED BY <1>1, <1>2, <1>3, <1>4, <1>5, <1>6, <1>7, <1>8, <1>9, <1>10, <1>11, <1>12,
   <1>13, <1>14, <1>15, <1>16, <1>17, <1>18, <1>19, <1>20, <1>21, <1>22, <1>23,
   <1>24, <1>25 DEF Next, Request, Step

-----------------------------------------------------------------------------
(* Frames *)

\* What a step of p leaves alone: the other processes and their handles; and p
\* itself never goes back to opening its index.
Local(p) ==
    /\ up /\ up' = up /\ pc[p] \notin Finished
    /\ \A q \in Procs \ {p} : /\ pc'[q] = pc[q] /\ req'[q] = req[q]
                              /\ hold'[q] = hold[q] /\ prog'[q] = prog[q]
    /\ \A g \in Owners \ {p} : handles'[g] = handles[g]
    /\ pc[p] \notin Early => pc'[p] \notin Early
    /\ pc[p] # "ready" /\ req[p] \in CreateRequests => req'[p] = req[p]

\* A step of a request is local to its process.
LEMMA StepIsLocal ==
  ASSUME TypeInv, NEW p \in Procs
  PROVE  /\ \A n \in Names : \A m \in Metas : StartCreate(p, n, m) => Local(p)
         /\ MakeDir(p) => Local(p)
         /\ WriteMeta(p) => Local(p)
         /\ OpenFlat(p) => Local(p)
         /\ CreateHnsw(p) => Local(p)
         /\ CreateSegment(p) => Local(p)
         /\ OpenStores(p) => Local(p)
         /\ Register(p) => Local(p)
         /\ \A n \in Names : StartDrop(p, n) => Local(p)
         /\ RemoveFile(p) => Local(p)
         /\ RemoveDir(p) => Local(p)
         /\ \A n \in Names : StartWrite(p, n) => Local(p)
         /\ \A n \in Names : StartRead(p, n) => Local(p)
         /\ Lock(p) => Local(p)
         /\ Apply(p) => Local(p)
         /\ NextChunk(p) => Local(p)
         /\ BadChunk(p) => Local(p)
         /\ Read(p) => Local(p)
         /\ LifecycleFails(p) => Local(p)
         /\ ApplyFails(p) => Local(p)
         /\ \A n \in Names : StartCompact(p, n) => Local(p)
         /\ CompactIndex(p) => Local(p)
<1> USE DEF TypeInv, TypeOK, RequestInv, Local, Owners, Goto, Return, Early, Late,
   CreateSteps, StreamSteps, Finished, CreateRequests, DropRequests, WriteRequests
<1>1. ASSUME NEW n \in Names, NEW m \in Metas, StartCreate(p, n, m) PROVE Local(p)
  BY <1>1 DEF StartCreate, Receive
<1>2. ASSUME MakeDir(p) PROVE Local(p)
  BY <1>2 DEF MakeDir, MakesDir
<1>3. ASSUME WriteMeta(p) PROVE Local(p)
  BY <1>3 DEF WriteMeta
<1>4. ASSUME OpenFlat(p) PROVE Local(p)
  BY <1>4 DEF OpenFlat, OpensFlat, Takes
<1>5. ASSUME CreateHnsw(p) PROVE Local(p)
  BY <1>5 DEF CreateHnsw, Takes
<1>6. ASSUME CreateSegment(p) PROVE Local(p)
  BY <1>6 DEF CreateSegment
<1>7. ASSUME OpenStores(p) PROVE Local(p)
  BY <1>7 DEF OpenStores
<1>8. ASSUME Register(p) PROVE Local(p)
  BY <1>8 DEF Register
<1>9. ASSUME NEW n \in Names, StartDrop(p, n) PROVE Local(p)
  BY <1>9 DEF StartDrop, Receive
<1>10. ASSUME RemoveFile(p) PROVE Local(p)
  BY <1>10 DEF RemoveFile
<1>11. ASSUME RemoveDir(p) PROVE Local(p)
  BY <1>11 DEF RemoveDir
<1>12. ASSUME NEW n \in Names, StartWrite(p, n) PROVE Local(p)
  BY <1>12 DEF StartWrite, Receive, GetHandle
<1>13. ASSUME NEW n \in Names, StartRead(p, n) PROVE Local(p)
  BY <1>13 DEF StartRead, Receive, GetHandle
<1>14. ASSUME Lock(p) PROVE Local(p)
  BY <1>14 DEF Lock
<1>15. ASSUME Apply(p) PROVE Local(p)
  BY <1>15 DEF Apply, Applies, ProgressInv
<1>16. ASSUME NextChunk(p) PROVE Local(p)
  <2>1. /\ pc[p] = "next" /\ up' = up /\ handles' = handles /\ req' = req
        /\ \/ Return(p, "ok") /\ UNCHANGED prog
           \/ /\ prog' = [prog EXCEPT ![p] = [chunk |-> @.chunk + 1, applied |-> 0]]
              /\ Goto(p, "lock") /\ hold' = [hold EXCEPT ![p] = hold[p]]
    BY <1>16 DEF NextChunk, Continues
  <2>2. up /\ up' /\ pc[p] \notin Finished
    BY <2>1
  <2>3. \A q \in Procs \ {p} : /\ pc'[q] = pc[q] /\ req'[q] = req[q]
                               /\ hold'[q] = hold[q] /\ prog'[q] = prog[q]
    BY <2>1 DEF ProgressInv
  <2>4. pc'[p] \notin Early
    BY <2>1
  <2> QED BY <2>1, <2>2, <2>3, <2>4
<1>17. ASSUME BadChunk(p) PROVE Local(p)
  BY <1>17 DEF BadChunk
<1>18. ASSUME Read(p) PROVE Local(p)
  BY <1>18 DEF Read, Reads
<1>19. ASSUME LifecycleFails(p) PROVE Local(p)
  BY <1>19 DEF LifecycleFails
<1>20. ASSUME ApplyFails(p) PROVE Local(p)
  BY <1>20 DEF ApplyFails, AbandonsChunk
<1>24. ASSUME NEW n \in Names, StartCompact(p, n) PROVE Local(p)
  BY <1>24 DEF StartCompact, Receive, GetHandle
<1>25. ASSUME CompactIndex(p) PROVE Local(p)
  BY <1>25 DEF CompactIndex, Compacting
<1> QED BY <1>1, <1>2, <1>3, <1>4, <1>5, <1>6, <1>7, <1>8, <1>9, <1>10, <1>11, <1>12,
   <1>13, <1>14, <1>15, <1>16, <1>17, <1>18, <1>19, <1>20, <1>24, <1>25

\* A registered handle stays what it is while other requests run.
LEMMA RegisteredKept ==
  ASSUME TypeInv, NEW p \in Procs, Local(p), NEW h, NEW n, Registered(h, n)
  PROVE  Registered(h, n)'
BY DEF Registered, Local, Home, Owners, Finished, TypeInv, RequestInv

\* An opened index stays where it is.
LEMMA OpenedKept ==
  ASSUME TypeInv, NEW p \in Procs, Local(p), NEW o \in Owners, Opened(o)
  PROVE  Opened(o)' /\ Home(o)' = Home(o)
BY DEF Opened, Local, Home, Owners, Early

\* What the acting process has to show for its own handle and for the map.
OwnHandle(p) ==
    /\ \A k \in Names : map'[k] # None =>
          \/ map'[k] = map[k]
          \/ /\ map'[k] = p /\ pc'[p] = "ok" /\ handles'[p].db # None
             /\ req'[p] \in CreateRequests /\ req'[p].name = k
    /\ pc'[p] \in CreateSteps => hold'[p] = p
    /\ pc'[p] \in Late => handles'[p].db # None
    /\ pc'[p] \in {"removing", "read", "compact"} \cup StreamSteps => Registered(hold'[p], req'[p].name)
    /\ pc'[p] \in {"ready"} \cup Finished => hold'[p] = None

\* A local step that keeps to OwnHandle keeps every handle in order.
LEMMA HandlesKept ==
  ASSUME TypeInv, HandleInv, NEW p \in Procs, Local(p), RequestInv', OwnHandle(p)
  PROVE  HandleInv'
<1>1. ASSUME NEW n \in Names, map'[n] # None PROVE up' /\ Registered(map[n], n)'
  <2>1. CASE map'[n] = map[n]
    <3>1. Registered(map[n], n)
      BY <1>1, <2>1 DEF HandleInv
    <3> QED BY <2>1, <3>1, RegisteredKept DEF Registered, Local
  <2>2. CASE /\ map'[n] = p /\ pc'[p] = "ok" /\ handles'[p].db # None
             /\ req'[p] \in CreateRequests /\ req'[p].name = n
    BY <2>2, ServerAssumption DEF Registered, Home, Owners, Local
  <2> QED BY <1>1, <2>1, <2>2 DEF OwnHandle
<1>2. ASSUME NEW q \in Procs
      PROVE  /\ pc'[q] \in CreateSteps => hold'[q] = q
             /\ pc'[q] \in Late => handles'[q].db # None
             /\ pc'[q] \in {"removing", "read", "compact"} \cup StreamSteps
                  => Registered(hold[q], Name(q))'
             /\ ~Running(q)' => hold'[q] = None
  <2>1. CASE q = p
    <3>1. pc'[p] \in {"removing", "read", "compact"} \cup StreamSteps => Registered(hold[p], Name(p))'
      BY RegisteredKept DEF OwnHandle, Registered, Name
    <3> QED BY <2>1, <3>1 DEF OwnHandle, RequestInv, Running, Finished
  <2>2. CASE q # p
    <3>1. pc'[q] = pc[q] /\ req'[q] = req[q] /\ hold'[q] = hold[q] /\ handles'[q] = handles[q]
      BY <2>2 DEF Local, Owners
    <3>2. pc[q] \in {"removing", "read", "compact"} \cup StreamSteps => Registered(hold[q], Name(q))
      BY DEF HandleInv
    <3>3. pc[q] \in {"removing", "read", "compact"} \cup StreamSteps => Registered(hold[q], Name(q))'
      BY <3>1, <3>2, RegisteredKept DEF Registered, Name
    <3> QED BY <3>1, <3>3 DEF HandleInv, Running
  <2> QED BY <2>1, <2>2
<1> QED BY <1>1, <1>2 DEF HandleInv

\* Every step keeps each process with the handle of its request, and in the map
\* only handles whose creation has finished.
LEMMA HandleStep ==
  ASSUME TypeInv, HandleInv, [Next]_vars
  PROVE  HandleInv'
<1> USE DEF TypeInv, TypeOK, RequestInv, HandleInv, Running, CreateRequests,
   DropRequests, Goto, Return, Early, Late, CreateSteps, StreamSteps, Finished
<1>1. ASSUME NEW p \in Procs, NEW n \in Names, NEW m \in Metas, StartCreate(p, n, m)
   PROVE HandleInv'
  <2>1. OwnHandle(p)
    BY <1>1 DEF OwnHandle, StartCreate, Receive
  <2> QED BY <1>1, <2>1, HandlesKept, StepIsLocal, RequestStep
<1>2. ASSUME NEW p \in Procs, MakeDir(p) PROVE HandleInv'
  <2>1. OwnHandle(p)
    BY <1>2 DEF OwnHandle, MakeDir, MakesDir
  <2> QED BY <1>2, <2>1, HandlesKept, StepIsLocal, RequestStep
<1>3. ASSUME NEW p \in Procs, WriteMeta(p) PROVE HandleInv'
  <2>1. OwnHandle(p)
    BY <1>3 DEF OwnHandle, WriteMeta
  <2> QED BY <1>3, <2>1, HandlesKept, StepIsLocal, RequestStep
<1>4. ASSUME NEW p \in Procs, OpenFlat(p) PROVE HandleInv'
  <2>1. IndexSteps(p)
    BY <1>4, OpenFlatTakes
  <2>2. ASSUME Return(p, "error") /\ UNCHANGED <<handles, dirs, content, damage, cut>>
        PROVE  OwnHandle(p)
    BY <2>1, <2>2 DEF OwnHandle, IndexSteps
  <2>3. ASSUME NEW o \in Owners, IndexTaken(p, o) PROVE OwnHandle(p)
    <3>1. /\ handles' = [handles EXCEPT ![p] = [meta |-> req[p].meta, db |-> o]]
          /\ \/ pc' = [pc EXCEPT ![p] = "segment"]
             \/ pc' = [pc EXCEPT ![p] = "stores"]
          /\ hold' = hold
      BY <2>3 DEF IndexTaken
    <3>2. handles'[p].db = o /\ o # None
      BY <3>1, ServerAssumption DEF Owners
    <3> QED BY <2>1, <3>1, <3>2 DEF OwnHandle, IndexSteps
  <2> QED BY <1>4, <2>1, <2>2, <2>3, HandlesKept, StepIsLocal, RequestStep DEF IndexSteps
<1>5. ASSUME NEW p \in Procs, CreateHnsw(p) PROVE HandleInv'
  <2>1. IndexSteps(p)
    BY <1>5, CreateHnswTakes
  <2>2. ASSUME Return(p, "error") /\ UNCHANGED <<handles, dirs, content, damage, cut>>
        PROVE  OwnHandle(p)
    BY <2>1, <2>2 DEF OwnHandle, IndexSteps
  <2>3. ASSUME NEW o \in Owners, IndexTaken(p, o) PROVE OwnHandle(p)
    <3>1. /\ handles' = [handles EXCEPT ![p] = [meta |-> req[p].meta, db |-> o]]
          /\ \/ pc' = [pc EXCEPT ![p] = "segment"]
             \/ pc' = [pc EXCEPT ![p] = "stores"]
          /\ hold' = hold
      BY <2>3 DEF IndexTaken
    <3>2. handles'[p].db = o /\ o # None
      BY <3>1, ServerAssumption DEF Owners
    <3> QED BY <2>1, <3>1, <3>2 DEF OwnHandle, IndexSteps
  <2> QED BY <1>5, <2>1, <2>2, <2>3, HandlesKept, StepIsLocal, RequestStep DEF IndexSteps
<1>6. ASSUME NEW p \in Procs, CreateSegment(p) PROVE HandleInv'
  <2>1. OwnHandle(p)
    BY <1>6 DEF OwnHandle, CreateSegment
  <2> QED BY <1>6, <2>1, HandlesKept, StepIsLocal, RequestStep
<1>7. ASSUME NEW p \in Procs, OpenStores(p) PROVE HandleInv'
  <2>1. OwnHandle(p)
    BY <1>7 DEF OwnHandle, OpenStores
  <2> QED BY <1>7, <2>1, HandlesKept, StepIsLocal, RequestStep
<1>8. ASSUME NEW p \in Procs, Register(p) PROVE HandleInv'
  <2>1. /\ req[p] \in CreateRequests /\ Name(p) \in Names /\ handles[p].db # None
        /\ pc'[p] = "ok" /\ hold'[p] = None /\ req' = req /\ handles' = handles
        /\ map' = [map EXCEPT ![Name(p)] = p]
    BY <1>8 DEF Register, Name
  <2>2. \A k \in Names : map'[k] # map[k] => map'[k] = p /\ req[p].name = k
    BY <2>1 DEF Name
  <2>3. OwnHandle(p)
    BY <2>1, <2>2 DEF OwnHandle
  <2> QED BY <1>8, <2>3, HandlesKept, StepIsLocal, RequestStep
<1>9. ASSUME NEW p \in Procs, NEW n \in Names, StartDrop(p, n) PROVE HandleInv'
  <2>1. OwnHandle(p)
    BY <1>9 DEF OwnHandle, StartDrop, Receive
  <2> QED BY <1>9, <2>1, HandlesKept, StepIsLocal, RequestStep
<1>10. ASSUME NEW p \in Procs, RemoveFile(p) PROVE HandleInv'
  <2>1. hold'[p] \in {hold[p], None} /\ Name(p) = req'[p].name
    BY <1>10 DEF RemoveFile, Name
  <2>2. Registered(hold[p], Name(p))
    BY <1>10 DEF RemoveFile
  <2>3. OwnHandle(p)
    BY <1>10, <2>1, <2>2 DEF OwnHandle, RemoveFile
  <2> QED BY <1>10, <2>3, HandlesKept, StepIsLocal, RequestStep
<1>11. ASSUME NEW p \in Procs, RemoveDir(p) PROVE HandleInv'
  <2>1. OwnHandle(p)
    BY <1>11 DEF OwnHandle, RemoveDir
  <2> QED BY <1>11, <2>1, HandlesKept, StepIsLocal, RequestStep
<1>12. ASSUME NEW p \in Procs, NEW n \in Names, StartWrite(p, n) PROVE HandleInv'
  <2>1. OwnHandle(p)
    BY <1>12 DEF OwnHandle, StartWrite, Receive, GetHandle
  <2> QED BY <1>12, <2>1, HandlesKept, StepIsLocal, RequestStep
<1>13. ASSUME NEW p \in Procs, NEW n \in Names, StartRead(p, n) PROVE HandleInv'
  <2>1. OwnHandle(p)
    BY <1>13 DEF OwnHandle, StartRead, Receive, GetHandle
  <2> QED BY <1>13, <2>1, HandlesKept, StepIsLocal, RequestStep
<1>14. ASSUME NEW p \in Procs, Lock(p) PROVE HandleInv'
  <2>1. hold'[p] \in {hold[p], None} /\ Name(p) = req'[p].name
    BY <1>14 DEF Lock, Name
  <2>2. Registered(hold[p], Name(p))
    BY <1>14 DEF Lock
  <2>3. OwnHandle(p)
    BY <1>14, <2>1, <2>2 DEF OwnHandle, Lock
  <2> QED BY <1>14, <2>3, HandlesKept, StepIsLocal, RequestStep
<1>15. ASSUME NEW p \in Procs, Apply(p) PROVE HandleInv'
  <2>1. hold'[p] \in {hold[p], None} /\ Name(p) = req'[p].name
    BY <1>15 DEF Apply, Applies, Name
  <2>2. Registered(hold[p], Name(p))
    BY <1>15 DEF Apply, Applies
  <2>3. OwnHandle(p)
    BY <1>15, <2>1, <2>2 DEF OwnHandle, Apply, Applies
  <2> QED BY <1>15, <2>3, HandlesKept, StepIsLocal, RequestStep
<1>16. ASSUME NEW p \in Procs, NextChunk(p) PROVE HandleInv'
  <2>1. hold'[p] \in {hold[p], None} /\ Name(p) = req'[p].name
    BY <1>16 DEF NextChunk, Continues, Name
  <2>2. Registered(hold[p], Name(p))
    BY <1>16 DEF NextChunk, Continues
  <2>3. OwnHandle(p)
    BY <1>16, <2>1, <2>2 DEF OwnHandle, NextChunk, Continues
  <2> QED BY <1>16, <2>3, HandlesKept, StepIsLocal, RequestStep
<1>17. ASSUME NEW p \in Procs, BadChunk(p) PROVE HandleInv'
  <2>1. OwnHandle(p)
    BY <1>17 DEF OwnHandle, BadChunk
  <2> QED BY <1>17, <2>1, HandlesKept, StepIsLocal, RequestStep
<1>18. ASSUME NEW p \in Procs, Read(p) PROVE HandleInv'
  <2>1. OwnHandle(p)
    BY <1>18 DEF OwnHandle, Read, Reads
  <2> QED BY <1>18, <2>1, HandlesKept, StepIsLocal, RequestStep
<1>19. ASSUME NEW p \in Procs, LifecycleFails(p) PROVE HandleInv'
  <2>1. OwnHandle(p)
    BY <1>19 DEF OwnHandle, LifecycleFails
  <2> QED BY <1>19, <2>1, HandlesKept, StepIsLocal, RequestStep
<1>20. ASSUME NEW p \in Procs, ApplyFails(p) PROVE HandleInv'
  <2>1. OwnHandle(p)
    BY <1>20 DEF OwnHandle, ApplyFails, AbandonsChunk
  <2> QED BY <1>20, <2>1, HandlesKept, StepIsLocal, RequestStep
<1>21. ASSUME Crash PROVE HandleInv'
  <2>1. /\ \A n \in Names : map'[n] = None
        /\ \A p \in Procs : hold'[p] = None /\ pc'[p] \in {"ready"} \cup Finished
    BY <1>21 DEF Crash
  <2> QED BY <2>1
<1>22. ASSUME Restart PROVE HandleInv'
  <2>0. PICK stop \in [Names -> Stops] : RestartsAt(stop)
    BY <1>22, RestartAtStops
  <2>1. ASSUME NEW n \in Names, map'[n] # None PROVE up' /\ Registered(map[n], n)'
    <3>1. map'[n] = n /\ Reopens(dirs[n]) /\ up'
      BY <2>0, <2>1 DEF RestartsAt, Loaded
    <3>2. handles'[n].db \in Owners
      BY <2>0, <2>1, <3>1, ServerAssumption DEF RestartsAt, Loaded, Owners, Reopens, Fresh,
         Database, Directories, Databases
    <3> QED BY <3>1, <3>2, ServerAssumption DEF Registered, Home, Owners
  <2>2. \A p \in Procs : hold'[p] = None /\ pc'[p] \in {"ready"} \cup Finished
    BY <2>0 DEF RestartsAt
  <2> QED BY <2>1, <2>2
<1>23. CASE UNCHANGED vars
  BY <1>23 DEF vars, Registered, Home, Name
<1>24. ASSUME NEW p \in Procs, NEW n \in Names, StartCompact(p, n) PROVE HandleInv'
  <2>1. OwnHandle(p)
    BY <1>24 DEF OwnHandle, StartCompact, Receive, GetHandle
  <2> QED BY <1>24, <2>1, HandlesKept, StepIsLocal, RequestStep
<1>25. ASSUME NEW p \in Procs, CompactIndex(p) PROVE HandleInv'
  <2>1. OwnHandle(p)
    BY <1>25 DEF OwnHandle, CompactIndex, Compacting
  <2> QED BY <1>25, <2>1, HandlesKept, StepIsLocal, RequestStep
<1> QED BY <1>1, <1>2, <1>3, <1>4, <1>5, <1>6, <1>7, <1>8, <1>9, <1>10, <1>11, <1>12,
   <1>13, <1>14, <1>15, <1>16, <1>17, <1>18, <1>19, <1>20, <1>21, <1>22, <1>23,
   <1>24, <1>25 DEF Next, Request, Step

-----------------------------------------------------------------------------
(* Files and the handles that have them open *)

\* No index database appears in a directory.
DbsKept ==
    \A k \in Names : dirs'[k] # None =>
        \A f \in DbFiles : dirs'[k][f] # None =>
            dirs[k] # None /\ dirs'[k][f] = dirs[k][f]

\* Writing another file, or removing one, adds no index database.
LEMMA EditKeepsDbs ==
  ASSUME NEW n \in Names, NEW f \in Files, NEW v, Edited(n, f, v), f \in DbFiles => v = None
  PROVE  DbsKept
BY FileNames DEF Edited, DbsKept, DbFiles

\* No handle with an open database becomes live.
NoNewLive(p) ==
    /\ handles' = handles
    /\ \A k \in Names : map'[k] # None => Live(map'[k])
    /\ hold'[p] # None => Live(hold'[p]) \/ handles[hold'[p]].db = None

\* A step that adds no database file and opens none keeps every file at home.
LEMMA FilesKept ==
  ASSUME TypeInv, FileInv, NEW p \in Procs, Local(p), TypeOK', DbsKept, NoNewLive(p)
  PROVE  FileInv'
<1>1. HandlesAtHome'
  <2> SUFFICES ASSUME NEW g \in Owners, handles[g].db # None
               PROVE  /\ Opened(g)' /\ Opened(handles[g].db)'
                      /\ Home(g)' = Home(handles[g].db)'
    BY DEF HandlesAtHome, NoNewLive
  <2>1. /\ handles[g].db \in Owners /\ Opened(g) /\ Opened(handles[g].db)
        /\ Home(g) = Home(handles[g].db) /\ handles' = handles
    BY DEF TypeInv, TypeOK, FileInv, HandlesAtHome, NoNewLive
  <2> QED BY <2>1, OpenedKept DEF Opened, Home
<1>2. FilesAtHome'
  <2> SUFFICES ASSUME NEW k \in Names, dirs'[k] # None, NEW f \in DbFiles, dirs'[k][f] # None
               PROVE  Opened(dirs[k][f].by)' /\ Home(dirs[k][f].by)' = k
    BY DEF FilesAtHome
  <2>1. dirs[k] # None /\ dirs'[k][f] = dirs[k][f] /\ dirs[k][f] # None
    BY DEF DbsKept
  <2>2. dirs[k][f].by \in Owners /\ Opened(dirs[k][f].by) /\ Home(dirs[k][f].by) = k
    BY <2>1 DEF TypeInv, TypeOK, FileInv, FilesAtHome, Directories, Databases, DbFiles
  <2> QED BY <2>1, <2>2, OpenedKept DEF Opened, Home
<1>3. OneHandlePerIndex'
  <2>1. ASSUME NEW h \in Owners, Live(h)' PROVE Live(h) \/ handles[h].db = None
    <3>1. ASSUME NEW n \in Names, map'[n] = h PROVE Live(h)
      BY <3>1, ServerAssumption DEF NoNewLive, Owners
    <3>2. ASSUME NEW q \in Procs, hold'[q] = h PROVE Live(h) \/ handles[h].db = None
      BY <3>2, ServerAssumption DEF NoNewLive, Owners, Local, Live
    <3> QED BY <2>1, <3>1, <3>2 DEF Live
  <2>2. handles' = handles
    BY DEF NoNewLive
  <2> HIDE DEF Live
  <2> SUFFICES ASSUME NEW g \in Owners, NEW h \in Owners, Live(g)', Live(h)', g # h,
                      handles[g].db # None
               PROVE  handles[g].db # handles[h].db
    BY <2>2 DEF OneHandlePerIndex
  <2> QED BY <2>1 DEF FileInv, OneHandlePerIndex
<1> QED BY <1>1, <1>2, <1>3 DEF FileInv

\* Opening an index: the database taken is the process's own new one, or one of
\* the directory that no live handle has open.
LEMMA IndexKeepsFiles ==
  ASSUME TypeInv, HandleInv, FileInv, NEW p \in Procs, Local(p), TypeOK', IndexSteps(p)
  PROVE  FileInv'
<1>1. CASE Return(p, "error") /\ UNCHANGED <<handles, dirs, content, damage, cut>>
  <2>1. DbsKept
    BY <1>1 DEF DbsKept
  <2>2. NoNewLive(p)
    BY <1>1 DEF NoNewLive, Live, IndexSteps, Return, TypeInv, TypeOK
  <2> QED BY <2>1, <2>2, FilesKept
<1>2. ASSUME NEW o \in Owners, IndexTaken(p, o) PROVE FileInv'
  <2> DEFINE n == Name(p)
             f == DbFile(req[p].meta)
  <2>1. /\ pc[p] = "database" /\ n \in Names /\ req[p] \in CreateRequests /\ req' = req
        /\ map' = map /\ hold' = hold /\ pc'[p] \in Late
        /\ p \in Owners /\ p \notin Names
    BY <1>2, ServerAssumption DEF IndexSteps, IndexTaken, TypeInv, RequestInv, Late,
       Owners
  <2>2. /\ handles'[p].db = o
        /\ \A g \in Owners \ {p} : handles'[g] = handles[g]
    BY <1>2, <2>1 DEF IndexTaken, TypeInv, TypeOK
  <2>3. Opened(p)' /\ Home(p)' = n
    BY <2>1 DEF Opened, Home, Name, Early, Late
  <2>4. Opened(o)' /\ Home(o)' = n
    <3>1. CASE o = p
      BY <3>1, <2>3
    <3>2. CASE dirs[n] # None /\ dirs[n][f] # None /\ dirs[n][f].by = o
      <4>1. Opened(o) /\ Home(o) = n
        BY <2>1, <3>2 DEF FileInv, FilesAtHome, DbFiles, DbFile
      <4> QED BY <4>1, OpenedKept
    <3> QED BY <1>2, <3>1, <3>2 DEF IndexTaken
  <2>5. HandlesAtHome'
    <3> SUFFICES ASSUME NEW g \in Owners, handles'[g].db # None
                 PROVE  /\ Opened(g)' /\ Opened(handles[g].db)'
                        /\ Home(g)' = Home(handles[g].db)'
      BY DEF HandlesAtHome
    <3>1. CASE g = p
      BY <3>1, <2>2, <2>3, <2>4 DEF Opened, Home
    <3>2. CASE g # p
      <4>1. /\ handles'[g] = handles[g] /\ handles[g].db \in Owners
            /\ Opened(g) /\ Opened(handles[g].db) /\ Home(g) = Home(handles[g].db)
        BY <3>2, <2>2 DEF FileInv, HandlesAtHome, TypeInv, TypeOK
      <4> QED BY <4>1, OpenedKept DEF Opened, Home
    <3> QED BY <3>1, <3>2
  <2>6. FilesAtHome'
    <3> SUFFICES ASSUME NEW k \in Names, dirs'[k] # None, NEW x \in DbFiles,
                        dirs'[k][x] # None
                 PROVE  Opened(dirs[k][x].by)' /\ Home(dirs[k][x].by)' = k
      BY DEF FilesAtHome
    <3>1. CASE k = n /\ x = f
      <4>1. dirs'[k][x].by = o
        BY <1>2, <3>1 DEF IndexTaken
      <4> QED BY <4>1, <2>4, <3>1 DEF Opened, Home
    <3>2. CASE ~(k = n /\ x = f)
      <4>1. dirs[k] # None /\ dirs'[k][x] = dirs[k][x]
        <5>1. CASE k # n
          BY <1>2, <5>1 DEF IndexTaken
        <5>2. CASE k = n /\ x # f
          BY <1>2, <5>2, FileNames DEF IndexTaken, Ensured, EmptyDir, DbFiles
        <5> QED BY <3>2, <5>1, <5>2
      <4>2. dirs[k][x].by \in Owners /\ Opened(dirs[k][x].by) /\ Home(dirs[k][x].by) = k
        BY <4>1 DEF TypeInv, TypeOK, FileInv, FilesAtHome, Directories, Databases, DbFiles
      <4> QED BY <4>1, <4>2, OpenedKept DEF Opened, Home
    <3> QED BY <3>1, <3>2
  <2>7. OneHandlePerIndex'
    <3>1. \A h \in Owners : Live(h)' <=> Live(h)
      BY <2>1 DEF Live
    <3>2. \A h \in Owners \ {p} : Live(h) => handles[h].db # o
      <4>1. CASE o = p
        BY <4>1, <2>1, ServerAssumption DEF FileInv, HandlesAtHome, Opened, Early
      <4>2. CASE ~InUse(o)
        BY <4>2 DEF InUse
      <4> QED BY <1>2, <4>1, <4>2 DEF IndexTaken
    <3> SUFFICES ASSUME NEW g \in Owners, NEW h \in Owners, Live(g), Live(h), g # h,
                        handles'[g].db # None
                 PROVE  handles'[g].db # handles'[h].db
      BY <3>1 DEF OneHandlePerIndex
    <3>3. CASE g = p \/ h = p
      BY <2>2, <3>2, <3>3
    <3>4. CASE g # p /\ h # p
      BY <2>2, <3>4 DEF FileInv, OneHandlePerIndex
    <3> QED BY <3>3, <3>4
  <2> QED BY <2>5, <2>6, <2>7 DEF FileInv
<1> QED BY <1>1, <1>2 DEF IndexSteps

\* Every step keeps index databases in the directory they were created for, and
\* each of them open in at most one live handle.
LEMMA FileStep ==
  ASSUME TypeInv, HandleInv, FileInv, [Next]_vars
  PROVE  FileInv'
<1> USE DEF TypeInv, TypeOK, RequestInv, CreateRequests, DropRequests, Goto, Return,
   Early, Late, CreateSteps, StreamSteps, Finished
<1>1. ASSUME NEW p \in Procs, NEW n \in Names, NEW m \in Metas, StartCreate(p, n, m)
   PROVE FileInv'
  <2>1. DbsKept
    BY <1>1 DEF DbsKept, StartCreate, Receive
  <2>2. NoNewLive(p)
    <3>1. pc[p] = "ready" => handles[p].db = None
      BY DEF FileInv, HandlesAtHome, Opened, Owners
    <3> QED BY <1>1, <3>1 DEF NoNewLive, Live, StartCreate, Receive
  <2> QED BY <1>1, <2>1, <2>2, FilesKept, StepIsLocal, TypeStep
<1>2. ASSUME NEW p \in Procs, MakeDir(p) PROVE FileInv'
  <2>1. DbsKept
    <3>1. Name(p) \in Names /\ dirs' = [dirs EXCEPT ![Name(p)] = Ensured(dirs[Name(p)])]
      BY <1>2 DEF MakeDir, MakesDir, Name
    <3> QED BY <3>1 DEF DbsKept, Ensured, EmptyDir, DbFiles
  <2>2. NoNewLive(p)
    BY <1>2 DEF NoNewLive, Live, MakeDir, MakesDir
  <2> QED BY <1>2, <2>1, <2>2, FilesKept, StepIsLocal, TypeStep
<1>3. ASSUME NEW p \in Procs, WriteMeta(p) PROVE FileInv'
  <2>1. DbsKept
    <3>1. Name(p) \in Names
      BY <1>3 DEF WriteMeta, Name
    <3>2. Dir(p) # None => req[p].meta \in Metas
      BY <3>1, <1>3 DEF WriteMeta, Name, Dir, Spaces, Directories
    <3>3. Dir(p) # None => SetFile(p, "meta", req[p].meta)
      BY <1>3 DEF WriteMeta
    <3>4. Dir(p) # None => Edited(Name(p), "meta", req[p].meta)
      BY <3>1, <3>2, <3>3, Editing, FileNames
    <3>5. Dir(p) = None => dirs' = dirs
      BY <1>3 DEF WriteMeta
    <3> QED BY <3>1, <3>4, <3>5, EditKeepsDbs, FileNames DEF DbsKept, DbFiles
  <2>2. NoNewLive(p)
    BY <1>3 DEF NoNewLive, Live, WriteMeta
  <2> QED BY <1>3, <2>1, <2>2, FilesKept, StepIsLocal, TypeStep
<1>4. ASSUME NEW p \in Procs, OpenFlat(p) PROVE FileInv'
  BY <1>4, OpenFlatTakes, IndexKeepsFiles, StepIsLocal, TypeStep
<1>5. ASSUME NEW p \in Procs, CreateHnsw(p) PROVE FileInv'
  BY <1>5, CreateHnswTakes, IndexKeepsFiles, StepIsLocal, TypeStep
<1>6. ASSUME NEW p \in Procs, CreateSegment(p) PROVE FileInv'
  <2>1. DbsKept
    <3>1. Name(p) \in Names
      BY <1>6 DEF CreateSegment, Name
    <3>2. Dir(p) # None => req[p].meta.space \in Spaces
      BY <3>1, <1>6 DEF CreateSegment, Name, Dir, Spaces, Directories
    <3>3. Dir(p) # None /\ Dir(p).segment = None => SetFile(p, "segment", req[p].meta.space)
      BY <1>6 DEF CreateSegment
    <3>4. Dir(p) # None /\ Dir(p).segment = None => Edited(Name(p), "segment", req[p].meta.space)
      BY <3>1, <3>2, <3>3, Editing, FileNames
    <3>5. ~(Dir(p) # None /\ Dir(p).segment = None) => dirs' = dirs
      BY <1>6 DEF CreateSegment
    <3> QED BY <3>1, <3>4, <3>5, EditKeepsDbs, FileNames DEF DbsKept, DbFiles
  <2>2. NoNewLive(p)
    BY <1>6 DEF NoNewLive, Live, CreateSegment
  <2> QED BY <1>6, <2>1, <2>2, FilesKept, StepIsLocal, TypeStep
<1>7. ASSUME NEW p \in Procs, OpenStores(p) PROVE FileInv'
  <2>1. DbsKept
    <3> DEFINE by == IF Dir(p).stores = None THEN p ELSE Dir(p).stores
    <3>1. Name(p) \in Names
      BY <1>7 DEF OpenStores, Name
    <3>2. Dir(p) # None => by \in Owners
      BY <3>1, <1>7 DEF OpenStores, Name, Dir, Directories, Owners
    <3>3. Dir(p) # None => SetFile(p, "stores", by)
      BY <1>7 DEF OpenStores
    <3>4. Dir(p) # None => Edited(Name(p), "stores", by)
      BY <3>1, <3>2, <3>3, Editing, FileNames
    <3>5. Dir(p) = None => dirs' = dirs
      BY <1>7 DEF OpenStores
    <3> QED BY <3>1, <3>4, <3>5, EditKeepsDbs, FileNames DEF DbsKept, DbFiles
  <2>2. NoNewLive(p)
    BY <1>7 DEF NoNewLive, Live, OpenStores
  <2> QED BY <1>7, <2>1, <2>2, FilesKept, StepIsLocal, TypeStep
<1>8. ASSUME NEW p \in Procs, Register(p) PROVE FileInv'
  <2>1. DbsKept
    BY <1>8 DEF DbsKept, Register
  <2>2. NoNewLive(p)
    <3>1. hold[p] = p /\ Live(p)
      BY <1>8 DEF Register, HandleInv, Live
    <3>2. /\ \A k \in Names : map'[k] # map[k] => map'[k] = p
          /\ hold'[p] = None /\ handles' = handles
      BY <1>8 DEF Register
    <3> QED BY <3>1, <3>2 DEF NoNewLive, Live
  <2> QED BY <1>8, <2>1, <2>2, FilesKept, StepIsLocal, TypeStep
<1>9. ASSUME NEW p \in Procs, NEW n \in Names, StartDrop(p, n) PROVE FileInv'
  <2>1. DbsKept
    BY <1>9 DEF DbsKept, StartDrop, Receive
  <2>2. NoNewLive(p)
    BY <1>9 DEF NoNewLive, Live, StartDrop, Receive
  <2> QED BY <1>9, <2>1, <2>2, FilesKept, StepIsLocal, TypeStep
<1>10. ASSUME NEW p \in Procs, RemoveFile(p) PROVE FileInv'
  <2>1. DbsKept
    <3>1. Name(p) \in Names
      BY <1>10 DEF RemoveFile, Name
    <3>2. PICK f \in Present(Dir(p)) : SetFile(p, f, None)
      BY <1>10 DEF RemoveFile
    <3>3. Dir(p) # None /\ f \in Files
      BY <3>2 DEF Present
    <3>4. Edited(Name(p), f, None)
      BY <3>1, <3>2, <3>3, Editing
    <3> QED BY <3>1, <3>3, <3>4, EditKeepsDbs
  <2>2. NoNewLive(p)
    BY <1>10 DEF NoNewLive, Live, RemoveFile
  <2> QED BY <1>10, <2>1, <2>2, FilesKept, StepIsLocal, TypeStep
<1>11. ASSUME NEW p \in Procs, RemoveDir(p) PROVE FileInv'
  <2>1. DbsKept
    <3>1. Name(p) \in Names
      BY <1>11 DEF RemoveDir, Name
    <3>2. dirs' = dirs \/ dirs' = [dirs EXCEPT ![Name(p)] = None]
      BY <1>11 DEF RemoveDir
    <3> QED BY <3>1, <3>2 DEF DbsKept
  <2>2. NoNewLive(p)
    BY <1>11 DEF NoNewLive, Live, RemoveDir
  <2> QED BY <1>11, <2>1, <2>2, FilesKept, StepIsLocal, TypeStep
<1>12. ASSUME NEW p \in Procs, NEW n \in Names, StartWrite(p, n) PROVE FileInv'
  <2>1. DbsKept
    BY <1>12 DEF DbsKept, StartWrite, Receive, GetHandle
  <2>2. NoNewLive(p)
    BY <1>12 DEF NoNewLive, Live, StartWrite, Receive, GetHandle
  <2> QED BY <1>12, <2>1, <2>2, FilesKept, StepIsLocal, TypeStep
<1>13. ASSUME NEW p \in Procs, NEW n \in Names, StartRead(p, n) PROVE FileInv'
  <2>1. DbsKept
    BY <1>13 DEF DbsKept, StartRead, Receive, GetHandle
  <2>2. NoNewLive(p)
    BY <1>13 DEF NoNewLive, Live, StartRead, Receive, GetHandle
  <2> QED BY <1>13, <2>1, <2>2, FilesKept, StepIsLocal, TypeStep
<1>14. ASSUME NEW p \in Procs, Lock(p) PROVE FileInv'
  <2>1. DbsKept
    BY <1>14 DEF DbsKept, Lock
  <2>2. NoNewLive(p)
    BY <1>14 DEF NoNewLive, Live, Lock
  <2> QED BY <1>14, <2>1, <2>2, FilesKept, StepIsLocal, TypeStep
<1>15. ASSUME NEW p \in Procs, Apply(p) PROVE FileInv'
  <2>1. DbsKept
    BY <1>15 DEF DbsKept, Apply, Applies
  <2>2. NoNewLive(p)
    BY <1>15 DEF NoNewLive, Live, Apply, Applies
  <2> QED BY <1>15, <2>1, <2>2, FilesKept, StepIsLocal, TypeStep
<1>16. ASSUME NEW p \in Procs, NextChunk(p) PROVE FileInv'
  <2>1. DbsKept
    BY <1>16 DEF DbsKept, NextChunk, Continues
  <2>2. NoNewLive(p)
    BY <1>16 DEF NoNewLive, Live, NextChunk, Continues
  <2> QED BY <1>16, <2>1, <2>2, FilesKept, StepIsLocal, TypeStep
<1>17. ASSUME NEW p \in Procs, BadChunk(p) PROVE FileInv'
  <2>1. DbsKept
    BY <1>17 DEF DbsKept, BadChunk
  <2>2. NoNewLive(p)
    BY <1>17 DEF NoNewLive, Live, BadChunk
  <2> QED BY <1>17, <2>1, <2>2, FilesKept, StepIsLocal, TypeStep
<1>18. ASSUME NEW p \in Procs, Read(p) PROVE FileInv'
  <2>1. DbsKept
    BY <1>18 DEF DbsKept, Read, Reads
  <2>2. NoNewLive(p)
    BY <1>18 DEF NoNewLive, Live, Read, Reads
  <2> QED BY <1>18, <2>1, <2>2, FilesKept, StepIsLocal, TypeStep
<1>19. ASSUME NEW p \in Procs, LifecycleFails(p) PROVE FileInv'
  <2>1. DbsKept
    <3>1. CASE dirs' = dirs
      BY <3>1 DEF DbsKept
    <3>2. CASE WritingMeta(p) /\ SetFile(p, "meta", Torn)
      <4>1. Name(p) \in Names /\ Dir(p) # None
        BY <3>2 DEF WritingMeta, Name
      <4>2. Edited(Name(p), "meta", Torn)
        BY <4>1, <3>2, Editing, FileNames
      <4> QED BY <4>1, <4>2, EditKeepsDbs, FileNames DEF DbFiles
    <3> QED BY <1>19, <3>1, <3>2 DEF LifecycleFails
  <2>2. NoNewLive(p)
    BY <1>19 DEF NoNewLive, Live, LifecycleFails
  <2> QED BY <1>19, <2>1, <2>2, FilesKept, StepIsLocal, TypeStep
<1>20. ASSUME NEW p \in Procs, ApplyFails(p) PROVE FileInv'
  <2>1. DbsKept
    BY <1>20 DEF DbsKept, ApplyFails, AbandonsChunk
  <2>2. NoNewLive(p)
    BY <1>20 DEF NoNewLive, Live, ApplyFails, AbandonsChunk
  <2> QED BY <1>20, <2>1, <2>2, FilesKept, StepIsLocal, TypeStep
<1>21. ASSUME Crash PROVE FileInv'
  <2>1. /\ \A g \in Owners : handles'[g].db = None
        /\ \A n \in Names : map'[n] = None
        /\ \A p \in Procs : hold'[p] = None
        /\ \A o \in Procs : pc[o] \notin Early => pc'[o] \notin Early
        /\ req' = req
    BY <1>21 DEF Crash
  <2>2. DbsKept
    <3>1. \E torn \in SUBSET {p \in Procs : WritingMeta(p)} :
             dirs' = [n \in Names |-> IF \E p \in torn : Name(p) = n
                                     THEN Put(dirs[n], "meta", Torn) ELSE dirs[n]]
      BY <1>21 DEF Crash
    <3>4. PICK torn \in SUBSET {p \in Procs : WritingMeta(p)} :
             dirs' = [n \in Names |-> IF \E p \in torn : Name(p) = n
                                     THEN Put(dirs[n], "meta", Torn) ELSE dirs[n]]
      BY <3>1
    <3> SUFFICES ASSUME NEW n \in Names, dirs'[n] # None, NEW f \in DbFiles, dirs'[n][f] # None
                 PROVE  dirs[n] # None /\ dirs'[n][f] = dirs[n][f]
      BY DEF DbsKept
    <3>2. CASE \E p \in torn : Name(p) = n
      <4>1. dirs[n] # None /\ dirs[n] \in Directories
        BY <3>2 DEF WritingMeta, Dir
      <4>2. dirs'[n] = Put(dirs[n], "meta", Torn)
        BY <3>4, <3>2
      <4> QED BY <4>1, <4>2, PutFile, FileNames DEF DbFiles
    <3>3. CASE ~\E p \in torn : Name(p) = n
      BY <3>4, <3>3
    <3> QED BY <3>2, <3>3
  <2>3. HandlesAtHome' /\ OneHandlePerIndex'
    BY <2>1 DEF HandlesAtHome, OneHandlePerIndex
  <2>4. FilesAtHome'
    <3> SUFFICES ASSUME NEW k \in Names, dirs'[k] # None, NEW f \in DbFiles, dirs'[k][f] # None
                 PROVE  Opened(dirs[k][f].by)' /\ Home(dirs[k][f].by)' = k
      BY DEF FilesAtHome
    <3>1. dirs[k] # None /\ dirs'[k][f] = dirs[k][f]
      BY <2>2 DEF DbsKept
    <3>2. Opened(dirs[k][f].by) /\ Home(dirs[k][f].by) = k
      BY <3>1 DEF FileInv, FilesAtHome
    <3> QED BY <2>1, <3>1, <3>2 DEF Opened, Home
  <2> QED BY <2>3, <2>4 DEF FileInv
<1>22. ASSUME Restart PROVE FileInv'
  <2>0. PICK stop \in [Names -> Stops] : RestartsAt(stop)
    BY <1>22, RestartAtStops
  <2>1. UNCHANGED <<pc, req, hold>> /\ \A n \in Names : map'[n] \in {n, None}
    BY <2>0 DEF RestartsAt
  <2>2. \A p \in Procs : hold'[p] = None
    BY <2>0, <2>1 DEF RestartsAt, HandleInv, Running
  <2>3. ASSUME NEW g \in Owners, handles'[g].db # None
        PROVE  g \in Names /\ Opened(handles'[g].db) /\ Home(handles'[g].db) = g
    <3>1. g \in Names /\ Reopens(dirs[g])
      BY <2>0, <2>3 DEF RestartsAt, Loaded
    <3>2. handles'[g].db = IF Fresh(dirs[g]) THEN g ELSE Database(dirs[g]).by
      BY <2>0, <2>3, <3>1 DEF RestartsAt
    <3>3. CASE Fresh(dirs[g])
      BY <3>1, <3>2, <3>3, ServerAssumption DEF Opened, Home
    <3>4. CASE ~Fresh(dirs[g])
      <4>1. dirs[g] # None /\ \E f \in DbFiles : Database(dirs[g]) = dirs[g][f] /\ dirs[g][f] # None
        BY <3>1, <3>4, ServerAssumption DEF Reopens, Fresh, Database, DbFiles
      <4> QED BY <3>1, <3>2, <3>4, <4>1 DEF FileInv, FilesAtHome
    <3> QED BY <3>3, <3>4
  <2>4. HandlesAtHome'
    <3> SUFFICES ASSUME NEW g \in Owners, handles'[g].db # None
                 PROVE  /\ Opened(g)' /\ Opened(handles[g].db)'
                        /\ Home(g)' = Home(handles[g].db)'
      BY DEF HandlesAtHome
    <3> QED BY <2>1, <2>3, ServerAssumption DEF Opened, Home
  <2>5. FilesAtHome'
    <3> SUFFICES ASSUME NEW k \in Names, dirs'[k] # None, NEW f \in DbFiles, dirs'[k][f] # None
                 PROVE  Opened(dirs[k][f].by)' /\ Home(dirs[k][f].by)' = k
      BY DEF FilesAtHome
    <3>1. /\ dirs'[k] = AfterScan(k, stop[k]) /\ dirs[k] \in Directories \cup {None}
          /\ stop[k] \in Stops
      BY <2>0 DEF RestartsAt
    <3>2. dirs[k] # None
      BY <3>1, ScannedDirectory
    <3>3. CASE f = "catalog" /\ Fresh(dirs[k]) /\ stop[k] # "index"
      <4>0. AfterScan(k, stop[k]).catalog = [by |-> k, space |-> dirs[k].meta.space]
        BY <3>1, <3>2, <3>3, ScannedDirectory
      <4>1. dirs'[k][f].by = k
        BY <3>1, <3>3, <4>0
      <4> QED BY <4>1, ServerAssumption DEF Opened, Home
    <3>4. CASE ~(f = "catalog" /\ Fresh(dirs[k]) /\ stop[k] # "index")
      <4>1. dirs'[k][f] = dirs[k][f]
        <5>1. CASE f = "hnsw"
          <6>1. AfterScan(k, stop[k]).hnsw = dirs[k].hnsw
            BY <3>1, <3>2, ScannedDirectory
          <6> QED BY <3>1, <5>1, <6>1
        <5>2. CASE f = "catalog"
          <6>1. ~Fresh(dirs[k]) \/ stop[k] = "index"
            BY <3>4, <5>2
          <6>2. AfterScan(k, stop[k]).catalog = dirs[k].catalog
            BY <3>1, <3>2, <6>1, ScannedDirectory
          <6> QED BY <3>1, <5>2, <6>2
        <5> QED BY <5>1, <5>2 DEF DbFiles
      <4>2. Opened(dirs[k][f].by) /\ Home(dirs[k][f].by) = k
        BY <3>2, <4>1 DEF FileInv, FilesAtHome
      <4> QED BY <2>1, <4>1, <4>2 DEF Opened, Home
    <3> QED BY <3>3, <3>4
  <2>6. OneHandlePerIndex'
    <3> SUFFICES ASSUME NEW g \in Owners, NEW h \in Owners, g # h, handles'[g].db # None,
                        handles'[g].db = handles'[h].db
                 PROVE  FALSE
      BY DEF OneHandlePerIndex
    <3> QED BY <2>3
  <2> QED BY <2>4, <2>5, <2>6 DEF FileInv
<1>23. CASE UNCHANGED vars
  BY <1>23 DEF vars, FileInv, HandlesAtHome, FilesAtHome, OneHandlePerIndex, Opened,
     Home, Live
<1>24. ASSUME NEW p \in Procs, NEW n \in Names, StartCompact(p, n) PROVE FileInv'
  <2>1. DbsKept
    BY <1>24 DEF DbsKept, StartCompact, Receive, GetHandle
  <2>2. NoNewLive(p)
    BY <1>24 DEF NoNewLive, Live, StartCompact, Receive, GetHandle
  <2> QED BY <1>24, <2>1, <2>2, FilesKept, StepIsLocal, TypeStep
<1>25. ASSUME NEW p \in Procs, CompactIndex(p) PROVE FileInv'
  <2>1. DbsKept
    BY <1>25 DEF DbsKept, CompactIndex, Compacting
  <2>2. NoNewLive(p)
    BY <1>25 DEF NoNewLive, Live, CompactIndex, Compacting
  <2> QED BY <1>25, <2>1, <2>2, FilesKept, StepIsLocal, TypeStep
<1> QED BY <1>1, <1>2, <1>3, <1>4, <1>5, <1>6, <1>7, <1>8, <1>9, <1>10, <1>11, <1>12,
   <1>13, <1>14, <1>15, <1>16, <1>17, <1>18, <1>19, <1>20, <1>21, <1>22, <1>23,
   <1>24, <1>25 DEF Next, Request, Step

-----------------------------------------------------------------------------
(* Streams *)

\* Opening an index takes a process on to the next step of the create.
LEMMA IndexMoves ==
  ASSUME TypeInv, NEW p \in Procs, IndexSteps(p)
  PROVE  pc[p] = "database" /\ pc'[p] \in {"segment", "stores", "error"}
<1>1. CASE Return(p, "error")
  BY <1>1 DEF IndexSteps, Return, Goto, TypeInv, RequestInv
<1>2. ASSUME NEW o \in Owners, IndexTaken(p, o) PROVE pc'[p] \in {"segment", "stores"}
  BY <1>2 DEF IndexTaken, TypeInv, RequestInv
<1> QED BY <1>1, <1>2 DEF IndexSteps

\* A process inside a chunk holds the write guard of its handle.
LEMMA WriterStep ==
  ASSUME TypeInv, HandleInv, WriterInv, [Next]_vars
  PROVE  WriterInv'
<1> USE DEF TypeInv, TypeOK, RequestInv, WriterInv, Goto, Return, Early, Late,
   CreateSteps, StreamSteps, Finished
<1>1. ASSUME NEW p \in Procs, NEW n \in Names, NEW m \in Metas, StartCreate(p, n, m)
   PROVE WriterInv'
  BY <1>1 DEF StartCreate, Receive
<1>2. ASSUME NEW p \in Procs, MakeDir(p) PROVE WriterInv'
  BY <1>2 DEF MakeDir, MakesDir
<1>3. ASSUME NEW p \in Procs, WriteMeta(p) PROVE WriterInv'
  BY <1>3 DEF WriteMeta, SetFile
<1>4. ASSUME NEW p \in Procs, OpenFlat(p) PROVE WriterInv'
  <2>1. IndexSteps(p) /\ Local(p)
    BY <1>4, OpenFlatTakes, StepIsLocal
  <2>2. writer' = writer
    BY <2>1 DEF IndexSteps
  <2> QED BY <2>1, <2>2, IndexMoves DEF Local
<1>5. ASSUME NEW p \in Procs, CreateHnsw(p) PROVE WriterInv'
  <2>1. IndexSteps(p) /\ Local(p)
    BY <1>5, CreateHnswTakes, StepIsLocal
  <2>2. writer' = writer
    BY <2>1 DEF IndexSteps
  <2> QED BY <2>1, <2>2, IndexMoves DEF Local
<1>6. ASSUME NEW p \in Procs, CreateSegment(p) PROVE WriterInv'
  BY <1>6 DEF CreateSegment, SetFile
<1>7. ASSUME NEW p \in Procs, OpenStores(p) PROVE WriterInv'
  BY <1>7 DEF OpenStores, SetFile
<1>8. ASSUME NEW p \in Procs, Register(p) PROVE WriterInv'
  BY <1>8 DEF Register
<1>9. ASSUME NEW p \in Procs, NEW n \in Names, StartDrop(p, n) PROVE WriterInv'
  BY <1>9 DEF StartDrop, Receive
<1>10. ASSUME NEW p \in Procs, RemoveFile(p) PROVE WriterInv'
  BY <1>10 DEF RemoveFile, SetFile
<1>11. ASSUME NEW p \in Procs, RemoveDir(p) PROVE WriterInv'
  BY <1>11 DEF RemoveDir
<1>12. ASSUME NEW p \in Procs, NEW n \in Names, StartWrite(p, n) PROVE WriterInv'
  BY <1>12 DEF StartWrite, Receive, GetHandle
<1>13. ASSUME NEW p \in Procs, NEW n \in Names, StartRead(p, n) PROVE WriterInv'
  BY <1>13 DEF StartRead, Receive, GetHandle
<1>14. ASSUME NEW p \in Procs, Lock(p) PROVE WriterInv'
  <2>1. hold[p] \in Owners
    BY <1>14 DEF Lock, HandleInv, Registered
  <2>2. writer' = [writer EXCEPT ![hold[p]] = p] /\ writer[hold[p]] = None /\ hold' = hold
    BY <1>14 DEF Lock
  <2>3. \A q \in Procs \ {p} : pc'[q] = pc[q]
    BY <1>14 DEF Lock
  <2> QED BY <2>1, <2>2, <2>3, ServerAssumption
<1>15. ASSUME NEW p \in Procs, Apply(p) PROVE WriterInv'
  <2>1. hold[p] \in Owners /\ writer[hold[p]] = p
    BY <1>15 DEF Apply, Applies, HandleInv, Registered
  <2>2. hold' = hold /\ \A q \in Procs \ {p} : pc'[q] = pc[q]
    BY <1>15 DEF Apply, Applies
  <2>3. \/ pc'[p] = "next" /\ writer' = [writer EXCEPT ![hold[p]] = None]
        \/ writer' = writer
    BY <1>15 DEF Apply, Applies
  <2>4. ASSUME NEW q \in Procs, pc'[q] = "apply" PROVE writer'[hold'[q]] = q
    <3>1. CASE q = p
      BY <2>1, <2>2, <2>3, <2>4, <3>1
    <3>2. CASE q # p
      <4>1. writer[hold[q]] = q /\ hold[q] # hold[p]
        BY <2>1, <2>2, <2>4, <3>2
      <4>2. hold[q] \in Owners
        BY <2>2, <2>4, <3>2 DEF HandleInv, Registered
      <4> QED BY <2>1, <2>2, <2>3, <4>1, <4>2
    <3> QED BY <3>1, <3>2
  <2> QED BY <2>4
<1>16. ASSUME NEW p \in Procs, NextChunk(p) PROVE WriterInv'
  BY <1>16 DEF NextChunk, Continues
<1>17. ASSUME NEW p \in Procs, BadChunk(p) PROVE WriterInv'
  BY <1>17 DEF BadChunk
<1>18. ASSUME NEW p \in Procs, Read(p) PROVE WriterInv'
  BY <1>18 DEF Read, Reads
<1>19. ASSUME NEW p \in Procs, LifecycleFails(p) PROVE WriterInv'
  BY <1>19 DEF LifecycleFails, SetFile
<1>20. ASSUME NEW p \in Procs, ApplyFails(p) PROVE WriterInv'
  BY <1>20 DEF ApplyFails, AbandonsChunk
<1>21. ASSUME Crash PROVE WriterInv'
  BY <1>21 DEF Crash, Running
<1>22. ASSUME Restart PROVE WriterInv'
  BY <1>22 DEF Restart, Restarts
<1>23. CASE UNCHANGED vars
  BY <1>23 DEF vars
<1>24. ASSUME NEW p \in Procs, NEW n \in Names, StartCompact(p, n) PROVE WriterInv'
  BY <1>24 DEF StartCompact, Receive, GetHandle
<1>25. ASSUME NEW p \in Procs, CompactIndex(p) PROVE WriterInv'
  BY <1>25 DEF CompactIndex, Compacting
<1> QED BY <1>1, <1>2, <1>3, <1>4, <1>5, <1>6, <1>7, <1>8, <1>9, <1>10, <1>11, <1>12,
   <1>13, <1>14, <1>15, <1>16, <1>17, <1>18, <1>19, <1>20, <1>21, <1>22, <1>23,
   <1>24, <1>25 DEF Next, Request, Step

\* The last element of a range.
LEMMA LastOfRange == \A x \in Nat : \A j \in 1 .. (x + 1) : j \in 1 .. x \/ j = x + 1
OBVIOUS

\* The handle a stream or a read holds is not one that is being built.
LEMMA StreamHandleKept ==
  ASSUME TypeInv, HandleInv, NEW p \in Procs, Local(p), NEW q \in Procs \ {p},
         pc[q] \in StreamSteps
  PROVE  /\ hold'[q] = hold[q] /\ hold[q] \in Owners
         /\ handles'[hold[q]] = handles[hold[q]] /\ handles[hold[q]].db \in Owners
<1>1. Registered(hold[q], Name(q))
  BY DEF HandleInv
<1>2. hold[q] # p
  BY <1>1 DEF Registered, Local, Finished
<1> QED BY <1>1, <1>2 DEF Registered, Local, TypeInv, TypeOK

\* Contents are kept, dropped as a whole, or lose points whose streams then count
\* as cut, and never those a stream is writing.
ContentKept ==
    /\ cut \subseteq cut'
    /\ \A g \in Owners :
        \/ content'[g] = content[g]
        \/ /\ content'[g] \subseteq content[g]
           /\ content'[g] = {} \/ \A t \in content[g] : t \in content'[g] \/ t[1] \in cut'
           /\ \A q \in Procs : pc[q] = "apply" => handles[hold[q]].db # g

\* A step of a process that has no points and writes none.
LEMMA StreamsKept ==
  ASSUME TypeInv, TypeOK', HandleInv, StreamInv, NEW p \in Procs, Local(p), ContentKept,
         pc[p] # "apply", pc'[p] # "apply", seen' = seen,
         \A g \in Owners : \A t \in content[g] : t[1] # p
  PROVE  StreamInv'
<1>1. ASSUME NEW g \in Owners, NEW t \in content'[g]
      PROVE  /\ t \in content[g]
             /\ \A u \in content[g] : u \in content'[g] \/ u[1] \in cut'
             /\ t[1] \in Procs \ {p}
             /\ pc'[t[1]] = pc[t[1]] /\ req'[t[1]] = req[t[1]] /\ prog'[t[1]] = prog[t[1]]
  <2>1. /\ t \in content[g] /\ t[1] # p
        /\ \A u \in content[g] : u \in content'[g] \/ u[1] \in cut'
    BY <1>1 DEF ContentKept
  <2>2. t[1] \in Procs
    BY <2>1 DEF TypeInv, TypeOK, Tokens
  <2> QED BY <2>1, <2>2 DEF Local
<1>2. PointsBelong'
  <2> SUFFICES ASSUME NEW g \in Owners, NEW t \in content'[g]
               PROVE  /\ pc'[t[1]] # "ready" /\ req'[t[1]] \in WriteRequests
                      /\ t[2] <= prog'[t[1]].chunk
                      /\ pc'[t[1]] = "lock" => t[2] < prog'[t[1]].chunk
                      /\ pc'[t[1]] \in StreamSteps => g = handles'[hold'[t[1]]].db
    BY DEF PointsBelong, WriteRequests
  <2>1. pc'[t[1]] \in StreamSteps => g = handles'[hold'[t[1]]].db
    BY <1>1, StreamHandleKept DEF StreamInv, PointsBelong
  <2> QED BY <1>1, <2>1 DEF StreamInv, PointsBelong
<1>3. ChunkUnderWay'
  <2> SUFFICES ASSUME NEW q \in Procs, pc'[q] = "apply", NEW k \in 1 .. prog'[q].applied
               PROVE  <<q, prog'[q].chunk, k>> \in content'[handles'[hold'[q]].db]
    BY DEF ChunkUnderWay
  <2>1. q # p /\ pc[q] = "apply" /\ prog'[q] = prog[q]
    BY DEF Local
  <2>2. hold'[q] = hold[q] /\ handles'[hold[q]] = handles[hold[q]]
        /\ handles[hold[q]].db \in Owners
    BY <2>1, StreamHandleKept DEF StreamSteps
  <2>3. content'[handles[hold[q]].db] = content[handles[hold[q]].db]
    BY <2>1, <2>2 DEF ContentKept
  <2> QED BY <2>1, <2>2, <2>3 DEF StreamInv, ChunkUnderWay
<1>4. ChunksWhole'
  <2> SUFFICES ASSUME NEW g \in Owners, NEW t \in content'[g]
               PROVE  \/ t[1] \in cut'
                      \/ pc'[t[1]] = "apply" /\ t[2] = prog'[t[1]].chunk
                      \/ \A k \in 1 .. ChunkSize : <<t[1], t[2], k>> \in content'[g]
    BY DEF ChunksWhole
  <2>1. \/ t[1] \in cut
        \/ pc[t[1]] = "apply" /\ t[2] = prog[t[1]].chunk
        \/ \A k \in 1 .. ChunkSize : <<t[1], t[2], k>> \in content[g]
    BY <1>1 DEF StreamInv, ChunksWhole
  <2>2. cut \subseteq cut'
    BY DEF ContentKept
  <2> QED BY <1>1, <2>1, <2>2
<1>5. OneIncarnation'
  BY <1>1 DEF StreamInv, OneIncarnation
<1>6. ChunksAreAtomic'
  BY DEF StreamInv, ChunksAreAtomic, ContentKept
<1> QED BY <1>2, <1>3, <1>4, <1>5, <1>6 DEF StreamInv

\* Opening an index takes no point from a database that a stream is writing.
LEMMA IndexKeepsContent ==
  ASSUME TypeInv, HandleInv, FileInv, NEW p \in Procs, IndexSteps(p)
  PROVE  ContentKept
<1>1. CASE content' = content /\ cut' = cut
  BY <1>1 DEF ContentKept
<1>2. ASSUME NEW o \in Owners, IndexTaken(p, o) PROVE ContentKept
  <2>1. ASSUME NEW q \in Procs, pc[q] = "apply" PROVE handles[hold[q]].db # o
    <3>1. Registered(hold[q], Name(q))
      BY <2>1 DEF HandleInv, StreamSteps
    <3>2. CASE o = p
      <4>1. ~Opened(p)
        BY <1>2 DEF IndexSteps, Opened, Early
      <4> QED BY <3>1, <3>2, <4>1 DEF Registered, FileInv, HandlesAtHome
    <3>3. CASE ~InUse(o)
      BY <3>1, <3>3 DEF InUse, Live, Registered
    <3> QED BY <1>2, <3>2, <3>3 DEF IndexTaken
  <2>2. PICK old, new : Reopening(old, new) /\ old \cup new = {o}
    BY <1>2 DEF IndexTaken
  <2>3. cut \subseteq cut'
    BY <2>2 DEF Reopening
  <2>4. ASSUME NEW g \in Owners, g # o PROVE content'[g] = content[g]
    BY <2>2, <2>4 DEF Reopening
  <2>5. /\ content'[o] \subseteq content[o]
        /\ content'[o] = {} \/ \A t \in content[o] : t \in content'[o] \/ t[1] \in cut'
    BY <2>2 DEF Reopening
  <2> QED BY <2>1, <2>3, <2>4, <2>5 DEF ContentKept
<1> QED BY <1>1, <1>2 DEF IndexSteps

\* A stream moves on without writing: the steps around a chunk.
LEMMA StreamMoves ==
  ASSUME TypeInv, TypeOK', ProgressInv', HandleInv, StreamInv, NEW p \in Procs, Local(p),
         content' = content, seen' = seen, cut \subseteq cut',
         pc[p] \in StreamSteps, pc'[p] \in StreamSteps => hold'[p] = hold[p],
         handles' = handles, req' = req, pc'[p] # "ready",
         pc[p] = "apply" => pc'[p] = "error" /\ p \in cut',
         pc'[p] = "apply" => pc[p] = "lock" /\ prog' = prog,
         pc'[p] = "lock" => pc[p] = "next" /\ prog'[p].chunk = prog[p].chunk + 1,
         pc'[p] # "lock" => prog' = prog
  PROVE  StreamInv'
<1>1. \A g \in Owners : \A t \in content[g] : t[1] \in Procs /\ t[2] \in 1 .. MaxChunks
  BY DEF TypeInv, TypeOK, Tokens
<1>2. PointsBelong'
  <2> SUFFICES ASSUME NEW g \in Owners, NEW t \in content[g]
               PROVE  /\ pc'[t[1]] # "ready" /\ req[t[1]] \in WriteRequests
                      /\ t[2] <= prog'[t[1]].chunk
                      /\ pc'[t[1]] = "lock" => t[2] < prog'[t[1]].chunk
                      /\ pc'[t[1]] \in StreamSteps => g = handles[hold'[t[1]]].db
    BY DEF PointsBelong, WriteRequests
  <2>1. /\ pc[t[1]] # "ready" /\ req[t[1]] \in WriteRequests
        /\ t[2] <= prog[t[1]].chunk
        /\ pc[t[1]] = "lock" => t[2] < prog[t[1]].chunk
        /\ pc[t[1]] \in StreamSteps => g = handles[hold[t[1]]].db
    BY DEF StreamInv, PointsBelong
  <2>2. CASE t[1] # p
    BY <1>1, <2>1, <2>2 DEF Local
  <2>3. CASE t[1] = p
    <3>1. prog[p].chunk \in Nat /\ prog'[p].chunk \in Nat /\ t[2] \in Nat
      BY <1>1, ServerAssumption DEF TypeInv, ProgressInv
    <3> QED BY <2>1, <2>3, <3>1 DEF StreamSteps
  <2> QED BY <2>2, <2>3
<1>3. ChunkUnderWay'
  <2> SUFFICES ASSUME NEW q \in Procs, pc'[q] = "apply", NEW k \in 1 .. prog'[q].applied
               PROVE  <<q, prog'[q].chunk, k>> \in content[handles[hold'[q]].db]
    BY DEF ChunkUnderWay
  <2>1. CASE q = p
    <3>1. prog'[p].applied = 0
      BY <2>1 DEF TypeInv, ProgressInv
    <3> QED BY <2>1, <3>1
  <2>2. CASE q # p
    BY <2>2 DEF Local, StreamInv, ChunkUnderWay
  <2> QED BY <2>1, <2>2
<1>4. ChunksWhole'
  <2> SUFFICES ASSUME NEW g \in Owners, NEW t \in content[g]
               PROVE  \/ t[1] \in cut'
                      \/ pc'[t[1]] = "apply" /\ t[2] = prog'[t[1]].chunk
                      \/ \A k \in 1 .. ChunkSize : <<t[1], t[2], k>> \in content[g]
    BY DEF ChunksWhole
  <2>1. \/ t[1] \in cut
        \/ pc[t[1]] = "apply" /\ t[2] = prog[t[1]].chunk
        \/ \A k \in 1 .. ChunkSize : <<t[1], t[2], k>> \in content[g]
    BY DEF StreamInv, ChunksWhole
  <2> QED BY <1>1, <2>1 DEF Local
<1>5. OneIncarnation'
  BY DEF StreamInv, OneIncarnation
<1>6. ChunksAreAtomic'
  BY DEF StreamInv, ChunksAreAtomic
<1> QED BY <1>2, <1>3, <1>4, <1>5, <1>6 DEF StreamInv

\* Every step keeps the points of a stream in one database, whole chunk by whole
\* chunk, and a read sees whole chunks.
LEMMA StreamStep ==
  ASSUME TypeInv, HandleInv, FileInv, WriterInv, StreamInv, [Next]_vars
  PROVE  StreamInv'
<1> USE DEF TypeInv, TypeOK, RequestInv, CreateRequests, DropRequests, ReadRequests,
   Goto, Return, Early, Late, CreateSteps, StreamSteps, Finished
<1>1. ASSUME NEW p \in Procs, NEW n \in Names, NEW m \in Metas, StartCreate(p, n, m)
   PROVE StreamInv'
  <2>1. \A g \in Owners : \A t \in content[g] : t[1] # p
    BY <1>1 DEF Receive, StartCreate, StreamInv, PointsBelong
  <2>2. /\ ContentKept /\ cut' = cut /\ seen' = seen
        /\ pc[p] # "apply" /\ pc'[p] # "apply"
    BY <1>1 DEF ContentKept, StartCreate, Receive
  <2> QED BY <1>1, <2>1, <2>2, StreamsKept, StepIsLocal, TypeStep
<1>2. ASSUME NEW p \in Procs, MakeDir(p) PROVE StreamInv'
  <2>1. req[p] \notin WriteRequests
    BY <1>2 DEF MakeDir, MakesDir, WriteRequests
  <2>2. /\ ContentKept /\ cut' = cut /\ seen' = seen
        /\ pc[p] # "apply" /\ pc'[p] # "apply"
    BY <1>2 DEF ContentKept, MakeDir, MakesDir
  <2>3. \A g \in Owners : \A t \in content[g] : t[1] # p
    BY <2>1 DEF StreamInv, PointsBelong
  <2> QED BY <1>2, <2>2, <2>3, StreamsKept, StepIsLocal, TypeStep
<1>3. ASSUME NEW p \in Procs, WriteMeta(p) PROVE StreamInv'
  <2>1. req[p] \notin WriteRequests
    BY <1>3 DEF WriteMeta, WriteRequests
  <2>2. /\ ContentKept /\ cut' = cut /\ seen' = seen
        /\ pc[p] # "apply" /\ pc'[p] # "apply"
    BY <1>3 DEF ContentKept, WriteMeta
  <2>3. \A g \in Owners : \A t \in content[g] : t[1] # p
    BY <2>1 DEF StreamInv, PointsBelong
  <2> QED BY <1>3, <2>2, <2>3, StreamsKept, StepIsLocal, TypeStep
<1>4. ASSUME NEW p \in Procs, OpenFlat(p) PROVE StreamInv'
  <2>1. IndexSteps(p) /\ Local(p) /\ TypeOK'
    BY <1>4, OpenFlatTakes, StepIsLocal, TypeStep
  <2>2. req[p] \notin WriteRequests /\ seen' = seen
    BY <2>1 DEF IndexSteps, WriteRequests
  <2>3. \A g \in Owners : \A t \in content[g] : t[1] # p
    BY <2>2 DEF StreamInv, PointsBelong
  <2> QED BY <2>1, <2>2, <2>3, StreamsKept, IndexMoves, IndexKeepsContent
<1>5. ASSUME NEW p \in Procs, CreateHnsw(p) PROVE StreamInv'
  <2>1. IndexSteps(p) /\ Local(p) /\ TypeOK'
    BY <1>5, CreateHnswTakes, StepIsLocal, TypeStep
  <2>2. req[p] \notin WriteRequests /\ seen' = seen
    BY <2>1 DEF IndexSteps, WriteRequests
  <2>3. \A g \in Owners : \A t \in content[g] : t[1] # p
    BY <2>2 DEF StreamInv, PointsBelong
  <2> QED BY <2>1, <2>2, <2>3, StreamsKept, IndexMoves, IndexKeepsContent
<1>6. ASSUME NEW p \in Procs, CreateSegment(p) PROVE StreamInv'
  <2>1. req[p] \notin WriteRequests
    BY <1>6 DEF CreateSegment, WriteRequests
  <2>2. /\ ContentKept /\ cut' = cut /\ seen' = seen
        /\ pc[p] # "apply" /\ pc'[p] # "apply"
    BY <1>6 DEF ContentKept, CreateSegment
  <2>3. \A g \in Owners : \A t \in content[g] : t[1] # p
    BY <2>1 DEF StreamInv, PointsBelong
  <2> QED BY <1>6, <2>2, <2>3, StreamsKept, StepIsLocal, TypeStep
<1>7. ASSUME NEW p \in Procs, OpenStores(p) PROVE StreamInv'
  <2>1. req[p] \notin WriteRequests
    BY <1>7 DEF OpenStores, WriteRequests
  <2>2. /\ ContentKept /\ cut' = cut /\ seen' = seen
        /\ pc[p] # "apply" /\ pc'[p] # "apply"
    BY <1>7 DEF ContentKept, OpenStores
  <2>3. \A g \in Owners : \A t \in content[g] : t[1] # p
    BY <2>1 DEF StreamInv, PointsBelong
  <2> QED BY <1>7, <2>2, <2>3, StreamsKept, StepIsLocal, TypeStep
<1>8. ASSUME NEW p \in Procs, Register(p) PROVE StreamInv'
  <2>1. req[p] \notin WriteRequests
    BY <1>8 DEF Register, WriteRequests
  <2>2. /\ ContentKept /\ cut' = cut /\ seen' = seen
        /\ pc[p] # "apply" /\ pc'[p] # "apply"
    BY <1>8 DEF ContentKept, Register
  <2>3. \A g \in Owners : \A t \in content[g] : t[1] # p
    BY <2>1 DEF StreamInv, PointsBelong
  <2> QED BY <1>8, <2>2, <2>3, StreamsKept, StepIsLocal, TypeStep
<1>9. ASSUME NEW p \in Procs, NEW n \in Names, StartDrop(p, n) PROVE StreamInv'
  <2>1. \A g \in Owners : \A t \in content[g] : t[1] # p
    BY <1>9 DEF Receive, StartDrop, StreamInv, PointsBelong
  <2>2. /\ ContentKept /\ cut' = cut /\ seen' = seen
        /\ pc[p] # "apply" /\ pc'[p] # "apply"
    BY <1>9 DEF ContentKept, StartDrop, Receive
  <2> QED BY <1>9, <2>1, <2>2, StreamsKept, StepIsLocal, TypeStep
<1>10. ASSUME NEW p \in Procs, RemoveFile(p) PROVE StreamInv'
  <2>1. req[p] \notin WriteRequests
    BY <1>10 DEF RemoveFile, WriteRequests
  <2>2. /\ ContentKept /\ cut' = cut /\ seen' = seen
        /\ pc[p] # "apply" /\ pc'[p] # "apply"
    BY <1>10 DEF ContentKept, RemoveFile
  <2>3. \A g \in Owners : \A t \in content[g] : t[1] # p
    BY <2>1 DEF StreamInv, PointsBelong
  <2> QED BY <1>10, <2>2, <2>3, StreamsKept, StepIsLocal, TypeStep
<1>11. ASSUME NEW p \in Procs, RemoveDir(p) PROVE StreamInv'
  <2>1. req[p] \notin WriteRequests
    BY <1>11 DEF RemoveDir, WriteRequests
  <2>2. /\ ContentKept /\ cut' = cut /\ seen' = seen
        /\ pc[p] # "apply" /\ pc'[p] # "apply"
    BY <1>11 DEF ContentKept, RemoveDir
  <2>3. \A g \in Owners : \A t \in content[g] : t[1] # p
    BY <2>1 DEF StreamInv, PointsBelong
  <2> QED BY <1>11, <2>2, <2>3, StreamsKept, StepIsLocal, TypeStep
<1>12. ASSUME NEW p \in Procs, NEW n \in Names, StartWrite(p, n) PROVE StreamInv'
  <2>1. \A g \in Owners : \A t \in content[g] : t[1] # p
    BY <1>12 DEF Receive, StartWrite, StreamInv, PointsBelong
  <2>2. /\ ContentKept /\ cut' = cut /\ seen' = seen
        /\ pc[p] # "apply" /\ pc'[p] # "apply"
    BY <1>12 DEF ContentKept, StartWrite, Receive, GetHandle
  <2> QED BY <1>12, <2>1, <2>2, StreamsKept, StepIsLocal, TypeStep
<1>13. ASSUME NEW p \in Procs, NEW n \in Names, StartRead(p, n) PROVE StreamInv'
  <2>1. \A g \in Owners : \A t \in content[g] : t[1] # p
    BY <1>13 DEF Receive, StartRead, StreamInv, PointsBelong
  <2>2. /\ ContentKept /\ cut' = cut /\ seen' = seen
        /\ pc[p] # "apply" /\ pc'[p] # "apply"
    BY <1>13 DEF ContentKept, StartRead, Receive, GetHandle
  <2> QED BY <1>13, <2>1, <2>2, StreamsKept, StepIsLocal, TypeStep
<1>14. ASSUME NEW p \in Procs, Lock(p) PROVE StreamInv'
  <2>1. Local(p) /\ TypeOK' /\ ProgressInv'
    BY <1>14, StepIsLocal, TypeStep, ProgressStep
  <2>2. /\ content' = content /\ seen' = seen /\ cut \subseteq cut'
        /\ pc[p] \in StreamSteps /\ (pc'[p] \in StreamSteps => hold'[p] = hold[p])
        /\ handles' = handles /\ req' = req /\ pc'[p] # "ready"
        /\ pc[p] = "apply" => pc'[p] = "error" /\ p \in cut'
        /\ pc'[p] = "apply" => pc[p] = "lock" /\ prog' = prog
        /\ pc'[p] = "lock" => pc[p] = "next" /\ prog'[p].chunk = prog[p].chunk + 1
        /\ pc'[p] # "lock" => prog' = prog
    BY <1>14 DEF Lock, ProgressInv
  <2> QED BY <2>1, <2>2, StreamMoves
<1>15. ASSUME NEW p \in Procs, Apply(p) PROVE StreamInv'
  <2> DEFINE db == handles[hold[p]].db
             c == prog[p].chunk
             k == prog[p].applied + 1
  <2>1. /\ Local(p) /\ TypeOK' /\ db \in Owners /\ pc[p] = "apply"
        /\ req[p] \in WriteRequests /\ c \in 1 .. MaxChunks /\ k \in 1 .. ChunkSize
        /\ handles' = handles /\ hold' = hold /\ req' = req /\ UNCHANGED <<seen, cut>>
        /\ content' = [content EXCEPT ![db] = content[db] \cup {<<p, c, k>>}]
        /\ prog'[p].chunk = c /\ prog'[p].applied = k
        /\ \/ k = ChunkSize /\ pc'[p] = "next"
           \/ k # ChunkSize /\ pc'[p] = "apply"
    <3>1. Local(p) /\ TypeOK'
      BY <1>15, StepIsLocal, TypeStep
    <3>2. db \in Owners
      BY <1>15 DEF Apply, Applies, HandleInv, Registered
    <3>3. k \in 1 .. ChunkSize /\ c \in 1 .. MaxChunks
      BY <1>15, ServerAssumption DEF Apply, Applies, ProgressInv
    <3> QED BY <1>15, <3>1, <3>2, <3>3 DEF Apply, Applies, ProgressInv
  <2> HIDE DEF db, c, k
  <2>2. /\ \A g \in Owners : content[g] \subseteq content'[g]
        /\ \A g \in Owners : \A t \in content'[g] :
               t \in content[g] \/ (g = db /\ t = <<p, c, k>>)
        /\ <<p, c, k>> \in content'[db]
        /\ \A g \in Owners : \A t \in content[g] : t[1] \in Procs
    BY <2>1 DEF Tokens
  <2>3. PointsBelong'
    <3> SUFFICES ASSUME NEW g \in Owners, NEW t \in content'[g]
                 PROVE  /\ pc'[t[1]] # "ready" /\ req[t[1]] \in WriteRequests
                        /\ t[2] <= prog'[t[1]].chunk
                        /\ pc'[t[1]] = "lock" => t[2] < prog'[t[1]].chunk
                        /\ pc'[t[1]] \in StreamSteps => g = handles[hold[t[1]]].db
      BY <2>1 DEF PointsBelong, WriteRequests
    <3>1. CASE t \in content[g]
      BY <2>1, <2>2, <3>1 DEF StreamInv, PointsBelong, Local, c
    <3>2. CASE g = db /\ t = <<p, c, k>>
      BY <2>1, <3>2 DEF db
    <3> QED BY <2>2, <3>1, <3>2
  <2>4. ChunkUnderWay'
    <3> SUFFICES ASSUME NEW q \in Procs, pc'[q] = "apply", NEW i \in 1 .. prog'[q].applied
                 PROVE  <<q, prog'[q].chunk, i>> \in content'[handles[hold[q]].db]
      BY <2>1 DEF ChunkUnderWay
    <3>1. handles[hold[q]].db \in Owners /\ pc[q] = "apply"
      <4>1. pc[q] = "apply"
        BY <2>1 DEF Local
      <4> QED BY <4>1 DEF HandleInv, Registered
    <3>2. CASE q = p
      <4>1. i \in 1 .. prog[p].applied \/ i = k
        <5>1. prog[p].applied \in Nat
          BY ServerAssumption DEF ProgressInv
        <5>2. prog'[q].applied = prog[p].applied + 1 /\ k = prog[p].applied + 1
          BY <2>1, <3>2 DEF k
        <5>3. i \in 1 .. (prog[p].applied + 1)
          BY <5>2
        <5> QED BY <5>1, <5>2, <5>3, LastOfRange
      <4>2. i \in 1 .. prog[p].applied => <<p, c, i>> \in content[db]
        BY <3>1, <3>2 DEF StreamInv, ChunkUnderWay, c, db
      <4> QED BY <2>1, <2>2, <3>2, <4>1, <4>2 DEF db
    <3>3. CASE q # p
      <4>1. prog'[q] = prog[q]
        BY <3>3, <2>1 DEF Local
      <4>2. <<q, prog[q].chunk, i>> \in content[handles[hold[q]].db]
        BY <3>1, <4>1 DEF StreamInv, ChunkUnderWay
      <4> QED BY <2>2, <3>1, <4>1, <4>2
    <3> QED BY <3>2, <3>3
  <2>5. ChunksWhole'
    <3> SUFFICES ASSUME NEW g \in Owners, NEW t \in content'[g]
                 PROVE  \/ t[1] \in cut
                        \/ pc'[t[1]] = "apply" /\ t[2] = prog'[t[1]].chunk
                        \/ \A i \in 1 .. ChunkSize : <<t[1], t[2], i>> \in content'[g]
      BY <2>1 DEF ChunksWhole
    <3>1. CASE t[1] = p /\ t[2] = c
      <4>1. CASE pc'[p] = "apply"
        BY <2>1, <3>1, <4>1
      <4>2. CASE k = ChunkSize
        <5>1. g = db
          BY <2>1, <2>2, <3>1 DEF StreamInv, PointsBelong, StreamSteps, db
        <5>2. ASSUME NEW i \in 1 .. ChunkSize PROVE <<p, c, i>> \in content'[db]
          <6>1. i = k \/ i \in 1 .. prog[p].applied
            BY <4>2, LastOfRange DEF k, ProgressInv
          <6>2. i \in 1 .. prog[p].applied => <<p, c, i>> \in content[db]
            BY <2>1 DEF StreamInv, ChunkUnderWay, c, db
          <6> QED BY <2>1, <2>2, <6>1, <6>2
        <5> QED BY <3>1, <5>1, <5>2
      <4> QED BY <2>1, <4>1, <4>2
    <3>2. CASE ~(t[1] = p /\ t[2] = c)
      <4>1. t \in content[g] /\ t[1] \in Procs
        BY <2>2, <3>2
      <4>2. \/ t[1] \in cut
            \/ pc[t[1]] = "apply" /\ t[2] = prog[t[1]].chunk
            \/ \A i \in 1 .. ChunkSize : <<t[1], t[2], i>> \in content[g]
        BY <4>1 DEF StreamInv, ChunksWhole
      <4> QED BY <2>1, <2>2, <3>2, <4>1, <4>2 DEF Local, c
    <3> QED BY <3>1, <3>2
  <2>6. OneIncarnation'
    <3> SUFFICES ASSUME NEW g \in Owners, NEW h \in Owners, NEW s \in content'[g],
                        NEW t \in content'[h], s[1] = t[1]
                 PROVE  g = h
      BY DEF OneIncarnation
    <3>1. CASE s[1] = p
      <4>1. s \in content[g] => g = db
        BY <2>1, <3>1 DEF StreamInv, PointsBelong, db
      <4>2. t \in content[h] => h = db
        <5>1. t[1] = p
          BY <3>1
        <5> QED BY <2>1, <5>1 DEF StreamInv, PointsBelong, db
      <4> QED BY <2>2, <4>1, <4>2
    <3>2. CASE s[1] # p
      BY <2>2, <3>2 DEF StreamInv, OneIncarnation
    <3> QED BY <3>1, <3>2
  <2>7. ChunksAreAtomic'
    BY <2>1 DEF StreamInv, ChunksAreAtomic
  <2> QED BY <2>3, <2>4, <2>5, <2>6, <2>7 DEF StreamInv
<1>16. ASSUME NEW p \in Procs, NextChunk(p) PROVE StreamInv'
  <2>1. Local(p) /\ TypeOK' /\ ProgressInv'
    BY <1>16, StepIsLocal, TypeStep, ProgressStep
  <2>2. /\ content' = content /\ seen' = seen /\ cut \subseteq cut'
        /\ pc[p] \in StreamSteps /\ (pc'[p] \in StreamSteps => hold'[p] = hold[p])
        /\ handles' = handles /\ req' = req /\ pc'[p] # "ready"
        /\ pc[p] = "apply" => pc'[p] = "error" /\ p \in cut'
        /\ pc'[p] = "apply" => pc[p] = "lock" /\ prog' = prog
        /\ pc'[p] = "lock" => pc[p] = "next" /\ prog'[p].chunk = prog[p].chunk + 1
        /\ pc'[p] # "lock" => prog' = prog
    BY <1>16 DEF NextChunk, Continues, ProgressInv
  <2> QED BY <2>1, <2>2, StreamMoves
<1>17. ASSUME NEW p \in Procs, BadChunk(p) PROVE StreamInv'
  <2>1. Local(p) /\ TypeOK' /\ ProgressInv'
    BY <1>17, StepIsLocal, TypeStep, ProgressStep
  <2>2. /\ content' = content /\ seen' = seen /\ cut \subseteq cut'
        /\ pc[p] \in StreamSteps /\ (pc'[p] \in StreamSteps => hold'[p] = hold[p])
        /\ handles' = handles /\ req' = req /\ pc'[p] # "ready"
        /\ pc[p] = "apply" => pc'[p] = "error" /\ p \in cut'
        /\ pc'[p] = "apply" => pc[p] = "lock" /\ prog' = prog
        /\ pc'[p] = "lock" => pc[p] = "next" /\ prog'[p].chunk = prog[p].chunk + 1
        /\ pc'[p] # "lock" => prog' = prog
    BY <1>17 DEF BadChunk, ProgressInv
  <2> QED BY <2>1, <2>2, StreamMoves
<1>18. ASSUME NEW p \in Procs, Read(p) PROVE StreamInv'
  <2> DEFINE db == handles[hold[p]].db
  <2>1. /\ Local(p) /\ TypeOK' /\ pc[p] = "read" /\ writer[hold[p]] = None
        /\ hold[p] \in Owners /\ db \in Owners
        /\ content' = content /\ cut' = cut /\ pc'[p] \in {"ok", "error"}
        /\ req[p] \notin WriteRequests
    <3>1. Local(p) /\ TypeOK'
      BY <1>18, StepIsLocal, TypeStep
    <3>2. hold[p] \in Owners /\ db \in Owners
      BY <1>18 DEF Read, Reads, HandleInv, Registered
    <3>3. req[p] \notin WriteRequests
      BY <1>18 DEF Read, Reads, WriteRequests
    <3> QED BY <1>18, <3>1, <3>2, <3>3 DEF Read, Reads
  <2>2. \A r \in Procs : seen'[r] = content[db] \/ seen'[r] = seen[r]
    BY <1>18 DEF Read, Reads, ProgressInv
  <2>3. \A g \in Owners : \A t \in content[g] : t[1] \in Procs \ {p}
    BY <2>1 DEF StreamInv, PointsBelong, Tokens
  <2>4. ASSUME NEW t \in content[db], t[1] \notin cut, NEW k \in 1 .. ChunkSize
        PROVE  <<t[1], t[2], k>> \in content[db]
    <3>1. pc[t[1]] # "apply"
      <4> SUFFICES ASSUME pc[t[1]] = "apply" PROVE FALSE
        OBVIOUS
      <4>1. /\ db = handles[hold[t[1]]].db /\ t[1] \in Procs
            /\ hold[t[1]] \in Owners
        BY <2>1, <2>3 DEF StreamInv, PointsBelong, HandleInv, Registered
      <4>2. Live(hold[t[1]]) /\ Live(hold[p])
        BY <4>1 DEF Live
      <4>3. hold[t[1]] = hold[p]
        BY SMTT(30), <2>1, <4>1, <4>2, ServerAssumption DEF FileInv, OneHandlePerIndex, Owners
      <4> QED BY <2>1, <4>1, <4>3, ServerAssumption DEF WriterInv
    <3> QED BY <2>1, <2>4, <3>1 DEF StreamInv, ChunksWhole
  <2>5. ChunksAreAtomic'
    <3> SUFFICES ASSUME NEW r \in Procs, NEW t \in seen'[r], t[1] \notin cut,
                        NEW k \in 1 .. ChunkSize
                 PROVE  <<t[1], t[2], k>> \in seen'[r]
      BY <2>1 DEF ChunksAreAtomic
    <3> QED BY <2>2, <2>4 DEF StreamInv, ChunksAreAtomic
  <2>6. PointsBelong'
    <3> SUFFICES ASSUME NEW g \in Owners, NEW t \in content[g]
                 PROVE  /\ pc'[t[1]] # "ready" /\ req'[t[1]] \in WriteRequests
                        /\ t[2] <= prog'[t[1]].chunk
                        /\ pc'[t[1]] = "lock" => t[2] < prog'[t[1]].chunk
                        /\ pc'[t[1]] \in StreamSteps => g = handles'[hold'[t[1]]].db
      BY <2>1 DEF PointsBelong, WriteRequests
    <3>1. pc'[t[1]] \in StreamSteps => g = handles'[hold'[t[1]]].db
      <4> SUFFICES ASSUME pc'[t[1]] \in StreamSteps PROVE g = handles'[hold'[t[1]]].db
        OBVIOUS
      <4>1. t[1] \in Procs \ {p} /\ pc[t[1]] \in StreamSteps
        BY <2>1, <2>3 DEF Local
      <4>2. g = handles[hold[t[1]]].db
        BY <4>1 DEF StreamInv, PointsBelong
      <4> QED BY <2>1, <4>1, <4>2, StreamHandleKept
    <3> QED BY <2>1, <2>3, <3>1 DEF StreamInv, PointsBelong, Local
  <2>7. ChunkUnderWay'
    <3> SUFFICES ASSUME NEW q \in Procs, pc'[q] = "apply", NEW k \in 1 .. prog'[q].applied
                 PROVE  <<q, prog'[q].chunk, k>> \in content[handles'[hold'[q]].db]
      BY <2>1 DEF ChunkUnderWay
    <3>1. q # p /\ pc[q] = "apply" /\ prog'[q] = prog[q]
      BY <2>1 DEF Local
    <3> QED BY <2>1, <3>1, StreamHandleKept DEF StreamInv, ChunkUnderWay
  <2>8. OneIncarnation'
    BY <2>1 DEF StreamInv, OneIncarnation
  <2>9. ChunksWhole'
    <3> SUFFICES ASSUME NEW g \in Owners, NEW t \in content[g]
                 PROVE  \/ t[1] \in cut
                        \/ pc'[t[1]] = "apply" /\ t[2] = prog'[t[1]].chunk
                        \/ \A k \in 1 .. ChunkSize : <<t[1], t[2], k>> \in content[g]
      BY <2>1 DEF ChunksWhole
    <3>1. pc'[t[1]] = pc[t[1]] /\ prog'[t[1]] = prog[t[1]]
      BY <2>1, <2>3 DEF Local
    <3> QED BY <3>1 DEF StreamInv, ChunksWhole
  <2> QED BY <2>5, <2>6, <2>7, <2>8, <2>9 DEF StreamInv
<1>19. ASSUME NEW p \in Procs, LifecycleFails(p) PROVE StreamInv'
  <2>1. req[p] \notin WriteRequests
    BY <1>19 DEF LifecycleFails, WriteRequests
  <2>2. /\ ContentKept /\ cut' = cut /\ seen' = seen
        /\ pc[p] # "apply" /\ pc'[p] # "apply"
    BY <1>19 DEF ContentKept, LifecycleFails
  <2>3. \A g \in Owners : \A t \in content[g] : t[1] # p
    BY <2>1 DEF StreamInv, PointsBelong
  <2> QED BY <1>19, <2>2, <2>3, StreamsKept, StepIsLocal, TypeStep
<1>20. ASSUME NEW p \in Procs, ApplyFails(p) PROVE StreamInv'
  <2>1. Local(p) /\ TypeOK' /\ ProgressInv'
    BY <1>20, StepIsLocal, TypeStep, ProgressStep
  <2>2. /\ content' = content /\ seen' = seen /\ cut \subseteq cut'
        /\ pc[p] \in StreamSteps /\ (pc'[p] \in StreamSteps => hold'[p] = hold[p])
        /\ handles' = handles /\ req' = req /\ pc'[p] # "ready"
        /\ pc[p] = "apply" => pc'[p] = "error" /\ p \in cut'
        /\ pc'[p] = "apply" => pc[p] = "lock" /\ prog' = prog
        /\ pc'[p] = "lock" => pc[p] = "next" /\ prog'[p].chunk = prog[p].chunk + 1
        /\ pc'[p] # "lock" => prog' = prog
    BY <1>20 DEF ApplyFails, AbandonsChunk, ProgressInv
  <2> QED BY <2>1, <2>2, StreamMoves
<1>21. ASSUME Crash PROVE StreamInv'
  <2>1. /\ content' = content /\ seen' = seen /\ prog' = prog /\ req' = req
        /\ \A q \in Procs : /\ pc'[q] \notin StreamSteps
                            /\ pc[q] # "ready" => pc'[q] # "ready"
                            /\ pc[q] = "apply" \/ q \in cut => q \in cut'
    BY <1>21 DEF Crash, Running
  <2>2. \A g \in Owners : \A t \in content[g] : t[1] \in Procs
    BY DEF Tokens
  <2>3. PointsBelong' /\ ChunkUnderWay'
    BY <2>1, <2>2 DEF StreamInv, PointsBelong, ChunkUnderWay, WriteRequests
  <2>4. ChunksWhole'
    BY <2>1, <2>2 DEF StreamInv, ChunksWhole
  <2>5. OneIncarnation'
    BY <2>1 DEF StreamInv, OneIncarnation
  <2>6. ChunksAreAtomic'
    <3>1. \A r \in Procs : \A t \in seen[r] : t[1] \in Procs
      BY DEF ProgressInv, Tokens
    <3> QED BY <2>1, <3>1 DEF StreamInv, ChunksAreAtomic
  <2> QED BY <2>3, <2>4, <2>5, <2>6 DEF StreamInv
<1>22. ASSUME Restart PROVE StreamInv'
  <2>0. PICK stop \in [Names -> Stops] : RestartsAt(stop)
    BY <1>22, RestartAtStops
  <2>1. /\ UNCHANGED <<seen, prog, req, pc>> /\ cut \subseteq cut'
        /\ \A q \in Procs : pc[q] \notin StreamSteps
        /\ \A g \in Owners :
              /\ content'[g] \subseteq content[g]
              /\ content'[g] = {} \/ \A t \in content[g] : t \in content'[g] \/ t[1] \in cut'
    BY <2>0 DEF RestartsAt, Reopening
  <2>2. \A g \in Owners : \A t \in content[g] : t[1] \in Procs
    BY DEF Tokens
  <2>3. PointsBelong' /\ ChunkUnderWay'
    BY <2>1, <2>2 DEF StreamInv, PointsBelong, ChunkUnderWay, WriteRequests
  <2>4. ChunksWhole'
    <3> SUFFICES ASSUME NEW g \in Owners, NEW t \in content'[g]
                 PROVE  \/ t[1] \in cut'
                        \/ pc[t[1]] = "apply" /\ t[2] = prog[t[1]].chunk
                        \/ \A k \in 1 .. ChunkSize : <<t[1], t[2], k>> \in content'[g]
      BY <2>1 DEF ChunksWhole
    <3>1. t \in content[g] /\ \A u \in content[g] : u \in content'[g] \/ u[1] \in cut'
      BY <2>1
    <3> QED BY <2>1, <3>1 DEF StreamInv, ChunksWhole
  <2>5. OneIncarnation' /\ ChunksAreAtomic'
    BY <2>1 DEF StreamInv, OneIncarnation, ChunksAreAtomic
  <2> QED BY <2>3, <2>4, <2>5 DEF StreamInv
<1>23. CASE UNCHANGED vars
  BY <1>23 DEF vars, StreamInv, PointsBelong, ChunkUnderWay, ChunksWhole, OneIncarnation,
     ChunksAreAtomic, WriteRequests
<1>24. ASSUME NEW p \in Procs, NEW n \in Names, StartCompact(p, n) PROVE StreamInv'
  <2>1. \A g \in Owners : \A t \in content[g] : t[1] # p
    BY <1>24 DEF Receive, StartCompact, StreamInv, PointsBelong
  <2>2. /\ ContentKept /\ cut' = cut /\ seen' = seen
        /\ pc[p] # "apply" /\ pc'[p] # "apply"
    BY <1>24 DEF ContentKept, StartCompact, Receive, GetHandle
  <2> QED BY <1>24, <2>1, <2>2, StreamsKept, StepIsLocal, TypeStep
<1>25. ASSUME NEW p \in Procs, CompactIndex(p) PROVE StreamInv'
  <2>1. \A g \in Owners : \A t \in content[g] : t[1] # p
    BY <1>25 DEF CompactIndex, Compacting, StreamInv, PointsBelong, CompactRequests,
       WriteRequests
  <2>2. /\ ContentKept /\ cut' = cut /\ seen' = seen
        /\ pc[p] # "apply" /\ pc'[p] # "apply"
    BY <1>25 DEF ContentKept, CompactIndex, Compacting
  <2> QED BY <1>25, <2>1, <2>2, StreamsKept, StepIsLocal, TypeStep
<1> QED BY <1>1, <1>2, <1>3, <1>4, <1>5, <1>6, <1>7, <1>8, <1>9, <1>10, <1>11, <1>12,
   <1>13, <1>14, <1>15, <1>16, <1>17, <1>18, <1>19, <1>20, <1>21, <1>22, <1>23,
   <1>24, <1>25 DEF Next, Request, Step

-----------------------------------------------------------------------------
(* The invariant and what follows from it *)

Inv == TypeInv /\ HandleInv /\ FileInv /\ WriterInv /\ StreamInv

\* The invariant holds at the start.
LEMMA InitInv == Init => Inv
<1> SUFFICES ASSUME Init PROVE Inv
  OBVIOUS
<1> USE ServerAssumption
<1>1. PICK old \in [Names -> Metas \cup {None}] :
         /\ map = [n \in Names |-> IF old[n] = None THEN None ELSE n]
         /\ handles = [h \in Owners |->
                IF h \in Names /\ old[h] # None THEN [meta |-> old[h], db |-> h]
                ELSE [meta |-> None, db |-> None]]
         /\ dirs = [n \in Names |->
                IF old[n] = None THEN None
                ELSE LET db == [by |-> n, space |-> old[n].space]
                     IN  [meta |-> old[n], segment |-> old[n].space, stores |-> n,
                          catalog |-> IF old[n].type = "flat" THEN db ELSE None,
                          hnsw |-> IF old[n].type = "hnsw" THEN db ELSE None]]
  BY DEF Init
<1>2. /\ up = TRUE /\ writer = [h \in Owners |-> None] /\ content = [h \in Owners |-> {}]
      /\ pc = [p \in Procs |-> "ready"] /\ req = [p \in Procs |-> None]
      /\ hold = [p \in Procs |-> None]
      /\ prog = [p \in Procs |-> [chunk |-> 1, applied |-> 0]]
      /\ seen = [p \in Procs |-> {}] /\ unsure = {} /\ cut = {}
      /\ damage = [h \in Owners |-> "sound"]
  BY DEF Init
<1>3. TypeInv
  <2>1. dirs \in [Names -> Directories \cup {None}]
    BY <1>1 DEF Directories, Databases, Spaces, Owners
  <2>2. /\ map \in [Names -> Owners \cup {None}]
        /\ handles \in [Owners -> [meta : Metas \cup {None}, db : Owners \cup {None}]]
    BY <1>1 DEF Owners
  <2>3. TypeOK
    BY <1>2, <2>1, <2>2 DEF TypeOK
  <2>4. RequestInv
    BY <1>2 DEF RequestInv, CreateSteps, StreamSteps, Late, Finished
  <2>5. ProgressInv
    BY <1>2 DEF ProgressInv
  <2> QED BY <2>3, <2>4, <2>5 DEF TypeInv
<1>4. \A g \in Owners : handles[g].db # None => g \in Names /\ handles[g].db = g
  BY <1>1
<1>5. HandleInv
  <2>1. \A n \in Names : map[n] # None => map[n] = n /\ handles[n].db = n
    BY <1>1 DEF Owners
  <2> QED BY <1>2, <2>1 DEF HandleInv, Registered, Home, Owners, CreateSteps,
     StreamSteps, Late
<1>6. FileInv
  <2>1. HandlesAtHome
    BY <1>4 DEF HandlesAtHome, Opened, Home
  <2>2. FilesAtHome
    BY <1>1 DEF FilesAtHome, DbFiles, Opened, Home
  <2>3. OneHandlePerIndex
    BY <1>4 DEF OneHandlePerIndex
  <2> QED BY <2>1, <2>2, <2>3 DEF FileInv
<1>7. WriterInv /\ StreamInv
  BY <1>2 DEF WriterInv, StreamInv, PointsBelong, ChunkUnderWay, ChunksWhole,
     OneIncarnation,
     ChunksAreAtomic
<1> QED BY <1>3, <1>5, <1>6, <1>7 DEF Inv

\* Every step keeps the invariant.
LEMMA NextInv == Inv /\ [Next]_vars => Inv'
BY TypeStep, RequestStep, ProgressStep, HandleStep, FileStep, WriterStep, StreamStep
   DEF Inv, TypeInv

\* InvAlways: whatever requests interleave, fail or are cut off by a stop, handles,
\* files, guards and streams keep to the invariant of the registry.
THEOREM InvAlways == Spec => []Inv
BY InitInv, NextInv, PTL DEF Spec

\* TypeCorrect: the map, the handles, the directories and the contents have their types.
THEOREM TypeCorrect == Spec => []TypeOK
<1>1. Inv => TypeOK
  BY DEF Inv, TypeInv
<1> QED BY <1>1, InvAlways, PTL

\* AlwaysOneHandlePerIndex: no index database is open twice, however creates, drops
\* and restarts overlap (PersistentFlatIndex::open, PersistentHnswIndex::create and
\* the file lock of redb).
THEOREM AlwaysOneHandlePerIndex == Spec => []OneHandlePerIndex
<1>1. Inv => OneHandlePerIndex
  BY DEF Inv, FileInv
<1> QED BY <1>1, InvAlways, PTL

\* ChunksAlwaysAtomic: for every chunk size and number of streams, a read sees a chunk
\* as a whole or not at all, unless an error or a stop cut it (the write guard of
\* run_blocking against the read guard of run_blocking_read).
THEOREM ChunksAlwaysAtomic == Spec => []ChunksAreAtomic
<1>1. Inv => ChunksAreAtomic
  BY DEF Inv, StreamInv
<1> QED BY <1>1, InvAlways, PTL

\* StreamsStayInOneIncarnation: the handle looked up once by bulk_upsert keeps all
\* points of a stream in one incarnation of its collection.
THEOREM StreamsStayInOneIncarnation == Spec => []OneIncarnation
<1>1. Inv => OneIncarnation
  BY DEF Inv, StreamInv
<1> QED BY <1>1, InvAlways, PTL

-----------------------------------------------------------------------------
(* The directories of names that nothing has spoilt *)

\* A step that leaves the directory and the map entry of a name alone, and whose
\* process is not (or no longer) creating or dropping the name.
LEMMA NameKept ==
  ASSUME Inv, NEW p \in Procs, Local(p), NEW k \in Names, NameInv(k),
         dirs'[k] = dirs[k], map'[k] = map[k],
         ~(pc'[p] \in CreateSteps \cup {"removing"} /\ req'[p].name = k)
  PROVE  NameInv(k)'
<1>1. \A q \in Procs : (Creator(q, k)' => q # p /\ Creator(q, k))
                       /\ (Dropper(q, k)' => q # p /\ Dropper(q, k))
  BY DEF Creator, Dropper, Local
<1>2. \A q \in Procs \ {p} : pc'[q] = pc[q] /\ req'[q] = req[q] /\ handles'[q] = handles[q]
  BY DEF Local, Owners
<1>3. map[k] # None => map[k] \in Owners /\ handles'[map[k]] = handles[map[k]]
  BY DEF Inv, HandleInv, Registered, Local, Finished, Owners
<1>4. map'[k] # None => Complete(k, map[k])'
  BY <1>3 DEF NameInv, Complete, Holds, DbFile
<1>5. ASSUME NEW q \in Procs, Creator(q, k)' PROVE CreatorOK(q, k)'
  <2>1. q # p /\ Creator(q, k) /\ CreatorOK(q, k)
    BY <1>1, <1>5 DEF NameInv
  <2>2. Stage(q, k)'
    BY <1>2, <2>1 DEF CreatorOK, Stage, Holds, DbFile
  <2>3. \A r \in Procs : Creator(r, k)' => req'[r].meta = req'[q].meta
    BY <1>1, <1>2, <2>1 DEF CreatorOK
  <2>4. \A r \in Procs : ~Dropper(r, k)'
    BY <1>1, <2>1 DEF CreatorOK
  <2>5. map'[k] # None => handles'[map'[k]].meta = req'[q].meta
    BY <1>2, <1>3, <2>1 DEF CreatorOK
  <2> QED BY <2>2, <2>3, <2>4, <2>5 DEF CreatorOK
<1>6. ASSUME NEW q \in Procs, Dropper(q, k)' PROVE DropperOK(q, k)'
  <2>1. q # p /\ Dropper(q, k) /\ DropperOK(q, k)
    BY <1>1, <1>6 DEF NameInv
  <2> QED BY <1>1, <1>2, <2>1 DEF DropperOK, Present
<1> QED BY <1>4, <1>5, <1>6 DEF NameInv

\* While a create has the index of a name open nothing else does: the name is not
\* registered, and no other create of it has come as far.
LEMMA Exclusive ==
  ASSUME Inv, NEW p \in Procs, NEW n \in Names, NameInv(n), Creator(p, n), pc[p] \in Late
  PROVE  /\ map[n] = None
         /\ \A q \in Procs \ {p} : Creator(q, n) => pc[q] \notin Late
<1>1. /\ Holds(n, p) /\ handles[p].meta = req[p].meta /\ handles[p].db # None
      /\ p \in Owners /\ Live(p) /\ CreatorOK(p, n)
  BY DEF NameInv, CreatorOK, Stage, Inv, HandleInv, Live, Owners, CreateSteps
<1>2. ASSUME NEW h \in Owners, h # p, Live(h), Holds(n, h), handles[h].meta = req[p].meta
      PROVE  FALSE
  <2>1. handles[h].db = handles[p].db
    BY <1>1, <1>2 DEF Holds
  <2> QED BY <1>1, <1>2, <2>1 DEF Inv, FileInv, OneHandlePerIndex
<1>3. map[n] = None
  <2> SUFFICES ASSUME map[n] # None PROVE FALSE
    OBVIOUS
  <2>1. Complete(n, map[n]) /\ Registered(map[n], n) /\ handles[map[n]].meta = req[p].meta
    BY <1>1 DEF NameInv, CreatorOK, Inv, HandleInv
  <2>2. map[n] # p
    BY <2>1 DEF Registered, Late
  <2> QED BY <1>2, <2>1, <2>2 DEF Complete, Registered, Live
<1>4. ASSUME NEW q \in Procs \ {p}, Creator(q, n), pc[q] \in Late PROVE FALSE
  <2>1. Holds(n, q) /\ handles[q].meta = req[q].meta /\ req[q].meta = req[p].meta
    BY <1>1, <1>4 DEF NameInv, CreatorOK, Stage
  <2>2. q \in Owners /\ Live(q)
    BY <1>4 DEF Inv, HandleInv, Live, Owners, CreateSteps
  <2> QED BY <1>2, <2>1, <2>2
<1> QED BY <1>3, <1>4

\* One file of the directory is written for a create of the name: the others keep
\* what they rely on, and the create itself is at the stage it has reached.
LEMMA CreatorMoves ==
  ASSUME Inv, NEW p \in Procs, Local(p), NEW n \in Names, NameInv(n), Creator(p, n),
         map' = map, handles' = handles, req' = req, pc'[p] \in CreateSteps,
         dirs[n] # None => dirs'[n] # None,
         dirs[n] = None => pc[p] = "mkdir",
         dirs[n] # None => \A f \in DbFiles : dirs'[n][f] = dirs[n][f],
         dirs[n] # None => \/ dirs'[n].meta = dirs[n].meta
                           \/ dirs'[n].meta = req[p].meta,
         dirs[n] # None => \/ dirs'[n].segment = dirs[n].segment
                           \/ pc[p] \in Late /\ dirs'[n].segment = req[p].meta.space,
         Stage(p, n)'
  PROVE  NameInv(n)'
<1>1. CreatorOK(p, n) /\ \A q \in Procs \ {p} : pc'[q] = pc[q]
  BY DEF NameInv, Local
<1>2. \A q \in Procs : Creator(q, n)' => Creator(q, n)
  BY <1>1 DEF Creator
<1>3. \A q \in Procs : ~Dropper(q, n)'
  BY <1>1 DEF CreatorOK, Dropper, CreateSteps, Late
<1>4. map[n] # None => Complete(n, map[n])'
  <2> SUFFICES ASSUME map[n] # None PROVE Complete(n, map[n])'
    OBVIOUS
  <2>1. Complete(n, map[n]) /\ handles[map[n]].meta = req[p].meta /\ dirs[n] # None
    BY <1>1 DEF NameInv, CreatorOK, Complete, Holds
  <2>2. pc[p] \notin Late
    BY Exclusive
  <2> QED BY <2>1, <2>2 DEF Complete, Holds, DbFile, DbFiles
<1>5. ASSUME NEW q \in Procs, Creator(q, n)' PROVE CreatorOK(q, n)'
  <2>1. CreatorOK(q, n) /\ req[q].meta = req[p].meta
    BY <1>1, <1>2, <1>5 DEF NameInv, CreatorOK
  <2>2. Stage(q, n)'
    <3>1. CASE q = p
      BY <3>1
    <3>2. CASE q # p
      <4>1. pc[q] # "mkdir" => dirs[n] # None
        BY <2>1 DEF CreatorOK, Stage
      <4>2. pc[q] = "mkdir" \/ dirs[n] # None
        BY <4>1
      <4> QED BY <1>1, <2>1, <3>2, <4>2 DEF CreatorOK, Stage, Holds, DbFile, DbFiles, Late
    <3> QED BY <3>1, <3>2
  <2>3. \A r \in Procs : Creator(r, n)' => req'[r].meta = req'[q].meta
    BY <1>2, <2>1 DEF CreatorOK
  <2> QED BY <1>3, <2>1, <2>2, <2>3 DEF CreatorOK
<1> QED BY <1>3, <1>4, <1>5 DEF NameInv

\* The index of an unregistered name is opened.
LEMMA IndexKeepsName ==
  ASSUME Inv, NEW p \in Procs, Local(p), NEW n \in Names, NameInv(n), n = Name(p),
         IndexSteps(p), NEW o \in Owners, IndexTaken(p, o)
  PROVE  /\ NameInv(n)'
         /\ map[n] = None
<1> DEFINE m == req[p].meta
           f == DbFile(m)
<1>1. /\ Creator(p, n) /\ CreatorOK(p, n) /\ pc[p] = "database" /\ m \in Metas
      /\ UNCHANGED <<map, req, hold>> /\ p \in Owners
  BY DEF IndexSteps, IndexTaken, NameInv, Creator, CreateSteps, Name, CreateRequests,
     Owners
<1>2. /\ dirs[n] # None /\ dirs[n].meta = m
      /\ \A q \in Procs : ~Dropper(q, n)
      /\ \A q \in Procs : Creator(q, n) => req[q].meta = m
  BY <1>1 DEF CreatorOK, Stage
<1>3. /\ handles'[p] = [meta |-> m, db |-> o]
      /\ \A g \in Owners \ {p} : handles'[g] = handles[g]
      /\ dirs'[n] # None /\ dirs'[n][f] = [by |-> o, space |-> m.space]
      /\ \A g \in Files \ {f} : dirs'[n][g] = dirs[n][g]
      /\ \/ pc'[p] = "segment"
         \/ pc'[p] = "stores" /\ dirs'[n].segment = m.space
  BY <1>1, <1>2, NoneAssumption DEF IndexTaken, Ensured, Inv, TypeInv, TypeOK, RequestInv
<1>4. ASSUME NEW h \in Owners, h # p, Live(h), Holds(n, h), handles[h].meta = m
      PROVE  FALSE
  <2>1. dirs[n][f] # None /\ dirs[n][f].by = handles[h].db
    BY <1>4 DEF Holds
  <2>2. o = handles[h].db /\ ~InUse(o)
    BY <1>2, <2>1 DEF IndexTaken, Ensured
  <2> QED BY <1>4, <2>2 DEF InUse
<1>5. map[n] = None
  <2> SUFFICES ASSUME map[n] # None PROVE FALSE
    OBVIOUS
  <2>1. Complete(n, map[n]) /\ Registered(map[n], n) /\ handles[map[n]].meta = m
    BY <1>1 DEF NameInv, CreatorOK, Inv, HandleInv
  <2>2. map[n] # p
    BY <1>1, <2>1 DEF Registered
  <2> QED BY <1>4, <2>1, <2>2 DEF Complete, Registered, Live
<1>6. \A q \in Procs \ {p} : Creator(q, n) => pc[q] \notin Late
  <2> SUFFICES ASSUME NEW q \in Procs \ {p}, Creator(q, n), pc[q] \in Late PROVE FALSE
    OBVIOUS
  <2>1. Holds(n, q) /\ handles[q].meta = m
    BY <1>2 DEF NameInv, CreatorOK, Stage
  <2>2. q \in Owners /\ Live(q)
    BY DEF Inv, HandleInv, Live, Owners, CreateSteps
  <2> QED BY <1>4, <2>1, <2>2
<1>7. \A q \in Procs \ {p} : pc'[q] = pc[q]
  BY DEF Local
<1>8. \A q \in Procs : ~Dropper(q, n)'
  BY <1>1, <1>2, <1>3, <1>7 DEF Dropper
<1>9. ASSUME NEW q \in Procs, Creator(q, n)' PROVE CreatorOK(q, n)'
  <2>1. \A r \in Procs : Creator(r, n)' => req[r].meta = m
    BY <1>1, <1>2, <1>7 DEF Creator
  <2>2. Stage(q, n)'
    <3>1. CASE q = p
      <4>1. dirs'[n].meta = m
        BY <1>2, <1>3, FileNames DEF DbFile
      <4>2. Holds(n, p)' /\ dirs'[n][f].space = m.space
        <5>1. [by |-> o, space |-> m.space] \in Databases
          BY <1>1 DEF Databases, Spaces
        <5> QED BY <1>1, <1>3, <5>1, NoneAssumption DEF Holds
      <4> QED BY <1>1, <1>3, <3>1, <4>1, <4>2 DEF Stage, Late
    <3>2. CASE q # p
      <4>1. CreatorOK(q, n) /\ pc'[q] \notin Late /\ pc'[q] = pc[q] /\ req[q].meta = m
        BY <1>1, <1>2, <1>6, <1>7, <1>9, <3>2 DEF NameInv, Creator
      <4>2. dirs'[n].meta = m
        BY <1>2, <1>3, FileNames DEF DbFile
      <4> QED BY <1>1, <1>3, <4>1, <4>2 DEF Stage, Late
    <3> QED BY <3>1, <3>2
  <2> QED BY <1>1, <1>5, <1>8, <1>9, <2>1, <2>2 DEF CreatorOK
<1> QED BY <1>1, <1>5, <1>8, <1>9 DEF NameInv

\* Every step keeps what is promised of a name that it does not spoil.
LEMMA NameStep ==
  ASSUME Inv, NEW k \in Names, k \notin unsure', NameInv(k), [Next]_vars
  PROVE  NameInv(k)'
<1> USE DEF Inv, TypeInv, TypeOK, RequestInv, CreateRequests, DropRequests,
   WriteRequests, ReadRequests, Goto, Return, Early, Late, CreateSteps, StreamSteps,
   Finished
<1>1. ASSUME NEW p \in Procs, NEW n \in Names, NEW m \in Metas, StartCreate(p, n, m)
   PROVE NameInv(k)'
  <2>1. CASE map[n] # None \/ k # n
    <3>1. /\ dirs'[k] = dirs[k] /\ map'[k] = map[k]
          /\ ~(pc'[p] \in CreateSteps \cup {"removing"} /\ req'[p].name = k)
      BY <1>1, <2>1 DEF StartCreate, Receive
    <3> QED BY <1>1, <3>1, NameKept, StepIsLocal DEF Inv
  <2>2. CASE map[n] = None /\ k = n
    <3>1. /\ UNCHANGED <<map, dirs, handles>> /\ pc'[p] = "mkdir" /\ pc[p] = "ready"
          /\ req'[p].name = n /\ req'[p].meta = m
          /\ \A q \in Procs \ {p} : pc'[q] = pc[q] /\ req'[q] = req[q]
      BY <1>1, <2>2 DEF StartCreate, Receive
    <3>2. \A q \in Procs : ~Dropper(q, k) /\ (Creator(q, k) => req[q].meta = m)
      <4>1. ~\E q \in Procs : /\ Dropping(q) \/ (Creating(q) /\ req[q].meta # m)
                             /\ req[q].name = n
        BY <1>1, <2>2 DEF StartCreate
      <4> QED BY <2>2, <4>1, KindOfStep DEF Creator, Dropper
    <3>3. \A q \in Procs : ~Dropper(q, k)' /\ (Creator(q, k)' => req'[q].meta = m)
      BY <3>1, <3>2 DEF Creator, Dropper
    <3>4. ASSUME NEW q \in Procs, Creator(q, k)' PROVE Stage(q, k)'
      <4>1. CASE q = p
        BY <3>1, <4>1 DEF Stage
      <4>2. CASE q # p
        <5>1. Stage(q, k)
          BY <3>1, <3>4, <4>2 DEF NameInv, CreatorOK, Creator
        <5> QED BY <3>1, <4>2, <5>1 DEF Stage, Holds, DbFile
      <4> QED BY <4>1, <4>2
    <3> QED BY <2>2, <3>1, <3>3, <3>4 DEF NameInv, CreatorOK
  <2> QED BY <2>1, <2>2
<1>2. ASSUME NEW p \in Procs, MakeDir(p) PROVE NameInv(k)'
  <2>1. Name(p) \in Names /\ req[p].meta \in Metas /\ Creator(p, Name(p))
    BY <1>2 DEF MakeDir, MakesDir, Name, Creator
  <2>2. Local(p)
    BY <1>2, StepIsLocal
  <2>3. CASE pc'[p] = "error" \/ k # Name(p)
    <3>1. dirs'[k] = dirs[k] /\ map'[k] = map[k] /\ req'[p] = req[p]
      BY <1>2, <2>1, <2>3 DEF MakeDir, MakesDir, Dir, Name, SetFile
    <3> QED BY <2>2, <2>3, <3>1, NameKept DEF Inv, Name
  <2>4. CASE pc'[p] # "error" /\ k = Name(p)
    <3>1. /\ map' = map /\ handles' = handles /\ req' = req /\ pc[p] = "mkdir" /\ pc'[p] = "meta"
          /\ dirs'[k] = Ensured(dirs[k])
      BY <1>2, <2>4 DEF MakeDir, MakesDir
    <3>2. dirs'[k] # None /\ (dirs[k] # None => dirs'[k] = dirs[k])
      BY <3>1, EnsuredIsDirectory, NoneAssumption
    <3>3. Stage(p, k)'
      BY <3>1, <3>2 DEF Stage
    <3> QED BY <2>1, <2>2, <2>4, <3>1, <3>2, <3>3, CreatorMoves, FileNames DEF
       Edited, DbFiles
  <2> QED BY <2>3, <2>4
<1>3. ASSUME NEW p \in Procs, WriteMeta(p) PROVE NameInv(k)'
  <2>1. Name(p) \in Names /\ req[p].meta \in Metas /\ Creator(p, Name(p))
    BY <1>3 DEF WriteMeta, Name, Creator
  <2>2. Local(p)
    BY <1>3, StepIsLocal
  <2>3. CASE pc'[p] = "error" \/ k # Name(p)
    <3>1. dirs'[k] = dirs[k] /\ map'[k] = map[k] /\ req'[p] = req[p]
      BY <1>3, <2>1, <2>3 DEF WriteMeta, Dir, Name, SetFile
    <3> QED BY <2>2, <2>3, <3>1, NameKept DEF Inv, Name
  <2>4. CASE pc'[p] # "error" /\ k = Name(p)
    <3>1. /\ map' = map /\ handles' = handles /\ req' = req /\ pc[p] = "meta" /\ pc'[p] = "database"
          /\ Dir(p) # None /\ SetFile(p, "meta", req[p].meta)
      BY <1>3, <2>4 DEF WriteMeta
    <3>2. /\ Edited(k, "meta", req[p].meta) /\ dirs[k] # None /\ dirs'[k] # None
      <4>1. Edited(k, "meta", req[p].meta)
        BY <2>1, <2>4, <3>1, Editing, FileNames
      <4> QED BY <4>1, NoneAssumption DEF Edited
    <3>3. Stage(p, k)'
      <4>1. Stage(p, k)
        BY <2>1, <2>4 DEF NameInv, CreatorOK
      <4> QED BY <3>1, <3>2, <4>1, FileNames DEF Edited, Stage
    <3> QED BY SMTT(30), <2>1, <2>2, <2>4, <3>1, <3>2, <3>3, CreatorMoves, FileNames DEF
       Edited, DbFiles
  <2> QED BY <2>3, <2>4
<1>4. ASSUME NEW p \in Procs, OpenFlat(p) PROVE NameInv(k)'
  <2>1. IndexSteps(p) /\ Local(p)
    BY <1>4, OpenFlatTakes, StepIsLocal
  <2>2. Name(p) \in Names /\ map' = map /\ req' = req
    BY <2>1 DEF IndexSteps
  <2>3. CASE Return(p, "error") /\ UNCHANGED <<handles, dirs, content, damage, cut>>
    BY <2>1, <2>2, <2>3, NameKept DEF Inv
  <2>4. ASSUME NEW o \in Owners, IndexTaken(p, o) PROVE NameInv(k)'
    <3>1. CASE k = Name(p)
      BY <2>1, <2>4, <3>1, IndexKeepsName
    <3>2. CASE k # Name(p)
      <4>1. dirs'[k] = dirs[k]
        BY <2>4, <3>2 DEF IndexTaken
      <4> QED BY <2>1, <2>2, <3>2, <4>1, NameKept DEF Inv, Name
    <3> QED BY <3>1, <3>2
  <2> QED BY <2>1, <2>3, <2>4 DEF IndexSteps
<1>5. ASSUME NEW p \in Procs, CreateHnsw(p) PROVE NameInv(k)'
  <2>1. IndexSteps(p) /\ Local(p)
    BY <1>5, CreateHnswTakes, StepIsLocal
  <2>2. Name(p) \in Names /\ map' = map /\ req' = req
    BY <2>1 DEF IndexSteps
  <2>3. CASE Return(p, "error") /\ UNCHANGED <<handles, dirs, content, damage, cut>>
    BY <2>1, <2>2, <2>3, NameKept DEF Inv
  <2>4. ASSUME NEW o \in Owners, IndexTaken(p, o) PROVE NameInv(k)'
    <3>1. CASE k = Name(p)
      BY <2>1, <2>4, <3>1, IndexKeepsName
    <3>2. CASE k # Name(p)
      <4>1. dirs'[k] = dirs[k]
        BY <2>4, <3>2 DEF IndexTaken
      <4> QED BY <2>1, <2>2, <3>2, <4>1, NameKept DEF Inv, Name
    <3> QED BY <3>1, <3>2
  <2> QED BY <2>1, <2>3, <2>4 DEF IndexSteps
<1>6. ASSUME NEW p \in Procs, CreateSegment(p) PROVE NameInv(k)'
  <2>1. Name(p) \in Names /\ req[p].meta \in Metas /\ Creator(p, Name(p))
    BY <1>6 DEF CreateSegment, Name, Creator
  <2>2. Local(p)
    BY <1>6, StepIsLocal
  <2>3. CASE pc'[p] = "error" \/ k # Name(p)
    <3>1. dirs'[k] = dirs[k] /\ map'[k] = map[k] /\ req'[p] = req[p]
      BY <1>6, <2>1, <2>3 DEF CreateSegment, Dir, Name, SetFile
    <3> QED BY <2>2, <2>3, <3>1, NameKept DEF Inv, Name
  <2>4. CASE pc'[p] # "error" /\ k = Name(p)
    <3>1. /\ map' = map /\ handles' = handles /\ req' = req /\ pc[p] = "segment" /\ pc'[p] = "stores"
          /\ Dir(p) # None /\ SetFile(p, "segment", req[p].meta.space)
      BY <1>6, <2>4 DEF CreateSegment
    <3>2. /\ Edited(k, "segment", req[p].meta.space) /\ dirs[k] # None /\ dirs'[k] # None
      <4>1. Edited(k, "segment", req[p].meta.space)
        BY <2>1, <2>4, <3>1, Editing, FileNames DEF Spaces
      <4> QED BY <4>1, NoneAssumption DEF Edited
    <3>3. Stage(p, k)'
      <4>1. Stage(p, k)
        BY <2>1, <2>4 DEF NameInv, CreatorOK
      <4> QED BY <3>1, <3>2, <4>1, FileNames DEF Edited, Stage, Holds, DbFile
    <3> QED BY <2>1, <2>2, <2>4, <3>1, <3>2, <3>3, CreatorMoves, FileNames DEF
       Edited, DbFiles
  <2> QED BY <2>3, <2>4
<1>7. ASSUME NEW p \in Procs, OpenStores(p) PROVE NameInv(k)'
  <2>1. Name(p) \in Names /\ req[p].meta \in Metas /\ Creator(p, Name(p))
    BY <1>7 DEF OpenStores, Name, Creator
  <2>2. Local(p)
    BY <1>7, StepIsLocal
  <2>3. CASE pc'[p] = "error" \/ k # Name(p)
    <3>1. dirs'[k] = dirs[k] /\ map'[k] = map[k] /\ req'[p] = req[p]
      BY <1>7, <2>1, <2>3 DEF OpenStores, Dir, Name, SetFile
    <3> QED BY <2>2, <2>3, <3>1, NameKept DEF Inv, Name
  <2>4. CASE pc'[p] # "error" /\ k = Name(p)
    <3>1. /\ map' = map /\ handles' = handles /\ req' = req /\ pc[p] = "stores" /\ pc'[p] = "register"
          /\ Dir(p) # None /\ SetFile(p, "stores", (IF Dir(p).stores = None THEN p ELSE Dir(p).stores))
      BY <1>7, <2>4 DEF OpenStores
    <3>2. /\ Edited(k, "stores", (IF Dir(p).stores = None THEN p ELSE Dir(p).stores)) /\ dirs[k] # None /\ dirs'[k] # None
      <4>0. (IF Dir(p).stores = None THEN p ELSE Dir(p).stores) \in Owners
        BY <2>1, <3>1 DEF Dir, Directories, Owners
      <4>1. Edited(k, "stores", (IF Dir(p).stores = None THEN p ELSE Dir(p).stores))
        BY <2>1, <2>4, <3>1, Editing, FileNames, <4>0
      <4> QED BY <4>1, NoneAssumption DEF Edited
    <3>3. Stage(p, k)'
      <4>1. Stage(p, k)
        BY <2>1, <2>4 DEF NameInv, CreatorOK
      <4> QED BY <3>1, <3>2, <4>1, FileNames DEF Edited, Stage, Holds, DbFile
    <3> QED BY <2>1, <2>2, <2>4, <3>1, <3>2, <3>3, CreatorMoves, FileNames DEF
       Edited, DbFiles
  <2> QED BY <2>3, <2>4
<1>8. ASSUME NEW p \in Procs, Register(p) PROVE NameInv(k)'
  <2>1. /\ Name(p) \in Names /\ Creator(p, Name(p)) /\ pc[p] \in Late /\ pc[p] = "register"
        /\ UNCHANGED <<dirs, handles, req>> /\ pc'[p] = "ok" /\ p # None
        /\ map' = [map EXCEPT ![Name(p)] = p]
        /\ \A q \in Procs \ {p} : pc'[q] = pc[q]
    BY <1>8, ServerAssumption DEF Register, Name, Creator, Owners
  <2>2. CASE k # Name(p)
    BY <1>8, <2>1, <2>2, NameKept, StepIsLocal DEF Inv
  <2>3. CASE k = Name(p)
    <3>1. CreatorOK(p, k) /\ map'[k] = p
      BY <2>1, <2>3 DEF NameInv
    <3>2. Complete(k, p)'
      BY <2>1, <3>1 DEF CreatorOK, Stage, Complete, Holds, DbFile
    <3>3. \A q \in Procs : (Creator(q, k)' => q # p /\ Creator(q, k)) /\ ~Dropper(q, k)'
      BY <2>1, <3>1 DEF Creator, Dropper, CreatorOK
    <3>4. ASSUME NEW q \in Procs, Creator(q, k)' PROVE CreatorOK(q, k)'
      <4>1. q # p /\ CreatorOK(q, k) /\ req[q].meta = req[p].meta
        BY <3>1, <3>3, <3>4 DEF NameInv, CreatorOK
      <4>2. Stage(q, k)'
        BY <2>1, <4>1 DEF CreatorOK, Stage, Holds, DbFile
      <4>3. handles[p].meta = req[q].meta
        BY <2>1, <3>1, <4>1 DEF CreatorOK, Stage
      <4> QED BY <2>1, <3>1, <3>3, <4>1, <4>2, <4>3 DEF CreatorOK
    <3> QED BY <3>1, <3>2, <3>3, <3>4 DEF NameInv
  <2> QED BY <2>2, <2>3
<1>9. ASSUME NEW p \in Procs, NEW n \in Names, StartDrop(p, n) PROVE NameInv(k)'
  <2>1. CASE map[n] = None \/ k # n
    <3>1. /\ dirs'[k] = dirs[k] /\ map'[k] = map[k]
          /\ ~(pc'[p] \in CreateSteps \cup {"removing"} /\ req'[p].name = k)
      BY <1>9, <2>1 DEF StartDrop, Receive
    <3> QED BY <1>9, <3>1, NameKept, StepIsLocal DEF Inv
  <2>2. CASE map[n] # None /\ k = n
    <3>1. /\ UNCHANGED <<dirs, handles>> /\ map'[k] = None /\ pc[p] = "ready"
          /\ pc'[p] = "removing" /\ req'[p].left = Present(dirs[k])
          /\ \A q \in Procs \ {p} : pc'[q] = pc[q] /\ req'[q] = req[q]
      BY <1>9, <2>2 DEF StartDrop, Receive
    <3>2. \A q \in Procs : ~Creator(q, k)
      <4>1. ~\E q \in Procs : Creating(q) /\ Name(q) = n
        BY <1>9, <2>2 DEF StartDrop
      <4> QED BY <2>2, <4>1, KindOfStep DEF Creator, Name
    <3>3. dirs[k] # None /\ \A q \in Procs : ~Dropper(q, k)
      BY <2>2 DEF NameInv, Complete, Holds, DropperOK
    <3>4. \A q \in Procs : ~Creator(q, k)' /\ (Dropper(q, k)' => q = p)
      BY <3>1, <3>2, <3>3 DEF Creator, Dropper
    <3> QED BY <3>1, <3>3, <3>4 DEF NameInv, DropperOK, Present
  <2> QED BY <2>1, <2>2
<1>10. ASSUME NEW p \in Procs, RemoveFile(p) PROVE NameInv(k)'
  <2>1. /\ Name(p) \in Names /\ Dropper(p, Name(p)) /\ UNCHANGED <<map, handles, pc>>
        /\ \A q \in Procs : req'[q].name = req[q].name
        /\ \A q \in Procs \ {p} : req'[q] = req[q]
    BY <1>10 DEF RemoveFile, Dropper, Name
  <2>2. CASE k # Name(p)
    BY <1>10, <2>1, <2>2, NameKept, StepIsLocal DEF Inv, RemoveFile, SetFile, Name
  <2>3. CASE k = Name(p)
    <3>1. DropperOK(p, k) /\ \A q \in Procs : ~Creator(q, k)
      BY <2>1, <2>3 DEF NameInv, CreatorOK
    <3>2. PICK f \in Present(Dir(p)) :
             SetFile(p, f, None) /\ req' = [req EXCEPT ![p].left = @ \ {f}]
      BY <1>10 DEF RemoveFile
    <3>3. f \in Files /\ Dir(p) # None
      BY <3>2 DEF Present
    <3>4. Edited(k, f, None)
      BY <2>1, <2>3, <3>2, <3>3, Editing
    <3>5. dirs'[k] # None
      BY <3>4, NoneAssumption DEF Edited
    <3>6. Present(dirs'[k]) \subseteq Present(dirs[k]) \ {f}
      BY <3>4, <3>5 DEF Edited, Present
    <3>7. req'[p].left = req[p].left \ {f}
      BY <1>10, <3>2 DEF RemoveFile
    <3>8. Present(dirs'[k]) \subseteq req'[p].left
      BY <3>1, <3>6, <3>7 DEF DropperOK
    <3>9. \A q \in Procs : ~Creator(q, k)' /\ (Dropper(q, k)' => Dropper(q, k))
      BY <2>1, <3>1 DEF Creator, Dropper
    <3> QED BY <2>1, <3>1, <3>5, <3>8, <3>9 DEF NameInv, DropperOK, Present
  <2> QED BY <2>2, <2>3
<1>11. ASSUME NEW p \in Procs, RemoveDir(p) PROVE NameInv(k)'
  <2>1. /\ Name(p) \in Names /\ Dropper(p, Name(p)) /\ UNCHANGED <<map, req>>
        /\ pc'[p] \in {"ok", "error"} /\ \A q \in Procs \ {p} : pc'[q] = pc[q]
        /\ pc'[p] = "error" \/ k # Name(p) => dirs'[k] = dirs[k]
    BY <1>11 DEF RemoveDir, Dropper, Name
  <2>2. CASE pc'[p] = "error" \/ k # Name(p)
    BY <1>11, <2>1, <2>2, NameKept, StepIsLocal DEF Inv
  <2>3. CASE pc'[p] = "ok" /\ k = Name(p)
    <3>1. \A q \in Procs : ~Creator(q, k)' /\ ~Dropper(q, k)'
      BY <2>1, <2>3 DEF NameInv, CreatorOK, DropperOK, Creator, Dropper
    <3> QED BY <2>1, <2>3, <3>1 DEF NameInv, DropperOK
  <2> QED BY <2>1, <2>2, <2>3
<1>12. ASSUME NEW p \in Procs, NEW n \in Names, StartWrite(p, n) PROVE NameInv(k)'
  <2>1. /\ dirs'[k] = dirs[k] /\ map'[k] = map[k]
        /\ ~(pc'[p] \in CreateSteps \cup {"removing"} /\ req'[p].name = k)
    BY <1>12 DEF StartWrite, Receive, GetHandle
  <2> QED BY <1>12, <2>1, NameKept, StepIsLocal DEF Inv
<1>13. ASSUME NEW p \in Procs, NEW n \in Names, StartRead(p, n) PROVE NameInv(k)'
  <2>1. /\ dirs'[k] = dirs[k] /\ map'[k] = map[k]
        /\ ~(pc'[p] \in CreateSteps \cup {"removing"} /\ req'[p].name = k)
    BY <1>13 DEF StartRead, Receive, GetHandle
  <2> QED BY <1>13, <2>1, NameKept, StepIsLocal DEF Inv
<1>14. ASSUME NEW p \in Procs, Lock(p) PROVE NameInv(k)'
  <2>1. /\ dirs'[k] = dirs[k] /\ map'[k] = map[k]
        /\ ~(pc'[p] \in CreateSteps \cup {"removing"} /\ req'[p].name = k)
    BY <1>14 DEF Lock
  <2> QED BY <1>14, <2>1, NameKept, StepIsLocal DEF Inv
<1>15. ASSUME NEW p \in Procs, Apply(p) PROVE NameInv(k)'
  <2>1. /\ dirs'[k] = dirs[k] /\ map'[k] = map[k]
        /\ ~(pc'[p] \in CreateSteps \cup {"removing"} /\ req'[p].name = k)
    BY <1>15 DEF Apply, Applies
  <2> QED BY <1>15, <2>1, NameKept, StepIsLocal DEF Inv
<1>16. ASSUME NEW p \in Procs, NextChunk(p) PROVE NameInv(k)'
  <2>1. /\ dirs'[k] = dirs[k] /\ map'[k] = map[k]
        /\ ~(pc'[p] \in CreateSteps \cup {"removing"} /\ req'[p].name = k)
    BY <1>16 DEF NextChunk, Continues
  <2> QED BY <1>16, <2>1, NameKept, StepIsLocal DEF Inv
<1>17. ASSUME NEW p \in Procs, BadChunk(p) PROVE NameInv(k)'
  <2>1. /\ dirs'[k] = dirs[k] /\ map'[k] = map[k]
        /\ ~(pc'[p] \in CreateSteps \cup {"removing"} /\ req'[p].name = k)
    BY <1>17 DEF BadChunk
  <2> QED BY <1>17, <2>1, NameKept, StepIsLocal DEF Inv
<1>18. ASSUME NEW p \in Procs, Read(p) PROVE NameInv(k)'
  <2>1. /\ dirs'[k] = dirs[k] /\ map'[k] = map[k]
        /\ ~(pc'[p] \in CreateSteps \cup {"removing"} /\ req'[p].name = k)
    BY <1>18 DEF Read, Reads
  <2> QED BY <1>18, <2>1, NameKept, StepIsLocal DEF Inv
<1>19. ASSUME NEW p \in Procs, LifecycleFails(p) PROVE NameInv(k)'
  <2>1. /\ UNCHANGED <<map, req, handles>> /\ pc'[p] = "error"
        /\ \A q \in Procs \ {p} : pc'[q] = pc[q]
    BY <1>19 DEF LifecycleFails
  <2>2. CASE dirs'[k] = dirs[k]
    BY <1>19, <2>1, <2>2, NameKept, StepIsLocal DEF Inv
  <2>3. CASE WritingMeta(p) /\ SetFile(p, "meta", Torn) /\ k = Name(p) /\ ~Shared(p)
    <3>1. Creator(p, k) /\ CreatorOK(p, k)
      BY <2>3 DEF WritingMeta, Creator, Name, NameInv
    <3>2. map[k] = None /\ \A q \in Procs \ {p} : ~Creator(q, k)
      BY <2>3, KindOfStep DEF Shared, Creator, Name
    <3>3. \A q \in Procs : ~Creator(q, k)' /\ ~Dropper(q, k)'
      BY <2>1, <3>1, <3>2 DEF Creator, Dropper, CreatorOK
    <3> QED BY <2>1, <3>2, <3>3 DEF NameInv
  <2>4. WritingMeta(p) /\ SetFile(p, "meta", Torn) /\ k # Name(p) => dirs'[k] = dirs[k]
    BY DEF SetFile
  <2> QED BY <1>19, <2>2, <2>3, <2>4 DEF LifecycleFails
<1>20. ASSUME NEW p \in Procs, ApplyFails(p) PROVE NameInv(k)'
  <2>1. /\ dirs'[k] = dirs[k] /\ map'[k] = map[k]
        /\ ~(pc'[p] \in CreateSteps \cup {"removing"} /\ req'[p].name = k)
    BY <1>20 DEF ApplyFails, AbandonsChunk
  <2> QED BY <1>20, <2>1, NameKept, StepIsLocal DEF Inv
<1>21. ASSUME Crash PROVE NameInv(k)'
  <2>1. map'[k] = None /\ \A q \in Procs : pc'[q] \in {"ready"} \cup Finished
    BY <1>21, KindOfStep DEF Crash
  <2> QED BY <2>1 DEF NameInv, Creator, Dropper
<1>22. ASSUME Restart PROVE NameInv(k)'
  <2>1. \A q \in Procs : pc'[q] \in {"ready"} \cup Finished
    BY <1>22 DEF Restart, Restarts
  <2>2. map'[k] # None => Complete(k, map[k])'
    <3> SUFFICES ASSUME map'[k] # None PROVE Complete(k, map[k])'
      OBVIOUS
    <3>0. PICK stop \in [Names -> Stops] : RestartsAt(stop)
      BY <1>22, RestartAtStops
    <3>1. /\ Reopens(dirs[k]) /\ map'[k] = k /\ stop[k] = "never" /\ "never" \in Stops
          /\ dirs'[k] = AfterScan(k, "never") /\ dirs[k] # None
      BY <3>0 DEF RestartsAt, Loaded, Reopens, Stops
    <3>2. handles'[k] = [meta |-> dirs[k].meta,
                         db |-> IF Fresh(dirs[k]) THEN k ELSE Database(dirs[k]).by]
      BY <3>0, <3>1 DEF RestartsAt, Loaded, Owners
    <3>3. dirs[k] \in Directories /\ dirs[k].meta \in Metas
      BY <3>1 DEF Reopens
    <3>10. /\ dirs'[k] \in Directories /\ dirs'[k].meta = dirs[k].meta
           /\ dirs'[k].hnsw = dirs[k].hnsw
           /\ Fresh(dirs[k]) =>
                /\ dirs'[k].catalog = [by |-> k, space |-> dirs[k].meta.space]
                /\ dirs[k].segment = None => dirs'[k].segment = dirs[k].meta.space
           /\ ~Fresh(dirs[k]) => /\ dirs'[k].catalog = dirs[k].catalog
                                 /\ dirs'[k].segment = dirs[k].segment
      <4>1. "never" \in Stops /\ dirs[k] \in Directories \cup {None}
        BY <3>1, <3>3
      <4>2. LET d == AfterScan(k, "never")
            IN  /\ d \in Directories /\ d.meta = dirs[k].meta /\ d.hnsw = dirs[k].hnsw
                /\ Fresh(dirs[k]) =>
                     /\ d.catalog = [by |-> k, space |-> dirs[k].meta.space]
                     /\ dirs[k].segment = None => d.segment = dirs[k].meta.space
                /\ ~Fresh(dirs[k]) => /\ d.catalog = dirs[k].catalog
                                      /\ d.segment = dirs[k].segment
        BY <4>1, <3>1, ScannedDirectory
      <4> QED BY <3>1, <4>2
    <3>4. dirs'[k] # None
      BY <3>10, NoneAssumption
    <3>5. dirs'[k].meta = dirs[k].meta
      BY <3>10
    <3>6. LET db == dirs'[k][DbFile(dirs[k].meta)]
          IN  /\ db # None /\ db.by = handles'[k].db /\ dirs'[k].segment = db.space
              /\ dirs[k].meta.type = "flat" => dirs'[k].segment = dirs[k].meta.space
      <4>1. CASE dirs[k].meta.type = "flat"
        <5>1. CASE Fresh(dirs[k])
          <6>1. [by |-> k, space |-> dirs[k].meta.space] \in Databases
            BY <3>3 DEF Databases, Spaces, Owners
          <6> QED BY <3>1, <3>2, <3>3, <3>10, <4>1, <5>1, <6>1, NoneAssumption
                  DEF Reopens, Fresh, DbFile
        <5>2. CASE ~Fresh(dirs[k])
          <6>1. dirs'[k].catalog = dirs[k].catalog /\ dirs'[k].segment = dirs[k].segment
            BY <3>10, <5>2
          <6>2. /\ dirs[k].catalog # None /\ dirs[k].catalog.space = dirs[k].meta.space
                /\ dirs[k].segment = dirs[k].meta.space
            BY <3>1, <3>3, <4>1, <5>2 DEF Reopens, Fresh
          <6>3. handles'[k].db = dirs[k].catalog.by
            BY <3>2, <4>1, <5>2 DEF Database
          <6> QED BY <4>1, <6>1, <6>2, <6>3 DEF DbFile
        <5> QED BY <5>1, <5>2
      <4>2. CASE dirs[k].meta.type = "hnsw"
        <5>1. ~Fresh(dirs[k])
          BY <4>2 DEF Fresh
        <5>2. dirs'[k].hnsw = dirs[k].hnsw /\ dirs'[k].segment = dirs[k].segment
          BY <3>10, <5>1
        <5>3. dirs[k].hnsw # None /\ dirs[k].segment = dirs[k].hnsw.space
          BY <3>1, <4>2 DEF Reopens
        <5>4. handles'[k].db = dirs[k].hnsw.by
          BY <3>2, <4>2, <5>1 DEF Database
        <5> QED BY <4>2, <5>2, <5>3, <5>4 DEF DbFile
      <4> QED BY <3>3, <4>1, <4>2, ServerAssumption
    <3> QED BY <3>1, <3>2, <3>3, <3>4, <3>5, <3>6 DEF Complete, Holds
  <2> QED BY <2>1, <2>2 DEF NameInv, Creator, Dropper
<1>23. CASE UNCHANGED vars
  BY <1>23 DEF vars, NameInv, Complete, Holds, CreatorOK, DropperOK, Stage, Creator,
     Dropper,
     Present, DbFile
<1>24. ASSUME NEW p \in Procs, NEW n \in Names, StartCompact(p, n) PROVE NameInv(k)'
  <2>1. /\ dirs'[k] = dirs[k] /\ map'[k] = map[k]
        /\ ~(pc'[p] \in CreateSteps \cup {"removing"} /\ req'[p].name = k)
    BY <1>24 DEF StartCompact, Receive, GetHandle
  <2> QED BY <1>24, <2>1, NameKept, StepIsLocal DEF Inv
<1>25. ASSUME NEW p \in Procs, CompactIndex(p) PROVE NameInv(k)'
  <2>1. /\ dirs'[k] = dirs[k] /\ map'[k] = map[k]
        /\ ~(pc'[p] \in CreateSteps \cup {"removing"} /\ req'[p].name = k)
    BY <1>25 DEF CompactIndex, Compacting
  <2> QED BY <1>25, <2>1, NameKept, StepIsLocal DEF Inv
<1> QED BY <1>1, <1>2, <1>3, <1>4, <1>5, <1>6, <1>7, <1>8, <1>9, <1>10, <1>11, <1>12,
   <1>13, <1>14, <1>15, <1>16, <1>17, <1>18, <1>19, <1>20, <1>21, <1>22, <1>23,
   <1>24, <1>25 DEF Next, Request, Step

\* The index databases of a name are left alone or removed.
DbsKeptAt(k) ==
    dirs'[k] # None => \A f \in DbFiles : dirs'[k][f] # None =>
                          dirs[k] # None /\ dirs'[k][f] = dirs[k][f]

\* A name without points gets none while no point is written.
LEMMA EmptyStays ==
  ASSUME TypeInv, NEW k \in Names, DbsKeptAt(k), \A g \in Owners : content'[g] \subseteq content[g]
  PROVE  AllEmpty(k) => AllEmpty(k)'
<1>1. dirs[k] # None => \A f \in DbFiles : dirs[k][f] # None => dirs[k][f].by \in Owners
  BY DEF TypeInv, TypeOK, DbFiles, Directories, Databases
<1> QED BY <1>1 DEF AllEmpty, DbsKeptAt

\* A step that writes no points, starts no stream and lets no removal of the name end
\* leaves a name as empty as it was.
LEMMA EmptyKept ==
  ASSUME Inv, NEW p \in Procs, Local(p), NEW k \in Names, EmptyInv(k), DbsKeptAt(k),
         \A g \in Owners : content'[g] \subseteq content[g],
         map'[k] = map[k], Dropper(p, k) => Dropper(p, k)',
         pc'[p] \in StreamSteps => /\ pc[p] \in StreamSteps /\ req' = req
                                   /\ hold'[p] = hold[p] /\ handles' = handles
  PROVE  EmptyInv(k)'
<1>1. \A q \in Procs : Dropper(q, k) => Dropper(q, k)'
  BY DEF Local, Dropper
<1>2. AllEmpty(k) => AllEmpty(k)'
  BY EmptyStays DEF Inv
<1>3. ASSUME NEW q \in Procs, pc'[q] \in StreamSteps, req'[q].name = k
      PROVE  \/ map'[k] = hold'[q] \/ \E r \in Procs : Dropper(r, k)'
             \/ Away(k, handles[hold[q]].db)'
  <2>1. /\ pc[q] \in StreamSteps /\ req[q].name = k /\ hold'[q] = hold[q]
        /\ handles'[hold[q]] = handles[hold[q]]
    <3>1. CASE q = p
      BY <1>3, <3>1
    <3>2. CASE q # p
      BY <1>3, <3>2, StreamHandleKept DEF Local, Inv
    <3> QED BY <3>1, <3>2
  <2>2. \/ map[k] = hold[q] \/ \E r \in Procs : Dropper(r, k)
        \/ Away(k, handles[hold[q]].db)
    BY <2>1 DEF EmptyInv
  <2> QED BY <1>1, <2>1, <2>2 DEF Away, DbsKeptAt
<1>4. up' /\ map'[k] = None /\ (\A q \in Procs : ~Dropper(q, k)') => AllEmpty(k)'
  BY <1>1, <1>2 DEF EmptyInv, Local
<1>5. ~(~up')
  BY DEF Local
<1> QED BY <1>3, <1>4, <1>5 DEF EmptyInv

\* While no process drops an unregistered name, its directory is empty, and streams
\* that still hold an old handle of it write elsewhere.
LEMMA NobodyStored ==
  ASSUME Inv, NEW k \in Names, EmptyInv(k), up, map[k] = None,
         \A q \in Procs : ~Dropper(q, k)
  PROVE  /\ AllEmpty(k)
         /\ \A q \in Procs : pc[q] \in StreamSteps /\ req[q].name = k =>
               Away(k, handles[hold[q]].db)
<1>1. \A q \in Procs : pc[q] \in StreamSteps => hold[q] # None
  BY ServerAssumption DEF Inv, HandleInv, Registered, Owners
<1> QED BY <1>1 DEF EmptyInv

\* Opening the index of an unspoilt name leaves it empty.
LEMMA IndexKeepsEmpty ==
  ASSUME Inv, NEW p \in Procs, Local(p), NEW k \in Names, k = Name(p), NameInv(k), EmptyInv(k),
         IndexSteps(p), NEW o \in Owners, IndexTaken(p, o)
  PROVE  EmptyInv(k)'
<1> DEFINE f == DbFile(req[p].meta)
<1>1. /\ map[k] = None /\ map' = map /\ req' = req /\ hold' = hold
      /\ pc[p] = "database" /\ pc'[p] \in {"segment", "stores"}
  BY IndexKeepsName DEF IndexSteps, IndexTaken, Inv, TypeInv, RequestInv
<1>2. \A q \in Procs : ~Dropper(q, k)
  BY <1>1 DEF NameInv, CreatorOK, Creator, CreateSteps, Name
<1>3. /\ AllEmpty(k)
      /\ \A q \in Procs : pc[q] \in StreamSteps /\ req[q].name = k =>
            Away(k, handles[hold[q]].db)
  BY <1>1, <1>2, NobodyStored DEF Local
<1>4. f \in DbFiles /\ f \in Files
  BY FileNames DEF DbFile, DbFiles
<1>5. /\ dirs'[k] # None /\ dirs'[k][f].by = o
      /\ \A g \in DbFiles \ {f} : dirs'[k][g] # None => dirs[k] # None /\ dirs'[k][g] = dirs[k][g]
  <2>1. /\ dirs'[k] \in Directories /\ dirs'[k][f].by = o
        /\ \A g \in Files \ {f} : dirs'[k][g] = Ensured(dirs[k])[g]
    BY DEF IndexTaken
  <2> QED BY <2>1, FileNames, NoneAssumption DEF DbFiles, Ensured, EmptyDir
<1>6. content'[o] = {} /\ \A g \in Owners : content'[g] \subseteq content[g]
  <2>1. CASE Reopening({}, {o})
    BY <2>1 DEF Inv, TypeInv, TypeOK, Reopening
  <2>2. CASE Reopening({o}, {}) /\ dirs' = dirs
    <3>1. dirs[k] # None /\ dirs[k][f] # None /\ dirs[k][f].by = o
      <4>1. dirs'[k][f] = [by |-> o, space |-> req[p].meta.space]
        BY DEF IndexTaken
      <4>2. [by |-> o, space |-> req[p].meta.space] \in Databases
        BY DEF IndexSteps, CreateRequests, Databases, Spaces
      <4> QED BY <1>5, <2>2, <4>1, <4>2, NoneAssumption
    <3>2. \A g \in Owners : content'[g] \subseteq content[g]
      BY <2>2 DEF Reopening
    <3>3. content[o] = {}
      BY <1>3, <1>4, <3>1 DEF AllEmpty
    <3> QED BY <3>2, <3>3
  <2> QED BY <2>1, <2>2 DEF IndexTaken
<1>7. AllEmpty(k)'
  <2> SUFFICES ASSUME NEW g \in DbFiles, dirs'[k][g] # None PROVE content'[dirs'[k][g].by] = {}
    BY DEF AllEmpty
  <2>1. CASE g = f
    BY <1>5, <1>6, <2>1
  <2>2. CASE g # f
    <3>1. dirs[k] # None /\ dirs'[k][g] = dirs[k][g] /\ content[dirs[k][g].by] = {}
      BY <1>3, <1>5, <2>2 DEF AllEmpty
    <3>2. dirs[k][g].by \in Owners
      BY <3>1 DEF Inv, TypeInv, TypeOK, Directories, Databases, DbFiles
    <3> QED BY <1>6, <3>1, <3>2
  <2> QED BY <2>1, <2>2
<1>8. ASSUME NEW q \in Procs, pc'[q] \in StreamSteps, req'[q].name = k
      PROVE  Away(k, handles[hold[q]].db)'
  <2>1. q # p /\ pc[q] \in StreamSteps
    BY <1>1, <1>8 DEF Local, StreamSteps
  <2>2. /\ handles'[hold[q]] = handles[hold[q]] /\ hold[q] \in Owners
        /\ handles[hold[q]].db \in Owners
    BY <2>1, StreamHandleKept DEF Inv
  <2>3. Away(k, handles[hold[q]].db)
    BY <1>1, <1>3, <1>8, <2>1
  <2>4. o # handles[hold[q]].db
    <3>1. CASE o = p
      <4>1. ~Opened(p)
        BY <1>1 DEF Opened, Early
      <4>2. Opened(handles[hold[q]].db)
        BY <2>2, ServerAssumption DEF Inv, FileInv, HandlesAtHome, Owners
      <4> QED BY <3>1, <4>1, <4>2
    <3>2. CASE dirs[k] # None /\ dirs[k][f] # None /\ dirs[k][f].by = o
      BY <1>4, <2>3, <3>2 DEF Away
    <3> QED BY <3>1, <3>2 DEF IndexTaken
  <2> QED BY <1>1, <1>5, <2>2, <2>3, <2>4 DEF Away
<1> QED BY <1>7, <1>8 DEF EmptyInv, Local

\* A complete directory reopens with the database of its handle.
LEMMA CompleteReopens ==
  ASSUME NEW n \in Names, NEW h, Complete(n, h)
  PROVE  /\ Reopens(dirs[n]) /\ ~Fresh(dirs[n])
         /\ Database(dirs[n]).by = handles[h].db
BY ServerAssumption DEF Complete, Holds, Reopens, Fresh, Database, DbFile

\* A stop spoils the names that are being dropped and those whose metadata it tears
\* under a registered handle; of the others it leaves the databases.
CrashedAt(k) ==
    /\ \A q \in Procs : ~Dropper(q, k)
    /\ map[k] # None => dirs'[k] = dirs[k]
    /\ DbsKeptAt(k)

\* What a stop does to a name that it does not spoil.
LEMMA CrashAtName ==
  ASSUME TypeInv, NEW k \in Names, k \notin unsure', Crash
  PROVE  CrashedAt(k)
<1>1. PICK torn \in SUBSET {p \in Procs : WritingMeta(p)},
              broken \in SUBSET {p \in Procs : Compacting(p)} :
           LET dbs == {handles[hold[p]].db : p \in broken}
           IN  /\ dirs' = [n \in Names |-> IF \E p \in torn : Name(p) = n
                                           THEN Put(dirs[n], "meta", Torn) ELSE dirs[n]]
               /\ damage' = Misplaced(dbs)
               /\ unsure' = unsure \cup Holding(dbs) \cup {Name(p) : p \in {q \in Procs :
                                 Dropping(q) \/ (q \in torn /\ map[Name(q)] # None)}}
  BY DEF Crash
<1>2. \A q \in Procs : Dropping(q) \/ (q \in torn /\ map[Name(q)] # None) => Name(q) # k
  BY <1>1
<1>3. \A q \in Procs : ~Dropper(q, k)
  BY <1>2, KindOfStep DEF Dropper, Name, TypeInv
<1>4. CASE \E p \in torn : Name(p) = k
  <2>1. dirs[k] # None /\ dirs[k] \in Directories
    BY <1>4 DEF WritingMeta, Dir, TypeInv, TypeOK
  <2>2. dirs'[k] = Put(dirs[k], "meta", Torn)
    BY <1>1, <1>4
  <2>3. \A f \in Files \ {"meta"} : dirs'[k][f] = dirs[k][f]
    BY <2>1, <2>2, PutFile, FileNames
  <2> QED BY <1>2, <1>3, <1>4, <2>1, <2>3, FileNames DEF CrashedAt, DbsKeptAt, DbFiles
<1>5. CASE ~\E p \in torn : Name(p) = k
  BY <1>1, <1>3, <1>5 DEF CrashedAt, DbsKeptAt
<1> QED BY <1>4, <1>5

\* Every step leaves a name that it does not spoil as empty as the map says.
LEMMA EmptyStep ==
  ASSUME Inv, NEW k \in Names, k \notin unsure', NameInv(k), EmptyInv(k), [Next]_vars
  PROVE  EmptyInv(k)'
<1> USE DEF Inv, TypeInv, TypeOK, RequestInv, CreateRequests, DropRequests,
   WriteRequests, ReadRequests, Goto, Return, Early, Late, CreateSteps, StreamSteps,
   Finished
<1>1. ASSUME NEW p \in Procs, NEW n \in Names, NEW m \in Metas, StartCreate(p, n, m)
   PROVE EmptyInv(k)'
  <2>1. /\ map'[k] = map[k] /\ content' = content /\ pc'[p] # "removing" /\ ~Dropper(p, k)
        /\ pc'[p] \in StreamSteps => /\ pc[p] \in StreamSteps /\ req' = req
                                     /\ hold'[p] = hold[p] /\ handles' = handles
    BY <1>1 DEF StartCreate, Receive, Dropper
  <2>2. DbsKeptAt(k)
    BY <1>1 DEF StartCreate, Receive, DbsKeptAt
  <2> QED BY <1>1, <2>1, <2>2, EmptyKept, StepIsLocal DEF Inv
<1>2. ASSUME NEW p \in Procs, MakeDir(p) PROVE EmptyInv(k)'
  <2>1. /\ map' = map /\ content' = content /\ pc'[p] \notin StreamSteps /\ ~Dropper(p, k)
    BY <1>2 DEF MakeDir, MakesDir, Dropper
  <2>2. DbsKeptAt(k)
    BY <1>2 DEF MakeDir, MakesDir, DbsKeptAt, Ensured, EmptyDir, DbFiles
  <2> QED BY <1>2, <2>1, <2>2, EmptyKept, StepIsLocal DEF Inv
<1>3. ASSUME NEW p \in Procs, WriteMeta(p) PROVE EmptyInv(k)'
  <2>1. /\ map' = map /\ content' = content /\ pc'[p] \notin StreamSteps /\ ~Dropper(p, k)
    BY <1>3 DEF WriteMeta, Dropper
  <2>2. DbsKeptAt(k)
    <3>1. Name(p) \in Names /\ req[p].meta \in Metas
      BY <1>3 DEF WriteMeta, Name
    <3>2. dirs' = dirs \/ Edited(Name(p), "meta", req[p].meta)
      BY <1>3, <3>1, Editing, FileNames DEF WriteMeta, Spaces
    <3> QED BY <3>1, <3>2, FileNames DEF Edited, DbsKeptAt, DbFiles
  <2> QED BY <1>3, <2>1, <2>2, EmptyKept, StepIsLocal DEF Inv
<1>4. ASSUME NEW p \in Procs, OpenFlat(p) PROVE EmptyInv(k)'
  <2>1. IndexSteps(p) /\ Local(p)
    BY <1>4, OpenFlatTakes, StepIsLocal
  <2>2. /\ Name(p) \in Names /\ map' = map /\ req' = req
        /\ pc'[p] \notin StreamSteps /\ ~Dropper(p, k)
    BY <2>1, IndexMoves DEF IndexSteps, Dropper
  <2>3. CASE Return(p, "error") /\ UNCHANGED <<handles, dirs, content, damage, cut>>
    BY <2>1, <2>2, <2>3, EmptyKept DEF Inv, DbsKeptAt
  <2>4. ASSUME NEW o \in Owners, IndexTaken(p, o) PROVE EmptyInv(k)'
    <3>1. CASE k = Name(p)
      BY <2>1, <2>4, <3>1, IndexKeepsEmpty
    <3>2. CASE k # Name(p)
      <4>1. dirs'[k] = dirs[k] /\ \A g \in Owners : content'[g] \subseteq content[g]
        BY <2>4, <3>2 DEF IndexTaken, Reopening
      <4> QED BY <2>1, <2>2, <4>1, EmptyKept DEF Inv, DbsKeptAt
    <3> QED BY <3>1, <3>2
  <2> QED BY <2>1, <2>3, <2>4 DEF IndexSteps
<1>5. ASSUME NEW p \in Procs, CreateHnsw(p) PROVE EmptyInv(k)'
  <2>1. IndexSteps(p) /\ Local(p)
    BY <1>5, CreateHnswTakes, StepIsLocal
  <2>2. /\ Name(p) \in Names /\ map' = map /\ req' = req
        /\ pc'[p] \notin StreamSteps /\ ~Dropper(p, k)
    BY <2>1, IndexMoves DEF IndexSteps, Dropper
  <2>3. CASE Return(p, "error") /\ UNCHANGED <<handles, dirs, content, damage, cut>>
    BY <2>1, <2>2, <2>3, EmptyKept DEF Inv, DbsKeptAt
  <2>4. ASSUME NEW o \in Owners, IndexTaken(p, o) PROVE EmptyInv(k)'
    <3>1. CASE k = Name(p)
      BY <2>1, <2>4, <3>1, IndexKeepsEmpty
    <3>2. CASE k # Name(p)
      <4>1. dirs'[k] = dirs[k] /\ \A g \in Owners : content'[g] \subseteq content[g]
        BY <2>4, <3>2 DEF IndexTaken, Reopening
      <4> QED BY <2>1, <2>2, <4>1, EmptyKept DEF Inv, DbsKeptAt
    <3> QED BY <3>1, <3>2
  <2> QED BY <2>1, <2>3, <2>4 DEF IndexSteps
<1>6. ASSUME NEW p \in Procs, CreateSegment(p) PROVE EmptyInv(k)'
  <2>1. /\ map' = map /\ content' = content /\ pc'[p] \notin StreamSteps /\ ~Dropper(p, k)
    BY <1>6 DEF CreateSegment, Dropper
  <2>2. DbsKeptAt(k)
    <3>1. Name(p) \in Names /\ req[p].meta \in Metas
      BY <1>6 DEF CreateSegment, Name
    <3>2. dirs' = dirs \/ Edited(Name(p), "segment", req[p].meta.space)
      BY <1>6, <3>1, Editing, FileNames DEF CreateSegment, Spaces
    <3> QED BY <3>1, <3>2, FileNames DEF Edited, DbsKeptAt, DbFiles
  <2> QED BY <1>6, <2>1, <2>2, EmptyKept, StepIsLocal DEF Inv
<1>7. ASSUME NEW p \in Procs, OpenStores(p) PROVE EmptyInv(k)'
  <2>1. /\ map' = map /\ content' = content /\ pc'[p] \notin StreamSteps /\ ~Dropper(p, k)
    BY <1>7 DEF OpenStores, Dropper
  <2>2. DbsKeptAt(k)
    <3>1. Name(p) \in Names /\ req[p].meta \in Metas
      BY <1>7 DEF OpenStores, Name
    <3>0. Dir(p) # None => (IF Dir(p).stores = None THEN p ELSE Dir(p).stores) \in Owners
      BY <3>1 DEF Dir, Directories, Owners
    <3>2. dirs' = dirs \/ Edited(Name(p), "stores", (IF Dir(p).stores = None THEN p ELSE Dir(p).stores))
      BY <1>7, <3>1, Editing, FileNames, <3>0 DEF OpenStores, Spaces
    <3> QED BY <3>1, <3>2, FileNames DEF Edited, DbsKeptAt, DbFiles
  <2> QED BY <1>7, <2>1, <2>2, EmptyKept, StepIsLocal DEF Inv
<1>8. ASSUME NEW p \in Procs, Register(p) PROVE EmptyInv(k)'
  <2>1. /\ Name(p) \in Names /\ Creator(p, Name(p)) /\ pc[p] \in Late
        /\ UNCHANGED <<dirs, handles, req, content>> /\ pc'[p] = "ok" /\ p # None
        /\ map' = [map EXCEPT ![Name(p)] = p] /\ ~Dropper(p, k)
        /\ \A q \in Procs \ {p} : pc'[q] = pc[q] /\ hold'[q] = hold[q]
    BY <1>8, ServerAssumption DEF Register, Name, Creator, Owners, Dropper
  <2>2. CASE k # Name(p)
    BY <1>8, <2>1, <2>2, EmptyKept, StepIsLocal DEF Inv, DbsKeptAt
  <2>3. CASE k = Name(p)
    <3>1. map[k] = None /\ map'[k] # None /\ \A q \in Procs : ~Dropper(q, k)
      BY <2>1, <2>3, Exclusive DEF NameInv, CreatorOK
    <3>2. up /\ up'
      BY <1>8, StepIsLocal DEF Local
    <3>3. \A q \in Procs : pc[q] \in StreamSteps /\ req[q].name = k =>
             Away(k, handles[hold[q]].db)
      BY <3>1, <3>2, NobodyStored
    <3>4. ASSUME NEW q \in Procs, pc'[q] \in StreamSteps, req'[q].name = k
          PROVE  Away(k, handles[hold[q]].db)'
      BY <2>1, <3>3, <3>4 DEF Away
    <3> QED BY <3>1, <3>2, <3>4 DEF EmptyInv
  <2> QED BY <2>2, <2>3
<1>9. ASSUME NEW p \in Procs, NEW n \in Names, StartDrop(p, n) PROVE EmptyInv(k)'
  <2>1. /\ UNCHANGED <<dirs, handles, content>> /\ pc'[p] \notin StreamSteps /\ ~Dropper(p, k)
    BY <1>9 DEF StartDrop, Receive, Dropper
  <2>2. CASE map[n] = None \/ k # n
    <3>1. map'[k] = map[k]
      BY <1>9, <2>2 DEF StartDrop
    <3> QED BY <1>9, <2>1, <3>1, EmptyKept, StepIsLocal DEF Inv, DbsKeptAt
  <2>3. CASE map[n] # None /\ k = n
    <3>1. Dropper(p, k)' /\ up'
      BY <1>9, <2>3 DEF StartDrop, Receive, Dropper
    <3> QED BY <3>1 DEF EmptyInv
  <2> QED BY <2>2, <2>3
<1>10. ASSUME NEW p \in Procs, RemoveFile(p) PROVE EmptyInv(k)'
  <2>1. /\ map' = map /\ content' = content /\ pc'[p] \notin StreamSteps
        /\ Dropper(p, k) => Dropper(p, k)'
    BY <1>10 DEF RemoveFile, Dropper
  <2>2. DbsKeptAt(k)
    <3>1. Name(p) \in Names
      BY <1>10 DEF RemoveFile, Name
    <3>2. PICK f \in Present(Dir(p)) : SetFile(p, f, None)
      BY <1>10 DEF RemoveFile
    <3>3. f \in Files /\ Dir(p) # None
      BY <3>2 DEF Present
    <3>4. Edited(Name(p), f, None)
      BY <3>1, <3>2, <3>3, Editing
    <3> QED BY <3>4, FileNames DEF Edited, DbsKeptAt, DbFiles
  <2> QED BY <1>10, <2>1, <2>2, EmptyKept, StepIsLocal DEF Inv
<1>11. ASSUME NEW p \in Procs, RemoveDir(p) PROVE EmptyInv(k)'
  <2>1. /\ map' = map /\ content' = content /\ pc'[p] \notin StreamSteps
        /\ Name(p) \in Names /\ Dropper(p, Name(p)) /\ Dir(p) = dirs[Name(p)]
        /\ req[p].left \cap Present(Dir(p)) = {}
    BY <1>11 DEF RemoveDir, Dropper, Name, Dir
  <2>2. CASE k # Name(p)
    BY <1>11, <2>1, <2>2, EmptyKept, StepIsLocal DEF Inv, RemoveDir, DbsKeptAt,
       Dropper, Name
  <2>3. CASE k = Name(p)
    <3>1. dirs[k] # None /\ Present(dirs[k]) = {}
      BY <2>1, <2>3 DEF NameInv, DropperOK
    <3>2. dirs[k] \in Directories /\ \A f \in Files : dirs[k][f] = None
      BY <3>1 DEF Present
    <3>3. dirs[k] = EmptyDir
      BY <3>2, FileNames DEF Directories, EmptyDir
    <3>4. dirs'[k] = None /\ up'
      BY <1>11, <2>1, <2>3, <3>3, StepIsLocal DEF RemoveDir, Local
    <3> QED BY <3>4 DEF EmptyInv, AllEmpty, Away
  <2> QED BY <2>2, <2>3
<1>12. ASSUME NEW p \in Procs, NEW n \in Names, StartWrite(p, n) PROVE EmptyInv(k)'
  <2>1. /\ UNCHANGED <<map, dirs, handles, content>> /\ up /\ up'
        /\ pc[p] = "ready" /\ pc'[p] \in {"lock", "error"} /\ req'[p].name = n
        /\ pc'[p] = "lock" => hold'[p] = map[n]
        /\ \A q \in Procs \ {p} : pc'[q] = pc[q] /\ hold'[q] = hold[q] /\ req'[q] = req[q]
    BY <1>12 DEF StartWrite, Receive, GetHandle
  <2>2. \A q \in Procs : Dropper(q, k)' <=> Dropper(q, k)
    BY <2>1 DEF Dropper
  <2>3. AllEmpty(k)' <=> AllEmpty(k)
    BY <2>1 DEF AllEmpty
  <2>4. ASSUME NEW q \in Procs, pc'[q] \in StreamSteps, req'[q].name = k
        PROVE  \/ map'[k] = hold'[q] \/ \E r \in Procs : Dropper(r, k)'
               \/ Away(k, handles[hold[q]].db)'
    <3>1. CASE q = p
      BY <2>1, <2>4, <3>1
    <3>2. CASE q # p
      <4>1. \/ map[k] = hold[q] \/ \E r \in Procs : Dropper(r, k)
            \/ Away(k, handles[hold[q]].db)
        BY <2>1, <2>4, <3>2 DEF EmptyInv
      <4> QED BY <2>1, <2>2, <3>2, <4>1 DEF Away
    <3> QED BY <3>1, <3>2
  <2> QED BY <2>1, <2>2, <2>3, <2>4 DEF EmptyInv
<1>13. ASSUME NEW p \in Procs, NEW n \in Names, StartRead(p, n) PROVE EmptyInv(k)'
  <2>1. /\ map'[k] = map[k] /\ content' = content /\ pc'[p] # "removing" /\ ~Dropper(p, k)
        /\ pc'[p] \in StreamSteps => /\ pc[p] \in StreamSteps /\ req' = req
                                     /\ hold'[p] = hold[p] /\ handles' = handles
    BY <1>13 DEF StartRead, Receive, GetHandle, Dropper
  <2>2. DbsKeptAt(k)
    BY <1>13 DEF StartRead, Receive, GetHandle, DbsKeptAt
  <2> QED BY <1>13, <2>1, <2>2, EmptyKept, StepIsLocal DEF Inv
<1>14. ASSUME NEW p \in Procs, Lock(p) PROVE EmptyInv(k)'
  <2>0. pc[p] = "lock" /\ pc' = [pc EXCEPT ![p] = "apply"]
        /\ UNCHANGED <<map, content, req, hold, handles>>
    BY <1>14 DEF Lock, Goto
  <2>1. /\ map'[k] = map[k] /\ content' = content /\ pc'[p] # "removing" /\ ~Dropper(p, k)
        /\ pc'[p] \in StreamSteps => /\ pc[p] \in StreamSteps /\ req' = req
                                     /\ hold'[p] = hold[p] /\ handles' = handles
    BY <2>0 DEF Dropper, StreamSteps
  <2>2. DbsKeptAt(k)
    BY <1>14 DEF Lock, DbsKeptAt
  <2> QED BY <1>14, <2>1, <2>2, EmptyKept, StepIsLocal DEF Inv
<1>15. ASSUME NEW p \in Procs, Apply(p) PROVE EmptyInv(k)'
  <2> DEFINE db == handles[hold[p]].db
  <2>1. /\ UNCHANGED <<map, dirs, handles, req, hold>> /\ up'
        /\ pc'[p] # "removing" /\ pc[p] = "apply"
        /\ \A q \in Procs \ {p} : pc'[q] = pc[q]
        /\ \A g \in Owners \ {db} : content'[g] = content[g]
    <3>1. /\ UNCHANGED <<up, map, dirs, handles, req, hold>> /\ pc[p] = "apply"
          /\ pc' = [pc EXCEPT ![p] = "next"] \/ pc' = pc
          /\ content' = [content EXCEPT ![db] =
                             @ \cup {<<p, prog[p].chunk, prog[p].applied + 1>>}]
      BY <1>15 DEF Apply, Applies
    <3> HIDE DEF db
    <3>2. up' /\ pc'[p] # "removing" /\ \A q \in Procs \ {p} : pc'[q] = pc[q]
      BY <3>1
    <3> QED BY <3>1, <3>2
  <2>2. /\ hold[p] \in Owners /\ db \in Owners /\ Home(db) = Name(p) /\ hold[p] # None
    BY <2>1, ServerAssumption DEF HandleInv, Registered, FileInv, HandlesAtHome, Owners
  <2> HIDE DEF db
  <2>3. \A q \in Procs : /\ Dropper(q, k)' <=> Dropper(q, k)
                         /\ pc'[q] \in StreamSteps => pc[q] \in StreamSteps
    BY <2>1 DEF Dropper
  <2>4. ASSUME map'[k] = None, \A q \in Procs : ~Dropper(q, k)' PROVE AllEmpty(k)'
    <3>1. /\ map[k] = None /\ \A q \in Procs : ~Dropper(q, k)
          /\ up
      BY <1>15, <2>1, <2>3, <2>4, StepIsLocal DEF Local
    <3>2. AllEmpty(k)
      BY <3>1, NobodyStored DEF Inv
    <3>3. k = Name(p) => Away(k, db)
      BY <2>1, <3>1, NobodyStored DEF Inv, Name, db
    <3>4. Away(k, db)
      <4>1. CASE k # Name(p)
        BY <2>2, <4>1 DEF Away, FileInv, FilesAtHome
      <4> QED BY <3>3, <4>1
    <3>5. dirs[k] # None => \A f \in DbFiles : dirs[k][f] # None => dirs[k][f].by \in Owners
      BY DEF DbFiles, Directories, Databases
    <3> QED BY <2>1, <3>2, <3>4, <3>5 DEF AllEmpty, Away
  <2>5. ASSUME NEW q \in Procs, pc'[q] \in StreamSteps, req'[q].name = k
        PROVE  \/ map'[k] = hold'[q] \/ \E r \in Procs : Dropper(r, k)'
               \/ Away(k, handles[hold[q]].db)'
    <3>1. \/ map[k] = hold[q] \/ \E r \in Procs : Dropper(r, k)
          \/ Away(k, handles[hold[q]].db)
      BY <2>1, <2>3, <2>5 DEF EmptyInv
    <3> QED BY <2>1, <2>3, <3>1 DEF Away
  <2> QED BY <2>1, <2>4, <2>5 DEF EmptyInv
<1>16. ASSUME NEW p \in Procs, NextChunk(p) PROVE EmptyInv(k)'
  <2>1. /\ map'[k] = map[k] /\ content' = content /\ pc'[p] # "removing" /\ ~Dropper(p, k)
        /\ pc'[p] \in StreamSteps => /\ pc[p] \in StreamSteps /\ req' = req
                                     /\ hold'[p] = hold[p] /\ handles' = handles
    BY <1>16 DEF NextChunk, Continues, Dropper
  <2>2. DbsKeptAt(k)
    BY <1>16 DEF NextChunk, Continues, DbsKeptAt
  <2> QED BY <1>16, <2>1, <2>2, EmptyKept, StepIsLocal DEF Inv
<1>17. ASSUME NEW p \in Procs, BadChunk(p) PROVE EmptyInv(k)'
  <2>1. /\ map'[k] = map[k] /\ content' = content /\ pc'[p] # "removing" /\ ~Dropper(p, k)
        /\ pc'[p] \in StreamSteps => /\ pc[p] \in StreamSteps /\ req' = req
                                     /\ hold'[p] = hold[p] /\ handles' = handles
    BY <1>17 DEF BadChunk, Dropper
  <2>2. DbsKeptAt(k)
    BY <1>17 DEF BadChunk, DbsKeptAt
  <2> QED BY <1>17, <2>1, <2>2, EmptyKept, StepIsLocal DEF Inv
<1>18. ASSUME NEW p \in Procs, Read(p) PROVE EmptyInv(k)'
  <2>1. /\ map'[k] = map[k] /\ content' = content /\ pc'[p] # "removing" /\ ~Dropper(p, k)
        /\ pc'[p] \in StreamSteps => /\ pc[p] \in StreamSteps /\ req' = req
                                     /\ hold'[p] = hold[p] /\ handles' = handles
    BY <1>18 DEF Read, Reads, Dropper
  <2>2. DbsKeptAt(k)
    BY <1>18 DEF Read, Reads, DbsKeptAt
  <2> QED BY <1>18, <2>1, <2>2, EmptyKept, StepIsLocal DEF Inv
<1>19. ASSUME NEW p \in Procs, LifecycleFails(p) PROVE EmptyInv(k)'
  <2>1. /\ UNCHANGED <<map, content>> /\ pc'[p] = "error"
    BY <1>19 DEF LifecycleFails
  <2>2. ~Dropper(p, k)
    <3> SUFFICES ASSUME Dropper(p, k) PROVE FALSE
      OBVIOUS
    <3>1. Dropping(p) /\ Name(p) = k /\ ~WritingMeta(p)
      BY KindOfStep DEF Dropper, Name, WritingMeta
    <3> QED BY <1>19, <3>1 DEF LifecycleFails
  <2>3. DbsKeptAt(k)
    <3>1. CASE dirs' = dirs
      BY <3>1 DEF DbsKeptAt
    <3>2. CASE WritingMeta(p) /\ SetFile(p, "meta", Torn)
      <4>1. Name(p) \in Names
        BY <3>2 DEF WritingMeta, Name
      <4>2. Edited(Name(p), "meta", Torn)
        BY <3>2, <4>1, Editing, FileNames DEF WritingMeta
      <4> QED BY <4>2, FileNames DEF Edited, DbsKeptAt, DbFiles
    <3> QED BY <1>19, <3>1, <3>2 DEF LifecycleFails
  <2> QED BY <1>19, <2>1, <2>2, <2>3, EmptyKept, StepIsLocal DEF Inv
<1>20. ASSUME NEW p \in Procs, ApplyFails(p) PROVE EmptyInv(k)'
  <2>1. /\ map'[k] = map[k] /\ content' = content /\ pc'[p] # "removing" /\ ~Dropper(p, k)
        /\ pc'[p] \in StreamSteps => /\ pc[p] \in StreamSteps /\ req' = req
                                     /\ hold'[p] = hold[p] /\ handles' = handles
    BY <1>20 DEF ApplyFails, AbandonsChunk, Dropper
  <2>2. DbsKeptAt(k)
    BY <1>20 DEF ApplyFails, AbandonsChunk, DbsKeptAt
  <2> QED BY <1>20, <2>1, <2>2, EmptyKept, StepIsLocal DEF Inv
<1>21. ASSUME Crash PROVE EmptyInv(k)'
  <2>1. /\ up /\ up' = FALSE /\ content' = content
        /\ \A q \in Procs : pc'[q] \in {"ready"} \cup Finished
    BY <1>21, KindOfStep DEF Crash
  <2>2. CrashedAt(k)
    BY <1>21, CrashAtName
  <2>3. ASSUME ~Reopens(dirs[k])' PROVE AllEmpty(k)'
    <3>1. map[k] = None
      BY <2>2, <2>3, CompleteReopens DEF CrashedAt, NameInv
    <3>2. AllEmpty(k)
      BY <2>1, <2>2, <3>1 DEF CrashedAt, EmptyInv
    <3> QED BY <2>1, <2>2, <3>2, EmptyStays DEF CrashedAt
  <2> QED BY <2>1, <2>3 DEF EmptyInv
<1>22. ASSUME Restart PROVE EmptyInv(k)'
  <2>0. PICK stop \in [Names -> Stops] : RestartsAt(stop)
    BY <1>22, RestartAtStops
  <2>1. /\ ~up /\ up' = TRUE /\ dirs'[k] = AfterScan(k, stop[k]) /\ stop[k] \in Stops
        /\ \A q \in Procs : pc'[q] \in {"ready"} \cup Finished
        /\ \A g \in Owners : content'[g] \subseteq content[g]
        /\ Fresh(dirs[k]) /\ stop[k] # "index" => content'[k] = {}
    BY <2>0 DEF RestartsAt, Reopening, New, Owners
  <2>6. map'[k] = None => ~Reopens(dirs[k])
    BY <2>0, ServerAssumption DEF RestartsAt, Loaded
  <2>2. ASSUME map'[k] = None PROVE AllEmpty(k)'
    <3>1. AllEmpty(k) /\ dirs[k] \in Directories \cup {None}
      BY <2>1, <2>2, <2>6 DEF EmptyInv
    <3>2. CASE ~Fresh(dirs[k]) \/ stop[k] = "index"
      <4>1. dirs'[k] # None => /\ dirs[k] # None /\ dirs'[k].catalog = dirs[k].catalog
                              /\ dirs'[k].hnsw = dirs[k].hnsw
        <5>1. LET d == AfterScan(k, stop[k])
              IN  /\ dirs[k] = None => d = None
                  /\ dirs[k] # None => d.catalog = dirs[k].catalog /\ d.hnsw = dirs[k].hnsw
          BY ZenonT(40), <2>1, <3>1, <3>2, ScannedDirectory
        <5> QED BY <2>1, <5>1
      <4> QED BY <2>1, <3>1, <4>1, EmptyStays DEF DbsKeptAt, DbFiles
    <3>3. CASE Fresh(dirs[k]) /\ stop[k] # "index"
      <4>1. /\ dirs[k] # None /\ dirs'[k].catalog = [by |-> k, space |-> dirs[k].meta.space]
            /\ dirs'[k].hnsw = dirs[k].hnsw
        <5>1. dirs[k] # None
          BY <3>3 DEF Fresh
        <5>2. LET d == AfterScan(k, stop[k])
              IN  d.catalog = [by |-> k, space |-> dirs[k].meta.space] /\ d.hnsw = dirs[k].hnsw
          BY <2>1, <3>1, <3>3, <5>1, ScannedDirectory
        <5> QED BY <2>1, <5>1, <5>2
      <4>2. dirs[k].hnsw # None => content'[dirs[k].hnsw.by] = {}
        <5>1. dirs[k].hnsw # None => dirs[k].hnsw.by \in Owners /\ content[dirs[k].hnsw.by] = {}
          BY <3>1, <4>1 DEF Directories, Databases, AllEmpty, DbFiles
        <5> QED BY <2>1, <5>1
      <4>3. dirs'[k].catalog.by = k /\ content'[k] = {}
        BY <2>1, <3>3, <4>1
      <4>4. \A f \in DbFiles : dirs'[k][f] # None => content'[dirs'[k][f].by] = {}
        BY <4>1, <4>2, <4>3 DEF DbFiles
      <4> QED BY <4>4 DEF AllEmpty
    <3> QED BY <3>2, <3>3
  <2> QED BY <2>1, <2>2 DEF EmptyInv
<1>23. CASE UNCHANGED vars
  BY <1>23 DEF vars, EmptyInv, AllEmpty, Away, Dropper, Reopens
<1>24. ASSUME NEW p \in Procs, NEW n \in Names, StartCompact(p, n) PROVE EmptyInv(k)'
  <2>1. /\ map'[k] = map[k] /\ content' = content /\ pc'[p] # "removing" /\ ~Dropper(p, k)
        /\ pc'[p] \in StreamSteps => /\ pc[p] \in StreamSteps /\ req' = req
                                     /\ hold'[p] = hold[p] /\ handles' = handles
    BY <1>24 DEF StartCompact, Receive, GetHandle, Dropper
  <2>2. DbsKeptAt(k)
    BY <1>24 DEF StartCompact, Receive, GetHandle, DbsKeptAt
  <2> QED BY <1>24, <2>1, <2>2, EmptyKept, StepIsLocal DEF Inv
<1>25. ASSUME NEW p \in Procs, CompactIndex(p) PROVE EmptyInv(k)'
  <2>1. /\ map'[k] = map[k] /\ content' = content /\ pc'[p] # "removing" /\ ~Dropper(p, k)
        /\ pc'[p] \in StreamSteps => /\ pc[p] \in StreamSteps /\ req' = req
                                     /\ hold'[p] = hold[p] /\ handles' = handles
    BY <1>25 DEF CompactIndex, Compacting, Dropper
  <2>2. DbsKeptAt(k)
    BY <1>25 DEF CompactIndex, Compacting, DbsKeptAt
  <2> QED BY <1>25, <2>1, <2>2, EmptyKept, StepIsLocal DEF Inv
<1> QED BY <1>1, <1>2, <1>3, <1>4, <1>5, <1>6, <1>7, <1>8, <1>9, <1>10, <1>11, <1>12,
   <1>13, <1>14, <1>15, <1>16, <1>17, <1>18, <1>19, <1>20, <1>21, <1>22, <1>23,
   <1>24, <1>25 DEF Next, Request, Step

\* While no database is added and none misplaced, a sound name stays so.
LEMMA SoundKept ==
  ASSUME TypeInv, NEW k \in Names, DbsKeptAt(k), SoundAt(k),
         \A o \in Owners : damage[o] # "misplaced" => damage'[o] # "misplaced"
  PROVE  SoundAt(k)'
<1>1. dirs[k] # None => \A f \in DbFiles : dirs[k][f] # None => dirs[k][f].by \in Owners
  BY DEF TypeInv, TypeOK, DbFiles, Directories, Databases
<1> QED BY <1>1 DEF SoundAt, DbsKeptAt

\* Databases are misplaced only under names that are unsure from then on.
LEMMA MisplacedElsewhere ==
  ASSUME TypeInv, NEW k \in Names, SoundAt(k), DbsKeptAt(k), NEW dbs,
         damage' = Misplaced(dbs), k \notin Holding(dbs)
  PROVE  SoundAt(k)'
<1>1. dirs[k] # None => \A f \in DbFiles : dirs[k][f] # None =>
         dirs[k][f].by \in Owners /\ dirs[k][f].by \notin dbs
  BY DEF TypeInv, TypeOK, DbFiles, Directories, Databases, Holding
<1> QED BY <1>1 DEF SoundAt, DbsKeptAt, Misplaced

\* Opening the index of a name misplaces nothing.
LEMMA IndexKeepsSound ==
  ASSUME TypeInv, NEW p \in Procs, NEW k \in Names, SoundAt(k), IndexSteps(p)
  PROVE  SoundAt(k)'
<1>1. CASE Return(p, "error") /\ UNCHANGED <<handles, dirs, content, damage, cut>>
  BY <1>1, SoundKept DEF DbsKeptAt
<1>2. ASSUME NEW o \in Owners, IndexTaken(p, o) PROVE SoundAt(k)'
  <2>1. \A g \in Owners \ {o} : damage[g] # "misplaced" => damage'[g] # "misplaced"
    BY <1>2 DEF IndexTaken, Reopening
  <2>2. \/ damage'[o] # "misplaced"
        \/ dirs' = dirs /\ (damage[o] # "misplaced" => damage'[o] # "misplaced")
    BY <1>2 DEF IndexTaken, Reopening
  <2>3. CASE dirs' = dirs /\ (damage[o] # "misplaced" => damage'[o] # "misplaced")
    BY <2>1, <2>3, SoundKept DEF DbsKeptAt
  <2>4. CASE damage'[o] # "misplaced"
    <3>1. \A g \in Owners : damage[g] # "misplaced" => damage'[g] # "misplaced"
      BY <2>1, <2>4
    <3>2. CASE k # Name(p)
      BY <1>2, <3>1, <3>2, SoundKept DEF IndexTaken, DbsKeptAt
    <3>3. CASE k = Name(p)
      <4> DEFINE f == DbFile(req[p].meta)
      <4>1. /\ f \in DbFiles /\ f \in Files /\ dirs'[k] \in Directories
            /\ dirs'[k][f].by = o
            /\ \A g \in Files \ {f} : dirs'[k][g] = Ensured(dirs[k])[g]
        BY <1>2, <3>3, FileNames DEF IndexTaken, DbFile, DbFiles
      <4>2. \A g \in DbFiles \ {f} : dirs'[k][g] # None =>
               dirs[k] # None /\ dirs'[k][g] = dirs[k][g]
        BY <4>1, FileNames, NoneAssumption DEF DbFiles, Ensured, EmptyDir
      <4>3. dirs[k] # None => \A g \in DbFiles : dirs[k][g] # None => dirs[k][g].by \in Owners
        BY DEF TypeInv, TypeOK, DbFiles, Directories, Databases
      <4>4. ASSUME NEW g \in DbFiles, dirs'[k][g] # None
            PROVE  damage'[dirs'[k][g].by] # "misplaced"
        <5>1. CASE g = f
          BY <2>4, <4>1, <5>1
        <5>2. CASE g # f
          <6>1. dirs[k] # None /\ dirs'[k][g] = dirs[k][g] /\ dirs[k][g].by \in Owners
            BY <4>2, <4>3, <4>4, <5>2
          <6>2. damage[dirs[k][g].by] # "misplaced"
            BY <4>4, <6>1 DEF SoundAt
          <6> QED BY <3>1, <6>1, <6>2
        <5> QED BY <5>1, <5>2
      <4> QED BY <4>4 DEF SoundAt
    <3> QED BY <3>2, <3>3
  <2> QED BY <2>2, <2>3, <2>4
<1> QED BY <1>1, <1>2 DEF IndexSteps

\* Every step leaves the index of a name that it does not spoil in its place.
LEMMA SoundStep ==
  ASSUME Inv, NEW k \in Names, k \notin unsure', NameInv(k), SoundAt(k), [Next]_vars
  PROVE  SoundAt(k)'
<1> USE DEF Inv, TypeInv, TypeOK, RequestInv, CreateRequests, DropRequests,
   WriteRequests, ReadRequests, Goto, Return, Early, Late, CreateSteps, StreamSteps,
   Finished
<1>1. ASSUME NEW p \in Procs, NEW n \in Names, NEW m \in Metas, StartCreate(p, n, m)
   PROVE SoundAt(k)'
  <2>1. DbsKeptAt(k)
    BY <1>1 DEF StartCreate, Receive, DbsKeptAt
  <2>2. damage' = damage
    BY <1>1 DEF StartCreate, Receive
  <2> QED BY <2>1, <2>2, SoundKept
<1>2. ASSUME NEW p \in Procs, MakeDir(p) PROVE SoundAt(k)'
  <2>1. DbsKeptAt(k)
    BY <1>2 DEF MakeDir, MakesDir, DbsKeptAt, Ensured, EmptyDir, DbFiles
  <2>2. damage' = damage
    BY <1>2 DEF MakeDir, MakesDir
  <2> QED BY <2>1, <2>2, SoundKept
<1>3. ASSUME NEW p \in Procs, WriteMeta(p) PROVE SoundAt(k)'
  <2>1. DbsKeptAt(k)
    <3>1. Name(p) \in Names /\ req[p].meta \in Metas
      BY <1>3 DEF WriteMeta, Name
    <3>2. dirs' = dirs \/ Edited(Name(p), "meta", req[p].meta)
      BY <1>3, <3>1, Editing, FileNames DEF WriteMeta, Spaces
    <3> QED BY <3>1, <3>2, FileNames DEF Edited, DbsKeptAt, DbFiles
  <2>2. damage' = damage
    BY <1>3 DEF WriteMeta
  <2> QED BY <2>1, <2>2, SoundKept
<1>4. ASSUME NEW p \in Procs, OpenFlat(p) PROVE SoundAt(k)'
  BY <1>4, OpenFlatTakes, IndexKeepsSound
<1>5. ASSUME NEW p \in Procs, CreateHnsw(p) PROVE SoundAt(k)'
  BY <1>5, CreateHnswTakes, IndexKeepsSound
<1>6. ASSUME NEW p \in Procs, CreateSegment(p) PROVE SoundAt(k)'
  <2>1. DbsKeptAt(k)
    <3>1. Name(p) \in Names /\ req[p].meta \in Metas
      BY <1>6 DEF CreateSegment, Name
    <3>2. dirs' = dirs \/ Edited(Name(p), "segment", req[p].meta.space)
      BY <1>6, <3>1, Editing, FileNames DEF CreateSegment, Spaces
    <3> QED BY <3>1, <3>2, FileNames DEF Edited, DbsKeptAt, DbFiles
  <2>2. damage' = damage
    BY <1>6 DEF CreateSegment
  <2> QED BY <2>1, <2>2, SoundKept
<1>7. ASSUME NEW p \in Procs, OpenStores(p) PROVE SoundAt(k)'
  <2>1. DbsKeptAt(k)
    <3>1. Name(p) \in Names /\ req[p].meta \in Metas
      BY <1>7 DEF OpenStores, Name
    <3>0. Dir(p) # None => (IF Dir(p).stores = None THEN p ELSE Dir(p).stores) \in Owners
      BY <3>1 DEF Dir, Directories, Owners
    <3>2. dirs' = dirs \/ Edited(Name(p), "stores", (IF Dir(p).stores = None THEN p ELSE Dir(p).stores))
      BY <1>7, <3>1, Editing, FileNames, <3>0 DEF OpenStores, Spaces
    <3> QED BY <3>1, <3>2, FileNames DEF Edited, DbsKeptAt, DbFiles
  <2>2. damage' = damage
    BY <1>7 DEF OpenStores
  <2> QED BY <2>1, <2>2, SoundKept
<1>8. ASSUME NEW p \in Procs, Register(p) PROVE SoundAt(k)'
  <2>1. DbsKeptAt(k)
    BY <1>8 DEF Register, DbsKeptAt
  <2>2. damage' = damage
    BY <1>8 DEF Register
  <2> QED BY <2>1, <2>2, SoundKept
<1>9. ASSUME NEW p \in Procs, NEW n \in Names, StartDrop(p, n) PROVE SoundAt(k)'
  <2>1. DbsKeptAt(k)
    BY <1>9 DEF StartDrop, Receive, DbsKeptAt
  <2>2. damage' = damage
    BY <1>9 DEF StartDrop, Receive
  <2> QED BY <2>1, <2>2, SoundKept
<1>10. ASSUME NEW p \in Procs, RemoveFile(p) PROVE SoundAt(k)'
  <2>1. DbsKeptAt(k)
    <3>1. Name(p) \in Names
      BY <1>10 DEF RemoveFile, Name
    <3>2. PICK f \in Present(Dir(p)) : SetFile(p, f, None)
      BY <1>10 DEF RemoveFile
    <3>3. f \in Files /\ Dir(p) # None
      BY <3>2 DEF Present
    <3>4. Edited(Name(p), f, None)
      BY <3>1, <3>2, <3>3, Editing
    <3> QED BY <3>4, FileNames DEF Edited, DbsKeptAt, DbFiles
  <2>2. damage' = damage
    BY <1>10 DEF RemoveFile
  <2> QED BY <2>1, <2>2, SoundKept
<1>11. ASSUME NEW p \in Procs, RemoveDir(p) PROVE SoundAt(k)'
  <2>1. DbsKeptAt(k)
    BY <1>11 DEF RemoveDir, Name, DbsKeptAt
  <2>2. damage' = damage
    BY <1>11 DEF RemoveDir
  <2> QED BY <2>1, <2>2, SoundKept
<1>12. ASSUME NEW p \in Procs, NEW n \in Names, StartWrite(p, n) PROVE SoundAt(k)'
  <2>1. DbsKeptAt(k)
    BY <1>12 DEF StartWrite, Receive, GetHandle, DbsKeptAt
  <2>2. damage' = damage
    BY <1>12 DEF StartWrite, Receive, GetHandle
  <2> QED BY <2>1, <2>2, SoundKept
<1>13. ASSUME NEW p \in Procs, NEW n \in Names, StartRead(p, n) PROVE SoundAt(k)'
  <2>1. DbsKeptAt(k)
    BY <1>13 DEF StartRead, Receive, GetHandle, DbsKeptAt
  <2>2. damage' = damage
    BY <1>13 DEF StartRead, Receive, GetHandle
  <2> QED BY <2>1, <2>2, SoundKept
<1>14. ASSUME NEW p \in Procs, Lock(p) PROVE SoundAt(k)'
  <2>1. DbsKeptAt(k)
    BY <1>14 DEF Lock, DbsKeptAt
  <2>2. damage' = damage
    BY <1>14 DEF Lock
  <2> QED BY <2>1, <2>2, SoundKept
<1>15. ASSUME NEW p \in Procs, Apply(p) PROVE SoundAt(k)'
  <2>1. DbsKeptAt(k)
    BY <1>15 DEF Apply, Applies, DbsKeptAt
  <2>2. \/ \A o \in Owners : damage[o] # "misplaced" => damage'[o] # "misplaced"
        \/ \E dbs : damage' = Misplaced(dbs) /\ Holding(dbs) \subseteq unsure'
    BY <1>15 DEF Apply, Applies, Misplaces
  <2> QED BY <2>1, <2>2, SoundKept, MisplacedElsewhere
<1>16. ASSUME NEW p \in Procs, NextChunk(p) PROVE SoundAt(k)'
  <2>1. DbsKeptAt(k)
    BY <1>16 DEF NextChunk, Continues, DbsKeptAt
  <2>2. damage' = damage
    BY <1>16 DEF NextChunk, Continues
  <2> QED BY <2>1, <2>2, SoundKept
<1>17. ASSUME NEW p \in Procs, BadChunk(p) PROVE SoundAt(k)'
  <2>1. DbsKeptAt(k)
    BY <1>17 DEF BadChunk, DbsKeptAt
  <2>2. damage' = damage
    BY <1>17 DEF BadChunk
  <2> QED BY <2>1, <2>2, SoundKept
<1>18. ASSUME NEW p \in Procs, Read(p) PROVE SoundAt(k)'
  <2>1. DbsKeptAt(k)
    BY <1>18 DEF Read, Reads, DbsKeptAt
  <2>2. damage' = damage
    BY <1>18 DEF Read, Reads
  <2> QED BY <2>1, <2>2, SoundKept
<1>19. ASSUME NEW p \in Procs, LifecycleFails(p) PROVE SoundAt(k)'
  <2>1. DbsKeptAt(k)
    <3>1. CASE dirs' = dirs
      BY <3>1 DEF DbsKeptAt
    <3>2. CASE WritingMeta(p) /\ SetFile(p, "meta", Torn)
      <4>1. Name(p) \in Names
        BY <3>2 DEF WritingMeta, Name
      <4>2. Edited(Name(p), "meta", Torn)
        BY <3>2, <4>1, Editing, FileNames DEF WritingMeta
      <4> QED BY <4>2, FileNames DEF Edited, DbsKeptAt, DbFiles
    <3> QED BY <1>19, <3>1, <3>2 DEF LifecycleFails
  <2>2. damage' = damage
    BY <1>19 DEF LifecycleFails
  <2> QED BY <2>1, <2>2, SoundKept
<1>20. ASSUME NEW p \in Procs, ApplyFails(p) PROVE SoundAt(k)'
  <2>1. DbsKeptAt(k)
    BY <1>20 DEF ApplyFails, AbandonsChunk, DbsKeptAt
  <2>2. \A o \in Owners : damage[o] # "misplaced" => damage'[o] # "misplaced"
    BY <1>20 DEF ApplyFails, AbandonsChunk
  <2> QED BY <2>1, <2>2, SoundKept
<1>21. ASSUME Crash PROVE SoundAt(k)'
  <2>1. PICK dbs : damage' = Misplaced(dbs) /\ Holding(dbs) \subseteq unsure'
    BY <1>21 DEF Crash
  <2>2. DbsKeptAt(k)
    BY <1>21, CrashAtName DEF CrashedAt
  <2> QED BY <2>1, <2>2, MisplacedElsewhere
<1>22. ASSUME Restart PROVE SoundAt(k)'
  <2>0. PICK stop \in [Names -> Stops] : RestartsAt(stop)
    BY <1>22, RestartAtStops
  <2>1. /\ dirs'[k] = AfterScan(k, stop[k]) /\ stop[k] \in Stops
        /\ \A o \in Owners : damage[o] # "misplaced" => damage'[o] # "misplaced"
        /\ Fresh(dirs[k]) /\ stop[k] # "index" => damage'[k] # "misplaced"
    BY <2>0 DEF RestartsAt, Reopening, New, Owners
  <2>2. CASE dirs[k] = None
    <3>1. AfterScan(k, stop[k]) = None
      BY ZenonT(40), <2>1, <2>2, ScannedDirectory
    <3> QED BY <2>1, <3>1 DEF SoundAt
  <2>3. CASE dirs[k] # None
    <3>1. LET d == AfterScan(k, stop[k])
          IN  /\ d.hnsw = dirs[k].hnsw
              /\ Fresh(dirs[k]) /\ stop[k] # "index" =>
                    d.catalog = [by |-> k, space |-> dirs[k].meta.space]
              /\ ~Fresh(dirs[k]) \/ stop[k] = "index" => d.catalog = dirs[k].catalog
      BY <2>1, <2>3, ScannedDirectory
    <3>2. /\ dirs'[k].hnsw = dirs[k].hnsw
          /\ \/ dirs'[k].catalog = dirs[k].catalog
             \/ dirs'[k].catalog.by = k /\ damage'[k] # "misplaced"
      BY <2>1, <3>1
    <3>3. \A f \in DbFiles : dirs[k][f] # None => dirs[k][f].by \in Owners
      BY <2>3 DEF DbFiles, Directories, Databases
    <3>4. \A f \in DbFiles : dirs[k][f] # None => damage'[dirs[k][f].by] # "misplaced"
      BY <2>1, <2>3, <3>3 DEF SoundAt
    <3> QED BY <3>2, <3>4 DEF SoundAt, DbFiles
  <2> QED BY <2>2, <2>3
<1>23. CASE UNCHANGED vars
  BY <1>23 DEF vars, SoundAt
<1>24. ASSUME NEW p \in Procs, NEW n \in Names, StartCompact(p, n) PROVE SoundAt(k)'
  <2>1. DbsKeptAt(k)
    BY <1>24 DEF StartCompact, Receive, GetHandle, DbsKeptAt
  <2>2. damage' = damage
    BY <1>24 DEF StartCompact, Receive, GetHandle
  <2> QED BY <2>1, <2>2, SoundKept
<1>25. ASSUME NEW p \in Procs, CompactIndex(p) PROVE SoundAt(k)'
  <2>1. DbsKeptAt(k)
    BY <1>25 DEF CompactIndex, Compacting, DbsKeptAt
  <2>2. \/ \A o \in Owners : damage[o] # "misplaced" => damage'[o] # "misplaced"
        \/ \E dbs : damage' = Misplaced(dbs) /\ Holding(dbs) \subseteq unsure'
    BY ZenonT(40), <1>25 DEF CompactIndex, Compacting, Misplaces
  <2> QED BY <2>1, <2>2, SoundKept, MisplacedElsewhere
<1> QED BY <1>1, <1>2, <1>3, <1>4, <1>5, <1>6, <1>7, <1>8, <1>9, <1>10, <1>11, <1>12,
   <1>13, <1>14, <1>15, <1>16, <1>17, <1>18, <1>19, <1>20, <1>21, <1>22, <1>23,
   <1>24, <1>25 DEF Next, Request, Step

-----------------------------------------------------------------------------
(* What a restart would load, and what clients see *)

\* A name once spoilt is never promised anything again.
LEMMA UnsureGrows ==
  ASSUME [Next]_vars
  PROVE  unsure \subseteq unsure'
<1>1. ASSUME NEW p \in Procs, NEW n \in Names, NEW m \in Metas, StartCreate(p, n, m)
   PROVE unsure \subseteq unsure'
  BY <1>1 DEF StartCreate, Receive
<1>2. ASSUME NEW p \in Procs, MakeDir(p) PROVE unsure \subseteq unsure'
  BY <1>2 DEF MakeDir, MakesDir
<1>3. ASSUME NEW p \in Procs, WriteMeta(p) PROVE unsure \subseteq unsure'
  BY <1>3 DEF WriteMeta
<1>4. ASSUME NEW p \in Procs, OpenFlat(p) PROVE unsure \subseteq unsure'
  BY <1>4 DEF OpenFlat, OpensFlat
<1>5. ASSUME NEW p \in Procs, CreateHnsw(p) PROVE unsure \subseteq unsure'
  BY <1>5 DEF CreateHnsw
<1>6. ASSUME NEW p \in Procs, CreateSegment(p) PROVE unsure \subseteq unsure'
  BY <1>6 DEF CreateSegment
<1>7. ASSUME NEW p \in Procs, OpenStores(p) PROVE unsure \subseteq unsure'
  BY <1>7 DEF OpenStores
<1>8. ASSUME NEW p \in Procs, Register(p) PROVE unsure \subseteq unsure'
  BY <1>8 DEF Register
<1>9. ASSUME NEW p \in Procs, NEW n \in Names, StartDrop(p, n) PROVE unsure \subseteq
   unsure'
  BY <1>9 DEF StartDrop, Receive
<1>10. ASSUME NEW p \in Procs, RemoveFile(p) PROVE unsure \subseteq unsure'
  BY <1>10 DEF RemoveFile
<1>11. ASSUME NEW p \in Procs, RemoveDir(p) PROVE unsure \subseteq unsure'
  BY <1>11 DEF RemoveDir
<1>12. ASSUME NEW p \in Procs, NEW n \in Names, StartWrite(p, n) PROVE unsure \subseteq
   unsure'
  BY <1>12 DEF StartWrite, Receive, GetHandle
<1>13. ASSUME NEW p \in Procs, NEW n \in Names, StartRead(p, n) PROVE unsure \subseteq
   unsure'
  BY <1>13 DEF StartRead, Receive, GetHandle
<1>14. ASSUME NEW p \in Procs, Lock(p) PROVE unsure \subseteq unsure'
  BY <1>14 DEF Lock
<1>15. ASSUME NEW p \in Procs, Apply(p) PROVE unsure \subseteq unsure'
  BY <1>15 DEF Apply, Applies, Misplaces
<1>16. ASSUME NEW p \in Procs, NextChunk(p) PROVE unsure \subseteq unsure'
  BY <1>16 DEF NextChunk, Continues
<1>17. ASSUME NEW p \in Procs, BadChunk(p) PROVE unsure \subseteq unsure'
  BY <1>17 DEF BadChunk
<1>18. ASSUME NEW p \in Procs, Read(p) PROVE unsure \subseteq unsure'
  BY <1>18 DEF Read, Reads
<1>19. ASSUME NEW p \in Procs, LifecycleFails(p) PROVE unsure \subseteq unsure'
  BY <1>19 DEF LifecycleFails
<1>20. ASSUME NEW p \in Procs, ApplyFails(p) PROVE unsure \subseteq unsure'
  BY <1>20 DEF ApplyFails, AbandonsChunk
<1>21. ASSUME Crash PROVE unsure \subseteq unsure'
  BY <1>21 DEF Crash
<1>22. ASSUME Restart PROVE unsure \subseteq unsure'
  BY <1>22 DEF Restart, Restarts
<1>23. CASE UNCHANGED vars
  BY <1>23 DEF vars
<1>24. ASSUME NEW p \in Procs, NEW n \in Names, StartCompact(p, n) PROVE unsure \subseteq
   unsure'
  BY <1>24 DEF StartCompact, Receive, GetHandle
<1>25. ASSUME NEW p \in Procs, CompactIndex(p) PROVE unsure \subseteq unsure'
  BY <1>25 DEF CompactIndex, Compacting, Misplaces
<1> QED BY <1>1, <1>2, <1>3, <1>4, <1>5, <1>6, <1>7, <1>8, <1>9, <1>10, <1>11, <1>12,
   <1>13, <1>14, <1>15, <1>16, <1>17, <1>18, <1>19, <1>20, <1>21, <1>22, <1>23,
   <1>24, <1>25 DEF Next, Request, Step

\* At the start the directories match the map.
LEMMA InitDir == Init => DirInv
<1> SUFFICES ASSUME Init, NEW n \in Names PROVE NameInv(n) /\ EmptyInv(n) /\ SoundAt(n)
  BY DEF DirInv
<1> USE ServerAssumption
<1>1. PICK old \in [Names -> Metas \cup {None}] :
         /\ map = [k \in Names |-> IF old[k] = None THEN None ELSE k]
         /\ handles = [h \in Owners |->
                IF h \in Names /\ old[h] # None THEN [meta |-> old[h], db |-> h]
                ELSE [meta |-> None, db |-> None]]
         /\ dirs = [k \in Names |->
                IF old[k] = None THEN None
                ELSE LET db == [by |-> k, space |-> old[k].space]
                     IN  [meta |-> old[k], segment |-> old[k].space, stores |-> k,
                          catalog |-> IF old[k].type = "flat" THEN db ELSE None,
                          hnsw |-> IF old[k].type = "hnsw" THEN db ELSE None]]
  BY DEF Init
<1>2. up = TRUE /\ content = [h \in Owners |-> {}] /\ pc = [p \in Procs |-> "ready"]
  BY DEF Init
<1>3. ASSUME map[n] # None PROVE Complete(n, map[n])
  <2> DEFINE db == [by |-> n, space |-> old[n].space]
  <2>1. old[n] # None /\ old[n] \in Metas /\ map[n] = n
    BY <1>1, <1>3
  <2>2. handles[n] = [meta |-> old[n], db |-> n]
    BY <1>1, <2>1 DEF Owners
  <2>3. db \in Databases
    BY <2>1 DEF Databases, Spaces, Owners
  <2>4. dirs[n] = [meta |-> old[n], segment |-> old[n].space, stores |-> n,
                   catalog |-> IF old[n].type = "flat" THEN db ELSE None,
                   hnsw |-> IF old[n].type = "hnsw" THEN db ELSE None]
    BY <1>1, <2>1
  <2>5. dirs[n] # None
    <3>1. TypeOK /\ dirs[n] \in Directories
      BY <2>1, <2>3, <2>4, InitInv DEF Directories, Spaces, Owners, Inv, TypeInv
    <3> QED BY <3>1, NoneAssumption
  <2>6. dirs[n][DbFile(old[n])] = db
    BY <2>1, <2>4 DEF DbFile
  <2>7. db # None
    BY <2>3, NoneAssumption
  <2> QED BY <2>1, <2>2, <2>4, <2>5, <2>6, <2>7 DEF Complete, Holds
<1>4. NameInv(n)
  BY <1>2, <1>3 DEF NameInv, Creator, Dropper, CreateSteps, Late
<1>5. ASSUME map[n] = None PROVE AllEmpty(n)
  BY <1>1, <1>5 DEF AllEmpty
<1>6. EmptyInv(n)
  BY <1>2, <1>5 DEF EmptyInv, StreamSteps
<1>7. damage = [h \in Owners |-> "sound"] /\ TypeOK
  BY InitInv DEF Init, Inv, TypeInv
<1>8. SoundAt(n)
  BY <1>7 DEF SoundAt, TypeOK, Directories, Databases, DbFiles
<1> QED BY <1>4, <1>6, <1>8

\* DirsAlways: what a restart finds of an unspoilt name is what the map says of it.
THEOREM DirsAlways == Spec => []DirInv
<1>1. Inv /\ DirInv /\ [Next]_vars => DirInv'
  <2> SUFFICES ASSUME Inv, DirInv, [Next]_vars, NEW k \in Names, k \notin unsure'
               PROVE  NameInv(k)' /\ EmptyInv(k)' /\ SoundAt(k)'
    BY DEF DirInv
  <2>1. NameInv(k) /\ EmptyInv(k) /\ SoundAt(k)
    BY UnsureGrows DEF DirInv
  <2> QED BY <2>1, NameStep, EmptyStep, SoundStep
<1> QED BY <1>1, InitDir, InvAlways, PTL DEF Spec

\* DiskAlwaysMirrorsMap: whatever requests race, fail or are cut off by a stop, what a
\* registered collection serves is what Registry::open would load, its parameters and
\* every point, unless lifecycle requests spoilt its directory.
THEOREM DiskAlwaysMirrorsMap == Spec => []DiskMirrorsMap
<1>1. DirInv => DiskMirrorsMap
  <2> SUFFICES ASSUME DirInv, NEW n \in Names \ unsure, map[n] # None
               PROVE  Stored(n) = Served(n)
    BY DEF DiskMirrorsMap
  <2>1. Complete(n, map[n])
    BY DEF DirInv, NameInv
  <2> QED BY <2>1, CompleteReopens DEF Stored, Served, Complete
<1> QED BY <1>1, DirsAlways, PTL

\* What clients find under a name: served while the server runs, stored otherwise.
LEMMA CollOf ==
  ASSUME NEW k \in Names
  PROVE  /\ Colls[k] = IF up THEN Served(k) ELSE Stored(k)
         /\ Colls'[k] = IF up' THEN Served(k)' ELSE Stored(k)'
BY DEF Colls

\* A request that leaves the map entry of a name alone shows no loss of points.
LEMMA ServedGrows ==
  ASSUME Inv, Inv', NEW p \in Procs, Local(p), NEW k \in Names, NameInv(k),
         map'[k] = map[k],
         map[k] # None => content[handles[map[k]].db] \subseteq content'[handles[map[k]].db]
  PROVE  Abstract!Changes(k)
<1>1. Colls[k] = Served(k) /\ Colls'[k] = Served(k)' /\ up /\ up'
  BY CollOf DEF Local
<1>2. CASE map[k] = None
  BY <1>1, <1>2 DEF Served, Abstract!Changes
<1>3. CASE map[k] # None
  <2> DEFINE m == handles[map[k]].meta
             db == handles[map[k]].db
  <2>1. handles'[map[k]] = handles[map[k]]
    BY <1>3 DEF Inv, HandleInv, Registered, Local, Finished, Owners
  <2>2. m \in Metas /\ db \in Owners
    BY <1>3 DEF NameInv, Complete, Holds, Inv, TypeInv, TypeOK, Directories,
       Databases, DbFile
  <2>3. /\ Served(k) = [meta |-> m, points |-> content[db]]
        /\ Served(k)' = [meta |-> m, points |-> content'[db]]
    BY <1>3, <2>1 DEF Served
  <2>4. Served(k) \in Collections /\ Served(k)' \in Collections
    BY <2>2, <2>3 DEF Collections, Inv, TypeInv, TypeOK, Tokens
  <2> HIDE DEF m, db
  <2>5. /\ Served(k) # None /\ Served(k)' # None
        /\ Served(k).meta = m /\ Served(k)'.meta = m
        /\ Served(k).points \subseteq Served(k)'.points
    BY <1>3, <2>3, <2>4, NoneAssumption DEF db
  <2> QED BY <1>1, <2>5 DEF Abstract!Changes, Abstract!Put
<1> QED BY <1>2, <1>3

\* Every step is, for a name that it does not spoil, a step of the abstract
\* database.
LEMMA AbstractStep ==
  ASSUME Inv, Inv', NEW k \in Names, k \notin unsure', NameInv(k), EmptyInv(k),
         SoundAt(k), [Next]_vars
  PROVE  Abstract!Changes(k)
<1>1. ASSUME NEW p \in Procs, NEW n \in Names, NEW m \in Metas, StartCreate(p, n, m)
   PROVE Abstract!Changes(k)
  <2>1. map'[k] = map[k] /\ content' = content
    BY <1>1 DEF StartCreate, Receive
  <2> QED BY <1>1, <2>1, ServedGrows, StepIsLocal DEF Inv
<1>2. ASSUME NEW p \in Procs, MakeDir(p) PROVE Abstract!Changes(k)
  <2>1. map'[k] = map[k] /\ content' = content
    BY <1>2 DEF MakeDir, MakesDir
  <2> QED BY <1>2, <2>1, ServedGrows, StepIsLocal DEF Inv
<1>3. ASSUME NEW p \in Procs, WriteMeta(p) PROVE Abstract!Changes(k)
  <2>1. map'[k] = map[k] /\ content' = content
    BY <1>3 DEF WriteMeta
  <2> QED BY <1>3, <2>1, ServedGrows, StepIsLocal DEF Inv
<1>4. ASSUME NEW p \in Procs, OpenFlat(p) PROVE Abstract!Changes(k)
  <2>1. IndexSteps(p) /\ Local(p)
    BY <1>4, OpenFlatTakes, StepIsLocal DEF Inv
  <2>2. map' = map
    BY <2>1 DEF IndexSteps
  <2>3. CASE content' = content
    BY <2>1, <2>2, <2>3, ServedGrows
  <2>4. ASSUME NEW o \in Owners, IndexTaken(p, o), map[k] # None
        PROVE  content'[handles[map[k]].db] = content[handles[map[k]].db]
    <3>1. /\ map[k] \in Owners /\ handles[map[k]].db \in Owners /\ Live(map[k])
          /\ Opened(handles[map[k]].db)
      BY <2>4, ServerAssumption DEF Inv, HandleInv, Registered, FileInv,
         HandlesAtHome, Live,
         TypeInv, TypeOK
    <3>2. o # handles[map[k]].db
      <4>1. ~Opened(p)
        BY <2>1 DEF IndexSteps, Opened, Early
      <4>2. o = p \/ ~InUse(o)
        BY <2>4 DEF IndexTaken
      <4> QED BY <3>1, <4>1, <4>2 DEF InUse
    <3> QED BY <2>4, <3>1, <3>2 DEF IndexTaken, Reopening
  <2> QED BY <2>1, <2>2, <2>3, <2>4, ServedGrows DEF IndexSteps
<1>5. ASSUME NEW p \in Procs, CreateHnsw(p) PROVE Abstract!Changes(k)
  <2>1. IndexSteps(p) /\ Local(p)
    BY <1>5, CreateHnswTakes, StepIsLocal DEF Inv
  <2>2. map' = map
    BY <2>1 DEF IndexSteps
  <2>3. CASE content' = content
    BY <2>1, <2>2, <2>3, ServedGrows
  <2>4. ASSUME NEW o \in Owners, IndexTaken(p, o), map[k] # None
        PROVE  content'[handles[map[k]].db] = content[handles[map[k]].db]
    <3>1. /\ map[k] \in Owners /\ handles[map[k]].db \in Owners /\ Live(map[k])
          /\ Opened(handles[map[k]].db)
      BY <2>4, ServerAssumption DEF Inv, HandleInv, Registered, FileInv,
         HandlesAtHome, Live,
         TypeInv, TypeOK
    <3>2. o # handles[map[k]].db
      <4>1. ~Opened(p)
        BY <2>1 DEF IndexSteps, Opened, Early
      <4>2. o = p \/ ~InUse(o)
        BY <2>4 DEF IndexTaken
      <4> QED BY <3>1, <4>1, <4>2 DEF InUse
    <3> QED BY <2>4, <3>1, <3>2 DEF IndexTaken, Reopening
  <2> QED BY <2>1, <2>2, <2>3, <2>4, ServedGrows DEF IndexSteps
<1>6. ASSUME NEW p \in Procs, CreateSegment(p) PROVE Abstract!Changes(k)
  <2>1. map'[k] = map[k] /\ content' = content
    BY <1>6 DEF CreateSegment
  <2> QED BY <1>6, <2>1, ServedGrows, StepIsLocal DEF Inv
<1>7. ASSUME NEW p \in Procs, OpenStores(p) PROVE Abstract!Changes(k)
  <2>1. map'[k] = map[k] /\ content' = content
    BY <1>7 DEF OpenStores
  <2> QED BY <1>7, <2>1, ServedGrows, StepIsLocal DEF Inv
<1>8. ASSUME NEW p \in Procs, Register(p) PROVE Abstract!Changes(k)
  <2>1. /\ Name(p) \in Names /\ Creator(p, Name(p)) /\ pc[p] \in Late /\ p # None
        /\ UNCHANGED <<dirs, handles, content>> /\ map' = [map EXCEPT ![Name(p)] = p]
    BY <1>8, ServerAssumption DEF Register, Name, Creator, Owners, Inv, TypeInv,
       TypeOK, RequestInv, CreateRequests, CreateSteps, Late
  <2>2. CASE k # Name(p)
    BY <1>8, <2>1, <2>2, ServedGrows, StepIsLocal DEF Inv, TypeInv, TypeOK
  <2>3. CASE k = Name(p)
    <3>1. map[k] = None /\ CreatorOK(p, k)
      BY <2>1, <2>3, Exclusive DEF NameInv
    <3>2. up /\ up'
      BY <1>8, StepIsLocal DEF Local, Inv
    <3>3. AllEmpty(k)
      BY <3>1, <3>2, NobodyStored DEF CreatorOK
    <3>4. Holds(k, p) /\ content[handles[p].db] = {}
      <4>1. Holds(k, p)
        BY <2>1, <3>1 DEF CreatorOK, Stage
      <4> QED BY <3>3, <4>1 DEF Holds, AllEmpty, DbFile, DbFiles
    <3>5. map'[k] = p
      BY <2>1, <2>3 DEF Inv, TypeInv, TypeOK
    <3>6. Colls[k] = None /\ Colls'[k] = [meta |-> handles[p].meta, points |-> {}]
      BY <2>1, <3>1, <3>2, <3>4, <3>5, CollOf DEF Served
    <3> QED BY <3>4, <3>6 DEF Abstract!Changes, Abstract!Create, Holds
  <2> QED BY <2>2, <2>3
<1>9. ASSUME NEW p \in Procs, NEW n \in Names, StartDrop(p, n) PROVE
   Abstract!Changes(k)
  <2>1. content' = content /\ map' = [map EXCEPT ![n] = None] /\ up /\ up'
    BY <1>9 DEF StartDrop, Receive
  <2>2. CASE k # n
    <3>1. map'[k] = map[k]
      BY <2>1, <2>2 DEF Inv, TypeInv, TypeOK
    <3> QED BY <1>9, <2>1, <3>1, ServedGrows, StepIsLocal DEF Inv
  <2>3. CASE k = n
    <3>1. Colls'[k] = None
      BY <2>1, <2>3, CollOf DEF Served, Inv, TypeInv, TypeOK
    <3> QED BY <2>1, <3>1 DEF Abstract!Changes, Abstract!Drop
  <2> QED BY <2>2, <2>3
<1>10. ASSUME NEW p \in Procs, RemoveFile(p) PROVE Abstract!Changes(k)
  <2>1. map'[k] = map[k] /\ content' = content
    BY <1>10 DEF RemoveFile
  <2> QED BY <1>10, <2>1, ServedGrows, StepIsLocal DEF Inv
<1>11. ASSUME NEW p \in Procs, RemoveDir(p) PROVE Abstract!Changes(k)
  <2>1. map'[k] = map[k] /\ content' = content
    BY <1>11 DEF RemoveDir
  <2> QED BY <1>11, <2>1, ServedGrows, StepIsLocal DEF Inv
<1>12. ASSUME NEW p \in Procs, NEW n \in Names, StartWrite(p, n) PROVE
   Abstract!Changes(k)
  <2>1. map'[k] = map[k] /\ content' = content
    BY <1>12 DEF StartWrite, Receive, GetHandle
  <2> QED BY <1>12, <2>1, ServedGrows, StepIsLocal DEF Inv
<1>13. ASSUME NEW p \in Procs, NEW n \in Names, StartRead(p, n) PROVE
   Abstract!Changes(k)
  <2>1. map'[k] = map[k] /\ content' = content
    BY <1>13 DEF StartRead, Receive, GetHandle
  <2> QED BY <1>13, <2>1, ServedGrows, StepIsLocal DEF Inv
<1>14. ASSUME NEW p \in Procs, Lock(p) PROVE Abstract!Changes(k)
  <2>1. map'[k] = map[k] /\ content' = content
    BY <1>14 DEF Lock
  <2> QED BY <1>14, <2>1, ServedGrows, StepIsLocal DEF Inv
<1>15. ASSUME NEW p \in Procs, Apply(p) PROVE Abstract!Changes(k)
  <2>1. /\ map' = map /\ hold[p] \in Owners /\ handles[hold[p]].db \in Owners
        /\ content' = [content EXCEPT ![handles[hold[p]].db] =
               @ \cup {<<p, prog[p].chunk, prog[p].applied + 1>>}]
    BY <1>15 DEF Apply, Applies, Inv, TypeInv, TypeOK, HandleInv, Registered, StreamSteps
  <2>2. \A g \in Owners : content[g] \subseteq content'[g]
    BY <2>1 DEF Inv, TypeInv, TypeOK
  <2>3. map[k] # None => handles[map[k]].db \in Owners
    BY DEF Inv, HandleInv, Registered, TypeInv, TypeOK
  <2> QED BY <1>15, <2>1, <2>2, <2>3, ServedGrows, StepIsLocal DEF Inv
<1>16. ASSUME NEW p \in Procs, NextChunk(p) PROVE Abstract!Changes(k)
  <2>1. map'[k] = map[k] /\ content' = content
    BY <1>16 DEF NextChunk, Continues
  <2> QED BY <1>16, <2>1, ServedGrows, StepIsLocal DEF Inv
<1>17. ASSUME NEW p \in Procs, BadChunk(p) PROVE Abstract!Changes(k)
  <2>1. map'[k] = map[k] /\ content' = content
    BY <1>17 DEF BadChunk
  <2> QED BY <1>17, <2>1, ServedGrows, StepIsLocal DEF Inv
<1>18. ASSUME NEW p \in Procs, Read(p) PROVE Abstract!Changes(k)
  <2>1. map'[k] = map[k] /\ content' = content
    BY <1>18 DEF Read, Reads
  <2> QED BY <1>18, <2>1, ServedGrows, StepIsLocal DEF Inv
<1>19. ASSUME NEW p \in Procs, LifecycleFails(p) PROVE Abstract!Changes(k)
  <2>1. map'[k] = map[k] /\ content' = content
    BY <1>19 DEF LifecycleFails
  <2> QED BY <1>19, <2>1, ServedGrows, StepIsLocal DEF Inv
<1>20. ASSUME NEW p \in Procs, ApplyFails(p) PROVE Abstract!Changes(k)
  <2>1. map'[k] = map[k] /\ content' = content
    BY <1>20 DEF ApplyFails, AbandonsChunk
  <2> QED BY <1>20, <2>1, ServedGrows, StepIsLocal DEF Inv
<1>21. ASSUME Crash PROVE Abstract!Changes(k)
  <2>1. up /\ up' = FALSE /\ content' = content
    BY <1>21 DEF Crash
  <2>2. CrashedAt(k)
    BY <1>21, CrashAtName DEF Inv
  <2>3. Colls[k] = Served(k) /\ Colls'[k] = Stored(k)'
    BY <2>1, CollOf
  <2>4. CASE map[k] # None
    <3>1. Complete(k, map[k]) /\ dirs'[k] = dirs[k]
      BY <2>2, <2>4 DEF NameInv, CrashedAt
    <3>2. Stored(k) = Served(k)
      BY <2>4, <3>1, CompleteReopens DEF Stored, Served, Complete
    <3>3. Stored(k)' = Stored(k)
      BY <2>1, <3>1 DEF Stored, Reopens, Fresh, Database
    <3> QED BY <2>3, <3>2, <3>3 DEF Abstract!Changes
  <2>5. CASE map[k] = None
    <3>1. Colls[k] = None
      BY <2>3, <2>5 DEF Served
    <3>2. CASE ~Reopens(dirs[k])'
      BY <2>3, <3>1, <3>2 DEF Stored, Abstract!Changes
    <3>3. CASE Reopens(dirs[k])'
      <4>1. AllEmpty(k)'
        BY <2>1, <2>2, <2>5, EmptyStays DEF CrashedAt, EmptyInv, Inv
      <4>2. /\ dirs'[k].meta \in Metas /\ dirs'[k] # None
            /\ ~Fresh(dirs[k])' => /\ dirs'[k][DbFile(dirs'[k].meta)] # None
                                   /\ Database(dirs[k])' = dirs'[k][DbFile(dirs'[k].meta)]
        BY <3>3, ServerAssumption DEF Reopens, Fresh, Database, DbFile
      <4>3. ~Fresh(dirs[k])' => content'[Database(dirs[k])'.by] = {}
        BY <4>1, <4>2 DEF AllEmpty, DbFile, DbFiles
      <4>4. Stored(k)' = [meta |-> dirs'[k].meta, points |-> {}]
        BY <3>3, <4>3 DEF Stored
      <4> QED BY <2>3, <3>1, <4>2, <4>4 DEF Abstract!Changes, Abstract!Create
    <3> QED BY <3>2, <3>3
  <2> QED BY <2>4, <2>5
<1>22. ASSUME Restart PROVE Abstract!Changes(k)
  <2>1. ~up /\ up' = TRUE
    BY <1>22 DEF Restart, Restarts
  <2>2. Colls[k] = Stored(k) /\ Colls'[k] = Served(k)'
    BY <2>1, CollOf
  <2>0. PICK stop \in [Names -> Stops] : RestartsAt(stop)
    BY <1>22, RestartAtStops DEF Inv, TypeInv
  <2>3. CASE ~Reopens(dirs[k])
    <3>1. map'[k] = None
      BY <2>0, <2>3 DEF RestartsAt, Loaded
    <3> QED BY <2>2, <2>3, <3>1 DEF Stored, Served, Abstract!Changes
  <2>4. CASE Reopens(dirs[k])
    <3>0. stop[k] = "never" /\ k \in Loaded(stop)
      BY <2>0, <2>4 DEF RestartsAt, Loaded
    <3>1. /\ map'[k] = k /\ k # None /\ k \in Owners
          /\ handles'[k] = [meta |-> dirs[k].meta,
                            db |-> IF Fresh(dirs[k]) THEN k ELSE Database(dirs[k]).by]
      BY <2>0, <3>0, ServerAssumption DEF RestartsAt, Owners
    <3>2. CASE Fresh(dirs[k])
      <4>1. content'[k] = {}
        BY <2>0, <3>0, <3>1, <3>2 DEF RestartsAt, New, Reopening
      <4>2. Stored(k) = [meta |-> dirs[k].meta, points |-> {}]
        BY <2>4, <3>2 DEF Stored
      <4>3. Served(k)' = [meta |-> dirs[k].meta, points |-> {}]
        BY <3>1, <3>2, <4>1 DEF Served
      <4> QED BY <2>2, <4>2, <4>3 DEF Abstract!Changes
    <3>3. CASE ~Fresh(dirs[k])
      <4> DEFINE o == Database(dirs[k]).by
      <4>1. o \in Owners /\ Home(o) = k /\ damage[o] # "misplaced"
        <5>1. /\ dirs[k] # None /\ Database(dirs[k]) # None
              /\ \E f \in DbFiles : Database(dirs[k]) = dirs[k][f]
          BY <2>4, <3>3, ServerAssumption DEF Reopens, Fresh, Database, DbFiles
        <5> QED BY <5>1 DEF Inv, FileInv, FilesAtHome, TypeInv, TypeOK,
           Directories, Databases, DbFiles, SoundAt
      <4>2. o \in Names => o = k
        BY <4>1 DEF Home
      <4> HIDE DEF o
      <4>3. content'[o] = content[o]
        BY <2>0, <3>3, <4>1, <4>2 DEF RestartsAt, New, Reopening
      <4> QED BY <2>2, <2>4, <3>1, <3>3, <4>3 DEF Stored, Served, Abstract!Changes, o
    <3> QED BY <3>2, <3>3
  <2> QED BY <2>3, <2>4
<1>23. CASE UNCHANGED vars
  BY <1>23 DEF vars, Abstract!Changes, Colls, Served, Stored, Reopens, Fresh, Database
<1>24. ASSUME NEW p \in Procs, NEW n \in Names, StartCompact(p, n) PROVE
   Abstract!Changes(k)
  <2>1. map'[k] = map[k] /\ content' = content
    BY <1>24 DEF StartCompact, Receive, GetHandle
  <2> QED BY <1>24, <2>1, ServedGrows, StepIsLocal DEF Inv
<1>25. ASSUME NEW p \in Procs, CompactIndex(p) PROVE Abstract!Changes(k)
  <2>1. map'[k] = map[k] /\ content' = content
    BY <1>25 DEF CompactIndex, Compacting
  <2> QED BY <1>25, <2>1, ServedGrows, StepIsLocal DEF Inv
<1> QED BY <1>1, <1>2, <1>3, <1>4, <1>5, <1>6, <1>7, <1>8, <1>9, <1>10, <1>11, <1>12,
   <1>13, <1>14, <1>15, <1>16, <1>17, <1>18, <1>19, <1>20, <1>21, <1>22, <1>23,
   <1>24, <1>25 DEF Next, Request, Step

\* ServerImplementsDatabase: to its clients the server is the map from names to
\* collections of Database: a collection appears empty, only gains points, disappears as
\* a whole, and survives stops and restarts, for every interleaving of requests.
THEOREM ServerImplementsDatabase == Spec => ImplementsDatabase
<1>1. Init => Abstract!Init
  <2> SUFFICES ASSUME Init PROVE Abstract!Init
    OBVIOUS
  <2>1. unsure = {} /\ up = TRUE /\ content = [h \in Owners |-> {}]
    BY DEF Init
  <2>2. TypeOK /\ DirInv
    BY InitInv, InitDir DEF Inv, TypeInv
  <2>3. ASSUME NEW n \in Names
        PROVE  Served(n) \in {None} \cup [meta : Metas, points : {{}}]
    <3>1. CASE map[n] = None
      BY <3>1 DEF Served
    <3>2. CASE map[n] # None
      <4>1. NameInv(n)
        BY <2>1, <2>2 DEF DirInv
      <4>2. Complete(n, map[n])
        BY <3>2, <4>1 DEF NameInv
      <4>3. handles[map[n]].meta \in Metas /\ handles[map[n]].db \in Owners
        BY <2>2, <4>2 DEF Complete, Holds, TypeOK, Directories, Databases, DbFile
      <4> QED BY <2>1, <3>2, <4>3 DEF Served
    <3> QED BY <3>1, <3>2
  <2> QED BY <2>1, <2>3 DEF Abstract!Init, Colls
<1>2. Inv /\ Inv' /\ DirInv /\ DirInv' /\ [Next]_vars => [Abstract!Next]_<<Colls, up, unsure>>
  <2> SUFFICES ASSUME Inv, Inv', DirInv, DirInv', [Next]_vars PROVE Abstract!Next
    OBVIOUS
  <2>1. unsure \subseteq unsure'
    BY UnsureGrows
  <2>2. \A k \in Names \ unsure' : Abstract!Changes(k)
    BY <2>1, AbstractStep DEF DirInv
  <2> QED BY <2>1, <2>2 DEF Abstract!Next
<1> QED BY <1>1, <1>2, InvAlways, DirsAlways, PTL DEF Spec, ImplementsDatabase,
   Abstract!Spec
=============================================================================
