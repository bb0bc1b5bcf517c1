--------------------------- MODULE PersistentFlat ---------------------------
(***************************************************************************)
(* PersistentFlatIndex (eidosdb-storage, persistent_flat.rs): the durable   *)
(* exact index.  A redb catalog maps each live id to a slot and stores the  *)
(* watermark record_count; the segment file holds the vectors; RAM keeps    *)
(* the counters, the memory map and the tail of vectors appended since the  *)
(* last remap.                                                              *)
(*                                                                          *)
(* Every operation takes &mut self, so operations never interleave with     *)
(* each other; what interleaves with them is failure.  An operation is      *)
(* therefore split at each durable effect, and between (and inside) any     *)
(* two of them the process may crash or the effect may return an error.     *)
(* redb transactions are external: they apply all or nothing.               *)
(***************************************************************************)
EXTENDS Segment, FiniteSets

CONSTANTS
    Ids,            \* vector ids
    MaxRecords,     \* bound: watermark an insert may reach
    MaxBatch,       \* bound: items of one insert_batch
    MaxCrashes,     \* bound: process crashes
    MaxFaults,      \* bound: I/O errors returned to the index
    MaxSnapshots,   \* bound: snapshots started
    FaultKinds,     \* which layers return errors: subset of {"segment", "catalog"}
    Missing         \* what a read that fails returns

ASSUME FlatAssumption ==
    /\ MaxRecords \in Nat /\ MaxBatch \in Nat
    /\ MaxCrashes \in Nat /\ MaxFaults \in Nat /\ MaxSnapshots \in Nat
    /\ FaultKinds \subseteq {"segment", "catalog"}
    /\ Missing \notin Cells

VARIABLES
    \* On disk, in the index directory.
    catalog,        \* meta.redb: state of the file, slots table, watermark
    file,           \* vectors.seg
    \* On disk, in the snapshot directory.
    dest,
    \* In RAM, meaningful while the index is open.
    mapped_records, \* records visible through the map
    mmap,           \* "some" map is held or "none" is
    record_count, live_count,
    tail,           \* embeddings appended since the last remap
    \* The operation in progress.
    pc,
    op,             \* slot rows to commit and values to write
    \* History.
    contents,       \* what committed inserts and removes add up to
    exposed,        \* unsafe windows a failure has hit, see below
    crashes, faults, snapshots

disk == <<catalog, file>>
ram == <<mapped_records, mmap, record_count, live_count, tail>>
history == <<contents, exposed, crashes, faults, snapshots>>
vars == <<disk, dest, ram, pc, op, history>>

(***************************************************************************)
(* The windows in which this design is not failure-atomic:                  *)
(*   "creation"    first open cut short between the catalog and the segment *)
(*   "orphan_tail" an insert that returned an error left bytes behind the   *)
(*                 watermark (harmless, and cut off by the next open)       *)
(*   "misplaced"   slots committed for bytes appended behind such a tail    *)
(*   "compaction"  the segment rewritten in place, its slots not committed  *)
(*   "map"         a compaction that failed left mapped_records and tail    *)
(*                 describing two different segments (until a remap)        *)
(***************************************************************************)
Windows == {"creation", "orphan_tail", "misplaced", "compaction", "map"}

\* Windows that concern the running process only: a restart leaves them.
SessionWindows == {"orphan_tail", "map"}

DiskExposed == exposed \cap {"misplaced", "compaction"} # {}

Creating == {"create_manifest", "create_segment"}
Rewriting == {"rewrite", "remap", "replace"}
Snapshotting == {"snap_slots", "snap_segment"}
Open == {"idle", "append", "commit", "truncate"} \cup Rewriting \cup Snapshotting

NoOp == [slots |-> <<>>, flat |-> <<>>]
NoCatalog == [state |-> "absent", slots |-> <<>>, record_count |-> 0]

Partial(f, S, T) == DOMAIN f \subseteq S /\ f \in [DOMAIN f -> T]

Catalogs == {"absent", "empty", "ready"}

IsCatalog(c) ==
    /\ c.state \in Catalogs
    /\ Partial(c.slots, Ids, Nat)
    /\ IsFiniteSet(DOMAIN c.slots)
    /\ c.record_count \in Nat
    /\ c = [state |-> c.state, slots |-> c.slots, record_count |-> c.record_count]

Init ==
    /\ catalog = NoCatalog /\ file = NoFile
    /\ dest = [catalog |-> NoCatalog, file |-> NoFile, image |-> <<>>, status |-> "none"]
    /\ mapped_records = 0 /\ mmap = "none"
    /\ record_count = 0 /\ live_count = 0 /\ tail = <<>>
    /\ pc = "down" /\ op = NoOp
    /\ contents = <<>> /\ exposed = {}
    /\ crashes = 0 /\ faults = 0 /\ snapshots = 0

Fault(kind) ==
    /\ kind \in FaultKinds /\ faults < MaxFaults
    /\ faults' = faults + 1

-----------------------------------------------------------------------------
(* Reads.                                                                   *)

live == DOMAIN catalog.slots

\* Segment::record: nothing without a map, nothing beyond the mapped records.
record(slot) ==
    IF slot < mapped_records /\ mmap = "some" THEN file.recs[slot + 1] ELSE Missing

\* values_at and values_at_storage: the map below mapped_records, the tail above.
values_at(slot) ==
    IF slot < mapped_records THEN record(slot)
    ELSE IF slot - mapped_records < Len(tail) THEN tail[slot - mapped_records + 1]
    ELSE Missing

-----------------------------------------------------------------------------
(* Opening.                                                                 *)

\* No catalog file: redb creates one, without tables yet.
OpenCreatesCatalog ==
    /\ pc = "down" /\ catalog.state = "absent"
    /\ catalog' = [catalog EXCEPT !.state = "empty"]
    /\ pc' = "create_manifest"
    /\ UNCHANGED <<file, dest, ram, op, history>>

\* Catalog::create commits the manifest and an empty slots table.
OpenCommitsManifest ==
    /\ pc = "create_manifest"
    /\ catalog' = [state |-> "ready", slots |-> <<>>, record_count |-> 0]
    /\ pc' = "create_segment"
    /\ UNCHANGED <<file, dest, ram, op, history>>

\* Segment::create: header, fsync, remap(0).
OpenCreatesSegment ==
    /\ pc = "create_segment" /\ file.header = "absent"
    /\ file' = [NoFile EXCEPT !.header = "ok"]
    /\ mapped_records' = 0 /\ mmap' = "some"
    /\ record_count' = 0 /\ live_count' = 0 /\ tail' = <<>>
    /\ pc' = "idle"
    /\ UNCHANGED <<catalog, dest, op, history>>

Openable == catalog.state = "ready" /\ file.header = "ok"

\* The RAM state open builds on a segment f.
OpensOn(f) ==
    /\ file' = f
    /\ mapped_records' = catalog.record_count /\ mmap' = "some"
    /\ record_count' = catalog.record_count
    /\ live_count' = Cardinality(live)
    /\ tail' = <<>>
    /\ pc' = "idle"
    /\ UNCHANGED <<catalog, dest, op, history>>

\* Mutants: the segment is not cut at the watermark; a longer one is refused.
OpenExistingUncut == pc = "down" /\ Openable /\ OpensOn(file)
OpenExistingStrict ==
    /\ pc = "down" /\ Openable /\ Len(file.recs) = catalog.record_count
    /\ OpensOn(file)

\* A catalog file exists: read the manifest, cut the segment at the watermark.
OpenExisting == pc = "down" /\ Openable /\ OpensOn(set_len(file, catalog.record_count))

(***************************************************************************)
(* The catalog file exists but the store does not open: the manifest row    *)
(* is missing, or the segment is absent or has no valid header.  open       *)
(* returns the error and changes nothing, now and at every later attempt.   *)
(***************************************************************************)
OpenRefused ==
    /\ pc = "down" /\ catalog.state # "absent" /\ ~Openable
    /\ UNCHANGED vars

-----------------------------------------------------------------------------
(* Inserting: validate, append with fsync, commit the slots, update RAM.    *)

\* Mutant: a present id is not refused.
insert_unchecked(id, v) ==
    /\ pc = "idle" /\ record_count < MaxRecords
    /\ op' = [slots |-> [i \in {id} |-> record_count], flat |-> <<v>>]
    /\ pc' = "append"
    /\ UNCHANGED <<disk, dest, ram, history>>

insert(id, v) ==
    /\ pc = "idle" /\ record_count < MaxRecords
    /\ id \notin live
    /\ op' = [slots |-> [i \in {id} |-> record_count], flat |-> <<v>>]
    /\ pc' = "append"
    /\ UNCHANGED <<disk, dest, ram, history>>

\* The slots of a batch: consecutive from the watermark, in the caller's order.
Assigned(ids, first) ==
    [id \in {ids[i] : i \in 1..Len(ids)} |->
        first + (CHOOSE i \in 1..Len(ids) : ids[i] = id) - 1]

\* Every item is validated before anything is written.
insert_batch(ids, vals) ==
    /\ pc = "idle" /\ record_count + Len(vals) <= MaxRecords
    /\ \A i, j \in 1..Len(ids) : ids[i] = ids[j] => i = j
    /\ \A i \in 1..Len(ids) : ids[i] \notin live
    /\ op' = [slots |-> Assigned(ids, record_count), flat |-> vals]
    /\ pc' = "append"
    /\ UNCHANGED <<disk, dest, ram, history>>

SegmentAppend ==
    /\ pc = "append"
    /\ file' = append(file, op.flat)
    /\ pc' = "commit"
    /\ UNCHANGED <<catalog, dest, ram, op, history>>

\* The append returns an error: insert returns it, with bytes left behind.
SegmentAppendFails ==
    /\ pc = "append" /\ Fault("segment")
    /\ file' \in TornAppends(file, op.flat)
    /\ exposed' = exposed \cup (IF file' = file THEN {} ELSE {"orphan_tail"})
    /\ pc' = "idle" /\ op' = NoOp
    /\ UNCHANGED <<catalog, dest, ram, contents, crashes, snapshots>>

Merge(f, g) == [x \in DOMAIN f \cup DOMAIN g |-> IF x \in DOMAIN g THEN g[x] ELSE f[x]]

\* Values of the ids an insert commits.
Inserted == [id \in DOMAIN op.slots |-> op.flat[op.slots[id] - record_count + 1]]

\* Catalog::insert_slots, one transaction, then the RAM counters and the tail.
CommitCounting(n) ==
    LET next == record_count + Len(op.flat) IN
    /\ pc = "commit"
    /\ catalog' = [catalog EXCEPT !.slots = Merge(@, op.slots), !.record_count = next]
    /\ record_count' = next
    /\ live_count' = live_count + n
    /\ tail' = tail \o op.flat
    /\ pc' = "idle" /\ op' = NoOp
    /\ contents' = Merge(contents, Inserted)
    /\ exposed' = exposed \cup (IF "orphan_tail" \in exposed THEN {"misplaced"} ELSE {})
    /\ UNCHANGED <<file, dest, mapped_records, mmap, crashes, faults, snapshots>>

\* Mutant: a batch counts as one vector.
CommitSlotsOnce == CommitCounting(1)

CommitSlots == CommitCounting(Len(op.flat))

CommitSlotsFails ==
    /\ pc = "commit" /\ Fault("catalog")
    /\ exposed' = exposed \cup {"orphan_tail"}
    /\ pc' = "idle" /\ op' = NoOp
    /\ UNCHANGED <<disk, dest, ram, contents, crashes, snapshots>>

Without(f, x) == [y \in DOMAIN f \ {x} |-> f[y]]

RemovesRow(id) ==
    /\ catalog' = [catalog EXCEPT !.slots = Without(@, id)]
    /\ live_count' = live_count - 1
    /\ contents' = Without(contents, id)
    /\ UNCHANGED <<file, dest, mapped_records, mmap, record_count, tail, pc, op,
                   exposed, crashes, faults, snapshots>>

\* Mutant: live_count drops even when no row existed.
remove_unguarded(id) == pc = "idle" /\ RemovesRow(id)

remove(id) == pc = "idle" /\ id \in live /\ RemovesRow(id)

CheckpointKeeping(t) ==
    /\ pc = "idle" /\ can_remap(file, record_count)
    /\ mapped_records' = record_count /\ mmap' = "some"
    /\ tail' = t
    /\ exposed' = exposed \ {"map"}
    /\ UNCHANGED <<disk, dest, record_count, live_count, pc, op,
                   contents, crashes, faults, snapshots>>

\* Mutant: the tail survives the remap that covers it.
checkpoint_keeps_tail == CheckpointKeeping(tail)

checkpoint == CheckpointKeeping(<<>>)

\* remap drops the old map first: after an error there is none.
CheckpointFails ==
    /\ pc = "idle"
    /\ IF can_remap(file, record_count) THEN Fault("segment") ELSE UNCHANGED faults
    /\ mmap' = "none"
    /\ UNCHANGED <<disk, dest, mapped_records, record_count, live_count, tail, pc, op,
                   contents, exposed, crashes, snapshots>>

-----------------------------------------------------------------------------
(* Compacting: gather the live values in slot order, truncate the segment   *)
(* in place, re-append, remap, replace the slots table.                     *)

\* order lists every live id once, by increasing slot: live.sort_by_key(slot).
InSlotOrder(order) ==
    /\ \A id \in live : \E k \in DOMAIN order : order[k] = id
    /\ \A i, j \in DOMAIN order :
        i < j => catalog.slots[order[i]] < catalog.slots[order[j]]

Gathered(order) ==
    [slots |-> [id \in live |-> (CHOOSE k \in DOMAIN order : order[k] = id) - 1],
     flat |-> [k \in 1..Cardinality(live) |-> values_at(catalog.slots[order[k]])]]

\* A live value that cannot be read ends compact before it changes anything.
compact ==
    /\ pc = "idle"
    /\ \A id \in live : values_at(catalog.slots[id]) # Missing
    /\ \E order \in [1..Cardinality(live) -> live] :
        InSlotOrder(order) /\ op' = Gathered(order)
    /\ pc' = "truncate"
    /\ UNCHANGED <<disk, dest, ram, history>>

\* Values gathered through a stale map reach the disk with this compaction;
\* an orphan tail goes with the rest of the file.
Truncated == (exposed \ {"orphan_tail"}) \cup (IF "map" \in exposed THEN {"compaction"} ELSE {})

TruncatesHolding(m, n) ==
    /\ pc = "truncate"
    /\ mmap' = m /\ mapped_records' = n
    /\ file' = truncate_to_empty(file)
    /\ exposed' = Truncated
    /\ pc' = "rewrite"
    /\ UNCHANGED <<catalog, dest, record_count, live_count, tail, op,
                   contents, crashes, faults, snapshots>>

\* Mutant: the file is truncated under the map.
CompactTruncatesMapped == TruncatesHolding(mmap, mapped_records)

CompactTruncates == TruncatesHolding("none", 0)

\* The map is dropped before set_len; set_len may have happened when fsync fails.
CompactTruncateFails ==
    /\ pc = "truncate" /\ Fault("segment")
    /\ mapped_records' = 0 /\ mmap' = "none"
    /\ \/ file' = file /\ exposed' = exposed \cup {"map"}
       \/ file' = truncate_to_empty(file) /\ exposed' = exposed \cup {"map", "compaction"}
    /\ pc' = "idle" /\ op' = NoOp
    /\ UNCHANGED <<catalog, dest, record_count, live_count, tail,
                   contents, crashes, snapshots>>

CompactAppends ==
    /\ pc = "rewrite"
    /\ file' = append(file, op.flat)
    /\ pc' = "remap"
    /\ UNCHANGED <<catalog, dest, ram, op, history>>

CompactAppendFails ==
    /\ pc = "rewrite" /\ Fault("segment")
    /\ file' \in TornAppends(file, op.flat)
    /\ exposed' = exposed \cup {"map", "compaction"}
    /\ pc' = "idle" /\ op' = NoOp
    /\ UNCHANGED <<catalog, dest, ram, contents, crashes, snapshots>>

CompactRemaps ==
    /\ pc = "remap" /\ can_remap(file, Len(op.flat))
    /\ mapped_records' = Len(op.flat) /\ mmap' = "some"
    /\ pc' = "replace"
    /\ UNCHANGED <<disk, dest, record_count, live_count, tail, op, history>>

CompactRemapFails ==
    /\ pc = "remap" /\ Fault("segment")
    /\ mmap' = "none"
    /\ exposed' = exposed \cup {"map", "compaction"}
    /\ pc' = "idle" /\ op' = NoOp
    /\ UNCHANGED <<disk, dest, mapped_records, record_count, live_count, tail,
                   contents, crashes, snapshots>>

\* Catalog::replace_slots, one transaction, then the RAM fields.
CompactReplacesSlots ==
    /\ pc = "replace"
    /\ catalog' = [catalog EXCEPT !.slots = op.slots, !.record_count = Len(op.flat)]
    /\ record_count' = Len(op.flat)
    /\ live_count' = Cardinality(DOMAIN op.slots)
    /\ tail' = <<>>
    /\ exposed' = exposed \ {"map"}
    /\ pc' = "idle" /\ op' = NoOp
    /\ UNCHANGED <<file, dest, mapped_records, mmap, contents, crashes, faults, snapshots>>

CompactReplaceFails ==
    /\ pc = "replace" /\ Fault("catalog")
    /\ exposed' = exposed \cup {"map", "compaction"}
    /\ pc' = "idle" /\ op' = NoOp
    /\ UNCHANGED <<disk, dest, ram, contents, crashes, snapshots>>

-----------------------------------------------------------------------------
(* Snapshot: an equivalent catalog and a copy of the segment in dest.       *)

\* Catalog::create over a new or an existing dest, manifest first.
snapshot ==
    /\ pc = "idle" /\ snapshots < MaxSnapshots
    /\ dest' = [dest EXCEPT !.catalog.state = "ready",
                            !.catalog.record_count = record_count,
                            !.status = "partial"]
    /\ snapshots' = snapshots + 1
    /\ pc' = "snap_slots"
    /\ UNCHANGED <<disk, ram, op, contents, exposed, crashes, faults>>

SnapshotReplacesSlots ==
    /\ pc = "snap_slots"
    /\ dest' = [dest EXCEPT !.catalog.slots = catalog.slots,
                            !.catalog.record_count = record_count]
    /\ pc' = "snap_segment"
    /\ UNCHANGED <<disk, ram, op, history>>

SnapshotCopies(n) ==
    /\ pc = "snap_segment" /\ record_count <= Len(file.recs)
    /\ dest' = [dest EXCEPT !.file = set_len(file, n),
                            !.image = contents,
                            !.status = IF DiskExposed THEN "exposed" ELSE "sound"]
    /\ pc' = "idle"
    /\ UNCHANGED <<disk, ram, op, history>>

\* Mutant: only what the map shows is copied.
SnapshotWritesMapped == SnapshotCopies(mapped_records)

\* The first record_count records of the file, written over dest's segment.
SnapshotWritesSegment == SnapshotCopies(record_count)

\* The segment is shorter than the watermark: refused, dest keeps the catalog.
SnapshotTooShort ==
    /\ pc = "snap_segment" /\ Len(file.recs) < record_count
    /\ pc' = "idle"
    /\ UNCHANGED <<disk, dest, ram, op, history>>

-----------------------------------------------------------------------------
(* Crashes.  The effect in progress may have happened in part.              *)

CrashedFiles ==
    CASE pc \in {"append", "rewrite"} -> {file} \cup TornAppends(file, op.flat)
      [] pc = "truncate" -> {file, truncate_to_empty(file)}
      [] pc = "create_segment" -> {[NoFile EXCEPT !.header = h] : h \in {"absent", "torn", "ok"}}
      [] OTHER -> {file}

CrashExposes(f) ==
    (IF pc \in Rewriting \/ (pc = "truncate" /\ f # file) THEN {"compaction"} ELSE {})
    \cup (IF pc = "create_manifest" \/ (pc = "create_segment" /\ f.header # "ok")
          THEN {"creation"} ELSE {})

Stop ==
    /\ pc' = "down" /\ op' = NoOp
    /\ mapped_records' = 0 /\ mmap' = "none"
    /\ record_count' = 0 /\ live_count' = 0 /\ tail' = <<>>

Crash ==
    /\ pc # "down" /\ crashes < MaxCrashes
    /\ crashes' = crashes + 1
    /\ \E f \in CrashedFiles :
        /\ file' = f
        /\ exposed' = (exposed \ SessionWindows) \cup CrashExposes(f)
    /\ Stop
    /\ UNCHANGED <<catalog, dest, contents, faults, snapshots>>

\* open returns an error: like a crash on the way, but the process goes on.
OpenFails ==
    /\ \/ pc = "down" /\ Openable /\ Fault("segment")
          /\ file' = set_len(file, catalog.record_count) /\ exposed' = exposed
       \/ pc \in Creating /\ Fault(IF pc = "create_manifest" THEN "catalog" ELSE "segment")
          /\ \E f \in CrashedFiles : file' = f /\ exposed' = exposed \cup CrashExposes(f)
    /\ Stop
    /\ UNCHANGED <<catalog, dest, contents, crashes, snapshots>>

\* The index is dropped in good order: nothing on disk changes.
Close ==
    /\ pc = "idle"
    /\ exposed' = exposed \ SessionWindows
    /\ Stop
    /\ UNCHANGED <<disk, dest, contents, crashes, faults, snapshots>>

-----------------------------------------------------------------------------
Progress ==
    \/ OpenCreatesCatalog \/ OpenCommitsManifest \/ OpenCreatesSegment \/ OpenExisting
    \/ SegmentAppend \/ CommitSlots
    \/ CompactTruncates \/ CompactAppends \/ CompactRemaps \/ CompactReplacesSlots
    \/ SnapshotReplacesSlots \/ SnapshotWritesSegment \/ SnapshotTooShort

Failures ==
    \/ OpenFails \/ SegmentAppendFails \/ CommitSlotsFails \/ CheckpointFails
    \/ CompactTruncateFails \/ CompactAppendFails \/ CompactRemapFails \/ CompactReplaceFails

Calls ==
    \/ \E id \in Ids : remove(id) \/ \E v \in Values : insert(id, v)
    \/ \E n \in 1..MaxBatch :
        \E ids \in [1..n -> Ids] : \E vals \in [1..n -> Values] : insert_batch(ids, vals)
    \/ checkpoint \/ compact \/ snapshot \/ Close

Next == Progress \/ Failures \/ Calls \/ OpenRefused \/ Crash

Spec == Init /\ [][Next]_vars

(***************************************************************************)
(* A started operation, and an open of a store that is down, run on: the    *)
(* code blocks on nothing but the file system and redb.  Callers owe        *)
(* nothing, and failures are never owed.                                    *)
(***************************************************************************)
FairSpec == Spec /\ WF_vars(Progress)

-----------------------------------------------------------------------------
(* Properties.                                                              *)

IsDest(d) ==
    /\ IsCatalog(d.catalog) /\ d.file \in Files
    /\ Partial(d.image, Ids, Values) /\ d.status \in {"none", "partial", "sound", "exposed"}
    /\ d = [catalog |-> d.catalog, file |-> d.file, image |-> d.image, status |-> d.status]

IsOp(o) ==
    /\ Partial(o.slots, Ids, Nat) /\ IsFiniteSet(DOMAIN o.slots)
    /\ o.flat \in Seq(Cells)
    /\ o = [slots |-> o.slots, flat |-> o.flat]

RamOK ==
    /\ mapped_records \in Nat /\ mmap \in {"none", "some"}
    /\ record_count \in Nat /\ live_count \in Nat
    /\ tail \in Seq(Values)

TypeOK ==
    /\ IsCatalog(catalog) /\ file \in Files /\ IsDest(dest) /\ IsOp(op)
    /\ RamOK
    /\ pc \in Open \cup Creating \cup {"down"}
    /\ Partial(contents, Ids, Values)
    /\ exposed \subseteq Windows
    /\ crashes \in 0..MaxCrashes /\ faults \in 0..MaxFaults /\ snapshots \in 0..MaxSnapshots

\* What an open at this moment would serve: cut at the watermark, then decode.
Recovered(c, f) ==
    LET cut == set_len(f, c.record_count)
    IN [id \in DOMAIN c.slots |-> cut.recs[c.slots[id] + 1]]

(***************************************************************************)
(* Outside the in-place rewrite of a compaction, and unless a failure hit   *)
(* one of the disk windows, a crash at any moment loses nothing and brings  *)
(* nothing back: the bytes below the committed watermark decode to exactly  *)
(* the committed inserts minus the committed removes.  "Data before         *)
(* pointer" (persistent_flat.rs:270) is what makes it hold.                 *)
(***************************************************************************)
DurableContents ==
    (~DiskExposed /\ pc \notin Rewriting) => Recovered(catalog, file) = contents

(***************************************************************************)
(* What a search reads for a live id while the index is open and idle is    *)
(* what was inserted, whether it comes from the map or from the RAM tail;   *)
(* a read may fail only after a checkpoint lost the map.                    *)
(***************************************************************************)
ServedContents ==
    (pc = "idle" /\ ~DiskExposed /\ "map" \notin exposed) =>
        /\ live = DOMAIN contents
        /\ \A id \in live :
            \/ values_at(catalog.slots[id]) = contents[id]
            \/ values_at(catalog.slots[id]) = Missing /\ mmap = "none"

(***************************************************************************)
(* len() is the number of rows of the slots table through every failure,    *)
(* and the RAM watermark is the committed one: live_count -= 1 in remove    *)
(* never underflows and the next slot is never below a committed one.       *)
(***************************************************************************)
CountersExact ==
    pc \in Open => /\ live_count = Cardinality(live)
                   /\ record_count = catalog.record_count
                   /\ \A id \in live : catalog.slots[id] < record_count

(***************************************************************************)
(* The safety argument of the unsafe Mmap::map: a held map never covers     *)
(* records the file no longer has, after whatever error.                    *)
(***************************************************************************)
MapWithinFile == mmap = "some" => mapped_records <= Len(file.recs)

(***************************************************************************)
(* segment.rs:109: the file never shrinks under a map that stays held.      *)
(***************************************************************************)
NeverShrinksUnderMap ==
    [][mmap = "some" /\ mmap' = "some" => Len(file'.recs) >= Len(file.recs)]_vars

(***************************************************************************)
(* A snapshot that returned Ok is a store of its own that opens and decodes *)
(* to the contents at that moment, whatever happens to the source since.    *)
(***************************************************************************)
SnapshotConsistent ==
    dest.status = "sound" =>
        /\ dest.file.header = "ok" /\ dest.catalog.state = "ready"
        /\ Recovered(dest.catalog, dest.file) = dest.image

(***************************************************************************)
(* After a crash the store opens again and a started operation ends, unless *)
(* the crash hit the very first open.                                       *)
(***************************************************************************)
ComesBack == pc # "idle" ~> (pc = "idle" \/ "creation" \in exposed)

(***************************************************************************)
(* manifest.rs:21 calls record_count the "Number of valid records in the    *)
(* segment (the durability watermark)".  Read strictly: a store waiting to  *)
(* be reopened has at least that many records, so that open only ever cuts. *)
(* A crash inside compact breaks it, and open then extends with zeros.      *)
(***************************************************************************)
WatermarkHonest ==
    (pc = "down" /\ Openable) => catalog.record_count <= Len(file.recs)

(***************************************************************************)
(* persistent_flat.rs:158: "every insert is already durable (fsync +        *)
(* commit)".  Read strictly: with no compaction in the picture, what an     *)
(* idle index would recover is what was inserted.  An insert that follows   *)
(* a failed append breaks it: its slot names the orphan bytes.              *)
(***************************************************************************)
InsertsDurable ==
    (pc = "idle" /\ "compaction" \notin exposed) => Recovered(catalog, file) = contents

(***************************************************************************)
(* Until a failure hits a disk window, the index implements the port: its   *)
(* durable contents change only by whole inserts, whole batches and         *)
(* removes, and by nothing a crash, reopen, checkpoint, compaction or       *)
(* snapshot does.  During the rewrite the contents are those in flight.     *)
(***************************************************************************)
Stored ==
    IF pc \in Rewriting
    THEN [id \in DOMAIN op.slots |-> op.flat[op.slots[id] + 1]]
    ELSE Recovered(catalog, file)

Port == INSTANCE VectorIndex WITH contents <- Stored, intact <- ~DiskExposed

ImplementsVectorIndex == Port!Spec
=============================================================================
