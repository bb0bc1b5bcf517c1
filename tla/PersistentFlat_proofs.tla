----------------------- MODULE PersistentFlat_proofs -----------------------
(***************************************************************************)
(* Proofs about PersistentFlat for every set of ids and values and every    *)
(* bound: the counters, the map, the durable contents and the contents      *)
(* served are right in every reachable state.                               *)
(***************************************************************************)
EXTENDS PersistentFlat, Segment_proofs, FiniteSetTheorems

Injective(f) == \A x, y \in DOMAIN f : f[x] = f[y] => x = y

(***************************************************************************)
(* The rows an insert is about to commit: fresh ids in consecutive slots    *)
(* from the watermark on, one per value written.                            *)
(***************************************************************************)
InsertInFlight ==
    pc \in {"append", "commit"} =>
        /\ op.flat \in Seq(Values)
        /\ DOMAIN op.slots \cap live = {}
        /\ Cardinality(DOMAIN op.slots) = Len(op.flat)
        /\ Injective(op.slots)
        /\ \A id \in DOMAIN op.slots :
            op.slots[id] \in record_count..(record_count + Len(op.flat) - 1)

(***************************************************************************)
(* The rows a compaction is about to commit: the live ids, one per value.   *)
(***************************************************************************)
CompactionInFlight ==
    pc \in {"truncate"} \cup Rewriting =>
        /\ DOMAIN op.slots = live
        /\ Injective(op.slots)
        /\ \A id \in live : op.slots[id] < Len(op.flat)

SlotsBelowWatermark ==
    /\ Injective(catalog.slots)
    /\ \A id \in live : catalog.slots[id] < catalog.record_count

Counters ==
    pc \in Open => /\ live_count = Cardinality(live)
                   /\ record_count = catalog.record_count

\* No map survives the process, and none is held while the file is rewritten.
MapInv ==
    /\ MapWithinFile
    /\ pc \in {"down", "rewrite"} \cup Creating => mmap = "none"

\* Before the first open has finished nothing is stored.
CreationInv ==
    /\ pc \in Open \cup {"create_segment"} => catalog.state = "ready"
    /\ (catalog.state # "ready" \/ pc \in Creating) =>
        /\ live = {} /\ contents = <<>> /\ catalog.record_count = 0
        /\ file.recs = <<>>

StructInv ==
    /\ TypeOK
    /\ InsertInFlight /\ CompactionInFlight
    /\ SlotsBelowWatermark /\ Counters /\ MapInv /\ CreationInv

\* The watermarked part of the segment holds the contents.
DiskHolds ==
    /\ live = DOMAIN contents
    /\ catalog.record_count <= Len(file.recs)
    /\ \A id \in live : file.recs[catalog.slots[id] + 1] = contents[id]

DiskInv == (~DiskExposed /\ pc \notin Rewriting) => DiskHolds

\* Without an orphan tail the segment ends where the next slot begins.
AlignedInv ==
    (pc \in Open \ Rewriting /\ ~DiskExposed /\ "orphan_tail" \notin exposed) =>
        /\ file.end = "aligned"
        /\ pc # "commit" => Len(file.recs) = record_count
        /\ pc = "commit" =>
            /\ Len(file.recs) = record_count + Len(op.flat)
            /\ \A k \in 1..Len(op.flat) : file.recs[record_count + k] = op.flat[k]

\* The tail continues the map and holds the contents of the slots it stands for.
TailInv ==
    (pc \in Open \ Rewriting /\ ~DiskExposed /\ "map" \notin exposed) =>
        /\ mapped_records + Len(tail) = record_count
        /\ \A id \in live : catalog.slots[id] >= mapped_records =>
                tail[catalog.slots[id] - mapped_records + 1] = contents[id]

\* A compaction carries the contents from the moment they are gathered.
RewriteInv ==
    (~DiskExposed /\ (pc \in Rewriting \/ (pc = "truncate" /\ "map" \notin exposed))) =>
        /\ live = DOMAIN contents
        /\ \A id \in live : op.flat[op.slots[id] + 1] = contents[id]
        /\ pc = "rewrite" => file.recs = <<>> /\ file.end = "aligned"
        /\ pc \in {"remap", "replace"} => file.recs = op.flat /\ file.end = "aligned"
        /\ pc \in Rewriting => "map" \notin exposed
        /\ pc = "replace" => mapped_records = Len(op.flat)
        /\ pc \in Rewriting => "orphan_tail" \notin exposed

IInv == StructInv /\ DiskInv /\ AlignedInv /\ TailInv /\ RewriteInv

-----------------------------------------------------------------------------
(* Helpers on numbers and partial functions.                                *)

\* Adding a zero length changes nothing.
LEMMA PlusZero == ASSUME NEW x \in Nat, NEW z, z = 0 PROVE x + z = x
OBVIOUS

\* Merging takes the second function where it is defined, the first elsewhere.
LEMMA MergeValues ==
    ASSUME NEW f, NEW g
    PROVE  /\ DOMAIN Merge(f, g) = DOMAIN f \cup DOMAIN g
           /\ \A x \in DOMAIN g : Merge(f, g)[x] = g[x]
           /\ \A x \in DOMAIN f \ DOMAIN g : Merge(f, g)[x] = f[x]
BY DEF Merge

\* Merging two partial functions gives a partial function.
LEMMA MergeTyped ==
    ASSUME NEW S, NEW T, NEW f, NEW g, Partial(f, S, T), Partial(g, S, T)
    PROVE  Partial(Merge(f, g), S, T)
BY DEF Partial, Merge

\* Removing a key leaves a function that agrees on the rest.
LEMMA WithoutValues ==
    ASSUME NEW f, NEW x
    PROVE  /\ DOMAIN Without(f, x) = DOMAIN f \ {x}
           /\ \A y \in DOMAIN f \ {x} : Without(f, x)[y] = f[y]
BY DEF Without

\* Removing a key leaves a partial function.
LEMMA WithoutTyped ==
    ASSUME NEW S, NEW T, NEW f, NEW x, Partial(f, S, T)
    PROVE  Partial(Without(f, x), S, T)
BY DEF Partial, Without

\* The empty function is a partial function.
LEMMA EmptyTyped ==
    ASSUME NEW S, NEW T
    PROVE  Partial(<<>>, S, T) /\ DOMAIN <<>> = {}
BY DEF Partial

\* Partial functions whose domain is empty are the initial values.
LEMMA EmptiesTyped == IsCatalog(NoCatalog) /\ IsOp(NoOp) /\ NoFile \in Files
<1>1. IsFiniteSet(DOMAIN <<>>) /\ Partial(<<>>, Ids, Nat)
    BY FS_EmptySet, EmptyTyped
<1>2. IsCatalog(NoCatalog)
    BY <1>1 DEF IsCatalog, Catalogs, NoCatalog
<1>3. IsOp(NoOp)
    BY <1>1 DEF IsOp, NoOp
<1>4. NoFile \in Files
    BY DEF Files, NoFile, Ends
<1>. QED
    BY <1>2, <1>3, <1>4

\* The initial state satisfies the invariant.
LEMMA InitIInv == Init => IInv
<1> SUFFICES ASSUME Init PROVE IInv
    OBVIOUS
<1>1. IsDest(dest)
    BY EmptiesTyped, EmptyTyped DEF Init, IsDest
<1>2. TypeOK
    <2>1. IsCatalog(catalog) /\ file \in Files /\ IsOp(op)
        BY EmptiesTyped DEF Init
    <2>2. RamOK
        BY DEF Init, RamOK
    <2>3. Partial(contents, Ids, Values)
        BY EmptyTyped DEF Init
    <2>4. crashes \in 0..MaxCrashes /\ faults \in 0..MaxFaults /\ snapshots \in 0..MaxSnapshots
        BY FlatAssumption DEF Init
    <2>. QED
        BY <1>1, <2>1, <2>2, <2>3, <2>4 DEF Init, TypeOK
<1>3. InsertInFlight /\ CompactionInFlight /\ Counters
    BY DEF Init, InsertInFlight, CompactionInFlight, Counters, Open, Rewriting, Snapshotting
<1>4. SlotsBelowWatermark
    BY EmptyTyped DEF Init, SlotsBelowWatermark, Injective, live, NoCatalog
<1>5. MapInv
    BY DEF Init, MapInv, MapWithinFile
<1>6. CreationInv
    BY DEF Init, CreationInv, live, NoCatalog, NoFile, Open, Rewriting, Snapshotting, Creating
<1>7. DiskInv
    BY DEF Init, DiskInv, DiskHolds, live, NoCatalog, NoFile
<1>8. AlignedInv /\ TailInv /\ RewriteInv
    BY DEF Init, AlignedInv, TailInv, RewriteInv, Open, Rewriting, Snapshotting
<1>. QED
    BY <1>2, <1>3, <1>4, <1>5, <1>6, <1>7, <1>8 DEF IInv, StructInv
-----------------------------------------------------------------------------
(* The structural invariant: types, counters, slots and the map.            *)

\* The first open, step by step, keeps the structural invariant.
LEMMA CreationStruct ==
    ASSUME StructInv, OpenCreatesCatalog \/ OpenCommitsManifest \/ OpenCreatesSegment
    PROVE  StructInv'
<1> USE DEF StructInv, TypeOK
<1>1. CASE OpenCreatesCatalog
    <2>1. IsCatalog(catalog')
        BY <1>1 DEF OpenCreatesCatalog, IsCatalog, Catalogs
    <2>2. live' = live /\ catalog'.record_count = catalog.record_count /\ catalog'.slots = catalog.slots
        BY <1>1 DEF OpenCreatesCatalog, IsCatalog, live
    <2>3. TypeOK'
        BY <1>1, <2>1 DEF OpenCreatesCatalog, IsDest, IsOp, RamOK, ram, history, Open, Creating
    <2>4. InsertInFlight' /\ CompactionInFlight' /\ Counters' /\ MapInv'
        BY <1>1 DEF OpenCreatesCatalog, InsertInFlight, CompactionInFlight, Counters, MapInv,
            MapWithinFile, Open, Rewriting, Snapshotting, Creating, ram
    <2>5. SlotsBelowWatermark' /\ CreationInv'
        BY <1>1, <2>2 DEF OpenCreatesCatalog, SlotsBelowWatermark, CreationInv, Open, Rewriting,
            Snapshotting, Creating, history
    <2>. QED
        BY <2>3, <2>4, <2>5
<1>2. CASE OpenCommitsManifest
    <2>1. IsCatalog(catalog') /\ live' = {}
        BY <1>2, EmptyTyped, FS_EmptySet DEF OpenCommitsManifest, IsCatalog, Catalogs, live
    <2>3. TypeOK'
        BY <1>2, <2>1 DEF OpenCommitsManifest, IsDest, IsOp, RamOK, ram, history, Open, Creating
    <2>4. InsertInFlight' /\ CompactionInFlight' /\ Counters' /\ MapInv'
        BY <1>2 DEF OpenCommitsManifest, InsertInFlight, CompactionInFlight, Counters, MapInv,
            MapWithinFile, Open, Rewriting, Snapshotting, Creating, ram
    <2>5. SlotsBelowWatermark' /\ CreationInv'
        BY <1>2, <2>1 DEF OpenCommitsManifest, SlotsBelowWatermark, CreationInv, Open, Rewriting,
            Snapshotting, Creating, history, live, Injective
    <2>. QED
        BY <2>3, <2>4, <2>5
<1>3. CASE OpenCreatesSegment
    <2>1. file' \in Files /\ file'.recs = <<>>
        BY <1>3, EmptiesTyped DEF OpenCreatesSegment, NoFile, Files
    <2>2. live' = {} /\ record_count' = 0 /\ live_count' = 0 /\ catalog.record_count = 0
        BY <1>3 DEF OpenCreatesSegment, live, CreationInv, Creating
    <2>3. TypeOK'
        BY <1>3, <2>1 DEF OpenCreatesSegment, IsDest, IsOp, RamOK, history, Open, IsCatalog
    <2>4. InsertInFlight' /\ CompactionInFlight' /\ MapInv'
        BY <1>3, <2>1 DEF OpenCreatesSegment, InsertInFlight, CompactionInFlight, MapInv,
            MapWithinFile, Open, Rewriting, Snapshotting, Creating
    <2>5. Counters'
        BY <1>3, <2>2, FS_EmptySet DEF OpenCreatesSegment, Counters
    <2>6. SlotsBelowWatermark' /\ CreationInv'
        BY <1>3, <2>2 DEF OpenCreatesSegment, SlotsBelowWatermark, CreationInv, Open, Rewriting,
            Snapshotting, Creating, history, live, Injective
    <2>. QED
        BY <2>3, <2>4, <2>5, <2>6
<1>. QED
    BY <1>1, <1>2, <1>3

\* The rows of a batch: distinct ids in consecutive slots from base on.
LEMMA BatchRows ==
    ASSUME NEW n \in Nat, NEW ids \in [1..n -> Ids], NEW base \in Nat,
           \A i, j \in 1..n : ids[i] = ids[j] => i = j
    PROVE  /\ Partial(Assigned(ids, base), Ids, Nat)
           /\ DOMAIN Assigned(ids, base) = {ids[i] : i \in 1..n}
           /\ IsFiniteSet(DOMAIN Assigned(ids, base))
           /\ Cardinality(DOMAIN Assigned(ids, base)) = n
           /\ Injective(Assigned(ids, base))
           /\ \A id \in DOMAIN Assigned(ids, base) :
                Assigned(ids, base)[id] \in base..(base + n - 1)
<1> DEFINE D == {ids[i] : i \in 1..n}
           at == [id \in D |-> CHOOSE i \in 1..n : ids[i] = id]
           rows == [id \in D |-> base + at[id] - 1]
<1>1. /\ at \in [D -> 1..n]
      /\ \A id \in D : ids[at[id]] = id
      /\ \A k \in 1..n : ids[k] \in D /\ at[ids[k]] = k
    OBVIOUS
<1>2. D \subseteq Ids
    OBVIOUS
<1>3. ids \in [1..n -> D] /\ \A id \in D : \E k \in 1..n : ids[k] = id
    OBVIOUS
<1>4. rows = Assigned(ids, base)
    BY DEF Assigned
<1> HIDE DEF D, at
<1>5. IsFiniteSet(D) /\ Cardinality(D) = n
    <2>1. ids \in Surjection(1..n, D) /\ ids \in Injection(1..n, D)
        BY <1>3 DEF Surjection, Injection, IsInjective
    <2>2. IsFiniteSet(1..n) /\ Cardinality(1..n) = n
        BY FS_Interval
    <2>. QED
        BY <2>1, <2>2, FS_Surjection
<1>6. /\ DOMAIN rows = D /\ rows \in [D -> Nat]
      /\ \A id \in D : rows[id] \in base..(base + n - 1)
    <2>1. \A id \in D : at[id] \in 1..n /\ base + at[id] - 1 \in base..(base + n - 1)
        BY <1>1
    <2>2. base..(base + n - 1) \subseteq Nat
        OBVIOUS
    <2>. QED
        BY <1>1, <2>1, <2>2
<1>7. Injective(rows)
    BY <1>1 DEF Injective
<1>8. Partial(rows, Ids, Nat)
    BY <1>2, <1>6 DEF Partial
<1> HIDE DEF rows
<1>. QED
    BY <1>4, <1>5, <1>6, <1>7, <1>8 DEF D

\* Starting an insert keeps the structural invariant.
LEMMA InsertStruct ==
    ASSUME StructInv, NEW id \in Ids, NEW v \in Values, insert(id, v)
    PROVE  StructInv'
<1> USE DEF StructInv, TypeOK
<1>1. op' = [slots |-> [i \in {id} |-> record_count], flat |-> <<v>>]
    BY DEF insert
<1>2. /\ op'.slots = [i \in {id} |-> record_count] /\ DOMAIN op'.slots = {id}
      /\ op'.flat = <<v>> /\ op' = [slots |-> op'.slots, flat |-> op'.flat]
    BY <1>1
<1>3. <<v>> \in Seq(Values) /\ Len(<<v>>) = 1 /\ <<v>> \in Seq(Cells)
    BY DEF Cells
<1>4. IsFiniteSet({id}) /\ Cardinality({id}) = 1
    BY FS_Singleton
<1>5. op'.slots[id] = record_count /\ record_count \in Nat
    BY <1>2 DEF RamOK
<1>6. IsOp(op')
    <2>1. Partial(op'.slots, Ids, Nat)
        BY <1>2, <1>5 DEF Partial
    <2>. QED
        BY <1>2, <1>3, <1>4, <2>1 DEF IsOp
<1>7. TypeOK'
    BY <1>6 DEF insert, disk, ram, history, IsCatalog, IsDest, RamOK, Open
<1>8. InsertInFlight'
    <2>1. op'.flat \in Seq(Values) /\ Len(op'.flat) = 1 /\ Cardinality(DOMAIN op'.slots) = 1
        BY <1>2, <1>3, <1>4
    <2>2. DOMAIN op'.slots \cap live' = {}
        BY <1>2 DEF insert, live, disk
    <2>3. \A i \in DOMAIN op'.slots : op'.slots[i] \in record_count'..(record_count' + 1 - 1)
        BY <1>2, <1>5 DEF insert, ram
    <2>4. Injective(op'.slots)
        BY <1>2 DEF Injective
    <2>. QED
        BY <2>1, <2>2, <2>3, <2>4 DEF InsertInFlight
<1>9. CompactionInFlight' /\ Counters' /\ MapInv' /\ SlotsBelowWatermark' /\ CreationInv'
    BY DEF insert, CompactionInFlight, Counters, MapInv, MapWithinFile, SlotsBelowWatermark,
        CreationInv, disk, ram, history, live, Open, Rewriting, Snapshotting, Creating
<1>. QED
    BY <1>7, <1>8, <1>9

\* Starting a batch keeps the structural invariant.
LEMMA BatchStruct ==
    ASSUME StructInv, NEW n \in 1..MaxBatch, NEW ids \in [1..n -> Ids],
           NEW vals \in [1..n -> Values], insert_batch(ids, vals)
    PROVE  StructInv'
<1> USE DEF StructInv, TypeOK
<1> DEFINE rows == Assigned(ids, record_count)
<1>1. n \in Nat /\ record_count \in Nat
    BY FlatAssumption DEF RamOK
<1>2. Len(ids) = n /\ vals \in Seq(Values) /\ Len(vals) = n
    BY <1>1
<1>3. vals \in Seq(Cells)
    BY <1>1 DEF Cells
<1>4. \A i, j \in 1..n : ids[i] = ids[j] => i = j
    BY <1>2 DEF insert_batch
<1>5. op' = [slots |-> rows, flat |-> vals]
    BY <1>2 DEF insert_batch
<1>6. /\ Partial(rows, Ids, Nat) /\ DOMAIN rows = {ids[i] : i \in 1..n}
      /\ IsFiniteSet(DOMAIN rows) /\ Cardinality(DOMAIN rows) = n
      /\ Injective(rows)
      /\ \A id \in DOMAIN rows : rows[id] \in record_count..(record_count + n - 1)
    BY <1>1, <1>4, BatchRows
<1>7. DOMAIN rows \cap live = {}
    BY <1>2, <1>6 DEF insert_batch
<1> HIDE DEF rows
<1>8. op'.slots = rows /\ op'.flat = vals /\ op' = [slots |-> op'.slots, flat |-> op'.flat]
    BY <1>5
<1>9. TypeOK'
    <2>1. IsOp(op')
        BY <1>3, <1>6, <1>8 DEF IsOp
    <2>. QED
        BY <2>1 DEF insert_batch, disk, ram, history, IsCatalog, IsDest, RamOK, Open
<1>10. InsertInFlight'
    <2>1. op'.flat \in Seq(Values) /\ Len(op'.flat) = n /\ Cardinality(DOMAIN op'.slots) = n
        BY <1>2, <1>6, <1>8
    <2>2. DOMAIN op'.slots \cap live' = {}
        BY <1>6, <1>7, <1>8 DEF insert_batch, live, disk
    <2>3. \A i \in DOMAIN op'.slots : op'.slots[i] \in record_count'..(record_count' + n - 1)
        BY <1>6, <1>8 DEF insert_batch, ram
    <2>. QED
        BY <1>6, <1>8, <2>1, <2>2, <2>3 DEF InsertInFlight
<1>11. CompactionInFlight' /\ Counters' /\ MapInv' /\ SlotsBelowWatermark' /\ CreationInv'
    BY DEF insert_batch, CompactionInFlight, Counters, MapInv, MapWithinFile, SlotsBelowWatermark,
        CreationInv, disk, ram, history, live, Open, Rewriting, Snapshotting, Creating
<1>. QED
    BY <1>9, <1>10, <1>11

\* Appending, whether it succeeds, fails or tears, keeps the structural invariant.
LEMMA AppendStruct ==
    ASSUME StructInv, SegmentAppend \/ SegmentAppendFails \/ CompactAppends \/ CompactAppendFails
    PROVE  StructInv'
<1> USE DEF StructInv, TypeOK
<1>1. file \in Files /\ op.flat \in Seq(Cells)
    BY DEF IsOp
<1>2. /\ file' \in Files /\ Len(file'.recs) >= Len(file.recs)
      /\ Len(file.recs) \in Nat /\ Len(file'.recs) \in Nat
    <2>1. CASE SegmentAppend \/ CompactAppends
        <3>1. file' = append(file, op.flat)
            BY <2>1 DEF SegmentAppend, CompactAppends
        <3>2. Len(op.flat) \in Nat /\ Len(file.recs) \in Nat
            BY <1>1 DEF Files
        <3>3. file' \in Files /\ Len(file'.recs) = Len(file.recs) + Len(op.flat)
            BY <1>1, <3>1, AppendKeeps
        <3>. QED
            BY <1>1, <3>2, <3>3 DEF Files
    <2>2. CASE SegmentAppendFails \/ CompactAppendFails
        <3>1. file' \in TornAppends(file, op.flat)
            BY <2>2 DEF SegmentAppendFails, CompactAppendFails
        <3>2. file' \in Files /\ Len(file'.recs) >= Len(file.recs)
            BY <1>1, <3>1, TornKeeps
        <3>. QED
            BY <1>1, <3>2 DEF Files
    <2>. QED
        BY <2>1, <2>2
<1>3. MapInv' /\ UNCHANGED <<catalog, ram>>
    BY <1>2 DEF SegmentAppend, SegmentAppendFails, CompactAppends, CompactAppendFails, MapInv,
        MapWithinFile, RamOK, ram, Creating
<1>4. op' = op \/ op' = NoOp
    BY DEF SegmentAppend, SegmentAppendFails, CompactAppends, CompactAppendFails
<1>5. IsOp(op')
    BY <1>4, EmptiesTyped
<1>6. exposed' \subseteq Windows /\ crashes' \in 0..MaxCrashes /\ faults' \in 0..MaxFaults
      /\ snapshots' \in 0..MaxSnapshots /\ contents' = contents
    <2>1. exposed' \subseteq Windows
        BY DEF SegmentAppend, SegmentAppendFails, CompactAppends, CompactAppendFails, history, Windows
    <2>2. /\ faults' = faults \/ (faults < MaxFaults /\ faults' = faults + 1)
          /\ UNCHANGED <<contents, crashes, snapshots>>
        BY DEF SegmentAppend, SegmentAppendFails, CompactAppends, CompactAppendFails, history, Fault
    <2>. QED
        BY <2>1, <2>2, FlatAssumption
<1>7. pc' \in Open /\ dest' = dest
    BY DEF SegmentAppend, SegmentAppendFails, CompactAppends, CompactAppendFails, Open, Rewriting
<1>8. TypeOK'
    BY <1>2, <1>3, <1>5, <1>6, <1>7 DEF ram, IsCatalog, IsDest, RamOK
<1>9. InsertInFlight'
    BY <1>3 DEF SegmentAppend, SegmentAppendFails, CompactAppends, CompactAppendFails,
        InsertInFlight, ram, live
<1>10. CompactionInFlight'
    BY <1>3 DEF SegmentAppend, SegmentAppendFails, CompactAppends, CompactAppendFails,
        CompactionInFlight, Rewriting, ram, live
<1>11. SlotsBelowWatermark' /\ Counters' /\ CreationInv'
    BY <1>3, <1>6 DEF SegmentAppend, SegmentAppendFails, CompactAppends, CompactAppendFails,
        SlotsBelowWatermark, Counters, CreationInv, Open, Rewriting, Snapshotting, Creating,
        ram, live
<1>. QED
    BY <1>3, <1>8, <1>9, <1>10, <1>11

\* The rows and the contents an insert commits.
LEMMA InsertedTyped ==
    ASSUME StructInv, pc = "commit"
    PROVE  /\ Partial(Inserted, Ids, Values) /\ DOMAIN Inserted = DOMAIN op.slots
           /\ \A id \in DOMAIN op.slots :
                /\ op.slots[id] - record_count + 1 \in 1..Len(op.flat)
                /\ Inserted[id] = op.flat[op.slots[id] - record_count + 1]
<1> USE DEF StructInv, TypeOK
<1>1. op.flat \in Seq(Values) /\ Len(op.flat) \in Nat /\ record_count \in Nat
    BY DEF InsertInFlight, RamOK
<1>2. \A id \in DOMAIN op.slots :
        op.slots[id] \in record_count..(record_count + Len(op.flat) - 1)
    BY DEF InsertInFlight
<1>3. \A id \in DOMAIN op.slots : op.slots[id] - record_count + 1 \in 1..Len(op.flat)
    <2> HIDE DEF StructInv, TypeOK
    <2>. QED
        BY <1>1, <1>2
<1>4. DOMAIN op.slots \subseteq Ids
    BY DEF IsOp, Partial
<1>. QED
    BY <1>1, <1>3, <1>4 DEF Inserted, Partial

\* Committing the slots of an insert keeps the structural invariant.
LEMMA CommitStruct ==
    ASSUME StructInv, CommitSlots
    PROVE  StructInv'
<1> USE DEF StructInv, TypeOK
<1> DEFINE n == Len(op.flat)
           slots == Merge(catalog.slots, op.slots)
<1>1. pc = "commit"
    BY DEF CommitSlots, CommitCounting
<1>2. n \in Nat /\ record_count \in Nat /\ live_count \in Nat /\ record_count = catalog.record_count
      /\ live_count = Cardinality(live) /\ Cardinality(DOMAIN op.slots) = n
    BY <1>1 DEF IsOp, RamOK, Counters, Open, InsertInFlight
<1>3. /\ catalog'.state = catalog.state /\ catalog'.slots = slots
      /\ catalog'.record_count = record_count + n
      /\ catalog' = [state |-> catalog'.state, slots |-> catalog'.slots,
                     record_count |-> catalog'.record_count]
    BY DEF CommitSlots, CommitCounting, IsCatalog
<1>4. /\ Partial(slots, Ids, Nat) /\ DOMAIN slots = live \cup DOMAIN op.slots
      /\ \A x \in DOMAIN op.slots : slots[x] = op.slots[x]
      /\ \A x \in live : slots[x] = catalog.slots[x]
    <2>1. Partial(catalog.slots, Ids, Nat) /\ Partial(op.slots, Ids, Nat)
        BY DEF IsCatalog, IsOp
    <2>2. DOMAIN op.slots \cap live = {}
        BY <1>1 DEF InsertInFlight
    <2> HIDE DEF StructInv, TypeOK
    <2>3. Partial(slots, Ids, Nat)
        BY <2>1, MergeTyped
    <2>4. /\ DOMAIN slots = DOMAIN catalog.slots \cup DOMAIN op.slots
          /\ \A x \in DOMAIN op.slots : slots[x] = op.slots[x]
          /\ \A x \in DOMAIN catalog.slots \ DOMAIN op.slots : slots[x] = catalog.slots[x]
        BY MergeValues
    <2> HIDE DEF slots
    <2>. QED
        BY <2>2, <2>3, <2>4 DEF live
<1> HIDE DEF n, slots
<1>5. live' = live \cup DOMAIN op.slots
    BY <1>3, <1>4 DEF live
<1>6. IsFiniteSet(live') /\ Cardinality(live') = Cardinality(live) + n
    <2>1. IsFiniteSet(live) /\ IsFiniteSet(DOMAIN op.slots) /\ live \cap DOMAIN op.slots = {}
        BY <1>1 DEF IsCatalog, IsOp, live, InsertInFlight
    <2>2. Cardinality(live) \in Nat
        BY <2>1, FS_CardinalityType
    <2>3. /\ IsFiniteSet(live \cup DOMAIN op.slots)
          /\ Cardinality(live \cup DOMAIN op.slots)
                = Cardinality(live) + Cardinality(DOMAIN op.slots) - Cardinality({})
        BY <2>1, FS_Union
    <2> HIDE DEF StructInv, TypeOK
    <2>. QED
        BY <1>2, <1>5, <2>2, <2>3, FS_EmptySet
<1>7. IsCatalog(catalog')
    BY <1>2, <1>3, <1>4, <1>6 DEF IsCatalog, live
<1>8. /\ record_count' = record_count + n /\ live_count' = live_count + n
      /\ tail' = tail \o op.flat /\ pc' = "idle" /\ op' = NoOp
      /\ contents' = Merge(contents, Inserted)
      /\ UNCHANGED <<file, dest, mapped_records, mmap, crashes, faults, snapshots>>
      /\ exposed' \subseteq Windows
    BY DEF CommitSlots, CommitCounting, n, Windows
<1>9. TypeOK'
    <2>1. Partial(contents', Ids, Values)
        BY <1>1, <1>8, InsertedTyped, MergeTyped
    <2>2. tail' \in Seq(Values)
        BY <1>1, <1>8 DEF InsertInFlight, RamOK
    <2>3. mapped_records' \in Nat /\ mmap' \in {"none", "some"}
        BY <1>8 DEF RamOK
    <2>4. record_count' \in Nat /\ live_count' \in Nat
        <3>1. record_count \in Nat /\ live_count \in Nat /\ n \in Nat
            BY <1>2 DEF RamOK
        <3> HIDE DEF StructInv, TypeOK
        <3>. QED
            BY <1>8, <3>1
    <2>5. RamOK'
        BY <2>2, <2>3, <2>4 DEF RamOK
    <2>. QED
        BY <1>7, <1>8, <2>1, <2>5, EmptiesTyped DEF Open, IsDest
<1>10. InsertInFlight' /\ CompactionInFlight' /\ MapInv'
    BY <1>8 DEF InsertInFlight, CompactionInFlight, MapInv, MapWithinFile, Rewriting, Creating
<1>11. Counters'
    BY <1>2, <1>3, <1>6, <1>8 DEF Counters
<1>12. SlotsBelowWatermark'
    <2>1. \A x \in live : catalog.slots[x] \in Nat /\ catalog.slots[x] < record_count
        BY <1>2 DEF SlotsBelowWatermark, IsCatalog, Partial, live
    <2>2. \A x \in DOMAIN op.slots : op.slots[x] >= record_count /\ op.slots[x] < record_count + n
                                     /\ op.slots[x] \in Nat
        BY <1>1, <1>2 DEF InsertInFlight, IsOp, Partial, n
    <2>3. \A x, y \in live : catalog.slots[x] = catalog.slots[y] => x = y
        BY DEF SlotsBelowWatermark, Injective, live
    <2>4. \A x, y \in DOMAIN op.slots : op.slots[x] = op.slots[y] => x = y
        BY <1>1 DEF InsertInFlight, Injective
    <2>5. \A x, y \in live' : slots[x] = slots[y] => x = y
        BY <1>2, <1>4, <1>5, <2>1, <2>2, <2>3, <2>4
    <2>6. \A x \in live' : slots[x] < record_count + n
        BY <1>2, <1>4, <1>5, <2>1, <2>2
    <2>. QED
        BY <1>3, <2>5, <2>6 DEF SlotsBelowWatermark, Injective, live
<1>13. CreationInv'
    BY <1>1, <1>3, <1>8 DEF CreationInv, Open, Rewriting, Snapshotting, Creating
<1>. QED
    BY <1>9, <1>10, <1>11, <1>12, <1>13

\* A removal deletes one row and lowers live_count by one, never below zero.
LEMMA RemoveStruct ==
    ASSUME StructInv, NEW id \in Ids, remove(id)
    PROVE  StructInv'
<1> USE DEF StructInv, TypeOK
<1> DEFINE slots == Without(catalog.slots, id)
<1>1. /\ catalog'.state = catalog.state /\ catalog'.slots = slots
      /\ catalog'.record_count = catalog.record_count
      /\ catalog' = [state |-> catalog'.state, slots |-> catalog'.slots,
                     record_count |-> catalog'.record_count]
    BY DEF remove, RemovesRow, IsCatalog
<1>2. Partial(slots, Ids, Nat)
    BY WithoutTyped DEF IsCatalog
<1>3. DOMAIN slots = live \ {id} /\ \A x \in live \ {id} : slots[x] = catalog.slots[x]
    BY WithoutValues DEF live
<1> HIDE DEF slots
<1>4. id \in live /\ live' = live \ {id}
    BY <1>1, <1>3 DEF live, remove
<1>5. IsFiniteSet(live') /\ Cardinality(live') = Cardinality(live) - 1
      /\ Cardinality(live) \in Nat /\ Cardinality(live') \in Nat
    <2>1. IsFiniteSet(live)
        BY DEF IsCatalog, live
    <2>. QED
        BY <1>4, <2>1, FS_RemoveElement, FS_CardinalityType
<1>6. /\ live_count' = live_count - 1 /\ pc = "idle" /\ pc' = "idle"
      /\ contents' = Without(contents, id)
      /\ UNCHANGED <<file, dest, mapped_records, mmap, record_count, tail, op,
                     exposed, crashes, faults, snapshots>>
    BY DEF remove, RemovesRow
<1>7. TypeOK'
    <2>1. IsCatalog(catalog')
        BY <1>1, <1>2, <1>3, <1>4, <1>5 DEF IsCatalog
    <2>2. Partial(contents', Ids, Values)
        BY <1>6, WithoutTyped
    <2>3. RamOK'
        BY <1>5, <1>6 DEF RamOK, Counters, Open
    <2>. QED
        BY <1>6, <2>1, <2>2, <2>3 DEF IsDest, IsOp
<1>8. InsertInFlight' /\ CompactionInFlight' /\ MapInv'
    BY <1>6 DEF InsertInFlight, CompactionInFlight, MapInv, MapWithinFile, Rewriting, Creating
<1>9. Counters'
    BY <1>1, <1>5, <1>6 DEF Counters, Open
<1>10. SlotsBelowWatermark'
    <2>1. \A x \in live' : x \in live /\ catalog'.slots[x] = catalog.slots[x]
        BY <1>1, <1>3, <1>4
    <2>. QED
        BY <1>1, <2>1 DEF SlotsBelowWatermark, Injective, live
<1>11. CreationInv'
    BY <1>1, <1>6 DEF CreationInv, Open, Rewriting, Snapshotting, Creating
<1>. QED
    BY <1>7, <1>8, <1>9, <1>10, <1>11

\* Steps that only move the map, the tail, the exposure or the fault counter.
LEMMA CheckpointStruct ==
    ASSUME StructInv, checkpoint \/ CheckpointFails \/ CommitSlotsFails
    PROVE  StructInv'
<1> USE DEF StructInv, TypeOK
<1>1. /\ UNCHANGED <<catalog, file, dest, record_count, live_count, contents, crashes, snapshots>>
      /\ pc \in {"idle", "commit"} /\ pc' = "idle" /\ (op' = op \/ op' = NoOp)
      /\ exposed' \subseteq Windows
    BY DEF checkpoint, CheckpointKeeping, CheckpointFails, CommitSlotsFails, disk, ram, Windows
<1>2. faults' = faults \/ (faults < MaxFaults /\ faults' = faults + 1)
    BY DEF checkpoint, CheckpointKeeping, CheckpointFails, CommitSlotsFails, Fault
<1>3. faults' \in 0..MaxFaults
    BY <1>2, FlatAssumption
<1>4. RamOK'
    <2>1. tail' = <<>> \/ tail' = tail
        BY DEF checkpoint, CheckpointKeeping, CheckpointFails, CommitSlotsFails, ram
    <2>2. mapped_records' \in Nat /\ mmap' \in {"none", "some"}
        BY DEF checkpoint, CheckpointKeeping, CheckpointFails, CommitSlotsFails, ram, RamOK
    <2>3. <<>> \in Seq(Values) /\ tail \in Seq(Values)
        BY DEF RamOK
    <2>4. tail' \in Seq(Values)
        BY <2>1, <2>3
    <2>. QED
        BY <1>1, <2>2, <2>4 DEF RamOK
<1>5. TypeOK'
    BY <1>1, <1>3, <1>4, EmptiesTyped DEF IsCatalog, IsDest, IsOp, Open
<1>6. MapInv'
    BY <1>1 DEF checkpoint, CheckpointKeeping, CheckpointFails, CommitSlotsFails, can_remap,
        MapInv, MapWithinFile, Creating, ram, RamOK
<1>7. InsertInFlight' /\ CompactionInFlight'
    BY <1>1 DEF InsertInFlight, CompactionInFlight, Rewriting
<1>8. Counters' /\ SlotsBelowWatermark' /\ CreationInv'
    BY <1>1 DEF Counters, SlotsBelowWatermark, CreationInv, Open, Rewriting, Snapshotting,
        Creating, live
<1>. QED
    BY <1>5, <1>6, <1>7, <1>8

\* Opening an existing store rebuilds the counters from the catalog.
LEMMA OpenStruct ==
    ASSUME StructInv, OpenExisting
    PROVE  StructInv'
<1> USE DEF StructInv, TypeOK
<1>1. /\ file' = set_len(file, catalog.record_count) /\ catalog.state = "ready"
      /\ mapped_records' = catalog.record_count /\ record_count' = catalog.record_count
      /\ live_count' = Cardinality(live) /\ mmap' = "some" /\ tail' = <<>> /\ pc' = "idle"
      /\ UNCHANGED <<catalog, dest, op, contents, exposed, crashes, faults, snapshots>>
    BY DEF OpenExisting, Openable, OpensOn, history
<1>2. catalog.record_count \in Nat /\ IsFiniteSet(live)
    BY DEF IsCatalog, live
<1>3. file' \in Files /\ Len(file'.recs) = catalog.record_count
    BY <1>1, <1>2, SetLenKeeps
<1>4. Cardinality(live) \in Nat
    BY <1>2, FS_CardinalityType
<1>5. RamOK'
    BY <1>1, <1>2, <1>4 DEF RamOK
<1>6. TypeOK'
    BY <1>1, <1>3, <1>5 DEF IsCatalog, IsDest, IsOp, Open
<1>7. InsertInFlight' /\ CompactionInFlight'
    BY <1>1 DEF InsertInFlight, CompactionInFlight, Rewriting
<1>8. MapInv'
    BY <1>1, <1>2, <1>3 DEF MapInv, MapWithinFile, Creating
<1>9. Counters' /\ SlotsBelowWatermark' /\ CreationInv'
    BY <1>1 DEF Counters, SlotsBelowWatermark, CreationInv, Open, Rewriting, Snapshotting,
        Creating, live
<1>. QED
    BY <1>6, <1>7, <1>8, <1>9

\* Whatever a crash leaves of the segment is a file, and an empty one stays empty.
LEMMA CrashedTyped ==
    ASSUME StructInv, NEW f \in CrashedFiles
    PROVE  f \in Files /\ (pc \in Creating \cup {"down"} => (f.recs = file.recs \/ f.recs = <<>>))
<1> USE DEF StructInv, TypeOK
<1>1. op.flat \in Seq(Cells) /\ file \in Files
    BY DEF IsOp
<1>2. CASE pc \in {"append", "rewrite"}
    <2>1. f \in {file} \cup TornAppends(file, op.flat)
        BY <1>2 DEF CrashedFiles
    <2>. QED
        BY <1>1, <1>2, <2>1, TornKeeps DEF Creating
<1>3. CASE pc = "truncate"
    <2>1. f \in {file, truncate_to_empty(file)}
        BY <1>3 DEF CrashedFiles
    <2>. QED
        BY <1>1, <1>3, <2>1, SetLenKeeps DEF truncate_to_empty, Creating
<1>4. CASE pc = "create_segment"
    <2>1. PICK h \in {"absent", "torn", "ok"} : f = [NoFile EXCEPT !.header = h]
        BY <1>4 DEF CrashedFiles
    <2>2. f \in Files
        BY <2>1, EmptiesTyped DEF Files
    <2>3. f.recs = <<>>
        BY <2>1 DEF NoFile
    <2>. QED
        BY <2>2, <2>3
<1>5. CASE pc \notin {"append", "rewrite", "truncate", "create_segment"}
    BY <1>1, <1>5 DEF CrashedFiles
<1>. QED
    BY <1>2, <1>3, <1>4, <1>5

\* Stopping, by a crash, an open that fails or in good order.
LEMMA StopStruct ==
    ASSUME StructInv, Crash \/ OpenFails \/ Close
    PROVE  StructInv'
<1> USE DEF StructInv, TypeOK
<1>1. /\ UNCHANGED <<catalog, dest, contents, snapshots>>
      /\ pc' = "down" /\ op' = NoOp /\ mapped_records' = 0 /\ mmap' = "none"
      /\ record_count' = 0 /\ live_count' = 0 /\ tail' = <<>>
    BY DEF Crash, OpenFails, Close, Stop, disk
<1>2. /\ \/ file' \in CrashedFiles
         \/ file' = file
         \/ file' = set_len(file, catalog.record_count) /\ catalog.state = "ready" /\ pc = "down"
      /\ exposed' \subseteq Windows
    BY DEF Crash, OpenFails, Close, Windows, CrashExposes, disk, Openable
<1>3. /\ faults' = faults \/ (faults < MaxFaults /\ faults' = faults + 1)
      /\ crashes' = crashes \/ (crashes < MaxCrashes /\ crashes' = crashes + 1)
    BY DEF Crash, OpenFails, Close, Fault
<1>4. faults' \in 0..MaxFaults /\ crashes' \in 0..MaxCrashes
    BY <1>3, FlatAssumption
<1>5. file' \in Files
    <2>1. catalog.record_count \in Nat
        BY DEF IsCatalog
    <2>. QED
        BY <1>2, <2>1, CrashedTyped, SetLenKeeps
<1>6. RamOK'
    BY <1>1 DEF RamOK
<1>7. TypeOK'
    BY <1>1, <1>2, <1>4, <1>5, <1>6, EmptiesTyped DEF IsCatalog, IsDest
<1>8. InsertInFlight' /\ CompactionInFlight' /\ MapInv' /\ Counters' /\ SlotsBelowWatermark'
    BY <1>1 DEF InsertInFlight, CompactionInFlight, Rewriting, MapInv, MapWithinFile, Counters,
        Open, Snapshotting, SlotsBelowWatermark, live
<1>9. CreationInv'
    <2>1. CASE catalog.state = "ready"
        BY <1>1, <2>1 DEF CreationInv, Open, Rewriting, Snapshotting, Creating
    <2>2. CASE catalog.state # "ready"
        <3>1. pc \in Creating \cup {"down"}
            BY <2>2 DEF CreationInv
        <3>2. file'.recs = <<>>
            BY <1>2, <2>2, <3>1, CrashedTyped DEF CreationInv
        <3>. QED
            BY <1>1, <2>2, <3>2 DEF CreationInv, live, Open, Rewriting, Snapshotting, Creating
    <2>. QED
        BY <2>1, <2>2
<1>. QED
    BY <1>7, <1>8, <1>9

\* A read that succeeds returns the bytes of the file or a value of the tail.
LEMMA ReadTyped ==
    ASSUME StructInv, NEW id \in live, values_at(catalog.slots[id]) # Missing
    PROVE  values_at(catalog.slots[id]) \in Cells
<1> USE DEF StructInv, TypeOK
<1> DEFINE slot == catalog.slots[id]
<1>1. slot \in Nat /\ mapped_records \in Nat /\ tail \in Seq(Values) /\ file.recs \in Seq(Cells)
    BY DEF IsCatalog, Partial, live, RamOK, Files
<1> HIDE DEF slot
<1>2. CASE slot < mapped_records
    <2>1. values_at(slot) = record(slot)
        BY <1>2 DEF values_at
    <2>2. mmap = "some" /\ record(slot) = file.recs[slot + 1]
        BY <2>1 DEF record, slot
    <2>3. slot + 1 \in 1..Len(file.recs)
        BY <1>1, <1>2, <2>2 DEF MapInv, MapWithinFile
    <2>4. file.recs[slot + 1] \in Cells
        BY <1>1, <2>3
    <2>. QED
        BY <2>1, <2>2, <2>4 DEF slot
<1>3. CASE ~(slot < mapped_records)
    <2>1. slot - mapped_records < Len(tail)
        BY <1>1, <1>3 DEF values_at, slot
    <2>2. values_at(slot) = tail[slot - mapped_records + 1]
        BY <1>3, <2>1 DEF values_at
    <2>3. slot - mapped_records + 1 \in 1..Len(tail)
        BY <1>1, <1>3, <2>1
    <2>4. tail[slot - mapped_records + 1] \in Values
        BY <1>1, <2>3
    <2>. QED
        BY <2>2, <2>4 DEF slot, Cells
<1>. QED
    BY <1>2, <1>3

\* What a compaction gathers: one value per live id, in slots below their number.
LEMMA GatheredTyped ==
    ASSUME StructInv, NEW order \in [1..Cardinality(live) -> live], InSlotOrder(order),
           \A id \in live : values_at(catalog.slots[id]) # Missing
    PROVE  /\ IsOp(Gathered(order))
           /\ DOMAIN Gathered(order).slots = live
           /\ Injective(Gathered(order).slots)
           /\ Len(Gathered(order).flat) = Cardinality(live)
           /\ \A id \in live :
                /\ Gathered(order).slots[id] < Cardinality(live)
                /\ Gathered(order).flat[Gathered(order).slots[id] + 1]
                        = values_at(catalog.slots[id])
<1> DEFINE n == Cardinality(live)
           at == [id \in live |-> CHOOSE k \in DOMAIN order : order[k] = id]
           rows == [id \in live |-> at[id] - 1]
           read == [id \in live |-> values_at(catalog.slots[id])]
           flat == [k \in 1..n |-> read[order[k]]]
<1>1. IsFiniteSet(live) /\ n \in Nat
    <2>1. IsFiniteSet(live)
        BY DEF StructInv, TypeOK, IsCatalog, live
    <2>. QED
        BY <2>1, FS_CardinalityType
<1>2. at \in [live -> 1..n] /\ \A id \in live : order[at[id]] = id
    BY DEF InSlotOrder
<1>3. read \in [live -> Cells]
    BY ReadTyped
<1>4. \A id \in live : read[id] = values_at(catalog.slots[id])
    OBVIOUS
<1>5. Gathered(order) = [slots |-> rows, flat |-> flat]
    <2>1. rows = [id \in live |-> (CHOOSE k \in DOMAIN order : order[k] = id) - 1]
        OBVIOUS
    <2>2. flat = [k \in 1..Cardinality(live) |-> values_at(catalog.slots[order[k]])]
        OBVIOUS
    <2> HIDE DEF rows, flat
    <2>. QED
        BY <2>1, <2>2 DEF Gathered
<1>6. live \subseteq Ids
    BY DEF StructInv, TypeOK, IsCatalog, Partial, live
<1> HIDE DEF n, at, read
<1>7. /\ DOMAIN rows = live /\ rows \in [live -> Nat]
      /\ \A id \in live : rows[id] = at[id] - 1 /\ rows[id] + 1 = at[id] /\ rows[id] < n
    BY <1>1, <1>2
<1>8. Injective(rows)
    BY <1>2, <1>7 DEF Injective
<1>9. flat \in [1..n -> Cells]
    BY <1>3 DEF n
<1>10. flat \in Seq(Cells) /\ Len(flat) = n
    BY <1>1, <1>9
<1>11. \A id \in live : flat[rows[id] + 1] = read[id]
    BY <1>2, <1>7
<1>12. Partial(rows, Ids, Nat)
    BY <1>6, <1>7 DEF Partial
<1> HIDE DEF rows, flat
<1>13. /\ Gathered(order).slots = rows /\ Gathered(order).flat = flat
       /\ Gathered(order) = [slots |-> Gathered(order).slots, flat |-> Gathered(order).flat]
    BY <1>5
<1>14. IsOp(Gathered(order))
    BY <1>1, <1>7, <1>10, <1>12, <1>13 DEF IsOp
<1>. QED
    BY <1>4, <1>7, <1>8, <1>10, <1>11, <1>13, <1>14 DEF n

\* The steps of a compaction keep the structural invariant.
LEMMA CompactStruct ==
    ASSUME StructInv,
           \/ compact \/ CompactTruncates \/ CompactTruncateFails
           \/ CompactRemaps \/ CompactRemapFails \/ CompactReplaceFails
    PROVE  StructInv'
<1> USE DEF StructInv, TypeOK
<1>1. UNCHANGED <<catalog, dest, record_count, live_count, tail, contents, crashes, snapshots>>
    BY DEF compact, CompactTruncates, TruncatesHolding, CompactTruncateFails, CompactRemaps,
        CompactRemapFails, CompactReplaceFails, disk, ram, history
<1>2. pc \in Open /\ pc' \in {"idle", "truncate"} \cup Rewriting
    BY DEF compact, CompactTruncates, TruncatesHolding, CompactTruncateFails, CompactRemaps,
        CompactRemapFails, CompactReplaceFails, Open, Rewriting
<1>3. exposed' \subseteq Windows
    BY DEF compact, CompactTruncates, TruncatesHolding, CompactTruncateFails, CompactRemaps,
        CompactRemapFails, CompactReplaceFails, history, Windows, Truncated
<1>4. faults' = faults \/ (faults < MaxFaults /\ faults' = faults + 1)
    BY DEF compact, CompactTruncates, TruncatesHolding, CompactTruncateFails, CompactRemaps,
        CompactRemapFails, CompactReplaceFails, history, Fault
<1>5. faults' \in 0..MaxFaults
    BY <1>4, FlatAssumption
<1>6. file' = file \/ (file' = truncate_to_empty(file) /\ mmap' = "none")
    BY DEF compact, CompactTruncates, TruncatesHolding, CompactTruncateFails, CompactRemaps,
        CompactRemapFails, CompactReplaceFails, disk
<1>7. file' \in Files
    BY <1>6, SetLenKeeps DEF truncate_to_empty
<1>8. Len(op.flat) \in Nat
    BY DEF IsOp
<1>9. mapped_records' \in Nat /\ mmap' \in {"none", "some"}
    BY <1>8 DEF compact, CompactTruncates, TruncatesHolding, CompactTruncateFails, CompactRemaps,
        CompactRemapFails, CompactReplaceFails, ram, RamOK
<1>10. MapInv'
    <2>1. pc' \notin {"down"} \cup Creating
        BY <1>2 DEF Rewriting, Creating
    <2>2. pc' = "rewrite" => mmap' = "none"
        BY DEF compact, CompactTruncates, TruncatesHolding, CompactTruncateFails, CompactRemaps,
            CompactRemapFails, CompactReplaceFails
    <2>3. mmap' = "some" => file' = file /\ (\/ mapped_records' = mapped_records /\ mmap = "some"
                                             \/ can_remap(file, mapped_records'))
        BY <1>6 DEF compact, CompactTruncates, TruncatesHolding, CompactTruncateFails,
            CompactRemaps, CompactRemapFails, CompactReplaceFails, disk, ram
    <2>4. mmap' = "some" => mapped_records' <= Len(file'.recs)
        BY <2>3 DEF MapInv, MapWithinFile, can_remap
    <2>. QED
        BY <2>1, <2>2, <2>4 DEF MapInv, MapWithinFile
<1>11. CASE compact
    <2>1. PICK order \in [1..Cardinality(live) -> live] : InSlotOrder(order) /\ op' = Gathered(order)
        BY <1>11 DEF compact
    <2>2. \A id \in live : values_at(catalog.slots[id]) # Missing
        BY <1>11 DEF compact
    <2>3. /\ IsOp(op') /\ DOMAIN op'.slots = live /\ Injective(op'.slots)
          /\ \A id \in live : op'.slots[id] < Len(op'.flat)
        BY <2>1, <2>2, GatheredTyped
    <2>4. pc' = "truncate"
        BY <1>11 DEF compact
    <2>5. TypeOK'
        BY <1>1, <1>2, <1>3, <1>5, <1>7, <1>9, <2>3 DEF IsCatalog, IsDest, RamOK, Open, Rewriting
    <2>6. live' = live
        BY <1>1 DEF live
    <2>7. CompactionInFlight' /\ InsertInFlight'
        BY <2>3, <2>4, <2>6 DEF CompactionInFlight, InsertInFlight
    <2>8. Counters' /\ SlotsBelowWatermark' /\ CreationInv'
        BY <1>1, <1>2, <2>4, <2>6 DEF Counters, SlotsBelowWatermark, CreationInv, Open, Rewriting,
            Snapshotting, Creating
    <2>. QED
        BY <1>10, <2>5, <2>7, <2>8
<1>12. CASE ~compact
    <2>1. IsOp(op')
        BY <1>12, EmptiesTyped DEF CompactTruncates, TruncatesHolding, CompactTruncateFails,
            CompactRemaps, CompactRemapFails, CompactReplaceFails
    <2>2. CompactionInFlight' /\ InsertInFlight'
        BY <1>1, <1>12 DEF CompactTruncates, TruncatesHolding, CompactTruncateFails, CompactRemaps,
            CompactRemapFails, CompactReplaceFails, CompactionInFlight, InsertInFlight, Rewriting,
            live
    <2>3. TypeOK'
        BY <1>1, <1>2, <1>3, <1>5, <1>7, <1>9, <2>1 DEF IsCatalog, IsDest, RamOK, Open, Rewriting
    <2>. QED
        BY <1>1, <1>2, <1>10, <2>2, <2>3
        DEF Counters, SlotsBelowWatermark, CreationInv, live, Open, Rewriting, Snapshotting,
            Creating
<1>. QED
    BY <1>11, <1>12

\* Replacing the slots table resets the counters to the compacted rows.
LEMMA ReplaceStruct ==
    ASSUME StructInv, CompactReplacesSlots
    PROVE  StructInv'
<1> USE DEF StructInv, TypeOK
<1>1. /\ pc = "replace" /\ pc' = "idle" /\ op' = NoOp
      /\ record_count' = Len(op.flat) /\ live_count' = Cardinality(DOMAIN op.slots)
      /\ tail' = <<>> /\ exposed' \subseteq Windows
      /\ UNCHANGED <<file, dest, mapped_records, mmap, contents, crashes, faults, snapshots>>
    BY DEF CompactReplacesSlots
<1>2. /\ catalog'.state = catalog.state /\ catalog'.slots = op.slots
      /\ catalog'.record_count = Len(op.flat)
      /\ catalog' = [state |-> catalog'.state, slots |-> catalog'.slots,
                     record_count |-> catalog'.record_count]
    BY DEF CompactReplacesSlots, IsCatalog
<1>3. Len(op.flat) \in Nat /\ IsFiniteSet(DOMAIN op.slots) /\ Partial(op.slots, Ids, Nat)
    BY DEF IsOp
<1>4. Cardinality(DOMAIN op.slots) \in Nat
    BY <1>3, FS_CardinalityType
<1>5. live' = DOMAIN op.slots /\ live = DOMAIN op.slots /\ Injective(op.slots)
      /\ \A id \in live : op.slots[id] < Len(op.flat)
    BY <1>1, <1>2 DEF live, CompactionInFlight, Rewriting
<1>6. TypeOK'
    <2>1. IsCatalog(catalog')
        BY <1>2, <1>3 DEF IsCatalog
    <2>2. RamOK'
        BY <1>1, <1>3, <1>4 DEF RamOK
    <2>. QED
        BY <1>1, <2>1, <2>2, EmptiesTyped DEF IsDest, Open
<1>7. InsertInFlight' /\ CompactionInFlight' /\ MapInv'
    BY <1>1 DEF InsertInFlight, CompactionInFlight, MapInv, MapWithinFile, Rewriting, Creating
<1>8. Counters' /\ SlotsBelowWatermark'
    BY <1>1, <1>2, <1>5 DEF Counters, SlotsBelowWatermark
<1>9. CreationInv'
    BY <1>1, <1>2 DEF CreationInv, Open, Rewriting, Snapshotting, Creating
<1>. QED
    BY <1>6, <1>7, <1>8, <1>9

\* A snapshot writes the destination only.
LEMMA SnapshotStruct ==
    ASSUME StructInv,
           snapshot \/ SnapshotReplacesSlots \/ SnapshotWritesSegment \/ SnapshotTooShort
    PROVE  StructInv'
<1> USE DEF StructInv, TypeOK
<1>1. /\ UNCHANGED <<catalog, file, mapped_records, mmap, record_count, live_count, tail, op,
                     contents, exposed, crashes, faults>>
      /\ pc \in {"idle"} \cup Snapshotting /\ pc' \in {"idle"} \cup Snapshotting
    BY DEF snapshot, SnapshotReplacesSlots, SnapshotWritesSegment, SnapshotCopies,
        SnapshotTooShort, disk, ram, history, Snapshotting
<1>2. snapshots' \in 0..MaxSnapshots
    <2>1. snapshots' = snapshots \/ (snapshots < MaxSnapshots /\ snapshots' = snapshots + 1)
        BY DEF snapshot, SnapshotReplacesSlots, SnapshotWritesSegment, SnapshotCopies,
            SnapshotTooShort, history
    <2>. QED
        BY <2>1, FlatAssumption
<1>3. record_count \in Nat
    BY DEF RamOK
<1>4. IsDest(dest')
    <2>1. CASE snapshot
        BY <1>3, <2>1 DEF snapshot, IsDest, IsCatalog, Catalogs
    <2>2. CASE SnapshotReplacesSlots
        BY <1>3, <2>2 DEF SnapshotReplacesSlots, IsDest, IsCatalog
    <2>3. CASE SnapshotWritesSegment
        <3>1. set_len(file, record_count) \in Files
            BY <1>3, SetLenKeeps
        <3>. QED
            BY <2>3, <3>1 DEF SnapshotWritesSegment, SnapshotCopies, IsDest
    <2>4. CASE SnapshotTooShort
        BY <2>4 DEF SnapshotTooShort
    <2>. QED
        BY <2>1, <2>2, <2>3, <2>4
<1>5. TypeOK'
    BY <1>1, <1>2, <1>4 DEF IsCatalog, IsOp, RamOK, Open
<1>6. InsertInFlight' /\ CompactionInFlight'
    BY <1>1 DEF InsertInFlight, CompactionInFlight, Rewriting, Snapshotting
<1>7. MapInv' /\ Counters' /\ SlotsBelowWatermark' /\ CreationInv'
    BY <1>1 DEF MapInv, MapWithinFile, Counters, SlotsBelowWatermark, CreationInv, live, Open,
        Rewriting, Snapshotting, Creating
<1>. QED
    BY <1>5, <1>6, <1>7

\* Every step keeps the structural invariant.
LEMMA StructStep == StructInv /\ [Next]_vars => StructInv'
<1> SUFFICES ASSUME StructInv, [Next]_vars PROVE StructInv'
    OBVIOUS
<1>1. CASE Progress
    BY <1>1, CreationStruct, OpenStruct, AppendStruct, CommitStruct, CompactStruct, ReplaceStruct,
        SnapshotStruct DEF Progress
<1>2. CASE Failures
    BY <1>2, StopStruct, AppendStruct, CheckpointStruct, CompactStruct DEF Failures
<1>3. CASE Calls
    BY <1>3, RemoveStruct, InsertStruct, BatchStruct, CheckpointStruct, CompactStruct,
        SnapshotStruct, StopStruct DEF Calls
<1>4. CASE Crash
    BY <1>4, StopStruct
<1>5. CASE OpenRefused \/ UNCHANGED vars
    <2>1. UNCHANGED vars
        BY <1>5 DEF OpenRefused
    <2>. QED
        BY <2>1 DEF vars, disk, ram, history, StructInv, TypeOK, IsCatalog, IsDest, IsOp, RamOK,
            InsertInFlight, CompactionInFlight, SlotsBelowWatermark, Counters, MapInv,
            MapWithinFile, CreationInv, live
<1>. QED
    BY <1>1, <1>2, <1>3, <1>4, <1>5 DEF Next

\* The structural invariant holds in every reachable state.
THEOREM StructAlways == Spec => []StructInv
<1>1. Init => StructInv
    BY InitIInv DEF IInv
<1>. QED
    BY <1>1, StructStep, PTL DEF Spec

(***************************************************************************)
(* Every variable of persistent_flat.rs keeps its type through every        *)
(* operation, error and crash; live_count, a usize, never goes below zero.  *)
(***************************************************************************)
THEOREM TypeCorrect == Spec => []TypeOK
<1>1. StructInv => TypeOK
    BY DEF StructInv
<1>. QED
    BY <1>1, StructAlways, PTL

(***************************************************************************)
(* len() (persistent_flat.rs:255) and the RAM watermark agree with the      *)
(* catalog in every state of an open index, failures included.              *)
(***************************************************************************)
THEOREM CountersAlwaysExact == Spec => []CountersExact
<1>1. StructInv => CountersExact
    BY DEF StructInv, Counters, SlotsBelowWatermark, CountersExact
<1>. QED
    BY <1>1, StructAlways, PTL

(***************************************************************************)
(* The unsafe memory map (segment.rs:119) never reaches past the file, so   *)
(* no read through it touches pages the file has lost.                      *)
(***************************************************************************)
THEOREM MapAlwaysWithinFile == Spec => []MapWithinFile
<1>1. StructInv => MapWithinFile
    BY DEF StructInv, MapInv
<1>. QED
    BY <1>1, StructAlways, PTL

(***************************************************************************)
(* No step shortens the segment under a map that stays held: truncation     *)
(* drops the map first (segment.rs:128), and open maps last.                *)
(***************************************************************************)
THEOREM FileNeverShrinksUnderMap == Spec => NeverShrinksUnderMap
<1> DEFINE Grows == mmap = "some" /\ mmap' = "some" => Len(file'.recs) >= Len(file.recs)
<1>1. StructInv /\ [Next]_vars => [Grows]_vars
    <2> SUFFICES ASSUME StructInv, Next, mmap = "some", mmap' = "some"
                 PROVE  Len(file'.recs) >= Len(file.recs)
        OBVIOUS
    <2>1. file \in Files /\ op.flat \in Seq(Cells) /\ Len(file.recs) \in Nat /\ Len(op.flat) \in Nat
        BY DEF StructInv, TypeOK, IsOp, Files
    <2>2. pc \notin {"down"} \cup Creating
        BY DEF StructInv, MapInv
    <2>3. CASE SegmentAppend \/ CompactAppends
        <3>1. file' = append(file, op.flat)
            BY <2>3 DEF SegmentAppend, CompactAppends
        <3>2. Len(file'.recs) = Len(file.recs) + Len(op.flat)
            BY <2>1, <3>1, AppendKeeps
        <3>3. file' \in Files
            BY <2>1, <3>1, AppendKeeps
        <3>. QED
            BY <2>1, <3>2, <3>3 DEF Files
    <2>4. CASE SegmentAppendFails \/ CompactAppendFails
        <3>1. file' \in TornAppends(file, op.flat)
            BY <2>4 DEF SegmentAppendFails, CompactAppendFails
        <3>. QED
            BY <2>1, <3>1, TornKeeps
    <2>5. CASE ~(SegmentAppend \/ CompactAppends \/ SegmentAppendFails \/ CompactAppendFails)
        <3>1. file' = file
            BY <2>2, <2>5 DEF Next, Progress, Failures, Calls, OpenCreatesCatalog,
                OpenCommitsManifest, OpenCreatesSegment, OpenExisting, OpensOn, CommitSlots,
                CommitCounting, CompactTruncates, TruncatesHolding, CompactRemaps,
                CompactReplacesSlots, SnapshotReplacesSlots, SnapshotWritesSegment,
                SnapshotCopies, SnapshotTooShort, OpenFails, CommitSlotsFails, CheckpointFails,
                CompactTruncateFails, CompactRemapFails, CompactReplaceFails, remove, RemovesRow,
                insert, insert_batch, checkpoint, CheckpointKeeping, compact, snapshot, Close,
                OpenRefused, Crash, Stop, Creating, vars, disk
        <3>. QED
            BY <2>1, <3>1
    <2>. QED
        BY <2>3, <2>4, <2>5
<1>. QED
    BY <1>1, StructAlways, PTL DEF Spec, NeverShrinksUnderMap

-----------------------------------------------------------------------------
(* The contents: on disk, in the tail and in a compaction under way.        *)

\* A disk window, once hit, stays hit.
LEMMA ExposureStays == ASSUME [Next]_vars, ~DiskExposed' PROVE ~DiskExposed
BY DEF Next, Progress, Failures, Calls, OpenCreatesCatalog, OpenCommitsManifest,
    OpenCreatesSegment, OpenExisting, OpensOn, SegmentAppend, CommitSlots, CommitCounting,
    CompactTruncates, TruncatesHolding, Truncated, CompactAppends, CompactRemaps,
    CompactReplacesSlots, SnapshotReplacesSlots, SnapshotWritesSegment, SnapshotCopies,
    SnapshotTooShort, OpenFails, SegmentAppendFails, CommitSlotsFails, CheckpointFails,
    CompactTruncateFails, CompactAppendFails, CompactRemapFails, CompactReplaceFails, remove,
    RemovesRow, insert, insert_batch, checkpoint, CheckpointKeeping, compact, snapshot, Close,
    OpenRefused, Crash, vars, history, SessionWindows, DiskExposed

\* A step that keeps the catalog and the records below the watermark.
LEMMA KeepsDisk ==
    ASSUME StructInv, DiskHolds, UNCHANGED <<catalog, contents>>, file' \in Files,
           catalog.record_count <= Len(file'.recs),
           \A i \in 1..catalog.record_count : file'.recs[i] = file.recs[i]
    PROVE  DiskHolds'
<1>1. live' = live /\ live = DOMAIN contents
    BY DEF live, DiskHolds
<1>2. \A id \in live : catalog.slots[id] + 1 \in 1..catalog.record_count
    BY DEF StructInv, TypeOK, IsCatalog, Partial, live, SlotsBelowWatermark
<1>3. \A id \in live : file'.recs[catalog.slots[id] + 1] = contents[id]
    BY <1>2 DEF DiskHolds
<1>. QED
    BY <1>1, <1>3 DEF DiskHolds

\* The segment after a failed or torn append still holds the contents.
LEMMA TornKeepsDisk ==
    ASSUME StructInv, DiskHolds, UNCHANGED <<catalog, contents>>,
           file' \in {file, append(file, op.flat)} \cup TornAppends(file, op.flat)
    PROVE  DiskHolds'
<1>1. file \in Files /\ op.flat \in Seq(Cells) /\ catalog.record_count \in Nat
      /\ Len(file.recs) \in Nat /\ Len(op.flat) \in Nat
    BY DEF StructInv, TypeOK, IsOp, IsCatalog, Files
<1>2. /\ file' \in Files /\ Len(file'.recs) >= Len(file.recs)
      /\ \A i \in 1..Len(file.recs) : file'.recs[i] = file.recs[i]
    <2>1. CASE file' = file
        BY <1>1, <2>1
    <2>2. CASE file' = append(file, op.flat)
        <3>1. /\ file' \in Files /\ Len(file'.recs) = Len(file.recs) + Len(op.flat)
              /\ \A i \in 1..Len(file.recs) : file'.recs[i] = file.recs[i]
            BY <1>1, <2>2, AppendKeeps
        <3>. QED
            BY <1>1, <3>1 DEF Files
    <2>3. CASE file' \in TornAppends(file, op.flat)
        BY <1>1, <2>3, TornKeeps
    <2>. QED
        BY <2>1, <2>2, <2>3
<1>3. catalog.record_count <= Len(file.recs) /\ Len(file'.recs) \in Nat
    BY <1>2 DEF DiskHolds, Files
<1>. QED
    BY <1>1, <1>2, <1>3, KeepsDisk

\* Cutting the segment at the watermark keeps the contents.
LEMMA CutKeepsDisk ==
    ASSUME StructInv, DiskHolds, UNCHANGED <<catalog, contents>>,
           file' = set_len(file, catalog.record_count)
    PROVE  DiskHolds'
<1>1. file \in Files /\ catalog.record_count \in Nat /\ Len(file.recs) \in Nat
    BY DEF StructInv, TypeOK, IsCatalog, Files
<1>2. /\ file' \in Files /\ Len(file'.recs) = catalog.record_count
      /\ \A i \in 1..catalog.record_count : i <= Len(file.recs) => file'.recs[i] = file.recs[i]
    BY <1>1, SetLenKeeps
<1>3. catalog.record_count <= Len(file.recs)
    BY DEF DiskHolds
<1>. QED
    BY <1>1, <1>2, <1>3, KeepsDisk

\* Committing an insert whose records lie where its slots say.
LEMMA CommitKeepsDisk ==
    ASSUME IInv, CommitSlots, ~DiskExposed'
    PROVE  DiskHolds'
<1>1. pc = "commit" /\ "orphan_tail" \notin exposed /\ ~DiskExposed
    BY DEF CommitSlots, CommitCounting, DiskExposed
<1>2. /\ Len(file.recs) = record_count + Len(op.flat)
      /\ \A k \in 1..Len(op.flat) : file.recs[record_count + k] = op.flat[k]
    BY <1>1 DEF IInv, AlignedInv, Open, Rewriting
<1>3. DiskHolds
    BY <1>1 DEF IInv, DiskInv, Rewriting
<1>4. /\ catalog'.slots = Merge(catalog.slots, op.slots)
      /\ catalog'.record_count = record_count + Len(op.flat)
      /\ contents' = Merge(contents, Inserted) /\ file' = file
    BY DEF CommitSlots, CommitCounting, IInv, StructInv, TypeOK, IsCatalog
<1>5. /\ DOMAIN Inserted = DOMAIN op.slots
      /\ \A id \in DOMAIN op.slots :
                /\ op.slots[id] - record_count + 1 \in 1..Len(op.flat)
                /\ Inserted[id] = op.flat[op.slots[id] - record_count + 1]
    BY <1>1, InsertedTyped DEF IInv
<1>6. /\ live' = live \cup DOMAIN op.slots
      /\ \A x \in DOMAIN op.slots : catalog'.slots[x] = op.slots[x]
      /\ \A x \in live \ DOMAIN op.slots : catalog'.slots[x] = catalog.slots[x]
    BY <1>4 DEF Merge, live
<1>7. /\ DOMAIN contents' = DOMAIN contents \cup DOMAIN op.slots
      /\ \A x \in DOMAIN op.slots : contents'[x] = Inserted[x]
      /\ \A x \in DOMAIN contents \ DOMAIN op.slots : contents'[x] = contents[x]
    BY <1>4, <1>5 DEF Merge
<1>8. \A id \in DOMAIN op.slots : op.slots[id] \in Nat /\ record_count \in Nat
    BY DEF IInv, StructInv, TypeOK, IsOp, Partial, RamOK
<1>9. \A id \in DOMAIN op.slots : file.recs[op.slots[id] + 1] = Inserted[id]
    <2> SUFFICES ASSUME NEW id \in DOMAIN op.slots
                 PROVE  file.recs[op.slots[id] + 1] = Inserted[id]
        OBVIOUS
    <2> DEFINE k == op.slots[id] - record_count + 1
    <2>1. k \in 1..Len(op.flat) /\ Inserted[id] = op.flat[k] /\ record_count + k = op.slots[id] + 1
        BY <1>5, <1>8
    <2> HIDE DEF k
    <2>2. file.recs[record_count + k] = op.flat[k]
        BY <1>2, <2>1
    <2>. QED
        BY <2>1, <2>2
<1>10. \A id \in live' : file'.recs[catalog'.slots[id] + 1] = contents'[id]
    BY <1>3, <1>4, <1>6, <1>7, <1>9 DEF DiskHolds
<1>11. Len(file'.recs) = catalog'.record_count /\ catalog'.record_count \in Nat
    BY <1>2, <1>4 DEF IInv, StructInv, TypeOK, IsOp, RamOK
<1>. QED
    BY <1>3, <1>6, <1>7, <1>10, <1>11 DEF DiskHolds

\* The steps that change the catalog, the segment or the contents.
LEMMA DiskChanges ==
    ASSUME Next
    PROVE  \/ UNCHANGED <<catalog, file, contents>>
           \/ OpenCreatesCatalog \/ OpenCommitsManifest \/ OpenCreatesSegment \/ OpenExisting
           \/ SegmentAppend \/ SegmentAppendFails \/ CommitSlots \/ \E id \in Ids : remove(id)
           \/ CompactTruncates \/ CompactTruncateFails \/ CompactAppends \/ CompactAppendFails
           \/ CompactReplacesSlots \/ Crash \/ OpenFails
BY DEF Next, Progress, Failures, Calls, CompactRemaps, SnapshotReplacesSlots,
    SnapshotWritesSegment, SnapshotCopies, SnapshotTooShort, CommitSlotsFails, CheckpointFails,
    CompactRemapFails, CompactReplaceFails, insert, insert_batch, checkpoint, CheckpointKeeping,
    compact, snapshot, Close, OpenRefused, vars, disk, history

\* The segment holds the contents after every step that ends outside a rewrite.
LEMMA DiskStep == ASSUME IInv, StructInv', Next PROVE DiskInv'
<1> SUFFICES ASSUME ~DiskExposed', pc' \notin Rewriting PROVE DiskHolds'
    BY DEF DiskInv
<1>1. ~DiskExposed /\ StructInv
    BY ExposureStays DEF IInv
<1>2. CASE pc \in Rewriting
    <2>1. CompactReplacesSlots
        <3>1. pc # "idle" /\ pc # "down" /\ pc \notin Creating \cup Snapshotting
              /\ pc \notin {"append", "commit", "truncate"}
            BY <1>2 DEF Rewriting, Creating, Snapshotting
        <3>2. ~Crash
            BY <1>2 DEF Crash, CrashExposes, DiskExposed
        <3>3. pc' = pc \/ CompactAppends \/ CompactRemaps \/ CompactReplacesSlots
              \/ CompactAppendFails \/ CompactRemapFails \/ CompactReplaceFails
            BY <3>1, <3>2 DEF Next, Progress, Failures, Calls, OpenCreatesCatalog,
                OpenCommitsManifest, OpenCreatesSegment, OpenExisting, SegmentAppend,
                CommitSlots, CommitCounting, CompactTruncates, TruncatesHolding,
                SnapshotReplacesSlots, SnapshotWritesSegment, SnapshotCopies, SnapshotTooShort,
                OpenFails, SegmentAppendFails, CommitSlotsFails, CheckpointFails,
                CompactTruncateFails, remove, insert, insert_batch, checkpoint,
                CheckpointKeeping, compact, snapshot, Close, OpenRefused, Creating, Snapshotting
        <3>. QED
            BY <1>2, <3>3 DEF CompactAppends, CompactRemaps, CompactAppendFails,
                CompactRemapFails, CompactReplaceFails, DiskExposed, Rewriting
    <2>2. /\ pc = "replace" /\ UNCHANGED <<file, contents>>
          /\ catalog'.slots = op.slots /\ catalog'.record_count = Len(op.flat)
        BY <1>1, <2>1 DEF CompactReplacesSlots, StructInv, TypeOK, IsCatalog
    <2>3. /\ live = DOMAIN contents /\ file.recs = op.flat
          /\ \A id \in live : op.flat[op.slots[id] + 1] = contents[id]
        BY <1>1, <2>2 DEF IInv, RewriteInv, Rewriting
    <2>4. DOMAIN op.slots = live /\ Len(op.flat) \in Nat
        BY <1>1, <2>2 DEF StructInv, TypeOK, IsOp, CompactionInFlight, Rewriting
    <2>. QED
        BY <2>2, <2>3, <2>4 DEF DiskHolds, live
<1>3. CASE pc \notin Rewriting
    <2>1. DiskHolds
        BY <1>1, <1>3 DEF IInv, DiskInv
    <2>2. CASE UNCHANGED <<catalog, file, contents>>
        BY <2>1, <2>2 DEF DiskHolds, live
    <2>3. CASE OpenCreatesCatalog
        <3>1. /\ UNCHANGED <<file, contents>> /\ catalog'.slots = catalog.slots
              /\ catalog'.record_count = catalog.record_count
            BY <1>1, <2>3 DEF OpenCreatesCatalog, history, StructInv, TypeOK, IsCatalog
        <3>. QED
            BY <2>1, <3>1 DEF DiskHolds, live
    <2>4. CASE OpenCommitsManifest
        <3>1. live = {} /\ contents' = contents /\ file' = file /\ catalog.record_count = 0
            BY <1>1, <2>4 DEF OpenCommitsManifest, StructInv, CreationInv, Creating, history
        <3>2. live' = {} /\ catalog'.record_count = 0
            BY <2>4 DEF OpenCommitsManifest, live
        <3>. QED
            BY <2>1, <3>1, <3>2 DEF DiskHolds
    <2>5. CASE OpenCreatesSegment
        <3>1. live = {} /\ UNCHANGED <<contents, catalog>> /\ file'.recs = <<>>
              /\ catalog.record_count = 0
            BY <1>1, <2>5 DEF OpenCreatesSegment, StructInv, CreationInv, Creating, history, NoFile
        <3>2. Len(file'.recs) = 0 /\ live' = {} /\ catalog'.record_count = 0
            BY <3>1 DEF live
        <3>3. DOMAIN contents' = {}
            BY <2>1, <3>1 DEF DiskHolds
        <3>. QED
            BY <3>2, <3>3 DEF DiskHolds
    <2>6. CASE OpenExisting
        BY <1>1, <2>1, <2>6, CutKeepsDisk DEF OpenExisting, OpensOn, history
    <2>7. CASE SegmentAppend \/ SegmentAppendFails
        BY <1>1, <2>1, <2>7, TornKeepsDisk DEF SegmentAppend, SegmentAppendFails, history
    <2>8. CASE CommitSlots
        BY <2>8, CommitKeepsDisk
    <2>9. CASE \E id \in Ids : remove(id)
        <3>1. PICK id \in Ids : remove(id)
            BY <2>9
        <3>2. /\ catalog'.slots = Without(catalog.slots, id) /\ file' = file
              /\ catalog'.record_count = catalog.record_count
              /\ contents' = Without(contents, id)
            BY <1>1, <3>1 DEF remove, RemovesRow, StructInv, TypeOK, IsCatalog
        <3>3. /\ live' = live \ {id} /\ DOMAIN contents' = DOMAIN contents \ {id}
              /\ \A x \in live \ {id} : catalog'.slots[x] = catalog.slots[x]
              /\ \A x \in DOMAIN contents \ {id} : contents'[x] = contents[x]
            BY <3>2 DEF Without, live
        <3>. QED
            BY <2>1, <3>2, <3>3 DEF DiskHolds
    <2>10. CASE CompactTruncates \/ CompactAppends \/ CompactAppendFails \/ CompactReplacesSlots
        BY <1>3, <2>10 DEF CompactTruncates, TruncatesHolding, CompactAppends, CompactAppendFails,
            CompactReplacesSlots, Rewriting
    <2>11. CASE CompactTruncateFails
        <3>1. UNCHANGED <<catalog, file, contents>>
            BY <2>11 DEF CompactTruncateFails, DiskExposed
        <3>. QED
            BY <2>2, <3>1
    <2>12. CASE pc \in Creating /\ (Crash \/ OpenFails)
        <3>1. file' \in CrashedFiles /\ UNCHANGED <<catalog, contents>>
            BY <2>12 DEF Crash, OpenFails, Creating
        <3>2. live = {} /\ catalog.record_count = 0 /\ file.recs = <<>>
            BY <1>1, <2>12 DEF StructInv, CreationInv
        <3>3. file'.recs = <<>>
            BY <1>1, <2>12, <3>1, <3>2, CrashedTyped
        <3>. QED
            BY <2>1, <3>1, <3>2, <3>3 DEF DiskHolds, live
    <2>13. CASE pc \notin Creating /\ Crash
        <3>1. /\ file' \in CrashedFiles /\ UNCHANGED <<catalog, contents>>
              /\ pc = "truncate" => file' = file
            BY <2>13 DEF Crash, CrashExposes, DiskExposed
        <3>2. file' \in {file, append(file, op.flat)} \cup TornAppends(file, op.flat)
            BY <1>3, <2>13, <3>1 DEF CrashedFiles, Creating, Rewriting
        <3>. QED
            BY <1>1, <2>1, <3>1, <3>2, TornKeepsDisk
    <2>14. CASE pc \notin Creating /\ OpenFails
        BY <1>1, <2>1, <2>14, CutKeepsDisk DEF OpenFails
    <2>. QED
        BY <2>2, <2>3, <2>4, <2>5, <2>6, <2>7, <2>8, <2>9, <2>10, <2>11, <2>12, <2>13, <2>14,
            DiskChanges
<1>. QED
    BY <1>2, <1>3

\* Which steps lead to an open index outside a rewrite with no disk window hit.
LEMMA OpenSteps ==
    ASSUME Next, ~DiskExposed', pc' \in Open \ Rewriting
    PROVE  \/ OpenCreatesSegment \/ OpenExisting \/ SegmentAppend \/ SegmentAppendFails
           \/ CommitSlots \/ CompactReplacesSlots \/ CompactTruncateFails
           \/ (CommitSlotsFails \/ checkpoint \/ CheckpointFails \/ \E id \in Ids : remove(id))
           \/ /\ UNCHANGED <<catalog, file, ram, contents, exposed>>
              /\ pc \in Open \ (Rewriting \cup {"commit"}) /\ pc' # "commit"
BY DEF Next, Progress, Failures, Calls, OpenCreatesCatalog, OpenCommitsManifest,
    CompactTruncates, TruncatesHolding, CompactAppends, CompactRemaps, CompactAppendFails,
    CompactRemapFails, CompactReplaceFails, SnapshotReplacesSlots, SnapshotWritesSegment,
    SnapshotCopies, SnapshotTooShort, insert, insert_batch, compact, snapshot, Close, Crash,
    OpenFails, Stop, OpenRefused, vars, disk, history, Open, Rewriting, Snapshotting,
    Creating, DiskExposed

\* Without an orphan tail the segment ends where the next slot begins, again.
LEMMA AlignedStep == ASSUME IInv, StructInv', Next PROVE AlignedInv'
<1> SUFFICES ASSUME ~DiskExposed', pc' \in Open \ Rewriting, "orphan_tail" \notin exposed'
             PROVE  /\ file'.end = "aligned"
                    /\ pc' # "commit" => Len(file'.recs) = record_count'
                    /\ pc' = "commit" =>
                        /\ Len(file'.recs) = record_count' + Len(op'.flat)
                        /\ \A k \in 1..Len(op'.flat) : file'.recs[record_count' + k] = op'.flat[k]
    BY DEF AlignedInv
<1>1. ~DiskExposed /\ StructInv
    BY ExposureStays DEF IInv
<1>2. file \in Files /\ op.flat \in Seq(Cells) /\ catalog.record_count \in Nat
    BY <1>1 DEF StructInv, TypeOK, IsOp, IsCatalog
<1>3. CASE OpenCreatesSegment
    BY <1>3 DEF OpenCreatesSegment, NoFile
<1>4. CASE OpenExisting
    BY <1>2, <1>4, SetLenKeeps DEF OpenExisting, OpensOn
<1>5. CASE SegmentAppend
    <2>1. /\ pc' = "commit" /\ file' = append(file, op.flat) /\ UNCHANGED <<record_count, op>>
          /\ pc = "append" /\ "orphan_tail" \notin exposed
        BY <1>5 DEF SegmentAppend, ram, history
    <2>2. file.end = "aligned" /\ Len(file.recs) = record_count
        BY <1>1, <2>1 DEF IInv, AlignedInv, Open, Rewriting
    <2>3. /\ file'.end = "aligned" /\ Len(file'.recs) = record_count + Len(op.flat)
          /\ \A k \in 1..Len(op.flat) : file'.recs[record_count + k] = op.flat[k]
        BY <1>2, <2>1, <2>2, AppendKeeps
    <2>. QED
        BY <2>1, <2>3
<1>6. CASE SegmentAppendFails
    <2>1. /\ pc' = "idle" /\ file' = file /\ UNCHANGED record_count
          /\ pc = "append" /\ "orphan_tail" \notin exposed
        BY <1>6 DEF SegmentAppendFails, ram
    <2>. QED
        BY <1>1, <2>1 DEF IInv, AlignedInv, Open, Rewriting
<1>7. CASE CommitSlots
    <2>1. /\ pc' = "idle" /\ file' = file /\ record_count' = record_count + Len(op.flat)
          /\ pc = "commit" /\ "orphan_tail" \notin exposed
        BY <1>7 DEF CommitSlots, CommitCounting
    <2>. QED
        BY <1>1, <2>1 DEF IInv, AlignedInv, Open, Rewriting
<1>8. CASE CompactReplacesSlots
    <2>1. pc' = "idle" /\ file' = file /\ record_count' = Len(op.flat) /\ pc = "replace"
        BY <1>8 DEF CompactReplacesSlots
    <2>. QED
        BY <1>1, <2>1 DEF IInv, RewriteInv, Rewriting
<1>9. CASE CompactTruncateFails
    <2>1. /\ pc' = "idle" /\ file' = file /\ UNCHANGED record_count
          /\ pc = "truncate" /\ "orphan_tail" \notin exposed
        BY <1>9 DEF CompactTruncateFails, DiskExposed
    <2>. QED
        BY <1>1, <2>1 DEF IInv, AlignedInv, Open, Rewriting
<1>10. CASE CommitSlotsFails \/ checkpoint \/ CheckpointFails \/ \E id \in Ids : remove(id)
    <2>1. /\ pc = "idle" /\ pc' = "idle" /\ UNCHANGED <<file, record_count>>
          /\ "orphan_tail" \notin exposed
        BY <1>10 DEF CommitSlotsFails, checkpoint, CheckpointKeeping, CheckpointFails, remove,
            RemovesRow, disk
    <2>. QED
        BY <1>1, <2>1 DEF IInv, AlignedInv, Open, Rewriting
<1>11. CASE /\ UNCHANGED <<catalog, file, ram, contents, exposed>>
            /\ pc \in Open \ (Rewriting \cup {"commit"}) /\ pc' # "commit"
    BY <1>1, <1>11 DEF IInv, AlignedInv, ram
<1>. QED
    BY <1>3, <1>4, <1>5, <1>6, <1>7, <1>8, <1>9, <1>10, <1>11, OpenSteps

\* The tail of an insert that commits is the tail extended by its values.
LEMMA TailExtends ==
    ASSUME IInv, StructInv', CommitSlots, ~DiskExposed', "map" \notin exposed'
    PROVE  /\ mapped_records' + Len(tail') = record_count'
           /\ \A id \in live' : catalog'.slots[id] >= mapped_records' =>
                tail'[catalog'.slots[id] - mapped_records' + 1] = contents'[id]
<1>1. pc = "commit" /\ "map" \notin exposed /\ ~DiskExposed /\ StructInv
    BY DEF CommitSlots, CommitCounting, DiskExposed, IInv
<1>2. /\ mapped_records + Len(tail) = record_count
      /\ \A id \in live : catalog.slots[id] >= mapped_records =>
            tail[catalog.slots[id] - mapped_records + 1] = contents[id]
    BY <1>1 DEF IInv, TailInv, Open, Rewriting
<1>3. /\ catalog'.slots = Merge(catalog.slots, op.slots)
      /\ record_count' = record_count + Len(op.flat) /\ mapped_records' = mapped_records
      /\ contents' = Merge(contents, Inserted) /\ tail' = tail \o op.flat
    BY <1>1 DEF CommitSlots, CommitCounting, StructInv, TypeOK, IsCatalog
<1>4. /\ tail \in Seq(Values) /\ op.flat \in Seq(Values)
      /\ mapped_records \in Nat /\ record_count \in Nat
    BY <1>1 DEF StructInv, TypeOK, RamOK, InsertInFlight
<1>5. /\ Len(tail') = Len(tail) + Len(op.flat) /\ Len(tail) \in Nat /\ Len(op.flat) \in Nat
      /\ \A i \in 1..Len(tail) : tail'[i] = tail[i]
      /\ \A k \in 1..Len(op.flat) : tail'[Len(tail) + k] = op.flat[k]
    BY <1>3, <1>4, ConcatKeeps
<1>6. /\ live' = live \cup DOMAIN op.slots
      /\ \A x \in DOMAIN op.slots : catalog'.slots[x] = op.slots[x]
      /\ \A x \in live \ DOMAIN op.slots : catalog'.slots[x] = catalog.slots[x]
    BY <1>3 DEF Merge, live
<1>7. /\ DOMAIN Inserted = DOMAIN op.slots
      /\ \A id \in DOMAIN op.slots :
                /\ op.slots[id] - record_count + 1 \in 1..Len(op.flat)
                /\ Inserted[id] = op.flat[op.slots[id] - record_count + 1]
    BY <1>1, InsertedTyped
<1>8. /\ \A x \in DOMAIN op.slots : contents'[x] = Inserted[x]
      /\ \A x \in DOMAIN contents \ DOMAIN op.slots : contents'[x] = contents[x]
    BY <1>3, <1>7 DEF Merge
<1>9. live = DOMAIN contents
    BY <1>1 DEF IInv, DiskInv, DiskHolds, Rewriting
<1>10. ASSUME NEW id \in DOMAIN op.slots
       PROVE  tail'[catalog'.slots[id] - mapped_records' + 1] = contents'[id]
    <2> DEFINE k == op.slots[id] - record_count + 1
    <2>1. op.slots[id] \in Nat
        BY <1>1 DEF StructInv, TypeOK, IsOp, Partial
    <2>2. k \in 1..Len(op.flat) /\ op.slots[id] - mapped_records + 1 = Len(tail) + k
        <3>1. /\ mapped_records + Len(tail) = record_count
              /\ mapped_records \in Nat /\ record_count \in Nat
              /\ Len(tail) \in Nat /\ Len(op.flat) \in Nat
            BY <1>2, <1>4, <1>5
        <3>2. k \in 1..Len(op.flat)
            BY <1>7
        <3>. QED
            BY <2>1, <3>1, <3>2
    <2>3. contents'[id] = op.flat[k] /\ catalog'.slots[id] = op.slots[id]
        BY <1>6, <1>7, <1>8
    <2> HIDE DEF k
    <2>. QED
        BY <1>3, <1>5, <2>2, <2>3
<1>11. ASSUME NEW id \in live \ DOMAIN op.slots, catalog'.slots[id] >= mapped_records'
       PROVE  tail'[catalog'.slots[id] - mapped_records' + 1] = contents'[id]
    <2> DEFINE i == catalog.slots[id] - mapped_records + 1
    <2>1. catalog.slots[id] \in Nat /\ catalog.slots[id] < record_count
        BY <1>1 DEF StructInv, TypeOK, IsCatalog, Partial, live, SlotsBelowWatermark, Counters, Open
    <2>2. catalog.slots[id] >= mapped_records /\ catalog'.slots[id] = catalog.slots[id]
        BY <1>3, <1>6, <1>11
    <2>3. i \in 1..Len(tail)
        <3>1. /\ mapped_records + Len(tail) = record_count
              /\ mapped_records \in Nat /\ Len(tail) \in Nat
            BY <1>2, <1>4, <1>5
        <3>. QED
            BY <2>1, <2>2, <3>1
    <2>4. tail[i] = contents[id] /\ contents'[id] = contents[id]
        BY <1>2, <1>8, <1>9, <2>2
    <2> HIDE DEF i
    <2>5. tail'[i] = contents'[id]
        BY <1>5, <2>3, <2>4
    <2>. QED
        BY <1>3, <2>2, <2>5 DEF i
<1>12. mapped_records' + Len(tail') = record_count'
    <2>1. record_count' = record_count + Len(op.flat) /\ mapped_records' = mapped_records
        BY <1>3
    <2>2. Len(tail') = Len(tail) + Len(op.flat) /\ Len(tail) \in Nat /\ Len(op.flat) \in Nat
        BY <1>5
    <2>3. mapped_records + Len(tail) = record_count /\ mapped_records \in Nat
        BY <1>2, <1>4
    <2>. QED
        BY <2>1, <2>2, <2>3
<1>. QED
    BY <1>6, <1>10, <1>11, <1>12

\* The map and the tail still describe the contents after every step.
LEMMA TailStep == ASSUME IInv, StructInv', Next PROVE TailInv'
<1> SUFFICES ASSUME ~DiskExposed', pc' \in Open \ Rewriting, "map" \notin exposed'
             PROVE  /\ mapped_records' + Len(tail') = record_count'
                    /\ \A id \in live' : catalog'.slots[id] >= mapped_records' =>
                        tail'[catalog'.slots[id] - mapped_records' + 1] = contents'[id]
    BY DEF TailInv
<1>1. ~DiskExposed /\ StructInv
    BY ExposureStays DEF IInv
<1>2. \A id \in live' : catalog'.slots[id] \in Nat /\ catalog'.slots[id] < catalog'.record_count
    BY DEF StructInv, TypeOK, IsCatalog, Partial, live, SlotsBelowWatermark
<1>3. pc' \in Open => record_count' = catalog'.record_count
    BY DEF StructInv, Counters
<1>4. record_count' \in Nat /\ catalog'.record_count \in Nat
    BY DEF StructInv, TypeOK, RamOK, IsCatalog
<1>5. CASE mapped_records' = record_count' /\ tail' = <<>>
    <2>1. \A id \in live' : ~(catalog'.slots[id] >= mapped_records')
        BY <1>2, <1>3, <1>4, <1>5
    <2>2. Len(tail') = 0 /\ mapped_records' = record_count'
        BY <1>5
    <2>3. record_count' \in Nat
        BY <1>4
    <2>4. mapped_records' + Len(tail') = record_count'
        BY <2>2, <2>3, PlusZero
    <2>. QED
        BY <2>1, <2>4
<1>6. CASE OpenCreatesSegment \/ OpenExisting \/ checkpoint
    BY <1>5, <1>6 DEF OpenCreatesSegment, OpenExisting, OpensOn, checkpoint, CheckpointKeeping
<1>7. CASE CompactReplacesSlots
    <2>1. pc = "replace" /\ mapped_records' = mapped_records /\ tail' = <<>>
          /\ record_count' = Len(op.flat)
        BY <1>7 DEF CompactReplacesSlots
    <2>2. mapped_records = Len(op.flat)
        BY <1>1, <2>1 DEF IInv, RewriteInv, Rewriting
    <2>. QED
        BY <1>5, <2>1, <2>2
<1>8. CASE CommitSlots
    BY <1>8, TailExtends
<1>9. CASE CompactTruncateFails
    BY <1>9 DEF CompactTruncateFails
<1>10. CASE \E id \in Ids : remove(id)
    <2>1. PICK id \in Ids : remove(id)
        BY <1>10
    <2>2. /\ catalog'.slots = Without(catalog.slots, id) /\ contents' = Without(contents, id)
          /\ UNCHANGED <<mapped_records, tail, record_count>> /\ pc = "idle" /\ "map" \notin exposed
        BY <1>1, <2>1 DEF remove, RemovesRow, StructInv, TypeOK, IsCatalog
    <2>3. live = DOMAIN contents
        BY <1>1, <2>2 DEF IInv, DiskInv, DiskHolds, Rewriting
    <2>4. \A x \in live' : /\ x \in live /\ catalog'.slots[x] = catalog.slots[x]
                           /\ contents'[x] = contents[x]
        BY <2>2, <2>3 DEF Without, live
    <2>. QED
        BY <1>1, <2>2, <2>4 DEF IInv, TailInv, Open, Rewriting
<1>11. CASE SegmentAppend \/ SegmentAppendFails \/ CommitSlotsFails \/ CheckpointFails
    <2>1. /\ UNCHANGED <<catalog, contents, mapped_records, tail, record_count>>
          /\ pc \in {"append", "commit", "idle"} /\ "map" \notin exposed
        BY <1>11 DEF SegmentAppend, SegmentAppendFails, CommitSlotsFails, CheckpointFails, ram,
            disk, history
    <2>. QED
        BY <1>1, <2>1 DEF IInv, TailInv, Open, Rewriting, live
<1>12. CASE /\ UNCHANGED <<catalog, file, ram, contents, exposed>>
            /\ pc \in Open \ (Rewriting \cup {"commit"}) /\ pc' # "commit"
    BY <1>1, <1>12 DEF IInv, TailInv, ram, live
<1>. QED
    BY <1>6, <1>7, <1>8, <1>9, <1>10, <1>11, <1>12, OpenSteps

\* A compaction gathers exactly the contents when map and tail describe them.
LEMMA GathersContents ==
    ASSUME IInv, pc = "idle", ~DiskExposed, "map" \notin exposed, NEW id \in live,
           values_at(catalog.slots[id]) # Missing
    PROVE  values_at(catalog.slots[id]) = contents[id]
<1> DEFINE slot == catalog.slots[id]
<1>1. /\ mapped_records + Len(tail) = record_count
      /\ slot >= mapped_records => tail[slot - mapped_records + 1] = contents[id]
    BY DEF IInv, TailInv, Open, Rewriting
<1>2. file.recs[slot + 1] = contents[id]
    BY DEF IInv, DiskInv, DiskHolds, Rewriting
<1>3. slot \in Nat /\ mapped_records \in Nat /\ Len(tail) \in Nat /\ slot < record_count
    BY DEF IInv, StructInv, TypeOK, IsCatalog, Partial, live, RamOK, SlotsBelowWatermark,
        Counters, Open
<1> HIDE DEF slot
<1>4. CASE slot < mapped_records
    <2>1. values_at(slot) = record(slot)
        BY <1>4 DEF values_at
    <2>2. record(slot) = file.recs[slot + 1]
        BY <2>1 DEF record, slot
    <2>. QED
        BY <1>2, <2>1, <2>2 DEF slot
<1>5. CASE ~(slot < mapped_records)
    <2>1. slot >= mapped_records /\ slot - mapped_records < Len(tail)
        BY <1>1, <1>3, <1>5
    <2>2. values_at(slot) = tail[slot - mapped_records + 1]
        BY <1>5, <2>1 DEF values_at
    <2>. QED
        BY <1>1, <2>1, <2>2 DEF slot
<1>. QED
    BY <1>4, <1>5

\* A compaction carries the contents through its steps.
LEMMA RewriteStep == ASSUME IInv, StructInv', Next PROVE RewriteInv'
<1> SUFFICES ASSUME ~DiskExposed',
                    pc' \in Rewriting \/ (pc' = "truncate" /\ "map" \notin exposed')
             PROVE  RewriteInv'
    BY DEF RewriteInv
<1>1. ~DiskExposed /\ StructInv
    BY ExposureStays DEF IInv
<1>2. file \in Files /\ op.flat \in Seq(Cells)
    BY <1>1 DEF StructInv, TypeOK, IsOp
<1>3. \/ compact \/ CompactTruncates \/ CompactAppends \/ CompactRemaps
      \/ (pc' = pc /\ UNCHANGED <<catalog, file, op, mapped_records, contents, exposed>>)
    BY DEF Next, Progress, Failures, Calls, OpenCreatesCatalog, OpenCommitsManifest,
        OpenCreatesSegment, OpenExisting, OpensOn, SegmentAppend, CommitSlots, CommitCounting,
        CompactReplacesSlots, SnapshotReplacesSlots, SnapshotWritesSegment, SnapshotCopies,
        SnapshotTooShort, OpenFails, SegmentAppendFails, CommitSlotsFails, CheckpointFails,
        CompactTruncateFails, CompactAppendFails, CompactRemapFails, CompactReplaceFails, remove,
        RemovesRow, insert, insert_batch, checkpoint, CheckpointKeeping, snapshot, Close, Stop,
        OpenRefused, Crash, vars, disk, ram, history, Rewriting
<1>4. CASE compact
    <2>1. PICK order \in [1..Cardinality(live) -> live] : InSlotOrder(order) /\ op' = Gathered(order)
        BY <1>4 DEF compact
    <2>2. /\ pc = "idle" /\ pc' = "truncate" /\ UNCHANGED <<catalog, contents, exposed>>
          /\ \A id \in live : values_at(catalog.slots[id]) # Missing
        BY <1>4 DEF compact, disk, history
    <2>3. \A id \in live : op'.flat[op'.slots[id] + 1] = values_at(catalog.slots[id])
        BY <1>1, <2>1, <2>2, GatheredTyped
    <2>4. "map" \notin exposed
        BY <2>2 DEF Rewriting
    <2>5. \A id \in live : op'.flat[op'.slots[id] + 1] = contents[id]
        BY <1>1, <2>2, <2>3, <2>4, GathersContents
    <2>6. live = DOMAIN contents /\ live' = live
        BY <1>1, <2>2 DEF IInv, DiskInv, DiskHolds, Rewriting, live
    <2>. QED
        BY <2>2, <2>5, <2>6 DEF RewriteInv, Rewriting
<1>5. CASE CompactTruncates
    <2>1. /\ pc = "truncate" /\ pc' = "rewrite" /\ "map" \notin exposed
          /\ exposed' = exposed \ {"orphan_tail"} /\ UNCHANGED <<catalog, op, contents>>
          /\ file' = set_len(file, 0)
        BY <1>5 DEF CompactTruncates, TruncatesHolding, Truncated, DiskExposed, truncate_to_empty
    <2>2. file' \in Files /\ file'.end = "aligned" /\ Len(file'.recs) = 0
        BY <1>2, <2>1, SetLenKeeps
    <2>3. file'.recs = <<>>
        <3>1. file'.recs \in Seq(Cells)
            BY <2>2 DEF Files
        <3>. QED
            BY <2>2, <3>1, EmptySeq
    <2>4. live = DOMAIN contents /\ \A id \in live : op.flat[op.slots[id] + 1] = contents[id]
        BY <1>1, <2>1 DEF IInv, RewriteInv
    <2>. QED
        BY <2>1, <2>2, <2>3, <2>4 DEF RewriteInv, Rewriting, live
<1>6. CASE CompactAppends
    <2>1. /\ pc = "rewrite" /\ pc' = "remap" /\ file' = append(file, op.flat)
          /\ UNCHANGED <<catalog, op, contents, exposed>>
        BY <1>6 DEF CompactAppends, history
    <2>2. /\ live = DOMAIN contents /\ \A id \in live : op.flat[op.slots[id] + 1] = contents[id]
          /\ file.recs = <<>> /\ file.end = "aligned" /\ "map" \notin exposed
          /\ "orphan_tail" \notin exposed
        BY <1>1, <2>1 DEF IInv, RewriteInv, Rewriting
    <2>3. file'.recs = op.flat /\ file'.end = "aligned"
        BY <1>2, <2>1, <2>2, AppendKeeps
    <2>. QED
        BY <2>1, <2>2, <2>3 DEF RewriteInv, Rewriting, live
<1>7. CASE CompactRemaps
    <2>1. /\ pc = "remap" /\ pc' = "replace" /\ mapped_records' = Len(op.flat)
          /\ UNCHANGED <<catalog, file, op, contents, exposed>>
        BY <1>7 DEF CompactRemaps, history, disk
    <2>. QED
        BY <1>1, <2>1 DEF IInv, RewriteInv, Rewriting, live
<1>8. CASE pc' = pc /\ UNCHANGED <<catalog, file, op, mapped_records, contents, exposed>>
    BY <1>1, <1>8 DEF IInv, RewriteInv, live
<1>. QED
    BY <1>3, <1>4, <1>5, <1>6, <1>7, <1>8

\* The inductive invariant holds in every reachable state.
THEOREM IInvAlways == Spec => []IInv
<1>1. IInv /\ [Next]_vars => IInv'
    <2> SUFFICES ASSUME IInv, [Next]_vars PROVE IInv'
        OBVIOUS
    <2>1. StructInv'
        BY StructStep DEF IInv
    <2>2. CASE Next
        BY <2>1, <2>2, DiskStep, AlignedStep, TailStep, RewriteStep DEF IInv
    <2>3. CASE UNCHANGED vars
        BY <2>1, <2>3 DEF IInv, DiskInv, DiskHolds, AlignedInv, TailInv, RewriteInv, DiskExposed,
            vars, disk, ram, history, live
    <2>. QED
        BY <2>2, <2>3
<1>. QED
    BY <1>1, InitIInv, PTL DEF Spec

\* The invariant gives the durable contents.
LEMMA DurableFromIInv == IInv => DurableContents
<1> SUFFICES ASSUME IInv, ~DiskExposed, pc \notin Rewriting
             PROVE  Recovered(catalog, file) = contents
    BY DEF DurableContents
<1> DEFINE cut == set_len(file, catalog.record_count)
<1>1. DiskHolds
    BY DEF IInv, DiskInv
<1>2. file \in Files /\ catalog.record_count \in Nat /\ Len(file.recs) \in Nat
    BY DEF IInv, StructInv, TypeOK, IsCatalog, Files
<1>3. \A i \in 1..catalog.record_count : i <= Len(file.recs) => cut.recs[i] = file.recs[i]
    BY <1>2, SetLenKeeps
<1>4. \A id \in live : catalog.slots[id] + 1 \in 1..catalog.record_count
    BY DEF IInv, StructInv, TypeOK, IsCatalog, Partial, live, SlotsBelowWatermark
<1> HIDE DEF cut
<1>5. \A id \in live : cut.recs[catalog.slots[id] + 1] = contents[id]
    BY <1>1, <1>2, <1>3, <1>4 DEF DiskHolds
<1>6. contents \in [DOMAIN contents -> Values]
    BY DEF IInv, StructInv, TypeOK, Partial
<1>7. Recovered(catalog, file) = [id \in live |-> cut.recs[catalog.slots[id] + 1]]
    BY DEF Recovered, cut, live
<1>. QED
    BY <1>1, <1>5, <1>6, <1>7 DEF DiskHolds

(***************************************************************************)
(* A crash at any moment outside the rewrite of a compaction, in a history  *)
(* that hit no disk window, leaves on disk exactly the committed contents   *)
(* (insert and remove of persistent_flat.rs, open's cut at the watermark).  *)
(***************************************************************************)
THEOREM ContentsAreDurable == Spec => []DurableContents
BY DurableFromIInv, IInvAlways, PTL

(***************************************************************************)
(* What values_at returns for a live id of an idle index is what was        *)
(* inserted under it, from the map or from the tail; a read fails only      *)
(* when a checkpoint that failed has lost the map.                          *)
(***************************************************************************)
THEOREM ContentsAreServed == Spec => []ServedContents
<1>1. IInv => ServedContents
    <2> SUFFICES ASSUME IInv, pc = "idle", ~DiskExposed, "map" \notin exposed
                 PROVE  /\ live = DOMAIN contents
                        /\ \A id \in live :
                            \/ values_at(catalog.slots[id]) = contents[id]
                            \/ values_at(catalog.slots[id]) = Missing /\ mmap = "none"
        BY DEF ServedContents
    <2>1. live = DOMAIN contents
        BY DEF IInv, DiskInv, DiskHolds, Rewriting
    <2>2. ASSUME NEW id \in live, values_at(catalog.slots[id]) = Missing
          PROVE  mmap = "none"
        <3> DEFINE slot == catalog.slots[id]
        <3>1. /\ mapped_records + Len(tail) = record_count
              /\ slot >= mapped_records => tail[slot - mapped_records + 1] = contents[id]
              /\ file.recs[slot + 1] = contents[id]
            BY DEF IInv, TailInv, DiskInv, DiskHolds, Open, Rewriting
        <3>2. slot \in Nat /\ mapped_records \in Nat /\ Len(tail) \in Nat /\ slot < record_count
              /\ mmap \in {"none", "some"}
            BY DEF IInv, StructInv, TypeOK, IsCatalog, Partial, live, RamOK, SlotsBelowWatermark,
                Counters, Open
        <3>3. contents[id] # Missing
            BY <2>1, FlatAssumption DEF IInv, StructInv, TypeOK, Partial, Cells
        <3> HIDE DEF slot
        <3>4. CASE slot < mapped_records
            BY <2>2, <3>1, <3>2, <3>3, <3>4 DEF values_at, record, slot
        <3>5. CASE ~(slot < mapped_records)
            <4>1. slot >= mapped_records /\ slot - mapped_records < Len(tail)
                BY <3>1, <3>2, <3>5
            <4>2. values_at(slot) = tail[slot - mapped_records + 1]
                BY <3>5, <4>1 DEF values_at
            <4>. QED
                BY <2>2, <3>1, <3>3, <4>1, <4>2 DEF slot
        <3>. QED
            BY <3>4, <3>5
    <2>. QED
        BY <2>1, <2>2, GathersContents
<1>. QED
    BY <1>1, IInvAlways, PTL

-----------------------------------------------------------------------------
(* Snapshots.                                                               *)

\* An open index has a segment with a valid header, and a snapshot in
\* progress has written the catalog it is about to pair with the segment.
HeaderInv == pc \in Open => file.header = "ok"

SnapshotInFlight ==
    /\ pc \in Snapshotting => dest.catalog.state = "ready" /\ dest.status = "partial"
    /\ pc = "snap_segment" =>
        dest.catalog.slots = catalog.slots /\ dest.catalog.record_count = record_count

SnapInv == HeaderInv /\ SnapshotInFlight /\ SnapshotConsistent

\* No step takes the header of an open index away.
LEMMA HeaderStep == ASSUME StructInv, HeaderInv, Next PROVE HeaderInv'
<1> SUFFICES ASSUME pc' \in Open PROVE file'.header = "ok"
    BY DEF HeaderInv
<1>1. file \in Files /\ op.flat \in Seq(Cells) /\ catalog.record_count \in Nat
    BY DEF StructInv, TypeOK, IsOp, IsCatalog
<1>2. set_len(file, 0).header = file.header /\ append(file, op.flat).header = file.header
    BY <1>1, SetLenKeeps, AppendKeeps
<1>3. \A f \in TornAppends(file, op.flat) : f.header = file.header
    BY <1>1, TornKeeps
<1>4. CASE OpenCreatesSegment
    BY <1>4 DEF OpenCreatesSegment, NoFile
<1>5. CASE OpenExisting
    BY <1>1, <1>5, SetLenKeeps DEF OpenExisting, OpensOn, Openable
<1>6. /\ pc' # "down" /\ pc' \notin Creating
    BY DEF Open, Creating, Rewriting, Snapshotting
<1>7. CASE pc \in Open
    <2>1. file.header = "ok"
        BY <1>7 DEF HeaderInv
    <2>2. \/ file' \in {file, set_len(file, 0), append(file, op.flat)}
          \/ file' \in TornAppends(file, op.flat)
        BY <1>6, <1>7 DEF Next, Progress, Failures, Calls, OpenCreatesCatalog,
            OpenCommitsManifest, OpenCreatesSegment, OpenExisting, OpensOn, SegmentAppend,
            CommitSlots, CommitCounting, CompactTruncates, TruncatesHolding, CompactAppends,
            CompactRemaps, CompactReplacesSlots, SnapshotReplacesSlots, SnapshotWritesSegment,
            SnapshotCopies, SnapshotTooShort, OpenFails, SegmentAppendFails, CommitSlotsFails,
            CheckpointFails, CompactTruncateFails, CompactAppendFails, CompactRemapFails,
            CompactReplaceFails, remove, RemovesRow, insert, insert_batch, checkpoint,
            CheckpointKeeping, compact, snapshot, Close, Stop, OpenRefused, Crash, vars, disk,
            truncate_to_empty, Open, Rewriting, Snapshotting, Creating
    <2>. QED
        BY <1>2, <1>3, <2>1, <2>2
<1>8. pc \in Open \/ OpenCreatesSegment \/ OpenExisting
    BY <1>6 DEF Next, Progress, Failures, Calls, OpenCreatesCatalog, OpenCommitsManifest,
        SegmentAppend, CommitSlots, CommitCounting, CompactTruncates, TruncatesHolding,
        CompactAppends, CompactRemaps, CompactReplacesSlots, SnapshotReplacesSlots,
        SnapshotWritesSegment, SnapshotCopies, SnapshotTooShort, OpenFails, SegmentAppendFails,
        CommitSlotsFails, CheckpointFails, CompactTruncateFails, CompactAppendFails,
        CompactRemapFails, CompactReplaceFails, remove, RemovesRow, insert, insert_batch,
        checkpoint, CheckpointKeeping, compact, snapshot, Close, Stop, OpenRefused, Crash, vars,
        Open, Rewriting, Snapshotting, Creating
<1>. QED
    BY <1>4, <1>5, <1>7, <1>8

\* Cutting a segment again at the length it was cut at changes no record.
LEMMA CutTwice ==
    ASSUME NEW f \in Files, NEW n \in Nat, NEW i \in 1..n
    PROVE  set_len(set_len(f, n), n).recs[i] = set_len(f, n).recs[i]
<1> DEFINE g == set_len(f, n)
<1>1. g \in Files /\ Len(g.recs) = n
    BY SetLenKeeps
<1> HIDE DEF g
<1>2. set_len(g, n).recs[i] = g.recs[i]
    BY <1>1, SetLenKeeps
<1>. QED
    BY <1>2 DEF g

\* What the copied segment and the copied rows decode to is what the source does.
LEMMA CopyRecovers ==
    ASSUME StructInv, NEW c, c.slots = catalog.slots, c.record_count = catalog.record_count
    PROVE  Recovered(c, set_len(file, catalog.record_count)) = Recovered(catalog, file)
<1> DEFINE n == catalog.record_count
           once == set_len(file, n)
           twice == set_len(once, n)
<1>1. file \in Files /\ n \in Nat
    BY DEF StructInv, TypeOK, IsCatalog
<1>2. \A id \in DOMAIN catalog.slots : catalog.slots[id] + 1 \in 1..n
    BY <1>1 DEF StructInv, TypeOK, IsCatalog, Partial, live, SlotsBelowWatermark
<1>3. \A id \in DOMAIN catalog.slots :
        twice.recs[catalog.slots[id] + 1] = once.recs[catalog.slots[id] + 1]
    BY <1>1, <1>2, CutTwice
<1>4. Recovered(c, once) = [id \in DOMAIN catalog.slots |-> twice.recs[catalog.slots[id] + 1]]
    BY DEF Recovered
<1>5. Recovered(catalog, file) = [id \in DOMAIN catalog.slots |-> once.recs[catalog.slots[id] + 1]]
    BY DEF Recovered
<1> HIDE DEF n, once, twice
<1>. QED
    BY <1>3, <1>4, <1>5 DEF n, once

\* A step keeps the snapshot consistent: one completes, or dest is not touched.
LEMMA SnapStep == ASSUME IInv, SnapInv, Next PROVE SnapInv'
<1> USE DEF IInv
<1>1. HeaderInv'
    BY HeaderStep DEF SnapInv
<1>2. IsDest(dest)
    BY DEF StructInv, TypeOK
<1>3. CASE snapshot
    <2>1. /\ dest'.status = "partial" /\ dest'.catalog.state = "ready" /\ pc' = "snap_slots"
        BY <1>2, <1>3 DEF snapshot, IsDest, IsCatalog
    <2>. QED
        BY <1>1, <2>1 DEF SnapInv, SnapshotInFlight, SnapshotConsistent
<1>4. CASE SnapshotReplacesSlots
    <2>1. /\ pc = "snap_slots" /\ pc' = "snap_segment"
          /\ UNCHANGED <<catalog, record_count>>
        BY <1>4 DEF SnapshotReplacesSlots, disk, ram
    <2>2. dest.status = "partial" /\ dest.catalog.state = "ready"
        BY <2>1 DEF SnapInv, SnapshotInFlight, Snapshotting
    <2>3. /\ dest'.status = "partial" /\ dest'.catalog.state = "ready"
          /\ dest'.catalog.slots = catalog.slots /\ dest'.catalog.record_count = record_count
        BY <1>2, <1>4, <2>2 DEF SnapshotReplacesSlots, IsDest, IsCatalog
    <2>. QED
        BY <1>1, <2>1, <2>3 DEF SnapInv, SnapshotInFlight, SnapshotConsistent
<1>5. CASE SnapshotWritesSegment
    <2>1. /\ pc = "snap_segment" /\ pc' = "idle" /\ UNCHANGED <<contents, exposed>>
          /\ dest' = [dest EXCEPT !.file = set_len(file, record_count), !.image = contents,
                                  !.status = IF DiskExposed THEN "exposed" ELSE "sound"]
        BY <1>5 DEF SnapshotWritesSegment, SnapshotCopies, history
    <2>2. /\ dest'.file = set_len(file, record_count) /\ dest'.image = contents
          /\ dest'.catalog = dest.catalog
          /\ dest'.status = IF DiskExposed THEN "exposed" ELSE "sound"
        BY <1>2, <2>1 DEF IsDest
    <2>3. /\ dest.catalog.state = "ready" /\ dest.catalog.slots = catalog.slots
          /\ dest.catalog.record_count = record_count
        BY <2>1 DEF SnapInv, SnapshotInFlight, Snapshotting
    <2>4. record_count = catalog.record_count /\ file.header = "ok"
        BY <2>1 DEF StructInv, Counters, Open, Snapshotting, SnapInv, HeaderInv
    <2>5. file \in Files /\ catalog.record_count \in Nat
        BY DEF StructInv, TypeOK, IsCatalog
    <2>6. dest'.file.header = "ok"
        BY <2>2, <2>4, <2>5, SetLenKeeps
    <2>7. Recovered(dest'.catalog, dest'.file) = Recovered(catalog, file)
        BY <2>2, <2>3, <2>4, CopyRecovers
    <2>8. ~DiskExposed => Recovered(catalog, file) = contents
        BY <2>1, DurableFromIInv DEF DurableContents, Rewriting
    <2>9. SnapshotConsistent'
        BY <2>2, <2>3, <2>6, <2>7, <2>8 DEF SnapshotConsistent
    <2>. QED
        BY <1>1, <2>1, <2>9 DEF SnapInv, SnapshotInFlight, Snapshotting
<1>6. CASE dest' = dest /\ pc' \notin Snapshotting
    BY <1>1, <1>6 DEF SnapInv, SnapshotInFlight, SnapshotConsistent, Snapshotting
<1>7. CASE /\ dest' = dest /\ pc' = pc /\ UNCHANGED <<catalog, record_count>>
    BY <1>1, <1>7 DEF SnapInv, SnapshotInFlight, SnapshotConsistent
<1>8. \/ snapshot \/ SnapshotReplacesSlots \/ SnapshotWritesSegment
      \/ (dest' = dest /\ pc' \notin Snapshotting)
      \/ (dest' = dest /\ pc' = pc /\ UNCHANGED <<catalog, record_count>>)
    BY DEF Next, Progress, Failures, Calls, OpenCreatesCatalog, OpenCommitsManifest,
        OpenCreatesSegment, OpenExisting, OpensOn, SegmentAppend, CommitSlots, CommitCounting,
        CompactTruncates, TruncatesHolding, CompactAppends, CompactRemaps, CompactReplacesSlots,
        SnapshotTooShort, OpenFails, SegmentAppendFails, CommitSlotsFails, CheckpointFails,
        CompactTruncateFails, CompactAppendFails, CompactRemapFails, CompactReplaceFails, remove,
        RemovesRow, insert, insert_batch, checkpoint, CheckpointKeeping, compact, Close, Stop,
        OpenRefused, Crash, vars, disk, ram, Snapshotting
<1>. QED
    BY <1>3, <1>4, <1>5, <1>6, <1>7, <1>8

(***************************************************************************)
(* A snapshot that returned Ok (snapshot of persistent_flat.rs) opens and   *)
(* decodes to the contents of the moment it was taken, in every later state *)
(* of the source, later snapshots over the same directory included.         *)
(***************************************************************************)
THEOREM SnapshotAlwaysConsistent == Spec => []SnapshotConsistent
<1>1. Init => SnapInv
    BY DEF Init, SnapInv, HeaderInv, SnapshotInFlight, SnapshotConsistent, Open, Rewriting,
        Snapshotting
<1>2. IInv /\ SnapInv /\ [Next]_vars => SnapInv'
    <2> SUFFICES ASSUME IInv, SnapInv, [Next]_vars PROVE SnapInv'
        OBVIOUS
    <2>1. CASE UNCHANGED vars
        BY <2>1 DEF SnapInv, HeaderInv, SnapshotInFlight, SnapshotConsistent, vars, disk, ram
    <2>. QED
        BY <2>1, SnapStep
<1>3. SnapInv => SnapshotConsistent
    BY DEF SnapInv
<1>. QED
    BY <1>1, <1>2, <1>3, IInvAlways, PTL DEF Spec

-----------------------------------------------------------------------------
(* Refinement of the VectorIndex port.                                      *)

\* With no disk window hit, what is stored is the contents, rewrites included.
LEMMA StoredIsContents == ASSUME IInv, ~DiskExposed PROVE Stored = contents
<1>1. CASE pc \in Rewriting
    <2>1. /\ live = DOMAIN contents /\ DOMAIN op.slots = live
          /\ \A id \in live : op.flat[op.slots[id] + 1] = contents[id]
        BY <1>1 DEF IInv, RewriteInv, StructInv, CompactionInFlight
    <2>2. contents \in [DOMAIN contents -> Values]
        BY DEF IInv, StructInv, TypeOK, Partial
    <2>3. Stored = [id \in DOMAIN op.slots |-> op.flat[op.slots[id] + 1]]
        BY <1>1 DEF Stored
    <2>. QED
        BY <2>1, <2>2, <2>3
<1>2. CASE pc \notin Rewriting
    BY <1>2, DurableFromIInv DEF DurableContents, Stored
<1>. QED
    BY <1>1, <1>2

(***************************************************************************)
(* persistent_flat.rs implements the VectorIndex port: until a failure hits *)
(* a disk window, every step of every operation, error or crash maps to     *)
(* one whole Insert, one Remove or a stutter.                               *)
(***************************************************************************)
THEOREM FlatImplementsVectorIndex == Spec => ImplementsVectorIndex
<1>1. Init => Port!Init
    <2> SUFFICES ASSUME Init PROVE Stored = <<>> /\ (~DiskExposed) = TRUE
        BY DEF Port!Init
    <2>1. ~DiskExposed /\ contents = <<>>
        BY DEF Init, DiskExposed
    <2>. QED
        BY <2>1, InitIInv, StoredIsContents
<1> DEFINE Shown == ~DiskExposed => Stored = contents
<1>2. IInv /\ Shown' /\ [Next]_vars => [Port!Next]_(Port!vars)
    <2> SUFFICES ASSUME IInv, Shown', [Next]_vars PROVE [Port!Next]_(Port!vars)
        OBVIOUS
    <2>1. CASE DiskExposed'
        BY <2>1 DEF Port!Next
    <2>2. CASE ~DiskExposed'
        <3>1. ~DiskExposed
            BY <2>2, ExposureStays
        <3>2. Stored = contents
            BY <3>1, StoredIsContents
        <3>3. Stored' = contents'
            BY <2>2
        <3>4. CASE contents' = contents
            BY <2>2, <3>1, <3>2, <3>3, <3>4 DEF Port!vars
        <3>5. CASE CommitSlots
            <4>1. pc = "commit" /\ contents' = Merge(contents, Inserted)
                BY <3>5 DEF CommitSlots, CommitCounting
            <4>2. /\ Partial(Inserted, Ids, Values) /\ DOMAIN Inserted = DOMAIN op.slots
                BY <4>1, InsertedTyped DEF IInv
            <4>3. DOMAIN op.slots \cap live = {} /\ live = DOMAIN contents
                BY <3>1, <4>1 DEF IInv, StructInv, InsertInFlight, DiskInv, DiskHolds, Rewriting
            <4>4. DOMAIN Inserted \in SUBSET Ids /\ Inserted \in [DOMAIN Inserted -> Values]
                BY <4>2 DEF Partial
            <4>5. Port!Insert(Inserted)
                BY <3>2, <3>3, <4>1, <4>2, <4>3 DEF Port!Insert, Merge
            <4>. QED
                BY <2>2, <3>1, <4>4, <4>5 DEF Port!Next
        <3>6. CASE \E id \in Ids : remove(id)
            <4>1. PICK id \in Ids : remove(id)
                BY <3>6
            <4>2. id \in live /\ contents' = Without(contents, id) /\ pc = "idle"
                BY <4>1 DEF remove, RemovesRow
            <4>3. live = DOMAIN contents
                BY <3>1, <4>2 DEF IInv, DiskInv, DiskHolds, Rewriting
            <4>4. Port!Remove(id)
                BY <3>2, <3>3, <4>2, <4>3 DEF Port!Remove, Without
            <4>. QED
                BY <2>2, <3>1, <4>4 DEF Port!Next
        <3>7. contents' = contents \/ CommitSlots \/ \E id \in Ids : remove(id)
            BY DEF Next, Progress, Failures, Calls, OpenCreatesCatalog, OpenCommitsManifest,
                OpenCreatesSegment, OpenExisting, OpensOn, SegmentAppend, CompactTruncates,
                TruncatesHolding, CompactAppends, CompactRemaps, CompactReplacesSlots,
                SnapshotReplacesSlots, SnapshotWritesSegment, SnapshotCopies, SnapshotTooShort,
                OpenFails, SegmentAppendFails, CommitSlotsFails, CheckpointFails,
                CompactTruncateFails, CompactAppendFails, CompactRemapFails,
                CompactReplaceFails, insert, insert_batch, checkpoint, CheckpointKeeping,
                compact, snapshot, Close, OpenRefused, Crash, vars, history
        <3>. QED
            BY <3>4, <3>5, <3>6, <3>7
    <2>. QED
        BY <2>1, <2>2
<1>3. IInv => Shown
    BY StoredIsContents
<1>. QED
    BY <1>1, <1>2, <1>3, IInvAlways, PTL DEF Spec, ImplementsVectorIndex, Port!Spec
=============================================================================
