------------------------------ MODULE Segment ------------------------------
(***************************************************************************)
(* The vector segment file (eidosdb-storage, segment.rs): a header followed *)
(* by fixed-size records, appended with fsync and read through a read-only  *)
(* memory map.  A file is the record                                        *)
(*                                                                          *)
(*   header   "absent" (no file), "torn" (created, header incomplete), "ok" *)
(*   recs     the whole records after the header                            *)
(*   end      "ragged" when a fraction of a record trails them, "aligned"   *)
(*            otherwise                                                     *)
(*                                                                          *)
(* A record holds the value written there, Zero for bytes the file system   *)
(* made up when the file was extended, or Garbled for bytes that straddle   *)
(* two writes.  Offsets are whole records: the stride is abstracted, the    *)
(* misalignment a fraction of a record causes is kept in `end`.             *)
(***************************************************************************)
EXTENDS Integers, Sequences

CONSTANTS
    Values,     \* embeddings, compared only for equality
    Zero,       \* a record of zero bytes
    Garbled     \* a record that mixes the bytes of two writes

ASSUME SegmentAssumption == Zero \notin Values /\ Garbled \notin Values

Cells == Values \cup {Zero, Garbled}

Ends == {"aligned", "ragged"}

Files == [header : {"absent", "torn", "ok"}, recs : Seq(Cells), end : Ends]

NoFile == [header |-> "absent", recs |-> <<>>, end |-> "aligned"]

(***************************************************************************)
(* The records a write of vals leaves in f: appends go to the end of the    *)
(* file, so behind a fraction of a record nothing lands on a boundary.      *)
(***************************************************************************)
Laid(f, vals) == IF f.end = "ragged" THEN [i \in 1..Len(vals) |-> Garbled] ELSE vals

\* Segment::append that returns Ok: seek to the end, write all, fsync.
append(f, vals) == [f EXCEPT !.recs = @ \o Laid(f, vals)]

(***************************************************************************)
(* What an append that fails or is cut short by a crash may leave: some     *)
(* prefix of the records and perhaps a fraction of the next one.  All of    *)
(* vals is among the outcomes: the write may succeed and the fsync fail.    *)
(***************************************************************************)
TornAppends(f, vals) ==
    { [f EXCEPT !.recs = @ \o Laid(f, SubSeq(vals, 1, cut[1])), !.end = cut[2]] :
        cut \in { c \in (0..Len(vals)) \X Ends :
                    \/ c[2] = "ragged" /\ (f.end = "ragged" \/ c[1] < Len(vals))
                    \/ c[2] = "aligned" /\ (f.end = "aligned" \/ c[1] > 0) } }

(***************************************************************************)
(* set_len to n records, as Segment::open does with the watermark: longer   *)
(* files lose their tail, shorter ones are extended with zero bytes.        *)
(***************************************************************************)
set_len(f, n) ==
    [f EXCEPT !.recs = [i \in 1..n |->
                            IF i <= Len(f.recs) THEN f.recs[i]
                            ELSE IF f.end = "ragged" /\ i = Len(f.recs) + 1 THEN Garbled
                            ELSE Zero],
              !.end = "aligned"]

\* Segment::truncate_to_empty on the file: back to the header.
truncate_to_empty(f) == set_len(f, 0)

\* The length check of Segment::remap.
can_remap(f, n) == f.header = "ok" /\ n <= Len(f.recs)
=============================================================================
