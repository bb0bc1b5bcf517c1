--------------------------- MODULE Segment_proofs ---------------------------
(***************************************************************************)
(* What the segment operations preserve: every one of them yields a file,   *)
(* and none changes a record it does not cut off.                           *)
(***************************************************************************)
EXTENDS Segment, SequenceTheorems, TLAPS

\* The records a write lays down are cells, as many as were written.
LEMMA LaidTyped ==
    ASSUME NEW f \in Files, NEW vals \in Seq(Cells)
    PROVE  /\ Laid(f, vals) \in Seq(Cells)
           /\ Len(Laid(f, vals)) = Len(vals)
           /\ f.end = "aligned" => Laid(f, vals) = vals
<1>1. CASE f.end = "aligned"
    BY <1>1 DEF Laid
<1>2. CASE f.end = "ragged"
    <2>1. Laid(f, vals) = [i \in 1..Len(vals) |-> Garbled]
        BY <1>2 DEF Laid
    <2>2. Len(vals) \in Nat /\ Garbled \in Cells
        BY DEF Cells
    <2>. QED
        BY <1>2, <2>1, <2>2
<1>. QED
    BY <1>1, <1>2 DEF Files, Ends

\* Concatenation keeps the first sequence and places the second behind it.
LEMMA ConcatKeeps ==
    ASSUME NEW S, NEW a \in Seq(S), NEW b \in Seq(S)
    PROVE  /\ a \o b \in Seq(S)
           /\ Len(a \o b) = Len(a) + Len(b) /\ Len(a) \in Nat /\ Len(b) \in Nat
           /\ Len(a \o b) >= Len(a)
           /\ \A i \in 1..Len(a) : (a \o b)[i] = a[i]
           /\ \A k \in 1..Len(b) : (a \o b)[Len(a) + k] = b[k]
           /\ a = <<>> => a \o b = b
BY ConcatProperties

\* An append keeps every record and ends with the values, if aligned.
LEMMA AppendKeeps ==
    ASSUME NEW f \in Files, NEW vals \in Seq(Cells)
    PROVE  LET g == append(f, vals) IN
           /\ g \in Files /\ g.header = f.header /\ g.end = f.end
           /\ Len(g.recs) = Len(f.recs) + Len(vals)
           /\ \A i \in 1..Len(f.recs) : g.recs[i] = f.recs[i]
           /\ f.end = "aligned" => \A k \in 1..Len(vals) : g.recs[Len(f.recs) + k] = vals[k]
           /\ (f.end = "aligned" /\ f.recs = <<>>) => g.recs = vals
<1> DEFINE g == append(f, vals)
           a == f.recs
           b == Laid(f, vals)
<1>1. a \in Seq(Cells) /\ b \in Seq(Cells) /\ Len(b) = Len(vals) /\ (f.end = "aligned" => b = vals)
    BY LaidTyped DEF Files
<1>2. g.recs = a \o b /\ g.header = f.header /\ g.end = f.end
    BY DEF append, Files
<1>3. a \o b \in Seq(Cells)
    BY <1>1, ConcatKeeps
<1>4. g \in Files
    BY <1>3 DEF append, Files
<1> HIDE DEF a, b, g
<1>5. /\ Len(g.recs) = Len(a) + Len(b)
      /\ \A i \in 1..Len(a) : g.recs[i] = a[i]
      /\ \A k \in 1..Len(b) : g.recs[Len(a) + k] = b[k]
      /\ a = <<>> => g.recs = b
    <2>1. a \in Seq(Cells) /\ b \in Seq(Cells)
        BY <1>1
    <2>2. Len(a \o b) = Len(a) + Len(b) /\ (a = <<>> => a \o b = b)
        BY <2>1, ConcatKeeps
    <2>3. \A i \in 1..Len(a) : (a \o b)[i] = a[i]
        BY <2>1, ConcatKeeps
    <2>4. \A k \in 1..Len(b) : (a \o b)[Len(a) + k] = b[k]
        BY <2>1, ConcatKeeps
    <2>. QED
        BY <1>2, <2>2, <2>3, <2>4
<1>6. Len(g.recs) = Len(a) + Len(vals)
    BY <1>1, <1>5
<1>7. f.end = "aligned" => \A k \in 1..Len(vals) : g.recs[Len(a) + k] = vals[k]
    BY <1>1, <1>5
<1>8. (f.end = "aligned" /\ a = <<>>) => g.recs = vals
    BY <1>1, <1>5
<1>. QED
    BY <1>2, <1>4, <1>5, <1>6, <1>7, <1>8 DEF a, g

\* A torn append keeps every record that was there before it.
LEMMA TornKeeps ==
    ASSUME NEW f \in Files, NEW vals \in Seq(Cells), NEW g \in TornAppends(f, vals)
    PROVE  /\ g \in Files /\ g.header = f.header
           /\ Len(g.recs) >= Len(f.recs)
           /\ \A i \in 1..Len(f.recs) : g.recs[i] = f.recs[i]
<1>1. PICK cut \in (0..Len(vals)) \X Ends :
        g = [f EXCEPT !.recs = @ \o Laid(f, SubSeq(vals, 1, cut[1])), !.end = cut[2]]
    BY DEF TornAppends
<1> DEFINE part == SubSeq(vals, 1, cut[1])
           a == f.recs
           b == Laid(f, part)
<1>2. part \in Seq(Cells)
    BY <1>1
<1>3. a \in Seq(Cells) /\ cut[2] \in Ends
    BY <1>1 DEF Files
<1>4. b \in Seq(Cells)
    BY <1>2, LaidTyped
<1>5. a \o b \in Seq(Cells)
    BY <1>3, <1>4, ConcatKeeps
<1>6. g.recs = a \o b /\ g.header = f.header
    BY <1>1 DEF Files
<1>7. g \in Files
    BY <1>1, <1>3, <1>5 DEF Files
<1> HIDE DEF a, b
<1>8. Len(g.recs) >= Len(a) /\ \A i \in 1..Len(a) : g.recs[i] = a[i]
    BY <1>3, <1>4, <1>6, ConcatKeeps
<1>. QED
    BY <1>6, <1>7, <1>8 DEF a

\* Setting the length keeps the records below the cut and aligns the end.
LEMMA SetLenKeeps ==
    ASSUME NEW f \in Files, NEW n \in Nat
    PROVE  LET g == set_len(f, n) IN
           /\ g \in Files /\ g.header = f.header
           /\ g.end = "aligned" /\ Len(g.recs) = n
           /\ \A i \in 1..n : i <= Len(f.recs) => g.recs[i] = f.recs[i]
<1> DEFINE g == set_len(f, n)
           cell(i) == IF i <= Len(f.recs) THEN f.recs[i]
                      ELSE IF f.end = "ragged" /\ i = Len(f.recs) + 1 THEN Garbled ELSE Zero
           s == [i \in 1..n |-> cell(i)]
<1>1. g.header = f.header /\ g.recs = s /\ g.end = "aligned"
    BY DEF set_len, Files
<1>2. f.recs \in Seq(Cells) /\ Zero \in Cells /\ Garbled \in Cells
    BY DEF Files, Cells
<1>3. \A i \in 1..n : cell(i) \in Cells
    BY <1>2
<1>4. s \in Seq(Cells) /\ Len(s) = n
    BY <1>3
<1>5. g \in Files
    BY <1>4 DEF set_len, Files, Ends
<1>6. \A i \in 1..n : i <= Len(f.recs) => s[i] = f.recs[i]
    OBVIOUS
<1> HIDE DEF s, g
<1>. QED
    BY <1>1, <1>4, <1>5, <1>6 DEF g
=============================================================================
