------------------------ MODULE PersistentHnsw_proofs ------------------------
(***************************************************************************)
(* Theorems about PersistentHnswIndex, for every graph, file and sequence   *)
(* of operations, errors and crashes: the rows and records on disk add up   *)
(* to the graph in RAM, and reload to what was committed.                   *)
(***************************************************************************)
EXTENDS PersistentHnsw, HnswGraph_proofs

-----------------------------------------------------------------------------
(* The segment.                                                             *)

SP == INSTANCE Segment_proofs

\* The segment of this module is that of Segment_proofs.
LEMMA SameSegment ==
    /\ Cells = SP!Cells /\ Files = SP!Files
    /\ \A f, vals : append(f, vals) = SP!append(f, vals)
    /\ \A f, vals : TornAppends(f, vals) = SP!TornAppends(f, vals)
    /\ \A f, n : set_len(f, n) = SP!set_len(f, n)
<1>1. Cells = SP!Cells
    BY DEF Cells, SP!Cells
<1>2. Files = SP!Files
    BY <1>1 DEF Files, Ends, SP!Files, SP!Ends
<1>3. ASSUME NEW f, NEW vals PROVE append(f, vals) = SP!append(f, vals)
    BY Zenon DEF append, SP!append, Laid, SP!Laid
<1>4. ASSUME NEW f, NEW vals PROVE TornAppends(f, vals) = SP!TornAppends(f, vals)
    BY Zenon DEF TornAppends, SP!TornAppends, Laid, SP!Laid, Ends, SP!Ends
<1>5. ASSUME NEW f, NEW n PROVE set_len(f, n) = SP!set_len(f, n)
    BY Zenon DEF set_len, SP!set_len
<1>. QED
    BY <1>1, <1>2, <1>3, <1>4, <1>5

\* A file h that keeps every record of f.
Extends(f, h) ==
    /\ h \in Files /\ h.header = f.header /\ Len(h.recs) \in Nat /\ Len(h.recs) >= Len(f.recs)
    /\ \A i \in 1..Len(f.recs) : h.recs[i] = f.recs[i]

\* An append extends the file, by the values if its end is aligned.
LEMMA Appends ==
    ASSUME NEW f \in Files, NEW vals \in Seq(Values)
    PROVE  /\ Extends(f, append(f, vals))
           /\ append(f, vals).end = f.end
           /\ Len(append(f, vals).recs) = Len(f.recs) + Len(vals)
           /\ f.end = "aligned" =>
                \A k \in 1..Len(vals) : append(f, vals).recs[Len(f.recs) + k] = vals[k]
           /\ f.end = "aligned" /\ f.recs = <<>> => append(f, vals).recs = vals
<1>1. f \in SP!Files /\ vals \in Seq(SP!Cells) /\ Len(vals) \in Nat
    <2>1. vals \in Seq(Cells)
        BY DEF Cells
    <2>. QED
        BY <2>1, SameSegment
<1> DEFINE h == SP!append(f, vals)
<1>2. /\ h \in SP!Files /\ h.header = f.header /\ h.end = f.end
      /\ Len(h.recs) = Len(f.recs) + Len(vals)
      /\ \A i \in 1..Len(f.recs) : h.recs[i] = f.recs[i]
      /\ f.end = "aligned" => \A k \in 1..Len(vals) : h.recs[Len(f.recs) + k] = vals[k]
      /\ (f.end = "aligned" /\ f.recs = <<>>) => h.recs = vals
    BY <1>1, HnswAssumption, SP!AppendKeeps DEF SP!SegmentAssumption
<1> HIDE DEF h
<1>3. Len(f.recs) \in Nat
    BY DEF Files
<1>4. Len(h.recs) \in Nat /\ Len(h.recs) >= Len(f.recs)
    BY <1>1, <1>2, <1>3
<1>5. h \in Files /\ h = append(f, vals)
    BY <1>2, SameSegment DEF h
<1>6. Extends(f, h)
    BY <1>2, <1>4, <1>5 DEF Extends
<1>. QED
    BY <1>2, <1>5, <1>6

\* So does an append that is cut short.
LEMMA Tears ==
    ASSUME NEW f \in Files, NEW vals \in Seq(Values), NEW h \in TornAppends(f, vals)
    PROVE  Extends(f, h)
<1>1. f \in SP!Files /\ vals \in Seq(SP!Cells) /\ h \in SP!TornAppends(f, vals)
    <2>1. vals \in Seq(Cells)
        BY DEF Cells
    <2>. QED
        BY <2>1, SameSegment
<1>2. /\ h \in SP!Files /\ h.header = f.header
      /\ Len(h.recs) >= Len(f.recs)
      /\ \A i \in 1..Len(f.recs) : h.recs[i] = f.recs[i]
    BY <1>1, HnswAssumption, SP!TornKeeps DEF SP!SegmentAssumption
<1>3. h \in Files
    BY <1>2, SameSegment
<1>4. Len(h.recs) \in Nat
    BY <1>3 DEF Files
<1>. QED
    BY <1>2, <1>3, <1>4 DEF Extends

\* Setting the length keeps the records below the cut.
LEMMA Cuts ==
    ASSUME NEW f \in Files, NEW n \in Nat
    PROVE  /\ set_len(f, n) \in Files /\ set_len(f, n).header = f.header
           /\ set_len(f, n).end = "aligned" /\ Len(set_len(f, n).recs) = n
           /\ \A i \in 1..n : i <= Len(f.recs) => set_len(f, n).recs[i] = f.recs[i]
<1>1. f \in SP!Files
    BY SameSegment
<1> DEFINE h == SP!set_len(f, n)
<1>2. /\ h \in SP!Files /\ h.header = f.header /\ h.end = "aligned" /\ Len(h.recs) = n
      /\ \A i \in 1..n : i <= Len(f.recs) => h.recs[i] = f.recs[i]
    BY <1>1, HnswAssumption, SP!SetLenKeeps DEF SP!SegmentAssumption
<1> HIDE DEF h
<1>3. h \in Files /\ h = set_len(f, n)
    BY <1>2, SameSegment DEF h
<1>. QED
    BY <1>2, <1>3

-----------------------------------------------------------------------------
(* Reloading.                                                               *)

RowsOK(rows) == DOMAIN rows \subseteq 1..MaxNodes /\ \A n \in DOMAIN rows : IsRow(rows[n])

\* The keys in order, one place for each.
LEMMA SortedKeys ==
    ASSUME NEW N \in Nat, NEW S, S \subseteq 1..N
    PROVE  /\ Len(Sorted(S)) = Cardinality(S) /\ Cardinality(S) \in Nat /\ Cardinality(S) <= N
           /\ \A k \in 1..Cardinality(S) : Sorted(S)[k] = Place(S, k) /\ Place(S, k) \in S
<1> DEFINE C == Cardinality(S)
           keys == Sorted(S)
<1>1. C \in Nat /\ C <= N
    BY FiniteUpTo
<1>2. keys = [k \in 1..C |-> Place(S, k)]
    BY DEF Sorted, Place, Rank
<1> HIDE DEF keys
<1>3. DOMAIN keys = 1..C /\ keys = [k \in 1..C |-> keys[k]]
    BY <1>2
<1>4. Len(keys) = C
    <2> HIDE DEF C
    <2>. QED
        BY <1>1, <1>3, Enumerated
<1>. QED
    BY <1>1, <1>2, <1>4, PlacesNumber DEF keys

\* The node that the row and the record at a place make up.
NodeAt(s, f, k) ==
    LET row == s.rows[Sorted(DOMAIN s.rows)[k]] IN
    [id |-> row.id, val |-> f.recs[k], level |-> row.level, tombstone |-> row.tombstone,
     neighbors |-> [l \in 0..row.level |-> ListAt(row.neighbors, l)]]

\* Reloaded is made of them.
LEMMA ReloadedNodes ==
    ASSUME NEW s, NEW f, Len(Sorted(DOMAIN s.rows)) \in Nat
    PROVE  LET g == Reloaded(s, f)
               C == Len(Sorted(DOMAIN s.rows)) IN
           /\ g = [nodes |-> g.nodes, entry |-> g.entry] /\ g.entry = s.entry
           /\ IsSeq(g.nodes) /\ Len(g.nodes) = C /\ Indices(g) = 1..C
           /\ g.nodes = [k \in 1..C |-> NodeAt(s, f, k)]
           /\ \A k \in 1..C : g.nodes[k] = NodeAt(s, f, k)
<1> DEFINE g == Reloaded(s, f)
           C == Len(Sorted(DOMAIN s.rows))
           ns == [k \in 1..C |-> NodeAt(s, f, k)]
<1>1. g = [nodes |-> ns, entry |-> s.entry]
    BY DEF Reloaded, NodeAt
<1> HIDE DEF g
<1>2. DOMAIN ns = 1..C /\ ns = [k \in 1..C |-> ns[k]] /\ \A k \in 1..C : ns[k] = NodeAt(s, f, k)
    OBVIOUS
<1> HIDE DEF ns
<1>3. g.nodes = ns /\ g.entry = s.entry
    BY <1>1
<1>4. IsSeq(ns) /\ Len(ns) = C
    <2>1. C \in Nat
        OBVIOUS
    <2> HIDE DEF C
    <2>. QED
        BY <1>2, <2>1, Enumerated
<1>5. Indices(g) = 1..C
    BY <1>3, <1>4 DEF Indices
<1>6. g = [nodes |-> g.nodes, entry |-> g.entry]
    BY <1>1, <1>3
<1>. QED
    BY <1>2, <1>3, <1>4, <1>5, <1>6 DEF g, ns

\* Rows reload to a graph of their number, sound in shape if it is closed.
LEMMA ReloadShape ==
    ASSUME NEW s, NEW f, RowsOK(s.rows), Closed(Reloaded(s, f))
    PROVE  Shape(Reloaded(s, f)) /\ Len(Reloaded(s, f).nodes) <= MaxNodes
<1> DEFINE g == Reloaded(s, f)
           S == DOMAIN s.rows
           C == Cardinality(S)
<1>1. S \subseteq 1..MaxNodes /\ MaxNodes \in Nat
    BY GraphAssumption DEF RowsOK
<1>2. /\ Len(Sorted(S)) = C /\ C \in Nat /\ C <= MaxNodes
      /\ \A k \in 1..C : Sorted(S)[k] \in S
    BY <1>1, SortedKeys
<1>3. /\ g = [nodes |-> g.nodes, entry |-> g.entry]
      /\ IsSeq(g.nodes) /\ Len(g.nodes) = C /\ Indices(g) = 1..C
      /\ \A k \in 1..C : g.nodes[k] = NodeAt(s, f, k)
    <2> DEFINE L == Len(Sorted(S))
    <2>1. L \in Nat
        BY <1>2
    <2>2. /\ g = [nodes |-> g.nodes, entry |-> g.entry]
          /\ IsSeq(g.nodes) /\ Len(g.nodes) = L /\ Indices(g) = 1..L
          /\ \A k \in 1..L : g.nodes[k] = NodeAt(s, f, k)
        BY <2>1, ReloadedNodes
    <2>3. L = C
        BY <1>2
    <2> HIDE DEF L, C, g
    <2>. QED
        BY <2>2, <2>3
<1>4. Closed(g)
    OBVIOUS
<1> HIDE DEF g
<1>5. ASSUME NEW k \in Indices(g) PROVE NodeShape(g.nodes[k], Indices(g))
    <2> DEFINE row == s.rows[Sorted(S)[k]]
               a == row.id
               b == f.recs[k]
               c == row.level
               d == row.tombstone
               e == [l \in 0..c |-> ListAt(row.neighbors, l)]
    <2>1. IsRow(row)
        BY <1>2, <1>3 DEF RowsOK
    <2>2. a \in Ids /\ c \in 0..MaxLevel /\ d \in {"no", "yes"}
        BY <2>1 DEF IsRow
    <2>3. g.nodes[k] = [id |-> a, val |-> b, level |-> c, tombstone |-> d, neighbors |-> e]
        BY <1>3 DEF NodeAt
    <2>4. e = [l \in 0..c |-> e[l]] /\ DOMAIN e = 0..c
        OBVIOUS
    <2> HIDE DEF a, b, c, d, e
    <2>5. g.nodes[k].level = c /\ g.nodes[k].neighbors = e
        BY <2>3
    <2>6. \A l \in 0..c : e[l] \subseteq Indices(g)
        <3>1. level(g, k) = c
            BY <2>5 DEF level
        <3>2. \A l \in 0..c : neighbors(g, k, l) \subseteq Indices(g)
            BY <1>4, <3>1 DEF Closed
        <3>3. \A l \in 0..c : l <= c
            BY <2>2, GraphAssumption
        <3>4. \A l \in 0..c : neighbors(g, k, l) = e[l]
            BY <2>5, <3>1, <3>3 DEF neighbors
        <3>. QED
            BY <3>2, <3>4
    <2>7. e \in [0..c -> SUBSET Indices(g)]
        BY <2>4, <2>6
    <2>. QED
        BY <2>2, <2>3, <2>5, <2>7 DEF NodeShape
<1>6. g.entry \in {None} \cup Indices(g)
    BY <1>4 DEF Closed
<1>7. Shape(g)
    BY <1>3, <1>5, <1>6 DEF Shape
<1>. QED
    BY <1>2, <1>3, <1>7 DEF g

\* No node follows a live one under its id.
Newest(g) == \A i \in LiveNodes(g) : \A j \in Indices(g) : i < j => g.nodes[i].id # g.nodes[j].id

\* The rows, the state row and the records of g.
Mirrors(s, f, g) ==
    /\ s.rows = AllRows(g) /\ s.node_count = Len(g.nodes) /\ s.entry = g.entry
    /\ Len(g.nodes) <= Len(f.recs)
    /\ \A n \in Indices(g) : f.recs[n] = g.nodes[n].val

\* They reload to g.
LEMMA MirrorReloads ==
    ASSUME NEW g, Shape(g), Newest(g), NEW s, NEW f \in Files, Mirrors(s, f, g)
    PROVE  /\ Reloadable(s) /\ Closed(g)
           /\ Reloaded(s, set_len(f, s.node_count)) = g
<1> DEFINE N == Len(g.nodes)
           S == DOMAIN s.rows
           h == set_len(f, s.node_count)
           r == Reloaded(s, h)
<1>1. N \in Nat /\ Indices(g) = 1..N /\ s.node_count = N /\ s.rows = AllRows(g)
    BY ShapeFacts DEF Mirrors, Indices
<1>2. S = 1..N /\ \A n \in 1..N : s.rows[n] = node_snapshot(g, n)
    BY <1>1 DEF AllRows
<1>3. /\ Len(Sorted(S)) = N /\ \A k \in 1..N : Sorted(S)[k] = k
    <2>1. Cardinality(1..N) = N /\ \A k \in 1..N : Place(1..N, k) = k
        BY <1>1, PlacesOfInterval
    <2>2. /\ Len(Sorted(1..N)) = Cardinality(1..N)
          /\ \A k \in 1..Cardinality(1..N) : Sorted(1..N)[k] = Place(1..N, k)
        BY <1>1, SortedKeys
    <2>. QED
        BY <1>2, <2>1, <2>2
<1>4. Reloadable(s)
    <2>1. ASSUME NEW i \in 1..N, NEW j \in 1..N, i < j, s.rows[i].tombstone = "no"
          PROVE  s.rows[i].id # s.rows[j].id
        <3>0. s.rows[i] = node_snapshot(g, i) /\ s.rows[j] = node_snapshot(g, j)
            BY <1>2
        <3>1. s.rows[i].tombstone = g.nodes[i].tombstone /\ s.rows[i].id = g.nodes[i].id
              /\ s.rows[j].id = g.nodes[j].id
            <4>1. \A n : node_snapshot(g, n).tombstone = g.nodes[n].tombstone
                         /\ node_snapshot(g, n).id = g.nodes[n].id
                BY DEF node_snapshot, RowWith
            <4>. QED
                BY <3>0, <4>1
        <3>2. i \in LiveNodes(g)
            BY <1>1, <2>1, <3>1 DEF LiveNodes
        <3>. QED
            BY <1>1, <2>1, <3>1, <3>2 DEF Newest
    <2>2. Len(Sorted(S)) <= s.node_count
        BY <1>1, <1>3
    <2> HIDE DEF N
    <2>. QED
        BY <1>3, <2>1, <2>2 DEF Reloadable
<1>5. Closed(g)
    <2>1. \A n \in Indices(g) : level(g, n) \in Nat /\ \A k \in Nat : neighbors(g, n, k) \subseteq Indices(g)
        BY ShapeFacts
    <2>. QED
        BY <2>1 DEF Closed, Shape
<1>6. /\ r = [nodes |-> r.nodes, entry |-> r.entry] /\ r.entry = s.entry
      /\ r.nodes = [k \in 1..N |-> NodeAt(s, h, k)]
    BY <1>1, <1>3, ReloadedNodes
<1>7. ASSUME NEW k \in 1..N PROVE NodeAt(s, h, k) = g.nodes[k]
    <2> DEFINE a == g.nodes[k].id
               b == g.nodes[k].val
               c == g.nodes[k].level
               d == g.nodes[k].tombstone
               e == g.nodes[k].neighbors
               row == s.rows[k]
    <2>1. g.nodes[k] = [id |-> a, val |-> b, level |-> c, tombstone |-> d, neighbors |-> e]
          /\ e \in [0..c -> SUBSET Indices(g)]
        BY <1>1 DEF Shape, NodeShape
    <2>2. row = [id |-> a, level |-> c, tombstone |-> d, neighbors |-> e]
        BY <1>2 DEF node_snapshot, RowWith
    <2>3. h.recs[k] = b
        <3>1. k <= Len(f.recs) /\ f.recs[k] = b
            <4>1. Len(f.recs) \in Nat
                BY DEF Files
            <4>. QED
                BY <1>1, <4>1 DEF Mirrors
        <3>. QED
            BY <1>1, <3>1, Cuts
    <2> HIDE DEF a, b, c, d, e, row
    <2>4. row.id = a /\ row.level = c /\ row.tombstone = d /\ row.neighbors = e
        BY <2>2
    <2>5. [l \in 0..c |-> ListAt(e, l)] = e
        BY <2>1 DEF ListAt
    <2>6. NodeAt(s, h, k) = [id |-> row.id, val |-> h.recs[k], level |-> row.level,
                             tombstone |-> row.tombstone,
                             neighbors |-> [l \in 0..row.level |-> ListAt(row.neighbors, l)]]
        BY <1>3 DEF NodeAt, row
    <2>. QED
        BY <2>1, <2>3, <2>4, <2>5, <2>6
<1>8. g.nodes = [k \in 1..N |-> g.nodes[k]]
    <2>1. PICK T : g.nodes \in Seq(T)
        BY DEF Shape, IsSeq
    <2>. QED
        BY <2>1
<1> HIDE DEF r
<1>9. r.nodes = g.nodes
    BY <1>6, <1>7, <1>8
<1>10. r.entry = g.entry
    BY <1>6 DEF Mirrors
<1>11. g = [nodes |-> g.nodes, entry |-> g.entry]
    BY DEF Shape
<1>. QED
    BY <1>4, <1>5, <1>6, <1>9, <1>10, <1>11 DEF r

-----------------------------------------------------------------------------
(* Rows.                                                                    *)

\* Lists for layers that exist, of nodes that fit the bound.
ListsOK(lists) == \A k \in DOMAIN lists : k \in 0..MaxLevel /\ lists[k] \subseteq 1..MaxNodes

\* A row written with such lists is a row.
LEMMA RowWithTyped ==
    ASSUME NEW g, Shape(g), NEW n \in Indices(g), NEW lists, ListsOK(lists)
    PROVE  IsRow(RowWith(g, n, lists))
<1>1. g.nodes[n].id \in Ids /\ g.nodes[n].level \in 0..MaxLevel /\ g.nodes[n].tombstone \in {"no", "yes"}
    BY DEF Shape, NodeShape
<1> DEFINE r == RowWith(g, n, lists)
<1>2. r.id = g.nodes[n].id /\ r.level = g.nodes[n].level /\ r.tombstone = g.nodes[n].tombstone
      /\ r.neighbors = lists
    BY DEF RowWith
<1> HIDE DEF r
<1>3. IsRow(r)
    BY <1>1, <1>2 DEF IsRow, ListsOK
<1>. QED
    BY <1>3 DEF r

\* The lists of a graph and those stored are such lists.
LEMMA ListsTyped ==
    ASSUME NEW g, Shape(g), Len(g.nodes) <= MaxNodes, NEW rows, RowsOK(rows)
    PROVE  /\ \A n \in Indices(g) : ListsOK(g.nodes[n].neighbors)
           /\ \A n : ListsOK(Lists(rows, n))
<1>1. ASSUME NEW n \in Indices(g) PROVE ListsOK(g.nodes[n].neighbors)
    <2> DEFINE c == g.nodes[n].level
               e == g.nodes[n].neighbors
    <2>1. c \in 0..MaxLevel /\ e \in [0..c -> SUBSET Indices(g)]
        BY DEF Shape, NodeShape
    <2>2. Indices(g) \subseteq 1..MaxNodes
        BY ShapeFacts, GraphAssumption DEF Indices
    <2> HIDE DEF c, e
    <2>3. DOMAIN e = 0..c /\ \A k \in 0..c : k \in 0..MaxLevel
        BY <2>1, GraphAssumption
    <2>4. ListsOK(e)
        BY <2>1, <2>2, <2>3 DEF ListsOK
    <2>. QED
        BY <2>4 DEF e
<1>2. ASSUME NEW n PROVE ListsOK(Lists(rows, n))
    <2>1. CASE n \in DOMAIN rows
        BY <2>1 DEF Lists, ListsOK, RowsOK, IsRow
    <2>2. CASE n \notin DOMAIN rows
        <3>1. Lists(rows, n) = <<>> /\ DOMAIN <<>> = {}
            BY <2>2 DEF Lists
        <3>. QED
            BY <3>1 DEF ListsOK
    <2>. QED
        BY <2>1, <2>2
<1>. QED
    BY <1>1, <1>2

\* Every transaction writes rows.
LEMMA RowsTyped ==
    ASSUME NEW g, Shape(g), Len(g.nodes) <= MaxNodes, NEW rows, RowsOK(rows)
    PROVE  /\ RowsOK(AllRows(g))
           /\ \A touched : touched \subseteq Indices(g) => RowsOK(InsertedRows(rows, g, touched))
           /\ \A n \in Indices(g) : RowsOK(RemovedRows(rows, g, n))
<1>1. Indices(g) \subseteq 1..MaxNodes
    BY ShapeFacts, GraphAssumption DEF Indices
<1>2. /\ \A n \in Indices(g) : ListsOK(g.nodes[n].neighbors)
      /\ \A n : ListsOK(Lists(rows, n))
    BY ListsTyped
<1>3. RowsOK(AllRows(g))
    <2>1. DOMAIN AllRows(g) = Indices(g) /\ \A n \in Indices(g) : AllRows(g)[n] = RowWith(g, n, g.nodes[n].neighbors)
        BY DEF AllRows, node_snapshot
    <2>2. \A n \in Indices(g) : IsRow(AllRows(g)[n])
        BY <1>2, <2>1, RowWithTyped
    <2>. QED
        BY <1>1, <2>1, <2>2 DEF RowsOK
<1>4. ASSUME NEW touched, touched \subseteq Indices(g) PROVE RowsOK(InsertedRows(rows, g, touched))
    <2> DEFINE out == InsertedRows(rows, g, touched)
               over(n) == Overwritten(g.nodes[n].neighbors, Lists(rows, n))
    <2>1. /\ DOMAIN out = DOMAIN rows \cup touched
          /\ \A n \in DOMAIN out : out[n] = IF n \notin touched THEN rows[n] ELSE RowWith(g, n, over(n))
        BY DEF InsertedRows
    <2>2. ASSUME NEW n \in touched PROVE ListsOK(over(n))
        <3> DEFINE x == g.nodes[n].neighbors
                   y == Lists(rows, n)
        <3>1. ListsOK(x) /\ ListsOK(y)
            BY <1>2, <1>4
        <3> HIDE DEF x, y
        <3>2. ListsOK(Overwritten(x, y))
            BY <3>1 DEF ListsOK, Overwritten
        <3>. QED
            BY <3>2 DEF x, y
    <2> HIDE DEF over, out
    <2>3. \A n \in touched : IsRow(RowWith(g, n, over(n)))
        BY <1>4, <2>2, RowWithTyped
    <2>4. RowsOK(out)
        BY <1>1, <1>4, <2>1, <2>3 DEF RowsOK
    <2>. QED
        BY <2>4 DEF out
<1>5. ASSUME NEW n \in Indices(g) PROVE RowsOK(RemovedRows(rows, g, n))
    <2> DEFINE out == RemovedRows(rows, g, n)
    <2>1. /\ DOMAIN out = DOMAIN rows \cup {n}
          /\ \A m \in DOMAIN out : out[m] = IF m = n THEN RowWith(g, n, Lists(rows, n)) ELSE rows[m]
        BY DEF RemovedRows
    <2>2. IsRow(RowWith(g, n, Lists(rows, n)))
        BY <1>2, RowWithTyped
    <2> HIDE DEF out
    <2>3. RowsOK(out)
        BY <1>1, <2>1, <2>2 DEF RowsOK
    <2>. QED
        BY <2>3 DEF out
<1>. QED
    BY <1>3, <1>4, <1>5

IsStore(s) == s = [state |-> s.state, rows |-> s.rows, entry |-> s.entry, node_count |-> s.node_count]

\* state_meta of g, and rows.
Commits(s, t, rows, g) ==
    IsStore(t) /\ t.state = s.state /\ t.rows = rows /\ t.entry = g.entry /\ t.node_count = Len(g.nodes)

\* WithState replaces the rows, the entry point and the node count.
LEMMA WithStateFields ==
    ASSUME NEW s, IsStore(s), NEW rows, NEW g
    PROVE  Commits(s, WithState(s, rows, g), rows, g)
<1> DEFINE a == s.state
           b == s.rows
           c == s.entry
           d == s.node_count
           t == WithState(s, rows, g)
           e == g.entry
           n == Len(g.nodes)
<1>1. s = [state |-> a, rows |-> b, entry |-> c, node_count |-> d]
    BY DEF IsStore
<1>2. t = [s EXCEPT !.rows = rows, !.entry = e, !.node_count = n]
    BY DEF WithState
<1> HIDE DEF a, b, c, d, e, n, t
<1>3. t = [state |-> a, rows |-> rows, entry |-> e, node_count |-> n]
    BY <1>1, <1>2
<1>4. t.state = a /\ t.rows = rows /\ t.entry = e /\ t.node_count = n
    BY <1>3
<1>5. IsStore(t)
    BY <1>3, <1>4 DEF IsStore
<1>. QED
    BY <1>4, <1>5 DEF Commits, t, a, e, n

-----------------------------------------------------------------------------
(* A graph the disk holds, and what the operations make of it.              *)

HoldsIn(s, f, c, g) == Sound(g) /\ Newest(g) /\ Mirrors(s, f, g) /\ Held(g) = c

\* What is on disk survives an append, whole or torn.
LEMMA HoldsExtended ==
    ASSUME NEW s, NEW f \in Files, NEW c, NEW g, HoldsIn(s, f, c, g), NEW h, Extends(f, h)
    PROVE  HoldsIn(s, h, c, g)
<1>1. Len(g.nodes) \in Nat /\ Indices(g) = 1..Len(g.nodes) /\ Len(f.recs) \in Nat
    BY ShapeFacts DEF HoldsIn, Sound, Indices, Files
<1>2. Mirrors(s, f, g)
    BY DEF HoldsIn
<1>3. Len(g.nodes) <= Len(h.recs)
    BY <1>1, <1>2 DEF Mirrors, Extends
<1>4. \A n \in Indices(g) : n \in 1..Len(f.recs)
    BY <1>1, <1>2 DEF Mirrors
<1>5. \A n \in Indices(g) : h.recs[n] = g.nodes[n].val
    BY <1>2, <1>4 DEF Mirrors, Extends
<1>6. Mirrors(s, h, g)
    BY <1>2, <1>3, <1>5 DEF Mirrors
<1>. QED
    BY <1>6 DEF HoldsIn

\* And the cut at the node count.
LEMMA HoldsCut ==
    ASSUME NEW s, NEW f \in Files, NEW c, NEW g, HoldsIn(s, f, c, g), NEW h, h = set_len(f, s.node_count)
    PROVE  HoldsIn(s, h, c, g) /\ Len(h.recs) = s.node_count /\ h.end = "aligned"
<1>1. Len(g.nodes) \in Nat /\ Indices(g) = 1..Len(g.nodes) /\ Len(f.recs) \in Nat
    BY ShapeFacts DEF HoldsIn, Sound, Indices, Files
<1>2. Mirrors(s, f, g) /\ s.node_count = Len(g.nodes)
    BY DEF HoldsIn, Mirrors
<1>3. /\ h.end = "aligned" /\ Len(h.recs) = s.node_count
      /\ \A i \in 1..s.node_count : i <= Len(f.recs) => h.recs[i] = f.recs[i]
    <2> DEFINE N == s.node_count
    <2>1. N \in Nat /\ h = set_len(f, N)
        BY <1>1, <1>2
    <2> HIDE DEF N
    <2>2. /\ set_len(f, N).end = "aligned" /\ Len(set_len(f, N).recs) = N
          /\ \A i \in 1..N : i <= Len(f.recs) => set_len(f, N).recs[i] = f.recs[i]
        BY <2>1, Cuts
    <2>. QED
        BY <2>1, <2>2 DEF N
<1>4. \A n \in Indices(g) : n \in 1..s.node_count /\ n <= Len(f.recs)
    BY <1>1, <1>2 DEF Mirrors
<1>5. \A n \in Indices(g) : h.recs[n] = g.nodes[n].val
    BY <1>2, <1>3, <1>4 DEF Mirrors
<1>6. Len(g.nodes) <= Len(h.recs)
    BY <1>1, <1>2, <1>3
<1>7. Mirrors(s, h, g)
    BY <1>2, <1>5, <1>6 DEF Mirrors
<1>. QED
    BY <1>3, <1>7 DEF HoldsIn

\* It is what an open builds, so there is one.
LEMMA HoldsReloads ==
    ASSUME NEW s, NEW f \in Files, NEW c, NEW g, HoldsIn(s, f, c, g)
    PROVE  Reloadable(s) /\ Closed(g) /\ Reloaded(s, set_len(f, s.node_count)) = g
BY MirrorReloads DEF HoldsIn, Sound

\* A new node is the newest of its id.
LEMMA JoinNewest ==
    ASSUME NEW g, Shape(g), Newest(g), NEW id, id \notin LiveIds(g), NEW v, NEW l \in 0..MaxLevel,
           NEW sel, NEW keep, NEW h, Joins(g, h, id, v, l, sel, keep)
    PROVE  Newest(h)
<1> DEFINE new == Len(g.nodes) + 1
<1>1. /\ new \notin Indices(g) /\ Indices(h) = Indices(g) \cup {new}
      /\ LiveNodes(h) = LiveNodes(g) \cup {new}
    BY JoinedLists DEF Joined
<1>2. Len(g.nodes) \in Nat /\ Indices(g) = 1..Len(g.nodes) /\ LiveNodes(g) \subseteq Indices(g)
    BY ShapeFacts DEF Indices
<1>3. (\A n \in Indices(g) : h.nodes[n].id = g.nodes[n].id) /\ h.nodes[new].id = id
    BY DEF Joins
<1>4. ASSUME NEW i \in LiveNodes(h), NEW j \in Indices(h), i < j
      PROVE  h.nodes[i].id # h.nodes[j].id
    <2>1. i # new
        BY <1>1, <1>2, <1>4
    <2>2. i \in LiveNodes(g) /\ i \in Indices(g) /\ g.nodes[i].id \in LiveIds(g)
        BY <1>1, <1>2, <2>1 DEF LiveIds
    <2>3. CASE j = new
        BY <1>3, <2>2, <2>3
    <2>4. CASE j \in Indices(g)
        BY <1>3, <1>4, <2>2, <2>4 DEF Newest
    <2>. QED
        BY <1>1, <2>3, <2>4
<1>. QED
    BY <1>4 DEF Newest

\* A node whose row an insert does not touch is as it was.
LEMMA UntouchedSame ==
    ASSUME NEW g, Shape(g), NEW h, Shape(h), NEW id, NEW v, NEW l \in 0..MaxLevel,
           NEW sel, NEW keep \in Prunings(g, sel), Joins(g, h, id, v, l, sel, keep),
           NEW n \in Indices(g), n \notin Touched(g, sel)
    PROVE  node_snapshot(h, n) = node_snapshot(g, n)
<1> DEFINE c == g.nodes[n].level
           x == g.nodes[n].neighbors
           y == h.nodes[n].neighbors
<1>1. h.nodes[n].level = c /\ h.nodes[n].id = g.nodes[n].id /\ h.nodes[n].tombstone = g.nodes[n].tombstone
    BY DEF Joins
<1>2. n \in Indices(h)
    <2>1. Joined(g, h, l, sel, keep)
        BY JoinedLists
    <2>. QED
        BY <2>1 DEF Joined
<1>3. x \in [0..c -> SUBSET Indices(g)]
    BY DEF Shape, NodeShape
<1>4. y \in [0..c -> SUBSET Indices(h)]
    BY <1>1, <1>2 DEF Shape, NodeShape
<1>5. ASSUME NEW k \in 0..c PROVE y[k] = x[k]
    <2>1. \A i \in DOMAIN sel : n \notin sel[i]
        BY DEF Touched
    <2>2. <<n, k>> \notin DOMAIN keep
        BY <2>1, PruningTyped DEF PruningFacts
    <2>3. y[k] = IF k \notin DOMAIN sel THEN x[k]
                 ELSE IF <<n, k>> \in DOMAIN keep THEN keep[<<n, k>>]
                 ELSE x[k] \cup (IF n \in sel[k] THEN {Len(g.nodes) + 1} ELSE {})
        BY DEF Joins, level
    <2>. QED
        BY <2>1, <2>2, <2>3
<1> HIDE DEF c, x, y
<1>6. y = x
    <2>1. x = [k \in 0..c |-> x[k]] /\ y = [k \in 0..c |-> y[k]]
        BY <1>3, <1>4
    <2>. QED
        BY <1>5, <2>1
<1>. QED
    BY <1>1, <1>6 DEF node_snapshot, RowWith, x, y, c

\* The rows of an insert are those of the graph it leads to.
LEMMA InsertedRowsMirror ==
    ASSUME NEW g, Shape(g), NEW id \in Ids, NEW v, NEW o \in insert_tracked(g, id, v)
    PROVE  InsertedRows(AllRows(g), o.graph, o.touched) = AllRows(o.graph)
<1> DEFINE h == o.graph
           rows == AllRows(g)
           new == Len(g.nodes) + 1
           touched == o.touched
           out == InsertedRows(rows, h, touched)
<1>1. Shape(h) /\ \E l \in 0..MaxLevel : \E sel \in Selections(g, l) : \E keep \in Prunings(g, sel) :
                        Joins(g, h, id, v, l, sel, keep) /\ touched = Touched(g, sel)
    BY InsertShape
<1> HIDE DEF h, touched
<1>2. PICK l \in 0..MaxLevel : \E sel \in Selections(g, l) : \E keep \in Prunings(g, sel) :
                        Joins(g, h, id, v, l, sel, keep) /\ touched = Touched(g, sel)
    BY <1>1
<1>3. PICK sel \in Selections(g, l) : \E keep \in Prunings(g, sel) :
                        Joins(g, h, id, v, l, sel, keep) /\ touched = Touched(g, sel)
    BY <1>2
<1>4. PICK keep \in Prunings(g, sel) : Joins(g, h, id, v, l, sel, keep) /\ touched = Touched(g, sel)
    BY <1>3
<1>5. Indices(h) = Indices(g) \cup {new} /\ new \notin Indices(g)
    BY <1>4, JoinedLists DEF Joined
<1>6. touched \subseteq Indices(h) /\ new \in touched
    BY <1>4, <1>5, SelectionTyped DEF Touched
<1>7. DOMAIN rows = Indices(g) /\ \A n \in Indices(g) : rows[n] = node_snapshot(g, n)
    BY DEF AllRows
<1> HIDE DEF rows
<1>8. out = [n \in Indices(h) |->
                IF n \notin touched THEN rows[n]
                ELSE RowWith(h, n, Overwritten(h.nodes[n].neighbors, Lists(rows, n)))]
    <2>1. DOMAIN rows \cup touched = Indices(h)
        BY <1>5, <1>6, <1>7
    <2>. QED
        BY <2>1, Zenon DEF InsertedRows
<1>9. ASSUME NEW n \in Indices(h) PROVE out[n] = node_snapshot(h, n)
    <2>1. CASE n \notin touched
        <3>1. n \in Indices(g)
            BY <1>5, <1>6, <2>1
        <3>2. node_snapshot(h, n) = node_snapshot(g, n)
            BY <1>1, <1>4, <2>1, <3>1, UntouchedSame
        <3>. QED
            BY <1>7, <1>8, <2>1, <3>1, <3>2
    <2>2. CASE n \in touched
        <3> DEFINE y == h.nodes[n].neighbors
                   x == Lists(rows, n)
        <3>1. DOMAIN y = 0..h.nodes[n].level /\ y = [k \in DOMAIN y |-> y[k]]
            BY <1>1 DEF Shape, NodeShape
        <3>2. DOMAIN x \subseteq DOMAIN y
            <4>1. CASE n = new
                <5>1. x = <<>> /\ DOMAIN <<>> = {}
                    BY <1>5, <1>7, <4>1 DEF Lists
                <5>. QED
                    BY <5>1
            <4>2. CASE n \in Indices(g)
                <5>1. h.nodes[n].level = g.nodes[n].level
                    BY <1>4, <4>2 DEF Joins
                <5>2. x = g.nodes[n].neighbors
                    BY <1>7, <4>2 DEF Lists, node_snapshot, RowWith
                <5>3. DOMAIN x = 0..g.nodes[n].level
                    BY <4>2, <5>2 DEF Shape, NodeShape
                <5>. QED
                    BY <3>1, <5>1, <5>3
            <4>. QED
                BY <1>5, <4>1, <4>2
        <3> HIDE DEF x, y
        <3>3. Overwritten(y, x) = y
            <4>1. DOMAIN y \cup DOMAIN x = DOMAIN y
                BY <3>2
            <4>2. Overwritten(y, x) = [k \in DOMAIN y |-> IF k \in DOMAIN y THEN y[k] ELSE x[k]]
                BY <4>1, Zenon DEF Overwritten
            <4>. QED
                BY <3>1, <4>2
        <3>4. out[n] = RowWith(h, n, Overwritten(y, x))
            BY <1>8, <2>2 DEF x, y
        <3>. QED
            BY <3>3, <3>4 DEF node_snapshot, y
    <2>. QED
        BY <2>1, <2>2
<1> HIDE DEF out
<1>10. out = [n \in Indices(h) |-> out[n]]
    BY <1>8
<1>11. out = AllRows(h)
    BY <1>9, <1>10 DEF AllRows
<1>. QED
    BY <1>11 DEF out, rows, h, touched

\* Committing an insert whose record is in its place.
LEMMA CommitHolds ==
    ASSUME NEW s, NEW f \in Files, NEW c, NEW g, HoldsIn(s, f, c, g), NEW id \in Ids,
           id \notin LiveIds(g), NEW v, NEW o \in insert_tracked(g, id, v),
           Len(f.recs) = s.node_count + 1, f.recs[s.node_count + 1] = v,
           NEW t, Commits(s, t, InsertedRows(s.rows, o.graph, o.touched), o.graph)
    PROVE  HoldsIn(t, f, Plus(c, id, v), o.graph) /\ id \notin DOMAIN c
<1> DEFINE h == o.graph
           N == Len(g.nodes)
<1>1. Sound(g) /\ Shape(g) /\ Newest(g) /\ Mirrors(s, f, g) /\ Held(g) = c
    BY DEF HoldsIn, Sound
<1>2. s.node_count = N /\ N \in Nat /\ Indices(g) = 1..N /\ s.rows = AllRows(g)
    BY <1>1, ShapeFacts DEF Mirrors, Indices
<1>3. Sound(h) /\ Held(h) = Plus(c, id, v)
    BY <1>1, InsertSound
<1>4. Shape(h) /\ \E l \in 0..MaxLevel : \E sel \in Selections(g, l) : \E keep \in Prunings(g, sel) :
                        Joins(g, h, id, v, l, sel, keep)
    BY <1>1, InsertShape
<1>5. t.rows = AllRows(h) /\ t.entry = h.entry /\ t.node_count = Len(h.nodes)
    BY <1>1, <1>2, InsertedRowsMirror DEF Commits
<1> HIDE DEF h
<1>6. PICK l, sel, keep : l \in 0..MaxLevel /\ Joins(g, h, id, v, l, sel, keep)
    BY <1>4
<1>7. Newest(h)
    BY <1>1, <1>6, JoinNewest
<1>8. /\ Len(h.nodes) = N + 1 /\ h.nodes[N + 1].val = v
      /\ \A n \in Indices(g) : h.nodes[n].val = g.nodes[n].val
    BY <1>6 DEF Joins
<1>9. \A n \in Indices(h) : n \in Indices(g) \/ n = N + 1
    BY <1>2, <1>8 DEF Indices
<1>10. \A n \in Indices(h) : f.recs[n] = h.nodes[n].val
    BY <1>1, <1>2, <1>8, <1>9 DEF Mirrors
<1>11. Len(h.nodes) <= Len(f.recs)
    BY <1>2, <1>8
<1>12. Mirrors(t, f, h)
    BY <1>5, <1>10, <1>11 DEF Mirrors
<1>13. DOMAIN c = LiveIds(g)
    BY <1>1 DEF Held
<1>. QED
    BY <1>3, <1>7, <1>12, <1>13 DEF HoldsIn, h

\* Committing a remove.
LEMMA RemoveHolds ==
    ASSUME NEW s, NEW f, NEW c, NEW g, HoldsIn(s, f, c, g), NEW id \in LiveIds(g),
           NEW h, h = remove_tracked(g, id),
           NEW t, Commits(s, t, RemovedRows(s.rows, h, NodeOf(g, id)), h)
    PROVE  /\ HoldsIn(t, f, [x \in DOMAIN c \ {id} |-> c[x]], h) /\ id \in DOMAIN c
           /\ t.node_count = s.node_count
<1> DEFINE n == NodeOf(g, id)
<1>1. Sound(g) /\ Shape(g) /\ Newest(g) /\ Mirrors(s, f, g) /\ Held(g) = c /\ DOMAIN c = LiveIds(g)
    BY DEF HoldsIn, Sound, Held
<1>2. Sound(h) /\ Held(h) = [x \in LiveIds(g) \ {id} |-> Held(g)[x]]
    BY <1>1, RemoveSound
<1>3. n \in LiveNodes(g) /\ n \in Indices(g) /\ Buries(g, h, n)
    BY <1>1, RemoveBuries, ShapeFacts
<1>4. t.rows = RemovedRows(s.rows, h, n) /\ t.entry = h.entry /\ t.node_count = Len(h.nodes)
    BY DEF Commits
<1> HIDE DEF n
<1>5. Len(h.nodes) = Len(g.nodes) /\ Indices(h) = Indices(g) /\ LiveNodes(h) \subseteq LiveNodes(g)
    <2>1. BuriesFacts(g, h, n)
        BY <1>3, BuriedLists
    <2>. QED
        BY <1>3, <2>1 DEF Buries, BuriesFacts
<1>6. s.rows = AllRows(g) /\ DOMAIN s.rows = Indices(g) /\ \A m \in Indices(g) : s.rows[m] = node_snapshot(g, m)
    BY <1>1 DEF Mirrors, AllRows
<1>7. \A m \in Indices(g) : /\ h.nodes[m].id = g.nodes[m].id /\ h.nodes[m].val = g.nodes[m].val
                            /\ h.nodes[m].level = g.nodes[m].level /\ h.nodes[m].neighbors = g.nodes[m].neighbors
                            /\ m # n => h.nodes[m].tombstone = g.nodes[m].tombstone
    BY <1>3 DEF Buries
<1>8. t.rows = AllRows(h)
    <2> DEFINE rows == s.rows
               out == RemovedRows(rows, h, n)
    <2>1. DOMAIN rows \cup {n} = Indices(h)
        BY <1>3, <1>5, <1>6
    <2>2. out = [m \in Indices(h) |-> IF m = n THEN RowWith(h, n, Lists(rows, n)) ELSE rows[m]]
        BY <2>1, Zenon DEF RemovedRows
    <2>3. ASSUME NEW m \in Indices(h) PROVE out[m] = node_snapshot(h, m)
        <3>1. CASE m = n
            <4>1. Lists(rows, n) = h.nodes[n].neighbors
                BY <1>3, <1>6, <1>7 DEF Lists, node_snapshot, RowWith
            <4>. QED
                BY <2>2, <3>1, <4>1 DEF node_snapshot
        <3>2. CASE m # n
            <4>1. out[m] = node_snapshot(g, m)
                BY <1>5, <1>6, <2>2, <3>2
            <4>2. node_snapshot(h, m) = node_snapshot(g, m)
                BY <1>5, <1>7, <3>2 DEF node_snapshot, RowWith
            <4>. QED
                BY <4>1, <4>2
        <3>. QED
            BY <3>1, <3>2
    <2> HIDE DEF out
    <2>4. out = [m \in Indices(h) |-> out[m]]
        BY <2>2
    <2>5. out = AllRows(h)
        BY <2>3, <2>4 DEF AllRows
    <2>. QED
        BY <1>4, <2>5 DEF out
<1>9. Mirrors(t, f, h)
    <2>1. Len(h.nodes) <= Len(f.recs)
        BY <1>1, <1>5 DEF Mirrors
    <2>2. \A m \in Indices(h) : f.recs[m] = h.nodes[m].val
        BY <1>1, <1>5, <1>7 DEF Mirrors
    <2>. QED
        BY <1>4, <1>8, <2>1, <2>2 DEF Mirrors
<1>10. Newest(h)
    <2>1. LiveNodes(g) \subseteq Indices(g)
        BY <1>1, ShapeFacts
    <2>. QED
        BY <1>1, <1>5, <1>7, <2>1 DEF Newest
<1>11. Held(h) = [x \in DOMAIN c \ {id} |-> c[x]]
    BY <1>1, <1>2
<1>12. t.node_count = s.node_count
    BY <1>1, <1>4, <1>5 DEF Mirrors
<1>. QED
    BY <1>1, <1>2, <1>9, <1>10, <1>11, <1>12 DEF HoldsIn

\* A flush of a graph whose records are in their places.
LEMMA FlushHolds ==
    ASSUME NEW s, NEW f, NEW h, Sound(h), Newest(h), Len(h.nodes) <= Len(f.recs),
           \A n \in Indices(h) : f.recs[n] = h.nodes[n].val,
           NEW t, Commits(s, t, AllRows(h), h)
    PROVE  HoldsIn(t, f, Held(h), h)
BY DEF HoldsIn, Mirrors, Commits

\* What bulk_insert builds of distinct points.
LEMMA BuiltHeld ==
    ASSUME NEW points, Len(points) \in Nat, \A k \in 1..Len(points) : points[k].id \in Ids,
           DistinctIds(points), NEW h \in Built(points)
    PROVE  /\ Sound(h) /\ Newest(h) /\ Len(h.nodes) = Len(points)
           /\ \A k \in 1..Len(points) : h.nodes[k].val = points[k].val
           /\ LiveIds(h) = {points[k].id : k \in 1..Len(points)}
           /\ \A k \in 1..Len(points) : Held(h)[points[k].id] = points[k].val
<1> DEFINE N == Len(points)
<1>1. Sound(h) /\ HoldsFirst(h, points, N)
    BY BuiltHolds
<1>2. Len(h.nodes) = N /\ Indices(h) = 1..N
    BY <1>1 DEF HoldsFirst, Indices
<1>3. \A k \in 1..N : h.nodes[k].id = points[k].id /\ h.nodes[k].val = points[k].val /\ h.nodes[k].tombstone = "no"
    BY <1>1 DEF HoldsFirst
<1>4. LiveNodes(h) = 1..N
    BY <1>2, <1>3 DEF LiveNodes
<1>5. LiveIds(h) = {points[k].id : k \in 1..N}
    BY <1>3, <1>4 DEF LiveIds
<1>6. Newest(h)
    <2>1. ASSUME NEW i \in 1..N, NEW j \in 1..N, i < j PROVE h.nodes[i].id # h.nodes[j].id
        <3>1. i # j
            BY <2>1
        <3>. QED
            BY <1>3, <3>1 DEF DistinctIds
    <2>. QED
        BY <1>2, <1>4, <2>1 DEF Newest
<1>7. \A k \in 1..N : Held(h)[points[k].id] = points[k].val
    BY <1>1, <1>3, <1>4, HeldOf DEF Sound
<1>. QED
    BY <1>1, <1>2, <1>3, <1>5, <1>6, <1>7

\* A graph whose live nodes no tombstone precedes.
LEMMA LivePrefix ==
    ASSUME NEW g, Shape(g), ~Renumbers(g)
    PROVE  LiveNodes(g) = 1..Cardinality(LiveNodes(g)) /\ Cardinality(LiveNodes(g)) \in Nat
<1> DEFINE live == LiveNodes(g)
           N == Len(g.nodes)
<1>1. N \in Nat /\ live \subseteq 1..N /\ Indices(g) = 1..N
    BY ShapeFacts DEF Indices
<1>2. \A j \in 1..N : \A n \in live : j < n => j \in live
    BY <1>1 DEF Renumbers, Tombstones
<1> HIDE DEF live, N
<1>3. CASE live = {}
    <2>1. Cardinality(live) = 0 /\ 1..0 = {}
        BY <1>3, FS_EmptySet
    <2>. QED
        BY <1>3, <2>1 DEF live
<1>4. CASE live # {}
    <2>1. live \subseteq 0..N
        BY <1>1
    <2>2. PICK x \in live : \A y \in live : y <= x
        BY <1>1, <1>4, <2>1, LargestExists
    <2>3. x \in Nat /\ x >= 1 /\ x <= N
        BY <1>1, <2>2
    <2>4. live \subseteq 1..x
        BY <1>1, <2>2
    <2>5. ASSUME NEW j \in 1..x PROVE j \in live
        <3>1. j \in 1..N /\ (j = x \/ j < x)
            BY <1>1, <2>3
        <3>. QED
            BY <1>2, <2>2, <3>1
    <2>6. live = 1..x
        BY <2>4, <2>5
    <2>7. Cardinality(1..x) = x
        BY <2>3, FS_Interval
    <2>. QED
        BY <2>3, <2>6, <2>7 DEF live
<1>. QED
    BY <1>3, <1>4

\* The points compact collects have ids; the graph it builds is no larger.
LEMMA CompactShape ==
    ASSUME NEW g, Shape(g), NEW h \in Built(LivePoints(g))
    PROVE  /\ Shape(h) /\ Len(h.nodes) <= Len(g.nodes) /\ Len(h.nodes) = Cardinality(LiveNodes(g))
           /\ Tombstones(g) = {} => Len(h.nodes) = Len(g.nodes)
<1> DEFINE p == LivePoints(g)
           live == LiveNodes(g)
<1>1. Collects(g, p)
    BY LivePointsCollects
<1>2. Len(p) = Cardinality(live) /\ Len(p) \in Nat
    BY <1>1 DEF Collects
<1>3. \A k \in 1..Len(p) : p[k].id \in Ids
    <2>1. \A n \in live : g.nodes[n].id \in Ids
        BY ShapeFacts DEF Shape, NodeShape
    <2>. QED
        BY <1>1, <2>1 DEF Collects
<1> HIDE DEF p
<1>4. h \in Built(p)
    BY DEF p
<1>5. Shape(h) /\ Len(h.nodes) = Len(p)
    BY <1>2, <1>3, <1>4, BuiltHolds DEF HoldsFirst
<1>6. Len(g.nodes) \in Nat /\ live \subseteq 1..Len(g.nodes) /\ Cardinality(1..Len(g.nodes)) = Len(g.nodes)
      /\ Indices(g) = 1..Len(g.nodes)
    BY ShapeFacts DEF Indices
<1>7. Cardinality(live) <= Len(g.nodes)
    BY <1>6, FiniteUpTo
<1>8. Tombstones(g) = {} => live = 1..Len(g.nodes)
    BY <1>6 DEF Tombstones
<1>. QED
    BY <1>2, <1>5, <1>6, <1>7, <1>8

\* Compacting and flushing a graph in which no live node is renumbered.
LEMMA CompactHolds ==
    ASSUME NEW s, NEW f \in Files, NEW c, NEW g, HoldsIn(s, f, c, g), ~Renumbers(g),
           NEW h \in Built(LivePoints(g)), NEW t, Commits(s, t, AllRows(h), h)
    PROVE  HoldsIn(t, f, c, h)
<1> DEFINE p == LivePoints(g)
           live == LiveNodes(g)
           m == Cardinality(live)
<1>1. Sound(g) /\ Shape(g) /\ Links(g) /\ Mirrors(s, f, g) /\ Held(g) = c
    BY DEF HoldsIn, Sound
<1>2. live = 1..m /\ m \in Nat
    BY <1>1, LivePrefix
<1>3. Collects(g, p)
    BY <1>1, LivePointsCollects
<1>4. Len(p) = m
    BY <1>3 DEF Collects
<1>5. ASSUME NEW k \in 1..m
      PROVE  p[k] = [id |-> g.nodes[k].id, val |-> g.nodes[k].val] /\ k \in live
    <2>1. \A i \in 1..m : Place(1..m, i) = i
        BY <1>2, PlacesOfInterval
    <2>2. Place(live, k) = k
        BY <1>2, <2>1, Zenon
    <2>3. p[k] = [id |-> g.nodes[Place(live, k)].id, val |-> g.nodes[Place(live, k)].val]
        BY <1>3, <1>4 DEF Collects
    <2>. QED
        BY <1>2, <2>2, <2>3
<1> HIDE DEF p, m
<1>6. \A k \in 1..m : p[k].id = g.nodes[k].id /\ p[k].val = g.nodes[k].val /\ k \in live
    <2> SUFFICES ASSUME NEW k \in 1..m
                 PROVE  p[k].id = g.nodes[k].id /\ p[k].val = g.nodes[k].val /\ k \in live
        OBVIOUS
    <2> DEFINE a == g.nodes[k].id
               b == g.nodes[k].val
    <2>1. p[k] = [id |-> a, val |-> b] /\ k \in live
        BY <1>5
    <2> HIDE DEF a, b, live
    <2>2. p[k].id = a /\ p[k].val = b
        BY <2>1
    <2>. QED
        BY <2>1, <2>2 DEF a, b
<1>7. DistinctIds(p) /\ \A k \in 1..Len(p) : p[k].id \in Ids
    <2>1. \A n \in live : g.nodes[n].id \in Ids
        BY <1>1, ShapeFacts DEF Shape, NodeShape
    <2>2. DistinctIds(p)
        BY <1>1, <1>4, <1>6 DEF DistinctIds, Links
    <2>. QED
        BY <1>4, <1>6, <2>1, <2>2
<1>8. h \in Built(p)
    BY DEF p
<1>9. /\ Sound(h) /\ Newest(h) /\ Len(h.nodes) = m
      /\ \A k \in 1..m : h.nodes[k].val = p[k].val
      /\ LiveIds(h) = {p[k].id : k \in 1..m}
      /\ \A k \in 1..m : Held(h)[p[k].id] = p[k].val
    BY <1>2, <1>4, <1>7, <1>8, BuiltHeld
<1>10. Held(h) = Held(g)
    <2>1. LiveIds(h) = LiveIds(g)
        <3>1. LiveIds(g) = {g.nodes[k].id : k \in 1..m}
            BY <1>2, Zenon DEF LiveIds
        <3>2. {g.nodes[k].id : k \in 1..m} = {p[k].id : k \in 1..m}
            BY <1>6
        <3>. QED
            BY <1>9, <3>1, <3>2
    <2>2. \A n \in live : Held(h)[g.nodes[n].id] = g.nodes[n].val
        BY <1>2, <1>6, <1>9
    <2>3. Held(h) = [x \in LiveIds(g) |-> Held(h)[x]]
        BY <2>1 DEF Held
    <2> DEFINE e == Held(h)
    <2> HIDE DEF e
    <2>4. Held(g) = e
        BY <1>1, <2>2, <2>3, HeldIs DEF e
    <2>. QED
        BY <2>4 DEF e
<1>11. Len(h.nodes) <= Len(f.recs) /\ \A n \in Indices(h) : f.recs[n] = h.nodes[n].val
    <2>1. Len(g.nodes) \in Nat /\ live \subseteq Indices(g) /\ Indices(g) = 1..Len(g.nodes)
          /\ Len(f.recs) \in Nat /\ Len(g.nodes) <= Len(f.recs)
        BY <1>1, ShapeFacts DEF Indices, Mirrors, Files
    <2>2. m <= Len(g.nodes)
        BY <2>1, FiniteUpTo DEF m
    <2>3. Indices(h) = 1..m
        BY <1>9 DEF Indices
    <2>4. \A n \in 1..m : f.recs[n] = g.nodes[n].val
        BY <1>1, <1>6, <2>1 DEF Mirrors
    <2>5. Len(h.nodes) <= Len(f.recs)
        BY <1>2, <1>9, <2>1, <2>2
    <2>. QED
        BY <1>6, <1>9, <2>3, <2>4, <2>5
<1>12. HoldsIn(t, f, Held(h), h)
    BY <1>9, <1>11, FlushHolds
<1>. QED
    BY <1>1, <1>10, <1>12

-----------------------------------------------------------------------------
(* Types.                                                                   *)

PointsOK(p) ==
    IsSeq(p) /\ Len(p) \in Nat /\ \A k \in 1..Len(p) : p[k].id \in Ids /\ p[k].val \in Values

GraphT(g) == Shape(g) /\ Len(g.nodes) <= MaxNodes

StoreT(s) ==
    /\ IsStore(s) /\ s.state \in {"absent", "empty", "ready"} /\ RowsOK(s.rows)
    /\ s.entry \in 0..MaxNodes /\ s.node_count \in 0..MaxNodes

OpT(o) ==
    /\ o = [points |-> o.points, touched |-> o.touched]
    /\ PointsOK(o.points) /\ o.touched \subseteq 1..MaxNodes

\* What holds of the parts of the state at each point of an operation.
PhaseInv ==
    /\ pc \in {"down", "create_state", "create_segment", "load", "flush",
               "idle", "append", "commit", "unsound"}
    /\ pc \in {"load", "flush", "idle", "append", "commit"} => Openable
    /\ pc = "create_segment" => store.state = "ready"
    /\ pc = "append" => Len(graph.nodes) < MaxNodes
    /\ pc = "commit" => op.touched \subseteq Indices(graph) /\ Len(op.points) = 1
    /\ pc \in {"create_state", "create_segment", "load", "flush"} => Len(op.points) <= MaxLoad

TypeInv ==
    /\ GraphT(graph) /\ file \in Files /\ StoreT(store) /\ OpT(op)
    /\ DOMAIN contents \subseteq Ids /\ exposed \subseteq Windows
    /\ PhaseInv

\* The kinds of step.
LEMMA NextCases ==
    ASSUME [Next]_vars
    PROVE  \/ CreateCommits \/ CreateSegment \/ CreateRefused \/ open \/ BulkAppends \/ BulkFlushes
           \/ InsertAppends \/ InsertRefused \/ InsertCommits
           \/ OpenFails \/ BulkFails \/ InsertAppendFails \/ InsertCommitFails
           \/ (\E id \in Ids : RemoveCommitFails(id)) \/ CompactFlushFails
           \/ (\E id \in Ids : remove(id))
           \/ (\E id \in Ids : \E v \in Values : \E width \in 1..MaxWidth : insert(id, v, width))
           \/ (\E n \in 0..MaxLoad : \E ids \in [1..n -> Ids] : \E vals \in [1..n -> Values] :
                    create([k \in 1..n |-> [id |-> ids[k], val |-> vals[k]]]))
           \/ compact \/ Close \/ OpenRefused \/ Crash \/ UNCHANGED vars
BY DEF Next, Progress, Failures, Calls

\* The embeddings of the points.
LEMMA ValuesTyped ==
    ASSUME NEW p, PointsOK(p)
    PROVE  /\ ValuesOf(p) \in Seq(Values) /\ Len(ValuesOf(p)) = Len(p)
           /\ \A k \in 1..Len(p) : ValuesOf(p)[k] = p[k].val
<1> DEFINE s == [k \in 1..Len(p) |-> p[k].val]
<1>1. Len(p) \in Nat /\ \A k \in 1..Len(p) : p[k].val \in Values
    BY DEF PointsOK
<1>2. s \in Seq(Values) /\ Len(s) = Len(p)
    BY <1>1
<1>. QED
    BY <1>2 DEF ValuesOf

\* The graph of the next state is a graph.
LEMMA GraphStep ==
    ASSUME TypeInv, [Next]_vars
    PROVE  GraphT(graph')
<1>1. GraphT(graph) /\ GraphT(Empty) /\ MaxNodes \in Nat
    BY EmptySound, GraphAssumption DEF TypeInv, GraphT, Sound
<1>2. CASE open
    <2> DEFINE g == Reloaded(store, set_len(file, store.node_count))
    <2>1. graph' = graph \/ (graph' = g /\ Closed(g))
        BY <1>2 DEF open, OpensOn
    <2>2. Closed(g) => GraphT(g)
        BY ReloadShape DEF TypeInv, StoreT, GraphT
    <2>. QED
        BY <1>1, <2>1, <2>2
<1>3. CASE BulkFlushes
    <2>1. graph' \in Built(op.points) /\ pc = "flush"
        BY <1>3 DEF BulkFlushes
    <2>2. PointsOK(op.points) /\ Len(op.points) <= MaxLoad
        BY <2>1 DEF TypeInv, OpT, PhaseInv
    <2>3. HoldsFirst(graph', op.points, Len(op.points))
        BY <2>1, <2>2, BuiltHolds DEF PointsOK
    <2>4. Shape(graph') /\ Len(graph'.nodes) = Len(op.points)
        BY <2>3 DEF HoldsFirst
    <2>5. Len(op.points) <= MaxNodes
        BY <2>2, HnswAssumption, GraphAssumption DEF PointsOK
    <2>. QED
        BY <2>4, <2>5 DEF GraphT
<1>4. CASE InsertAppends
    <2> DEFINE id == op.points[1].id
               v == op.points[1].val
    <2>1. pc = "append" /\ Len(op.points) = 1
        BY <1>4 DEF InsertAppends, Accepted
    <2>2. PICK o \in insert_tracked(graph, id, v) : graph' = o.graph
        BY <1>4 DEF InsertAppends
    <2>3. id \in Ids /\ Shape(graph) /\ Len(graph.nodes) < MaxNodes
        BY <2>1 DEF TypeInv, OpT, PointsOK, GraphT, PhaseInv
    <2> HIDE DEF id, v
    <2>4. Shape(graph') /\ \E l, sel, keep : Joins(graph, graph', id, v, l, sel, keep)
        BY <2>2, <2>3, InsertShape
    <2>5. Len(graph'.nodes) = Len(graph.nodes) + 1 /\ Len(graph.nodes) \in Nat
        BY <2>3, <2>4, ShapeFacts DEF Joins
    <2>6. Len(graph'.nodes) <= MaxNodes
        BY <1>1, <2>3, <2>5
    <2>. QED
        BY <2>4, <2>6 DEF GraphT
<1>5. ASSUME NEW id \in Ids, remove(id) \/ RemoveCommitFails(id) PROVE GraphT(graph')
    <2>1. id \in LiveIds(graph) /\ graph' = remove_tracked(graph, id) /\ Shape(graph)
        BY <1>1, <1>5 DEF remove, RemoveCommitFails, GraphT
    <2>2. Shape(graph') /\ Buries(graph, graph', NodeOf(graph, id))
        BY <2>1, RemoveBuries
    <2>. QED
        BY <1>1, <2>2 DEF GraphT, Buries
<1>6. CASE compact \/ CompactFlushFails
    <2>1. graph' \in Built(LivePoints(graph)) /\ Shape(graph)
        BY <1>1, <1>6 DEF compact, CompactFlushFails, GraphT
    <2>2. Shape(graph') /\ Len(graph'.nodes) <= Len(graph.nodes) /\ Len(graph.nodes) \in Nat
          /\ Len(graph'.nodes) \in Nat
        BY <2>1, CompactShape, ShapeFacts
    <2>. QED
        BY <1>1, <2>2 DEF GraphT
<1>7. CASE \/ CreateCommits \/ CreateSegment \/ CreateRefused \/ BulkAppends \/ InsertRefused
           \/ InsertCommits \/ OpenFails \/ BulkFails \/ InsertAppendFails \/ InsertCommitFails
           \/ (\E id \in Ids : \E v \in Values : \E width \in 1..MaxWidth : insert(id, v, width))
           \/ (\E n \in 0..MaxLoad : \E ids \in [1..n -> Ids] : \E vals \in [1..n -> Values] :
                    create([k \in 1..n |-> [id |-> ids[k], val |-> vals[k]]]))
           \/ Close \/ OpenRefused \/ Crash \/ UNCHANGED vars
    <2>1. graph' = graph \/ graph' = Empty
        BY <1>7 DEF CreateCommits, CreateSegment, CreateRefused, BulkAppends, InsertRefused,
            InsertCommits, CommitsStore, OpenFails, BulkFails, InsertAppendFails,
            InsertCommitFails, insert, create, Close, OpenRefused, Crash, vars
    <2>. QED
        BY <1>1, <2>1
<1>. QED
    BY <1>2, <1>3, <1>4, <1>5, <1>6, <1>7, NextCases

\* A new segment is a file without records.
LEMMA NewFile ==
    ASSUME NEW h \in {"absent", "torn", "ok"}
    PROVE  LET f == [NoFile EXCEPT !.header = h] IN
           f \in Files /\ f.header = h /\ f.recs = <<>> /\ f.end = "aligned"
<1> DEFINE f == [NoFile EXCEPT !.header = h]
<1>1. f = [header |-> h, recs |-> <<>>, end |-> "aligned"]
    BY DEF NoFile
<1>2. <<>> \in Seq(Cells)
    OBVIOUS
<1> HIDE DEF f
<1>3. f \in Files
    BY <1>1, <1>2 DEF Files, Ends
<1>. QED
    BY <1>1, <1>3 DEF f

\* A step of the segment: records are kept, or there were none and the header is new.
Fresh(f, h) == f.header = "absent" /\ h \in Files /\ h.recs = <<>> /\ h.end = "aligned"

\* What a crash leaves of the segment.
LEMMA CrashLeaves ==
    ASSUME file \in Files, PointsOK(op.points), NEW h \in CrashedFiles
    PROVE  \/ Extends(file, h)
           \/ pc = "create_segment" /\ Fresh(file, h)
<1>1. Extends(file, file)
    BY DEF Extends, Files
<1>2. ValuesOf(op.points) \in Seq(Values)
    BY ValuesTyped
<1>3. CASE pc \in {"append", "load"}
    <2>1. h = file \/ h \in TornAppends(file, ValuesOf(op.points))
        BY <1>3 DEF CrashedFiles
    <2>. QED
        BY <1>1, <1>2, <2>1, Tears
<1>4. CASE pc = "create_segment" /\ file.header = "absent"
    <2>1. h \in {[NoFile EXCEPT !.header = x] : x \in {"absent", "torn", "ok"}}
        BY <1>4 DEF CrashedFiles
    <2>2. PICK x \in {"absent", "torn", "ok"} : h = [NoFile EXCEPT !.header = x]
        BY <2>1
    <2>3. h \in Files /\ h.recs = <<>> /\ h.end = "aligned"
        BY <2>2, NewFile
    <2>. QED
        BY <1>4, <2>3 DEF Fresh
<1>5. CASE pc \notin {"append", "load"} /\ ~(pc = "create_segment" /\ file.header = "absent")
    <2>1. h = file
        BY <1>5 DEF CrashedFiles
    <2>. QED
        BY <1>1, <2>1
<1>. QED
    BY <1>3, <1>4, <1>5

\* The segment of the next state.
LEMMA FileStep ==
    ASSUME TypeInv, [Next]_vars
    PROVE  /\ file' \in Files
           /\ \/ file'.header = file.header
              \/ pc = "create_segment" /\ file.header = "absent"
           /\ pc # "down" => Extends(file, file') \/ (pc = "create_segment" /\ Fresh(file, file'))
<1>1. file \in Files /\ PointsOK(op.points) /\ store.node_count \in Nat
    BY GraphAssumption DEF TypeInv, OpT, StoreT
<1>2. Extends(file, file)
    BY <1>1 DEF Extends, Files
<1>3. ValuesOf(op.points) \in Seq(Values)
    BY <1>1, ValuesTyped
<1>4. CASE file' = file
    BY <1>1, <1>2, <1>4
<1>5. CASE Extends(file, file') \/ (pc = "create_segment" /\ Fresh(file, file'))
    BY <1>5 DEF Extends, Fresh
<1>6. CASE pc = "down" /\ file' = set_len(file, store.node_count)
    BY <1>1, <1>6, Cuts
<1>7. CASE CreateSegment
    <2>1. pc = "create_segment" /\ file.header = "absent" /\ file' = [NoFile EXCEPT !.header = "ok"]
        BY <1>7 DEF CreateSegment
    <2>2. Fresh(file, file')
        BY <2>1, NewFile DEF Fresh
    <2>. QED
        BY <1>5, <2>1, <2>2
<1>8. CASE file' = append(file, ValuesOf(op.points))
    BY <1>1, <1>3, <1>5, <1>8, Appends
<1>9. CASE file' \in TornAppends(file, ValuesOf(op.points))
    BY <1>1, <1>3, <1>5, <1>9, Tears
<1>10. CASE file' \in CrashedFiles
    BY <1>1, <1>5, <1>10, CrashLeaves
<1>11. \/ CreateSegment \/ file' = file \/ (pc = "down" /\ file' = set_len(file, store.node_count))
       \/ file' = append(file, ValuesOf(op.points)) \/ file' \in TornAppends(file, ValuesOf(op.points))
       \/ file' \in CrashedFiles
    <2>1. CASE CreateSegment \/ BulkAppends \/ InsertAppends \/ InsertRefused \/ BulkFails \/ InsertAppendFails
        BY <2>1 DEF BulkAppends, InsertAppends, InsertRefused, BulkFails, InsertAppendFails
    <2>2. CASE open \/ OpenFails \/ Crash
        BY <2>2 DEF open, OpensOn, OpenFails, Crash
    <2>3. CASE CreateCommits \/ CreateRefused \/ BulkFlushes \/ InsertCommits \/ InsertCommitFails
               \/ CompactFlushFails \/ compact \/ Close \/ OpenRefused \/ UNCHANGED vars
        BY <2>3 DEF CreateCommits, CreateRefused, BulkFlushes, InsertCommits, CommitsStore, InsertCommitFails,
            CompactFlushFails, compact, Close, OpenRefused, vars
    <2>4. CASE \/ \E id \in Ids : RemoveCommitFails(id)
               \/ \E id \in Ids : remove(id)
               \/ (\E id \in Ids : \E v \in Values : \E width \in 1..MaxWidth : insert(id, v, width))
               \/ (\E n \in 0..MaxLoad : \E ids \in [1..n -> Ids] : \E vals \in [1..n -> Values] :
                    create([k \in 1..n |-> [id |-> ids[k], val |-> vals[k]]]))
        BY <2>4 DEF RemoveCommitFails, remove, insert, create
    <2>. QED
        BY <2>1, <2>2, <2>3, <2>4, NextCases
<1>. QED
    BY <1>4, <1>6, <1>7, <1>8, <1>9, <1>10, <1>11

\* create changes the state of the file and, once committed, the state row.
Creates(s, t, state) == IsStore(t) /\ t.state = state /\ t.rows = s.rows
    /\ t.entry = s.entry /\ t.node_count = s.node_count
Resets(s, t) == IsStore(t) /\ t.state = "ready" /\ t.rows = s.rows /\ t.entry = None /\ t.node_count = 0

\* The fields of what create writes.
LEMMA CreateFields ==
    ASSUME NEW s, IsStore(s), NEW t
    PROVE  /\ t = [s EXCEPT !.state = IF @ = "absent" THEN "empty" ELSE @] =>
                Creates(s, t, IF s.state = "absent" THEN "empty" ELSE s.state)
           /\ t = [s EXCEPT !.state = "ready", !.entry = None, !.node_count = 0] => Resets(s, t)
<1> DEFINE a == s.state
           b == s.rows
           c == s.entry
           d == s.node_count
<1>1. s = [state |-> a, rows |-> b, entry |-> c, node_count |-> d]
    BY DEF IsStore
<1> HIDE DEF a, b, c, d
<1>2. ASSUME t = [s EXCEPT !.state = IF @ = "absent" THEN "empty" ELSE @]
      PROVE  Creates(s, t, IF s.state = "absent" THEN "empty" ELSE s.state)
    <2> DEFINE e == IF a = "absent" THEN "empty" ELSE a
    <2>1. t = [s EXCEPT !.state = e]
        BY <1>1, <1>2
    <2> HIDE DEF e
    <2>2. t = [state |-> e, rows |-> b, entry |-> c, node_count |-> d]
        BY <1>1, <2>1
    <2>3. t.state = e /\ t.rows = b /\ t.entry = c /\ t.node_count = d
        BY <2>2
    <2>4. IsStore(t)
        BY <2>2, <2>3 DEF IsStore
    <2>. QED
        BY <2>3, <2>4 DEF Creates, a, b, c, d, e
<1>3. ASSUME t = [s EXCEPT !.state = "ready", !.entry = None, !.node_count = 0] PROVE Resets(s, t)
    <2>1. t = [state |-> "ready", rows |-> b, entry |-> None, node_count |-> 0]
        BY <1>1, <1>3
    <2>2. t.state = "ready" /\ t.rows = b /\ t.entry = None /\ t.node_count = 0
        BY <2>1
    <2>3. IsStore(t)
        BY <2>1, <2>2 DEF IsStore
    <2>. QED
        BY <2>2, <2>3 DEF Resets, b
<1>. QED
    BY <1>2, <1>3

\* A transaction leaves a store.
LEMMA CommitTyped ==
    ASSUME NEW s, StoreT(s), NEW rows, RowsOK(rows), NEW g, GraphT(g), NEW t, Commits(s, t, rows, g)
    PROVE  StoreT(t)
<1>1. Len(g.nodes) \in 0..MaxNodes /\ g.entry \in 0..MaxNodes
    <2>1. Len(g.nodes) \in Nat /\ Len(g.nodes) <= MaxNodes /\ MaxNodes \in Nat
        BY ShapeFacts, GraphAssumption DEF GraphT
    <2>2. g.entry \in {None} \cup Indices(g)
        BY DEF GraphT, Shape
    <2>. QED
        BY <2>1, <2>2 DEF Indices, None
<1>. QED
    BY <1>1 DEF StoreT, Commits

\* What the transactions write.
LEMMA Transactions ==
    ASSUME TypeInv
    PROVE  /\ BulkFlushes => Commits(store, store', AllRows(graph'), graph') /\ contents' = Held(graph')
           /\ compact => Commits(store, store', AllRows(graph'), graph') /\ contents' = contents
           /\ InsertCommits =>
                /\ Commits(store, store', InsertedRows(store.rows, graph, op.touched), graph)
                /\ contents' = Plus(contents, op.points[1].id, op.points[1].val)
           /\ \A id \in Ids : remove(id) =>
                /\ Commits(store, store', RemovedRows(store.rows, graph', NodeOf(graph, id)), graph')
                /\ contents' = [other \in DOMAIN contents \ {id} |-> contents[other]]
<1>1. IsStore(store)
    BY DEF TypeInv, StoreT
<1>2. ASSUME BulkFlushes
      PROVE  Commits(store, store', AllRows(graph'), graph') /\ contents' = Held(graph')
    <2>1. store' = WithState(store, AllRows(graph'), graph') /\ contents' = Held(graph')
        BY <1>2 DEF BulkFlushes, flush_snapshot_to_redb
    <2>. QED
        BY <1>1, <2>1, WithStateFields
<1>3. ASSUME compact
      PROVE  Commits(store, store', AllRows(graph'), graph') /\ contents' = contents
    <2>1. store' = WithState(store, AllRows(graph'), graph') /\ contents' = contents
        BY <1>3 DEF compact, flush_snapshot_to_redb
    <2>. QED
        BY <1>1, <2>1, WithStateFields
<1>4. ASSUME InsertCommits
      PROVE  /\ Commits(store, store', InsertedRows(store.rows, graph, op.touched), graph)
             /\ contents' = Plus(contents, op.points[1].id, op.points[1].val)
    <2>1. /\ store' = WithState(store, InsertedRows(store.rows, graph, op.touched), graph)
          /\ contents' = Plus(contents, op.points[1].id, op.points[1].val)
        BY <1>4 DEF InsertCommits, CommitsStore, Plus
    <2>. QED
        BY <1>1, <2>1, WithStateFields
<1>5. ASSUME NEW id \in Ids, remove(id)
      PROVE  /\ contents' = [other \in DOMAIN contents \ {id} |-> contents[other]]
             /\ Commits(store, store', RemovedRows(store.rows, graph', NodeOf(graph, id)), graph')
    <2>1. /\ store' = WithState(store, RemovedRows(store.rows, graph', NodeOf(graph, id)), graph')
          /\ contents' = [other \in DOMAIN contents \ {id} |-> contents[other]]
        BY <1>5 DEF remove
    <2>. QED
        BY <1>1, <2>1, WithStateFields
<1>. QED
    BY <1>2, <1>3, <1>4, <1>5

\* The steps that write neither rows nor contents.
Quiet ==
    /\ contents' = contents
    /\ \/ store' = store
       \/ pc = "down" /\ Creates(store, store', IF store.state = "absent" THEN "empty" ELSE store.state)

\* All others are these.
LEMMA QuietCases ==
    ASSUME TypeInv, [Next]_vars
    PROVE  \/ Quiet
           \/ CreateCommits /\ Resets(store, store') /\ contents' = contents
           \/ BulkFlushes /\ Commits(store, store', AllRows(graph'), graph') /\ contents' = Held(graph')
           \/ compact /\ Commits(store, store', AllRows(graph'), graph') /\ contents' = contents
           \/ /\ InsertCommits /\ Commits(store, store', InsertedRows(store.rows, graph, op.touched), graph)
              /\ contents' = Plus(contents, op.points[1].id, op.points[1].val)
           \/ \E id \in Ids :
                /\ remove(id) /\ contents' = [other \in DOMAIN contents \ {id} |-> contents[other]]
                /\ Commits(store, store', RemovedRows(store.rows, graph', NodeOf(graph, id)), graph')
<1>1. IsStore(store)
    BY DEF TypeInv, StoreT
<1>2. CASE CreateCommits
    <2>1. /\ store' = [store EXCEPT !.state = "ready", !.entry = None, !.node_count = 0]
          /\ contents' = contents
        BY <1>2 DEF CreateCommits
    <2>. QED
        BY <1>1, <1>2, <2>1, CreateFields
<1>3. ASSUME NEW p, create(p) PROVE Quiet
    <2>1. /\ store' = [store EXCEPT !.state = IF @ = "absent" THEN "empty" ELSE @]
          /\ contents' = contents /\ pc = "down"
        BY <1>3 DEF create
    <2>2. Creates(store, store', IF store.state = "absent" THEN "empty" ELSE store.state)
        BY <1>1, <2>1, CreateFields
    <2>. QED
        BY <2>1, <2>2 DEF Quiet
<1>4. CASE \/ CreateSegment \/ CreateRefused \/ BulkAppends \/ InsertRefused \/ InsertAppends \/ open
           \/ OpenFails \/ BulkFails \/ InsertAppendFails \/ InsertCommitFails \/ CompactFlushFails
           \/ (\E id \in Ids : RemoveCommitFails(id))
           \/ (\E id \in Ids : \E v \in Values : \E width \in 1..MaxWidth : insert(id, v, width))
           \/ Close \/ OpenRefused \/ Crash \/ UNCHANGED vars
    <2>1. store' = store /\ contents' = contents
        BY <1>4 DEF CreateSegment, CreateRefused, BulkAppends, InsertRefused, InsertAppends, open, OpensOn,
            OpenFails, BulkFails, InsertAppendFails, InsertCommitFails, CompactFlushFails, RemoveCommitFails,
            insert, Close, OpenRefused, Crash, vars
    <2>. QED
        BY <2>1 DEF Quiet
<1>. QED
    BY <1>2, <1>3, <1>4, NextCases, Transactions

\* The store of the next state.
LEMMA StoreStep ==
    ASSUME TypeInv, [Next]_vars
    PROVE  /\ StoreT(store')
           /\ store'.state = store.state \/ pc = "down" \/ (pc = "create_state" /\ store'.state = "ready")
<1>1. StoreT(store) /\ RowsOK(store.rows) /\ GraphT(graph) /\ GraphT(graph') /\ MaxNodes \in Nat
    BY GraphStep, GraphAssumption DEF TypeInv, StoreT
<1>2. Shape(graph) /\ Len(graph.nodes) <= MaxNodes /\ Shape(graph') /\ Len(graph'.nodes) <= MaxNodes
    BY <1>1 DEF GraphT
<1>3. CASE store' = store
    BY <1>1, <1>3
<1>4. CASE pc = "down" /\ Creates(store, store', IF store.state = "absent" THEN "empty" ELSE store.state)
    BY <1>1, <1>4 DEF Creates, StoreT
<1>5. CASE CreateCommits /\ Resets(store, store')
    BY <1>1, <1>5 DEF CreateCommits, Resets, StoreT, None
<1>6. CASE Commits(store, store', AllRows(graph'), graph')
    <2>1. RowsOK(AllRows(graph'))
        BY <1>1, <1>2, RowsTyped
    <2>. QED
        BY <1>1, <1>6, <2>1, CommitTyped DEF Commits
<1>7. CASE InsertCommits /\ Commits(store, store', InsertedRows(store.rows, graph, op.touched), graph)
    <2>1. op.touched \subseteq Indices(graph)
        BY <1>7 DEF InsertCommits, CommitsStore, TypeInv, PhaseInv
    <2>2. RowsOK(InsertedRows(store.rows, graph, op.touched))
        BY <1>1, <1>2, <2>1, RowsTyped
    <2>. QED
        BY <1>1, <1>7, <2>2, CommitTyped DEF Commits
<1>8. ASSUME NEW id \in Ids, remove(id),
             Commits(store, store', RemovedRows(store.rows, graph', NodeOf(graph, id)), graph')
      PROVE  StoreT(store') /\ store'.state = store.state
    <2>1. id \in LiveIds(graph) /\ graph' = remove_tracked(graph, id)
        BY <1>8 DEF remove
    <2>2. NodeOf(graph, id) \in LiveNodes(graph) /\ Buries(graph, graph', NodeOf(graph, id))
        BY <1>2, <2>1, RemoveBuries
    <2>3. NodeOf(graph, id) \in Indices(graph')
        <3>1. Indices(graph') = Indices(graph)
            BY <2>2 DEF Buries, Indices
        <3>. QED
            BY <1>2, <2>2, <3>1, ShapeFacts
    <2>4. RowsOK(RemovedRows(store.rows, graph', NodeOf(graph, id)))
        BY <1>1, <1>2, <2>3, RowsTyped
    <2>. QED
        BY <1>1, <1>8, <2>4, CommitTyped DEF Commits
<1>. QED
    BY <1>3, <1>4, <1>5, <1>6, <1>7, <1>8, QuietCases DEF Quiet

\* Points by number.
Numbered(p, n) == p \in [1..n -> [id : Ids, val : Values]]

\* They are a sequence.
LEMMA NumberedPoints ==
    ASSUME NEW n \in Nat, NEW p, Numbered(p, n)
    PROVE  PointsOK(p) /\ Len(p) = n
<1> DEFINE S == [id : Ids, val : Values]
<1>1. p \in [1..n -> S] /\ \A k \in 1..n : p[k].id \in Ids /\ p[k].val \in Values
    BY DEF Numbered
<1> HIDE DEF S
<1>2. p \in Seq(S) /\ Len(p) = n
    <2>1. p = [k \in 1..n |-> p[k]] /\ \A k \in 1..n : p[k] \in S
        BY <1>1
    <2>. QED
        BY <2>1
<1>3. IsSeq(p)
    BY <1>2 DEF IsSeq
<1>4. Len(p) \in Nat
    BY <1>2
<1>. QED
    BY <1>1, <1>2, <1>3, <1>4 DEF PointsOK

\* The operation of the next state.
LEMMA OpStep ==
    ASSUME TypeInv, [Next]_vars
    PROVE  /\ OpT(op')
           /\ pc' = "commit" => pc = "commit" \/ (InsertAppends /\ op'.points = op.points)
           /\ pc' = "commit" => op'.touched \subseteq Indices(graph') /\ Len(op'.points) = 1
           /\ pc' \in {"create_state", "create_segment", "load", "flush"} => Len(op'.points) <= MaxLoad
<1>1. OpT(op) /\ PhaseInv /\ Shape(graph) /\ MaxNodes \in Nat /\ GraphT(graph')
    BY GraphAssumption, GraphStep DEF TypeInv, GraphT
<1>2. OpT(NoOp) /\ Len(NoOp.points) = 0 /\ 0 <= MaxLoad
    <2>1. NoOp.points = <<>> /\ NoOp.touched = {}
        BY DEF NoOp
    <2>2. PointsOK(<<>>)
        BY DEF PointsOK, IsSeq
    <2>. QED
        BY <2>1, <2>2, HnswAssumption, GraphAssumption DEF OpT, NoOp
<1>3. CASE InsertAppends
    <2> DEFINE id == op.points[1].id
               v == op.points[1].val
               p == op.points
               q == op.touched
    <2>1. pc = "append" /\ Len(op.points) = 1 /\ pc' = "commit"
        BY <1>3 DEF InsertAppends, Accepted
    <2>2. PICK o \in insert_tracked(graph, id, v) : graph' = o.graph /\ op' = [op EXCEPT !.touched = o.touched]
        BY <1>3 DEF InsertAppends
    <2>3. id \in Ids
        BY <1>1, <2>1 DEF OpT, PointsOK
    <2>4. Shape(graph') /\ \E l \in 0..MaxLevel : \E sel \in Selections(graph, l) : \E keep \in Prunings(graph, sel) :
                Joins(graph, graph', id, v, l, sel, keep) /\ o.touched = Touched(graph, sel)
        BY <1>1, <2>2, <2>3, InsertShape
    <2>5. PICK l \in 0..MaxLevel : \E sel \in Selections(graph, l) : \E keep :
                Joins(graph, graph', id, v, l, sel, keep) /\ o.touched = Touched(graph, sel)
        BY <2>4
    <2>6. PICK sel \in Selections(graph, l) : \E keep :
                Joins(graph, graph', id, v, l, sel, keep) /\ o.touched = Touched(graph, sel)
        BY <2>5
    <2>7. o.touched \subseteq Indices(graph')
        <3>1. \A k \in DOMAIN sel : sel[k] \subseteq LiveNodes(graph)
            BY <2>6 DEF Selections
        <3>2. PICK keep : Joins(graph, graph', id, v, l, sel, keep) /\ o.touched = Touched(graph, sel)
            BY <2>6
        <3>3. Joined(graph, graph', l, sel, keep)
            BY <1>1, <3>2, JoinedLists
        <3>4. Indices(graph') = Indices(graph) \cup {Len(graph.nodes) + 1}
            BY <3>3 DEF Joined
        <3>5. LiveNodes(graph) \subseteq Indices(graph)
            BY DEF LiveNodes
        <3>. QED
            BY <3>1, <3>2, <3>4, <3>5 DEF Touched
    <2>8. Indices(graph') \subseteq 1..MaxNodes
        BY <1>1, ShapeFacts DEF GraphT, Indices
    <2>9. op = [points |-> p, touched |-> q]
        BY <1>1 DEF OpT
    <2> DEFINE t == o.touched
    <2> HIDE DEF p, q, t
    <2>10. op' = [points |-> p, touched |-> t]
        BY <2>2, <2>9 DEF t
    <2>11. op'.points = p /\ op'.touched = t
        BY <2>10
    <2>12. OpT(op')
        BY <1>1, <2>7, <2>8, <2>10, <2>11 DEF OpT, p, t
    <2>. QED
        BY <1>3, <2>1, <2>7, <2>11, <2>12 DEF p, t
<1>4. ASSUME NEW id \in Ids, NEW v \in Values, NEW width \in 1..MaxWidth, insert(id, v, width)
      PROVE  OpT(op') /\ pc' = "append"
    <2> DEFINE p == [k \in 1..width |-> [id |-> id, val |-> v]]
    <2>1. Numbered(p, width)
        BY DEF Numbered
    <2>2. op' = [points |-> p, touched |-> {}] /\ pc' = "append"
        BY <1>4 DEF insert
    <2>3. width \in Nat
        OBVIOUS
    <2> HIDE DEF p
    <2>4. PointsOK(p)
        BY <2>1, <2>3, NumberedPoints
    <2>5. op'.points = p /\ op'.touched = {}
        BY <2>2
    <2>. QED
        BY <2>2, <2>4, <2>5 DEF OpT
<1>5. ASSUME NEW n \in 0..MaxLoad, NEW ids \in [1..n -> Ids], NEW vals \in [1..n -> Values],
             create([k \in 1..n |-> [id |-> ids[k], val |-> vals[k]]])
      PROVE  OpT(op') /\ Len(op'.points) <= MaxLoad /\ pc' = "create_state"
    <2> DEFINE p == [k \in 1..n |-> [id |-> ids[k], val |-> vals[k]]]
    <2>1. Numbered(p, n)
        BY DEF Numbered
    <2>2. op' = [points |-> p, touched |-> {}] /\ pc' = "create_state"
        BY <1>5 DEF create
    <2>3. n \in Nat /\ n <= MaxLoad
        OBVIOUS
    <2> HIDE DEF p
    <2>4. PointsOK(p) /\ Len(p) = n
        BY <2>1, <2>3, NumberedPoints
    <2>5. op'.points = p /\ op'.touched = {}
        BY <2>2
    <2>. QED
        BY <2>2, <2>3, <2>4, <2>5 DEF OpT
<1>6. CASE op' = NoOp /\ pc' \in {"down", "idle"}
    BY <1>1, <1>2, <1>6
<1>7. CASE /\ op' = op
           /\ \/ pc' = pc /\ (pc = "commit" => graph' = graph)
              \/ pc' \in {"idle", "unsound"}
              \/ /\ pc \in {"create_state", "create_segment", "load", "flush"}
                 /\ pc' \in {"create_state", "create_segment", "load", "flush"}
    BY <1>1, <1>7 DEF PhaseInv, Indices
<1>8. CASE \/ CreateRefused \/ BulkFlushes \/ InsertRefused \/ InsertCommits \/ OpenFails \/ BulkFails
           \/ InsertAppendFails \/ InsertCommitFails \/ Close \/ Crash
    <2>1. op' = NoOp /\ pc' \in {"down", "idle"}
        BY <1>8 DEF CreateRefused, BulkFlushes, InsertRefused, InsertCommits, CommitsStore, OpenFails,
            BulkFails, InsertAppendFails, InsertCommitFails, Close, Crash
    <2>. QED
        BY <1>6, <2>1
<1>9. CASE CreateCommits \/ CreateSegment \/ open \/ BulkAppends \/ compact \/ CompactFlushFails
           \/ OpenRefused \/ UNCHANGED vars \/ (\E id \in Ids : RemoveCommitFails(id) \/ remove(id))
    <2>1. /\ op' = op
          /\ \/ pc' = pc /\ (pc = "commit" => graph' = graph)
             \/ pc' \in {"idle", "unsound"}
             \/ /\ pc \in {"create_state", "create_segment", "load", "flush"}
                /\ pc' \in {"create_state", "create_segment", "load", "flush"}
        BY <1>9 DEF CreateCommits, CreateSegment, open, OpensOn, BulkAppends, compact, CompactFlushFails,
            OpenRefused, vars, RemoveCommitFails, remove
    <2>. QED
        BY <1>7, <2>1
<1>. QED
    BY <1>3, <1>4, <1>5, <1>8, <1>9, NextCases

\* The windows hit so far; those of the disk are never left.
LEMMA ExposedStep ==
    ASSUME TypeInv, [Next]_vars
    PROVE  exposed' \subseteq Windows /\ (DiskExposed => DiskExposed')
<1>1. exposed \subseteq Windows
    BY DEF TypeInv
<1>2. \/ exposed' \subseteq Windows /\ exposed \subseteq exposed'
      \/ exposed' \subseteq Windows /\ exposed \ SessionWindows \subseteq exposed'
    <2>1. CASE \/ CreateCommits \/ InsertRefused \/ InsertAppendFails \/ InsertCommits \/ InsertCommitFails
               \/ compact \/ CompactFlushFails \/ (\E id \in Ids : RemoveCommitFails(id) \/ remove(id))
        BY <1>1, <2>1 DEF CreateCommits, InsertRefused, InsertAppendFails, InsertCommits, CommitsStore,
            InsertCommitFails, compact, CompactFlushFails, RemoveCommitFails, remove, Committing, Leaves,
            Windows, SessionWindows, DiskWindows
    <2>2. CASE OpenFails \/ Crash \/ Close
        BY <1>1, <2>2 DEF OpenFails, Crash, Close, CrashExposes, Windows, SessionWindows
    <2>3. CASE \/ CreateSegment \/ CreateRefused \/ open \/ BulkAppends \/ BulkFlushes \/ InsertAppends
               \/ BulkFails \/ OpenRefused \/ UNCHANGED vars
               \/ (\E id \in Ids : \E v \in Values : \E width \in 1..MaxWidth : insert(id, v, width))
               \/ (\E n \in 0..MaxLoad : \E ids \in [1..n -> Ids] : \E vals \in [1..n -> Values] :
                    create([k \in 1..n |-> [id |-> ids[k], val |-> vals[k]]]))
        BY <1>1, <2>3 DEF CreateSegment, CreateRefused, open, OpensOn, BulkAppends, BulkFlushes, InsertAppends,
            BulkFails, OpenRefused, vars, insert, create
    <2>. QED
        BY <2>1, <2>2, <2>3, NextCases
<1>3. DiskExposed => DiskExposed'
    BY <1>2 DEF DiskExposed, DiskWindows, SessionWindows
<1>. QED
    BY <1>2, <1>3

\* The types are kept.
LEMMA TypeStep ==
    ASSUME TypeInv, [Next]_vars
    PROVE  TypeInv'
<1> DEFINE Served == {"load", "flush", "idle", "append", "commit"}
<1>1. GraphT(graph') /\ StoreT(store') /\ OpT(op') /\ file' \in Files /\ exposed' \subseteq Windows
    BY GraphStep, StoreStep, OpStep, FileStep, ExposedStep
<1>2. DOMAIN contents' \subseteq Ids
    <2>1. DOMAIN contents \subseteq Ids
        BY DEF TypeInv
    <2>2. CASE contents' = Held(graph')
        <3>1. LiveIds(graph') \subseteq Ids
            BY <1>1, ShapeFacts DEF GraphT, Shape, NodeShape, LiveIds
        <3>2. DOMAIN contents' = LiveIds(graph')
            BY <2>2 DEF Held
        <3>. QED
            BY <3>1, <3>2
    <2>3. CASE InsertCommits /\ contents' = Plus(contents, op.points[1].id, op.points[1].val)
        <3>1. op.points[1].id \in Ids
            BY <2>3 DEF InsertCommits, CommitsStore, TypeInv, PhaseInv, OpT, PointsOK
        <3>. QED
            BY <2>1, <2>3, <3>1 DEF Plus
    <2>4. CASE \E id : contents' = [other \in DOMAIN contents \ {id} |-> contents[other]]
        BY <2>1, <2>4
    <2>. QED
        BY <2>1, <2>2, <2>3, <2>4, QuietCases DEF Quiet
<1>3. PhaseInv /\ file \in Files /\ store.node_count \in Nat
    BY GraphAssumption DEF TypeInv, StoreT
<1>4. ASSUME pc \in Served PROVE Openable'
    <2>1. Openable /\ file'.header = file.header
        BY <1>3, <1>4, FileStep DEF PhaseInv
    <2>2. store'.state = store.state
        BY <1>4, StoreStep
    <2>. QED
        BY <2>1, <2>2 DEF Openable
<1>5. CASE CreateSegment
    <2>1. pc = "create_segment" /\ file' = [NoFile EXCEPT !.header = "ok"] /\ store' = store
          /\ pc' \in {"idle", "load"}
        BY <1>5 DEF CreateSegment
    <2>2. file'.header = "ok"
        BY <2>1, NewFile
    <2>3. Openable' /\ pc' \in {"idle", "load"}
        BY <1>3, <2>1, <2>2 DEF PhaseInv, Openable
    <2>4. PhaseInv'
        BY <2>3, OpStep DEF PhaseInv
    <2>. QED
        BY <1>1, <1>2, <2>4 DEF TypeInv
<1>6. CASE open
    <2>1. Openable /\ file' = set_len(file, store.node_count) /\ store' = store
          /\ pc' \in {"down", "idle", "unsound"}
        BY <1>6 DEF open, OpensOn
    <2>2. file'.header = file.header
        BY <1>3, <2>1, Cuts
    <2>3. Openable'
        BY <2>1, <2>2 DEF Openable
    <2>4. PhaseInv'
        BY <2>1, <2>3 DEF PhaseInv
    <2>. QED
        BY <1>1, <1>2, <2>4 DEF TypeInv
<1>7. CASE \E id \in Ids : \E v \in Values : \E width \in 1..MaxWidth : insert(id, v, width)
    <2>1. pc = "idle" /\ pc' = "append" /\ graph' = graph /\ Len(graph.nodes) < MaxNodes
        BY <1>7 DEF insert
    <2>2. Openable'
        BY <1>4, <2>1
    <2>3. PhaseInv'
        BY <2>1, <2>2 DEF PhaseInv
    <2>. QED
        BY <1>1, <1>2, <2>3 DEF TypeInv
<1>8. CASE CreateCommits
    <2>1. pc' = "create_segment" /\ store' = [store EXCEPT !.state = "ready", !.entry = None, !.node_count = 0]
        BY <1>8 DEF CreateCommits
    <2>2. store'.state = "ready"
        BY <2>1, CreateFields DEF Resets, TypeInv, StoreT
    <2>3. PhaseInv'
        BY <2>1, <2>2, OpStep DEF PhaseInv
    <2>. QED
        BY <1>1, <1>2, <2>3 DEF TypeInv
<1>9. CASE UNCHANGED vars
    <2>1. PhaseInv'
        BY <1>3, <1>9 DEF PhaseInv, vars, Openable, Indices
    <2>. QED
        BY <1>1, <1>2, <2>1 DEF TypeInv
<1>10. CASE \/ CreateRefused \/ BulkAppends \/ BulkFlushes \/ InsertAppends \/ InsertRefused \/ InsertCommits
            \/ OpenFails \/ BulkFails \/ InsertAppendFails \/ InsertCommitFails \/ CompactFlushFails
            \/ (\E id \in Ids : RemoveCommitFails(id)) \/ (\E id \in Ids : remove(id)) \/ compact
            \/ (\E n \in 0..MaxLoad : \E ids \in [1..n -> Ids] : \E vals \in [1..n -> Values] :
                    create([k \in 1..n |-> [id |-> ids[k], val |-> vals[k]]]))
            \/ Close \/ OpenRefused \/ Crash
    <2>1. pc' \in {"down", "create_state"} \/ (pc \in Served /\ pc' \in {"flush", "idle", "commit"})
        BY <1>10 DEF CreateRefused, BulkAppends, BulkFlushes, InsertRefused, InsertAppends, InsertCommits,
            CommitsStore, OpenFails, BulkFails, InsertAppendFails, InsertCommitFails, CompactFlushFails,
            RemoveCommitFails, remove, compact, create, Close, OpenRefused, Crash, vars
    <2>2. PhaseInv'
        BY <1>4, <2>1, OpStep DEF PhaseInv
    <2>. QED
        BY <1>1, <1>2, <2>2 DEF TypeInv
<1>. QED
    BY <1>5, <1>6, <1>7, <1>8, <1>9, <1>10, NextCases

-----------------------------------------------------------------------------
(* Rows, records and graph agree.                                           *)

\* The disk holds some graph with the committed contents; an index that does not open, none.
DiskInv ==
    ~DiskExposed =>
        /\ \E g : HoldsIn(store, file, contents, g)
        /\ ~Openable => store.node_count = 0

\* Between operations it is the one in RAM, and no record is too many, unless a window was hit.
RamInv ==
    (~DiskExposed /\ pc \in {"idle", "append"}) =>
        /\ "ahead" \notin exposed => HoldsIn(store, file, contents, graph)
        /\ exposed \cap SessionWindows = {} =>
              Len(file.recs) = store.node_count /\ file.end = "aligned"

\* Before the commit of an insert the graph is one insert ahead of the disk, and its record is in place.
Pending(g) ==
    /\ HoldsIn(store, file, contents, g)
    /\ op.points[1].id \notin LiveIds(g)
    /\ \E o \in insert_tracked(g, op.points[1].id, op.points[1].val) :
            graph = o.graph /\ op.touched = o.touched
    /\ Len(file.recs) = store.node_count + 1 /\ file.end = "aligned"
    /\ file.recs[store.node_count + 1] = op.points[1].val

CommitInv ==
    (~DiskExposed /\ pc = "commit" /\ exposed \cap SessionWindows = {}) => \E g : Pending(g)

\* An index under creation has no nodes; bulk_load appends to an empty segment.
CreateInv ==
    (~DiskExposed /\ pc \in {"create_segment", "load", "flush"}) =>
        /\ store.node_count = 0
        /\ pc = "load" => file.recs = <<>> /\ file.end = "aligned"
        /\ pc = "flush" => file.recs = ValuesOf(op.points) /\ file.end = "aligned"

Inv == TypeInv /\ DiskInv /\ RamInv /\ CommitInv /\ CreateInv

\* A store without nodes holds the empty graph, whatever the segment.
LEMMA HoldsNothing ==
    ASSUME NEW s, NEW f, NEW c, NEW g, HoldsIn(s, f, c, g),
           s.node_count = 0 \/ DOMAIN s.rows = {}
    PROVE  /\ g = Empty /\ s.node_count = 0 /\ s.entry = None /\ c = <<>>
           /\ \A h \in Files : HoldsIn(s, h, c, g)
<1>1. Shape(g) /\ Top(g) /\ Mirrors(s, f, g) /\ Held(g) = c
    BY DEF HoldsIn, Sound
<1>2. Len(g.nodes) \in Nat /\ Indices(g) = 1..Len(g.nodes)
    BY <1>1, ShapeFacts DEF Indices
<1>3. Len(g.nodes) = 0
    <2>1. CASE s.node_count = 0
        BY <1>1, <2>1 DEF Mirrors
    <2>2. CASE DOMAIN s.rows = {}
        <3>1. DOMAIN AllRows(g) = Indices(g) /\ s.rows = AllRows(g)
            BY <1>1 DEF Mirrors, AllRows
        <3>2. 1..Len(g.nodes) = {}
            BY <1>2, <2>2, <3>1, Zenon
        <3>3. 1 \notin 1..Len(g.nodes)
            BY <3>2
        <3>. QED
            BY <1>2, <3>3
    <2>. QED
        BY <2>1, <2>2
<1>4. Indices(g) = {}
    BY <1>2, <1>3
<1>5. LiveNodes(g) = {} /\ LiveIds(g) = {}
    BY <1>4 DEF LiveNodes, LiveIds
<1>6. g.entry = None
    BY <1>1, <1>5 DEF Top
<1>7. g.nodes = <<>>
    BY <1>1, <1>3 DEF Shape, IsSeq
<1>8. g = Empty
    BY <1>1, <1>6, <1>7 DEF Shape, Empty
<1>9. s.node_count = 0 /\ s.entry = None
    BY <1>1, <1>3, <1>6 DEF Mirrors
<1>10. c = <<>>
    <2>1. c = [id \in {} |-> g.nodes[NodeOf(g, id)].val]
        BY <1>1, <1>5 DEF Held
    <2>. QED
        BY <2>1
<1>11. ASSUME NEW h \in Files PROVE HoldsIn(s, h, c, g)
    <2>1. Len(h.recs) \in Nat
        BY DEF Files
    <2>2. Mirrors(s, h, g)
        BY <1>1, <1>3, <1>4, <2>1 DEF Mirrors
    <2>. QED
        BY <2>2 DEF HoldsIn
<1>. QED
    BY <1>8, <1>9, <1>10, <1>11

\* Only the rows and the state row of a store matter.
LEMMA HoldsSame ==
    ASSUME NEW s, NEW t, t.rows = s.rows, t.entry = s.entry, t.node_count = s.node_count,
           NEW f, NEW c, NEW g, HoldsIn(s, f, c, g)
    PROVE  HoldsIn(t, f, c, g)
BY DEF HoldsIn, Mirrors

\* While no index is open, the segment changes only by the cut of an open.
LEMMA DownFile ==
    ASSUME TypeInv, [Next]_vars, pc = "down"
    PROVE  file' = file \/ file' = set_len(file, store.node_count)
<1>1. CASE open \/ OpenFails
    BY <1>1 DEF open, OpensOn, OpenFails
<1>2. CASE \/ OpenRefused \/ UNCHANGED vars
           \/ (\E n \in 0..MaxLoad : \E ids \in [1..n -> Ids] : \E vals \in [1..n -> Values] :
                    create([k \in 1..n |-> [id |-> ids[k], val |-> vals[k]]]))
    BY <1>2 DEF OpenRefused, vars, create
<1>3. ~(\/ CreateCommits \/ CreateSegment \/ CreateRefused \/ BulkAppends \/ BulkFlushes \/ InsertAppends
        \/ InsertRefused \/ InsertCommits \/ BulkFails \/ InsertAppendFails \/ InsertCommitFails
        \/ (\E id \in Ids : RemoveCommitFails(id)) \/ CompactFlushFails \/ (\E id \in Ids : remove(id))
        \/ (\E id \in Ids : \E v \in Values : \E width \in 1..MaxWidth : insert(id, v, width))
        \/ compact \/ Close \/ Crash)
    BY DEF CreateCommits, CreateSegment, CreateRefused, BulkAppends, BulkFlushes, InsertAppends, InsertRefused,
        InsertCommits, CommitsStore, BulkFails, InsertAppendFails, InsertCommitFails, RemoveCommitFails,
        CompactFlushFails, remove, insert, compact, Close, Crash
<1>. QED
    BY <1>1, <1>2, <1>3, NextCases

\* A step that writes nothing but the segment leaves the disk holding what it held.
LEMMA QuietHolds ==
    ASSUME Inv, [Next]_vars, ~DiskExposed, Quiet, NEW g, HoldsIn(store, file, contents, g)
    PROVE  HoldsIn(store', file', contents', g)
<1>1. file \in Files /\ TypeInv
    BY DEF Inv, TypeInv
<1>2. HoldsIn(store, file', contents, g)
    <2>1. CASE pc = "down"
        BY <1>1, <2>1, DownFile, HoldsCut
    <2>2. CASE Extends(file, file')
        BY <1>1, <2>2, HoldsExtended
    <2>3. CASE pc = "create_segment" /\ Fresh(file, file')
        <3>1. store.node_count = 0 /\ file' \in Files
            BY <2>3 DEF Inv, CreateInv, Fresh
        <3>. QED
            BY <3>1, HoldsNothing
    <2>. QED
        BY <1>1, <2>1, <2>2, <2>3, FileStep
<1>. QED
    BY <1>2, HoldsSame DEF Quiet, Creates

\* An insert that committed is on disk.
LEMMA CommitStep ==
    ASSUME Inv, ~DiskExposed', InsertCommits,
           Commits(store, store', InsertedRows(store.rows, graph, op.touched), graph),
           contents' = Plus(contents, op.points[1].id, op.points[1].val)
    PROVE  /\ HoldsIn(store', file', contents', graph')
           /\ Len(file'.recs) = store'.node_count /\ file'.end = "aligned"
           /\ op.points[1].id \in Ids \ DOMAIN contents /\ op.points[1].val \in Values
<1>1. pc = "commit" /\ exposed' = Committing(SessionWindows) /\ graph' = graph /\ file' = file
    BY DEF InsertCommits, CommitsStore
<1>2. exposed \cap SessionWindows = {} /\ ~DiskExposed
    BY <1>1 DEF Committing, DiskExposed, DiskWindows
<1>3. file \in Files /\ Len(op.points) = 1 /\ PointsOK(op.points)
    BY <1>1 DEF Inv, TypeInv, PhaseInv, OpT
<1>4. op.points[1].id \in Ids /\ op.points[1].val \in Values
    BY <1>3 DEF PointsOK
<1> DEFINE id == op.points[1].id
           v == op.points[1].val
<1>5. PICK g : Pending(g)
    BY <1>1, <1>2 DEF Inv, CommitInv
<1>6. /\ HoldsIn(store, file, contents, g) /\ id \notin LiveIds(g)
      /\ Len(file.recs) = store.node_count + 1 /\ file.end = "aligned"
      /\ file.recs[store.node_count + 1] = v
    BY <1>5 DEF Pending
<1>7. PICK o \in insert_tracked(g, id, v) : graph = o.graph /\ op.touched = o.touched
    BY <1>5 DEF Pending
<1> HIDE DEF id, v
<1>8. Commits(store, store', InsertedRows(store.rows, o.graph, o.touched), o.graph)
    BY <1>7
<1>9. HoldsIn(store', file, Plus(contents, id, v), o.graph) /\ id \notin DOMAIN contents
    BY <1>3, <1>4, <1>6, <1>8, CommitHolds DEF id
<1>10. HoldsIn(store', file', contents', graph')
    BY <1>1, <1>7, <1>9 DEF id, v
<1>11. store'.node_count = store.node_count + 1
    <2>1. Shape(g) /\ store.node_count = Len(g.nodes)
        BY <1>6 DEF HoldsIn, Mirrors, Sound
    <2>2. \E l, sel, keep : Joins(g, o.graph, id, v, l, sel, keep)
        BY <1>4, <2>1, InsertShape DEF id
    <2>3. Len(o.graph.nodes) = Len(g.nodes) + 1
        BY <2>2 DEF Joins
    <2>. QED
        BY <1>8, <2>1, <2>3 DEF Commits
<1>. QED
    BY <1>1, <1>4, <1>6, <1>9, <1>10, <1>11 DEF id

\* So is a remove.
LEMMA RemoveStep ==
    ASSUME Inv, ~DiskExposed', NEW id \in Ids, remove(id),
           Commits(store, store', RemovedRows(store.rows, graph', NodeOf(graph, id)), graph'),
           contents' = [other \in DOMAIN contents \ {id} |-> contents[other]]
    PROVE  /\ HoldsIn(store', file', contents', graph') /\ id \in DOMAIN contents
           /\ exposed' \cap SessionWindows = {} =>
                Len(file'.recs) = store'.node_count /\ file'.end = "aligned"
<1>1. /\ pc = "idle" /\ id \in LiveIds(graph) /\ graph' = remove_tracked(graph, id)
      /\ exposed' = Committing({"ahead"}) /\ file' = file
    BY DEF remove
<1>2. "ahead" \notin exposed /\ ~DiskExposed /\ exposed' = exposed
    BY <1>1 DEF Committing, DiskExposed, DiskWindows
<1>3. HoldsIn(store, file, contents, graph)
    BY <1>1, <1>2 DEF Inv, RamInv
<1>4. /\ HoldsIn(store', file, contents', graph') /\ id \in DOMAIN contents
      /\ store'.node_count = store.node_count
    BY <1>1, <1>3, RemoveHolds
<1>. QED
    BY <1>1, <1>2, <1>4 DEF Inv, RamInv

\* And a compaction that renumbers nothing.
LEMMA CompactStep ==
    ASSUME Inv, ~DiskExposed', compact, Commits(store, store', AllRows(graph'), graph'), contents' = contents
    PROVE  /\ HoldsIn(store', file', contents', graph')
           /\ exposed' \cap SessionWindows = {} =>
                Len(file'.recs) = store'.node_count /\ file'.end = "aligned"
<1>1. /\ pc = "idle" /\ graph' \in Built(LivePoints(graph)) /\ file' = file
      /\ exposed' = Committing({"ahead"}) \cup Leaves(graph)
                        \cup (IF Renumbers(graph) THEN {"shifted"} ELSE {})
    BY DEF compact
<1>2. "ahead" \notin exposed /\ ~DiskExposed /\ ~Renumbers(graph) /\ exposed' = exposed \cup Leaves(graph)
    BY <1>1 DEF Committing, DiskExposed, DiskWindows
<1>3. HoldsIn(store, file, contents, graph) /\ file \in Files
    BY <1>1, <1>2 DEF Inv, RamInv, TypeInv
<1>4. HoldsIn(store', file, contents, graph')
    BY <1>1, <1>2, <1>3, CompactHolds
<1>5. ASSUME exposed' \cap SessionWindows = {}
      PROVE  Len(file.recs) = store'.node_count /\ file.end = "aligned"
    <2>1. exposed \cap SessionWindows = {} /\ Tombstones(graph) = {}
        BY <1>2, <1>5 DEF Leaves, SessionWindows
    <2>2. Len(file.recs) = store.node_count /\ file.end = "aligned"
        BY <1>1, <1>2, <2>1 DEF Inv, RamInv
    <2>3. Shape(graph) /\ store.node_count = Len(graph.nodes)
        BY <1>3 DEF HoldsIn, Sound, Mirrors
    <2>4. Len(graph'.nodes) = Len(graph.nodes)
        BY <1>1, <2>1, <2>3, CompactShape
    <2>. QED
        BY <2>2, <2>3, <2>4 DEF Commits
<1>. QED
    BY <1>1, <1>4, <1>5

\* And a bulk_load.
LEMMA BulkStep ==
    ASSUME Inv, ~DiskExposed', BulkFlushes, Commits(store, store', AllRows(graph'), graph'),
           contents' = Held(graph')
    PROVE  /\ HoldsIn(store', file', contents', graph')
           /\ Len(file'.recs) = store'.node_count /\ file'.end = "aligned"
           /\ contents = <<>> /\ DOMAIN contents' \subseteq Ids
           /\ \A id \in DOMAIN contents' : contents'[id] \in Values
<1> DEFINE p == op.points
           h == graph'
<1>1. pc = "flush" /\ Distinct(p) /\ h \in Built(p) /\ file' = file /\ exposed' = exposed
    BY DEF BulkFlushes
<1>2. ~DiskExposed
    BY <1>1 DEF DiskExposed
<1>3. store.node_count = 0 /\ file.recs = ValuesOf(p) /\ file.end = "aligned"
    BY <1>1, <1>2 DEF Inv, CreateInv
<1>4. PICK g : HoldsIn(store, file, contents, g)
    BY <1>2 DEF Inv, DiskInv
<1>5. contents = <<>>
    BY <1>3, <1>4, HoldsNothing
<1>6. PointsOK(p)
    BY DEF Inv, TypeInv, OpT
<1> HIDE DEF p
<1>7. Len(p) \in Nat /\ \A k \in 1..Len(p) : p[k].id \in Ids /\ p[k].val \in Values
    BY <1>6 DEF PointsOK
<1>8. DistinctIds(p)
    BY <1>1 DEF Distinct, DistinctIds
<1>9. /\ Sound(h) /\ Newest(h) /\ Len(h.nodes) = Len(p)
      /\ \A k \in 1..Len(p) : h.nodes[k].val = p[k].val
      /\ LiveIds(h) = {p[k].id : k \in 1..Len(p)}
      /\ \A k \in 1..Len(p) : Held(h)[p[k].id] = p[k].val
    BY <1>1, <1>7, <1>8, BuiltHeld
<1>10. Len(file.recs) = Len(p) /\ \A k \in 1..Len(p) : file.recs[k] = p[k].val
    BY <1>3, <1>6, ValuesTyped
<1>11. \A n \in Indices(h) : file.recs[n] = h.nodes[n].val
    BY <1>9, <1>10 DEF Indices
<1>12. Len(h.nodes) <= Len(file.recs)
    BY <1>7, <1>9, <1>10
<1>13. HoldsIn(store', file, Held(h), h)
    BY <1>9, <1>11, <1>12, FlushHolds
<1>14. DOMAIN Held(h) = LiveIds(h)
    BY DEF Held
<1>15. \A id \in LiveIds(h) : id \in Ids /\ Held(h)[id] \in Values
    BY <1>7, <1>9
<1>16. store'.node_count = Len(file.recs)
    BY <1>9, <1>10 DEF Commits
<1>. QED
    BY <1>1, <1>3, <1>5, <1>13, <1>14, <1>15, <1>16

\* What create resets was already so, unless it is a window.
LEMMA ResetStep ==
    ASSUME Inv, [Next]_vars, ~DiskExposed', CreateCommits, Resets(store, store'), contents' = contents
    PROVE  \E g : HoldsIn(store', file', contents', g)
<1>1. file' = file /\ exposed' = exposed \cup (IF DOMAIN store.rows # {} THEN {"recreated"} ELSE {})
    BY DEF CreateCommits
<1>2. ~DiskExposed /\ DOMAIN store.rows = {}
    BY <1>1 DEF DiskExposed, DiskWindows
<1>3. PICK g : HoldsIn(store, file, contents, g)
    BY <1>2 DEF Inv, DiskInv
<1>4. store.node_count = 0 /\ store.entry = None
    BY <1>2, <1>3, HoldsNothing
<1>5. HoldsIn(store', file, contents, g)
    BY <1>3, <1>4, HoldsSame DEF Resets
<1>. QED
    BY <1>1, <1>5

\* DiskInv is kept.
LEMMA DiskStep ==
    ASSUME Inv, [Next]_vars
    PROVE  DiskInv'
<1>1. SUFFICES ASSUME ~DiskExposed'
               PROVE  /\ \E g : HoldsIn(store', file', contents', g)
                      /\ ~Openable' => store'.node_count = 0
    BY DEF DiskInv
<1>2. TypeInv /\ TypeInv'
    BY TypeStep DEF Inv
<1>3. ~DiskExposed
    BY <1>1, <1>2, ExposedStep
<1>4. CASE Quiet
    <2>1. PICK g : HoldsIn(store, file, contents, g)
        BY <1>3 DEF Inv, DiskInv
    <2>2. HoldsIn(store', file', contents', g)
        BY <1>3, <1>4, <2>1, QuietHolds
    <2>3. store'.node_count = store.node_count /\ (Openable => store'.state = "ready")
        BY <1>4 DEF Quiet, Creates, Openable
    <2>4. Openable => file'.header = "ok"
        BY <1>2, FileStep DEF Openable
    <2>5. Openable => Openable'
        BY <2>3, <2>4 DEF Openable
    <2>. QED
        BY <1>3, <2>2, <2>3, <2>5 DEF Inv, DiskInv
<1>5. CASE CreateCommits /\ Resets(store, store') /\ contents' = contents
    BY <1>1, <1>5, ResetStep DEF Resets
<1>6. ASSUME HoldsIn(store', file', contents', graph'), pc' = "idle"
      PROVE  (\E g : HoldsIn(store', file', contents', g)) /\ Openable'
    BY <1>2, <1>6 DEF TypeInv, PhaseInv
<1>7. CASE InsertCommits /\ Commits(store, store', InsertedRows(store.rows, graph, op.touched), graph)
           /\ contents' = Plus(contents, op.points[1].id, op.points[1].val)
    <2>1. HoldsIn(store', file', contents', graph')
        BY <1>1, <1>7, CommitStep
    <2>2. pc' = "idle"
        BY <1>7 DEF InsertCommits, CommitsStore
    <2>. QED
        BY <1>6, <2>1, <2>2
<1>8. CASE compact /\ Commits(store, store', AllRows(graph'), graph') /\ contents' = contents
    <2>1. HoldsIn(store', file', contents', graph')
        BY <1>1, <1>8, CompactStep
    <2>2. pc' = "idle"
        BY <1>8 DEF compact
    <2>. QED
        BY <1>6, <2>1, <2>2
<1>9. CASE BulkFlushes /\ Commits(store, store', AllRows(graph'), graph') /\ contents' = Held(graph')
    <2>1. HoldsIn(store', file', contents', graph')
        BY <1>1, <1>9, BulkStep
    <2>2. pc' = "idle"
        BY <1>9 DEF BulkFlushes
    <2>. QED
        BY <1>6, <2>1, <2>2
<1>10. ASSUME NEW id \in Ids, remove(id),
              Commits(store, store', RemovedRows(store.rows, graph', NodeOf(graph, id)), graph'),
              contents' = [other \in DOMAIN contents \ {id} |-> contents[other]]
       PROVE  (\E g : HoldsIn(store', file', contents', g)) /\ Openable'
    <2>1. HoldsIn(store', file', contents', graph')
        BY <1>1, <1>10, RemoveStep
    <2>2. pc' = "idle"
        BY <1>10 DEF remove
    <2>. QED
        BY <1>6, <2>1, <2>2
<1>. QED
    BY <1>2, <1>4, <1>5, <1>7, <1>8, <1>9, <1>10, QuietCases

\* CreateInv is kept.
LEMMA CreateStep ==
    ASSUME Inv, [Next]_vars
    PROVE  CreateInv'
<1>1. SUFFICES ASSUME ~DiskExposed', pc' \in {"create_segment", "load", "flush"}
               PROVE  /\ store'.node_count = 0
                      /\ pc' = "load" => file'.recs = <<>> /\ file'.end = "aligned"
                      /\ pc' = "flush" => file'.recs = ValuesOf(op'.points) /\ file'.end = "aligned"
    BY DEF CreateInv
<1>2. TypeInv /\ IsStore(store) /\ file \in Files /\ PointsOK(op.points)
    BY DEF Inv, TypeInv, StoreT, OpT
<1>3. ~DiskExposed
    BY <1>1, <1>2, ExposedStep
<1>4. CASE CreateCommits
    <2>1. pc' = "create_segment" /\ store' = [store EXCEPT !.state = "ready", !.entry = None, !.node_count = 0]
        BY <1>4 DEF CreateCommits
    <2>2. store'.node_count = 0
        BY <1>2, <2>1, CreateFields DEF Resets
    <2>. QED
        BY <2>1, <2>2
<1>5. CASE CreateSegment
    <2>1. pc = "create_segment" /\ store' = store /\ file' = [NoFile EXCEPT !.header = "ok"] /\ pc' # "flush"
        BY <1>5 DEF CreateSegment
    <2>2. store.node_count = 0
        BY <1>3, <2>1 DEF Inv, CreateInv
    <2>3. file'.recs = <<>> /\ file'.end = "aligned"
        BY <2>1, NewFile
    <2>. QED
        BY <2>1, <2>2, <2>3
<1>6. CASE BulkAppends
    <2>1. /\ pc = "load" /\ store' = store /\ op' = op /\ pc' = "flush"
          /\ file' = append(file, ValuesOf(op.points))
        BY <1>6 DEF BulkAppends
    <2>2. store.node_count = 0 /\ file.recs = <<>> /\ file.end = "aligned"
        BY <1>3, <2>1 DEF Inv, CreateInv
    <2>3. ValuesOf(op.points) \in Seq(Values)
        BY <1>2, ValuesTyped
    <2>4. file'.recs = ValuesOf(op.points) /\ file'.end = "aligned"
        BY <1>2, <2>1, <2>2, <2>3, Appends
    <2>. QED
        BY <2>1, <2>2, <2>4
<1>7. CASE UNCHANGED vars
    BY <1>1, <1>3, <1>7 DEF Inv, CreateInv, vars
<1>8. CASE \/ CreateRefused \/ open \/ BulkFlushes \/ InsertAppends \/ InsertRefused \/ InsertCommits
           \/ OpenFails \/ BulkFails \/ InsertAppendFails \/ InsertCommitFails
           \/ (\E id \in Ids : RemoveCommitFails(id)) \/ CompactFlushFails \/ (\E id \in Ids : remove(id))
           \/ (\E id \in Ids : \E v \in Values : \E width \in 1..MaxWidth : insert(id, v, width))
           \/ (\E n \in 0..MaxLoad : \E ids \in [1..n -> Ids] : \E vals \in [1..n -> Values] :
                    create([k \in 1..n |-> [id |-> ids[k], val |-> vals[k]]]))
           \/ compact \/ Close \/ OpenRefused \/ Crash
    <2>1. pc' \notin {"create_segment", "load", "flush"}
        BY <1>8 DEF CreateRefused, open, OpensOn, BulkFlushes, InsertAppends, InsertRefused, InsertCommits,
            CommitsStore, OpenFails, BulkFails, InsertAppendFails, InsertCommitFails, RemoveCommitFails,
            CompactFlushFails, remove, insert, create, compact, Close, OpenRefused, Crash, vars
    <2>. QED
        BY <1>1, <2>1
<1>. QED
    BY <1>4, <1>5, <1>6, <1>7, <1>8, NextCases

\* CommitInv is kept.
LEMMA PendingStep ==
    ASSUME Inv, [Next]_vars
    PROVE  CommitInv'
<1>1. SUFFICES ASSUME ~DiskExposed', pc' = "commit", exposed' \cap SessionWindows = {}
               PROVE  \E g : Pending(g)'
    BY DEF CommitInv
<1>2. TypeInv /\ file \in Files /\ PointsOK(op.points) /\ StoreT(store) /\ GraphT(graph)
    BY DEF Inv, TypeInv, OpT
<1>3. ~DiskExposed
    BY <1>1, <1>2, ExposedStep
<1>4. CASE pc = "commit"
    <2>1. UNCHANGED vars
        BY <1>1, <1>4, NextCases DEF vars, CreateCommits, CreateSegment, CreateRefused, open, OpensOn,
            BulkAppends, BulkFlushes, InsertAppends, InsertRefused, InsertCommits, CommitsStore, OpenFails,
            BulkFails, InsertAppendFails, InsertCommitFails, RemoveCommitFails, CompactFlushFails, remove,
            insert, create, compact, Close, OpenRefused, Crash
    <2>2. PICK g : Pending(g)
        BY <1>1, <1>3, <1>4, <2>1 DEF Inv, CommitInv, vars
    <2>3. Pending(g)'
        BY <2>1, <2>2 DEF Pending, vars
    <2>. QED
        BY <2>3
<1>5. CASE InsertAppends
    <2> DEFINE p == op.points
               vals == ValuesOf(op.points)
    <2>1. /\ pc = "append" /\ Len(p) = 1 /\ p[1].id \notin LiveIds(graph)
          /\ file' = append(file, vals) /\ store' = store /\ contents' = contents /\ exposed' = exposed
        BY <1>5 DEF InsertAppends, Accepted
    <2>2. PICK o \in insert_tracked(graph, p[1].id, p[1].val) :
                graph' = o.graph /\ op' = [op EXCEPT !.touched = o.touched]
        BY <1>5 DEF InsertAppends
    <2>3. /\ HoldsIn(store, file, contents, graph)
          /\ Len(file.recs) = store.node_count /\ file.end = "aligned"
        BY <1>1, <1>3, <2>1 DEF Inv, RamInv, SessionWindows
    <2>4. vals \in Seq(Values) /\ Len(vals) = 1 /\ vals[1] = p[1].val
        BY <1>2, <2>1, ValuesTyped
    <2> HIDE DEF vals
    <2>5. /\ Extends(file, file') /\ file'.end = "aligned" /\ Len(file'.recs) = Len(file.recs) + 1
          /\ file'.recs[Len(file.recs) + 1] = vals[1]
        BY <1>2, <2>1, <2>3, <2>4, Appends
    <2>6. HoldsIn(store', file', contents', graph)
        BY <1>2, <2>1, <2>3, <2>5, HoldsExtended
    <2>7. op'.points = p
        BY <1>1, <1>2, <1>4, <1>5, OpStep DEF InsertAppends
    <2>8. op'.touched = o.touched
        BY <1>2, <2>2 DEF TypeInv, OpT
    <2>9. PICK g : g = graph
        OBVIOUS
    <2>10. Pending(g)'
        BY <2>1, <2>2, <2>3, <2>4, <2>5, <2>6, <2>7, <2>8, <2>9 DEF Pending
    <2>. QED
        BY <2>10
<1>. QED
    BY <1>1, <1>2, <1>4, <1>5, OpStep

\* RamInv for the next state.
Agrees ==
    /\ "ahead" \notin exposed' => HoldsIn(store', file', contents', graph')
    /\ exposed' \cap SessionWindows = {} =>
            Len(file'.recs) = store'.node_count /\ file'.end = "aligned"

\* A created index is empty, on disk and in RAM.
LEMMA CreatedAgrees ==
    ASSUME Inv, [Next]_vars, ~DiskExposed, CreateSegment
    PROVE  Agrees
<1>1. /\ pc = "create_segment" /\ graph' = Empty /\ store' = store /\ contents' = contents
      /\ file' = [NoFile EXCEPT !.header = "ok"]
    BY DEF CreateSegment
<1>2. store.node_count = 0
    BY <1>1 DEF Inv, CreateInv
<1>3. file' \in Files /\ Len(file'.recs) = 0 /\ file'.end = "aligned"
    BY <1>1, NewFile
<1>4. PICK g : HoldsIn(store, file, contents, g)
    BY DEF Inv, DiskInv
<1>5. g = Empty /\ HoldsIn(store, file', contents, g)
    BY <1>2, <1>3, <1>4, HoldsNothing
<1>. QED
    BY <1>1, <1>2, <1>3, <1>5 DEF Agrees

\* An opened index is what the disk holds.
LEMMA OpenedAgrees ==
    ASSUME Inv, ~DiskExposed, open, pc' = "idle"
    PROVE  Agrees
<1>1. /\ pc = "down" /\ file' = set_len(file, store.node_count) /\ store' = store /\ contents' = contents
    BY DEF open, OpensOn
<1>2. graph' = Reloaded(store, set_len(file, store.node_count))
    BY <1>1 DEF open, OpensOn
<1>3. PICK g : HoldsIn(store, file, contents, g)
    BY DEF Inv, DiskInv
<1>4. file \in Files
    BY DEF Inv, TypeInv
<1>5. graph' = g
    BY <1>2, <1>3, <1>4, HoldsReloads
<1>6. HoldsIn(store, file', contents, g) /\ Len(file'.recs) = store.node_count /\ file'.end = "aligned"
    BY <1>1, <1>3, <1>4, HoldsCut
<1>. QED
    BY <1>1, <1>5, <1>6 DEF Agrees

\* An insert that appended and got no further leaves strays.
LEMMA StrayAgrees ==
    ASSUME Inv, [Next]_vars, ~DiskExposed, InsertRefused \/ InsertAppendFails
    PROVE  Agrees
<1>1. /\ pc = "append" /\ graph' = graph /\ store' = store /\ contents' = contents
      /\ exposed' = exposed \cup {"stray"} \/ (exposed' = exposed /\ file' = file)
    BY DEF InsertRefused, InsertAppendFails
<1>2. TypeInv /\ file \in Files
    BY DEF Inv, TypeInv
<1>3. Extends(file, file')
    BY <1>1, <1>2, FileStep
<1>4. ASSUME "ahead" \notin exposed' PROVE HoldsIn(store', file', contents', graph')
    <2>1. "ahead" \notin exposed
        BY <1>1, <1>4
    <2>2. HoldsIn(store, file, contents, graph)
        BY <1>1, <2>1 DEF Inv, RamInv
    <2>. QED
        BY <1>1, <1>2, <1>3, <2>2, HoldsExtended
<1>5. ASSUME exposed' \cap SessionWindows = {}
      PROVE  Len(file'.recs) = store'.node_count /\ file'.end = "aligned"
    <2>1. file' = file /\ exposed \cap SessionWindows = {}
        BY <1>1, <1>5 DEF SessionWindows
    <2>. QED
        BY <1>1, <2>1 DEF Inv, RamInv
<1>. QED
    BY <1>4, <1>5 DEF Agrees

\* RamInv is kept.
LEMMA RamStep ==
    ASSUME Inv, [Next]_vars
    PROVE  RamInv'
<1>1. SUFFICES ASSUME ~DiskExposed', pc' \in {"idle", "append"} PROVE Agrees
    BY DEF RamInv, Agrees, DiskExposed
<1>2. TypeInv
    BY DEF Inv
<1>3. ~DiskExposed
    BY <1>1, <1>2, ExposedStep
<1>4. CASE InsertCommits /\ Commits(store, store', InsertedRows(store.rows, graph, op.touched), graph)
           /\ contents' = Plus(contents, op.points[1].id, op.points[1].val)
    BY <1>1, <1>4, CommitStep DEF Agrees
<1>5. CASE compact /\ Commits(store, store', AllRows(graph'), graph') /\ contents' = contents
    BY <1>1, <1>5, CompactStep DEF Agrees
<1>6. CASE BulkFlushes /\ Commits(store, store', AllRows(graph'), graph') /\ contents' = Held(graph')
    BY <1>1, <1>6, BulkStep DEF Agrees
<1>7. ASSUME NEW id \in Ids, remove(id),
             Commits(store, store', RemovedRows(store.rows, graph', NodeOf(graph, id)), graph'),
             contents' = [other \in DOMAIN contents \ {id} |-> contents[other]]
      PROVE  Agrees
    BY <1>1, <1>7, RemoveStep DEF Agrees
<1>8. CASE CreateSegment
    BY <1>3, <1>8, CreatedAgrees
<1>9. CASE open
    <2>1. pc' = "idle"
        BY <1>1, <1>9 DEF open, OpensOn
    <2>. QED
        BY <1>3, <1>9, <2>1, OpenedAgrees
<1>10. CASE InsertRefused \/ InsertAppendFails
    BY <1>3, <1>10, StrayAgrees
<1>11. CASE InsertCommitFails \/ (\E id \in Ids : RemoveCommitFails(id)) \/ CompactFlushFails
    <2>1. "ahead" \in exposed'
        BY <1>11 DEF InsertCommitFails, RemoveCommitFails, CompactFlushFails
    <2>. QED
        BY <2>1 DEF Agrees, SessionWindows
<1>12. CASE (\E id \in Ids : \E v \in Values : \E width \in 1..MaxWidth : insert(id, v, width))
            \/ OpenRefused \/ UNCHANGED vars
    <2>1. /\ pc \in {"idle", "append"} /\ graph' = graph /\ store' = store /\ file' = file
          /\ contents' = contents /\ exposed' = exposed
        BY <1>1, <1>12 DEF insert, OpenRefused, vars
    <2>. QED
        BY <1>3, <2>1 DEF Inv, RamInv, Agrees
<1>13. ~(\/ CreateCommits \/ CreateRefused \/ BulkAppends \/ InsertAppends \/ OpenFails \/ BulkFails
         \/ (\E n \in 0..MaxLoad : \E ids \in [1..n -> Ids] : \E vals \in [1..n -> Values] :
                create([k \in 1..n |-> [id |-> ids[k], val |-> vals[k]]]))
         \/ Close \/ Crash)
    BY <1>1 DEF CreateCommits, CreateRefused, BulkAppends, InsertAppends, OpenFails, BulkFails, create,
        Close, Crash
<1>14. ASSUME BulkFlushes \/ compact \/ InsertCommits \/ \E id \in Ids : remove(id)
       PROVE  Agrees
    BY <1>2, <1>4, <1>5, <1>6, <1>7, <1>14, Transactions
<1>. QED
    BY <1>8, <1>9, <1>10, <1>11, <1>12, <1>13, <1>14, NextCases

-----------------------------------------------------------------------------
(* The theorems.                                                            *)

\* It holds initially.
LEMMA InvInit == ASSUME Init PROVE Inv
<1>1. /\ graph = Empty /\ store = NoStore /\ file = NoFile /\ pc = "down" /\ op = NoOp
      /\ contents = <<>> /\ exposed = {}
    BY DEF Init
<1>2. /\ store.state = "absent" /\ store.rows = <<>> /\ store.entry = None /\ store.node_count = 0
      /\ IsStore(store)
    BY <1>1 DEF NoStore, IsStore
<1>3. file \in Files /\ Len(file.recs) = 0
    <2>1. <<>> \in Seq(Cells)
        OBVIOUS
    <2>. QED
        BY <1>1, <2>1 DEF NoFile, Files, Ends
<1>4. OpT(op)
    <2>1. op.points = <<>> /\ op.touched = {}
        BY <1>1 DEF NoOp
    <2>2. PointsOK(<<>>)
        BY DEF PointsOK, IsSeq
    <2>. QED
        BY <1>1, <2>1, <2>2 DEF OpT, NoOp
<1>5. Sound(Empty) /\ LiveIds(Empty) = {} /\ Indices(Empty) = {} /\ Len(Empty.nodes) = 0 /\ Empty.entry = None
    BY EmptySound DEF Empty
<1>6. GraphT(graph) /\ StoreT(store)
    BY <1>1, <1>2, <1>5, GraphAssumption DEF GraphT, Sound, StoreT, RowsOK, None
<1>7. TypeInv
    BY <1>1, <1>3, <1>4, <1>6 DEF TypeInv, PhaseInv
<1>8. HoldsIn(store, file, contents, Empty)
    <2>1. Held(Empty) = <<>>
        <3>1. Held(Empty) = [id \in {} |-> Empty.nodes[NodeOf(Empty, id)].val]
            BY <1>5 DEF Held
        <3>. QED
            BY <3>1
    <2>2. AllRows(Empty) = <<>>
        <3>1. AllRows(Empty) = [n \in {} |-> node_snapshot(Empty, n)]
            BY <1>5 DEF AllRows
        <3>. QED
            BY <3>1
    <2>3. Newest(Empty)
        BY <1>5 DEF Newest
    <2>4. Mirrors(store, file, Empty)
        BY <1>2, <1>3, <1>5, <2>2 DEF Mirrors
    <2>. QED
        BY <1>1, <1>5, <2>1, <2>3, <2>4 DEF HoldsIn
<1>. QED
    BY <1>1, <1>2, <1>7, <1>8 DEF Inv, DiskInv, RamInv, CommitInv, CreateInv

(***************************************************************************)
(* The inductive invariant: types, and what disk and RAM hold at each point *)
(* of each operation.                                                       *)
(***************************************************************************)
THEOREM InvAlways == Spec => []Inv
<1>1. Init => Inv
    BY InvInit
<1>2. Inv /\ [Next]_vars => Inv'
    BY TypeStep, DiskStep, RamStep, PendingStep, CreateStep DEF Inv
<1>. QED
    BY <1>1, <1>2, PTL DEF Spec

(***************************************************************************)
(* Every variable has its type: the lists, rows and touched sets of         *)
(* persistent_hnsw.rs never name a node index past the bound, through every *)
(* reload of rows that parted from the records.                             *)
(***************************************************************************)
THEOREM TypeCorrect == Spec => []TypeOK
<1>1. TypeInv => TypeOK
    <2> SUFFICES ASSUME TypeInv PROVE TypeOK
        OBVIOUS
    <2>1. Shape(graph) /\ Len(graph.nodes) \in Nat /\ Len(graph.nodes) <= MaxNodes /\ MaxNodes \in Nat
        BY ShapeFacts, GraphAssumption DEF TypeInv, GraphT
    <2>2. Indices(graph) \subseteq 1..MaxNodes
        BY <2>1 DEF Indices
    <2>3. ASSUME NEW n \in Indices(graph) PROVE IsNode(graph.nodes[n])
        <3>1. NodeShape(graph.nodes[n], Indices(graph))
            BY <2>1 DEF Shape
        <3>. QED
            BY <2>2, <3>1 DEF NodeShape, IsNode
    <2>4. GraphOK(graph)
        BY <2>1, <2>3 DEF GraphOK, Shape
    <2>. QED
        BY <2>4 DEF TypeInv, StoreT, RowsOK, OpT, PhaseInv, TypeOK
<1>. QED
    BY <1>1, InvAlways, PTL DEF Inv

(***************************************************************************)
(* persistent_hnsw.rs:14, "reloads the full graph EXACTLY": whatever        *)
(* inserts, removes, compactions, crashes and reopens came before, the rows *)
(* that touched-node transactions wrote and the records of the segment      *)
(* rebuild the graph in RAM to the last neighbour list.                     *)
(***************************************************************************)
THEOREM AlwaysReloadsExactly == Spec => []ReloadsExactly
<1>1. Inv => ReloadsExactly
    <2> SUFFICES ASSUME Inv, pc = "idle", ~DiskExposed, "ahead" \notin exposed
                 PROVE  Reloadable(store) /\ OnDisk = graph
        BY DEF ReloadsExactly
    <2>1. HoldsIn(store, file, contents, graph) /\ file \in Files
        BY DEF Inv, RamInv, TypeInv
    <2>. QED
        BY <2>1, HoldsReloads DEF OnDisk
<1>. QED
    BY <1>1, InvAlways, PTL

\* With no disk window hit, the disk decodes to the committed contents.
LEMMA InvDurable == ASSUME Inv PROVE DurableContents
<1> SUFFICES ASSUME ~DiskExposed, Openable
             PROVE  Reloadable(store) /\ Closed(OnDisk) /\ Held(OnDisk) = contents
    BY DEF DurableContents
<1>1. PICK g : HoldsIn(store, file, contents, g)
    BY DEF Inv, DiskInv
<1>2. file \in Files
    BY DEF Inv, TypeInv
<1>3. Reloadable(store) /\ Closed(g) /\ OnDisk = g
    BY <1>1, <1>2, HoldsReloads DEF OnDisk
<1>. QED
    BY <1>1, <1>3 DEF HoldsIn

(***************************************************************************)
(* Unless a disk window was hit, PersistentHnswIndex::open after a crash at *)
(* any moment succeeds and serves the committed inserts minus the committed *)
(* removes, each under the vector it was inserted with.                     *)
(***************************************************************************)
THEOREM ContentsAlwaysDurable == Spec => []DurableContents
BY InvDurable, InvAlways, PTL

\* So what the port shows is the contents.
LEMMA StoredIsContents == ASSUME Inv, ~DiskExposed PROVE Stored = contents
<1>1. CASE Openable
    BY <1>1, InvDurable DEF DurableContents, Stored
<1>2. CASE ~Openable
    <2>1. PICK g : HoldsIn(store, file, contents, g)
        BY DEF Inv, DiskInv
    <2>2. store.node_count = 0
        BY <1>2 DEF Inv, DiskInv
    <2>3. contents = <<>>
        BY <2>1, <2>2, HoldsNothing
    <2>. QED
        BY <1>2, <2>3 DEF Stored
<1>. QED
    BY <1>1, <1>2

\* A step that hits no disk window changes the contents as the port does.
Inserts(new) ==
    /\ \E S \in SUBSET Ids : new \in [S -> Values]
    /\ DOMAIN new \cap DOMAIN contents = {}
    /\ contents' = [id \in DOMAIN contents \cup DOMAIN new |->
                        IF id \in DOMAIN new THEN new[id] ELSE contents[id]]
Removes(id) ==
    /\ id \in DOMAIN contents
    /\ contents' = [other \in DOMAIN contents \ {id} |-> contents[other]]

\* One of them, or not at all.
LEMMA ContentsStep ==
    ASSUME Inv, [Next]_vars, ~DiskExposed'
    PROVE  contents' = contents \/ (\E new : Inserts(new)) \/ \E id \in Ids : Removes(id)
<1>1. TypeInv
    BY DEF Inv
<1>2. CASE Quiet \/ contents' = contents
    BY <1>2 DEF Quiet
<1>3. CASE /\ InsertCommits
           /\ Commits(store, store', InsertedRows(store.rows, graph, op.touched), graph)
           /\ contents' = Plus(contents, op.points[1].id, op.points[1].val)
    <2> DEFINE id == op.points[1].id
               v == op.points[1].val
               new == [x \in {id} |-> v]
    <2>1. id \in Ids \ DOMAIN contents /\ v \in Values
        BY <1>3, CommitStep
    <2>2. contents' = Plus(contents, id, v)
        BY <1>3
    <2> HIDE DEF id, v
    <2>3. DOMAIN new = {id} /\ {id} \in SUBSET Ids /\ new \in [{id} -> Values] /\ new[id] = v
        BY <2>1
    <2> HIDE DEF new
    <2>4. contents' = [x \in DOMAIN contents \cup DOMAIN new |->
                            IF x \in DOMAIN new THEN new[x] ELSE contents[x]]
        BY <2>2, <2>3 DEF Plus
    <2>5. DOMAIN new \cap DOMAIN contents = {}
        BY <2>1, <2>3
    <2>6. Inserts(new)
        BY <2>3, <2>4, <2>5 DEF Inserts
    <2>. QED
        BY <2>6
<1>4. CASE BulkFlushes /\ Commits(store, store', AllRows(graph'), graph') /\ contents' = Held(graph')
    <2>1. /\ contents = <<>> /\ DOMAIN contents' \subseteq Ids
          /\ \A id \in DOMAIN contents' : contents'[id] \in Values
        BY <1>4, BulkStep
    <2>2. contents' = [id \in LiveIds(graph') |-> contents'[id]] /\ DOMAIN contents' = LiveIds(graph')
        BY <1>4 DEF Held
    <2>3. PICK new : new = contents'
        OBVIOUS
    <2>4. DOMAIN new \in SUBSET Ids /\ new \in [DOMAIN new -> Values]
        BY <2>1, <2>2, <2>3
    <2>5. DOMAIN contents = {}
        BY <2>1
    <2>6. contents' = [id \in DOMAIN contents \cup DOMAIN new |->
                            IF id \in DOMAIN new THEN new[id] ELSE contents[id]]
        BY <2>2, <2>3, <2>5
    <2>7. Inserts(new)
        BY <2>4, <2>5, <2>6 DEF Inserts
    <2>. QED
        BY <2>7
<1>5. ASSUME NEW id \in Ids, remove(id),
             Commits(store, store', RemovedRows(store.rows, graph', NodeOf(graph, id)), graph'),
             contents' = [other \in DOMAIN contents \ {id} |-> contents[other]]
      PROVE  Removes(id)
    BY <1>5, RemoveStep DEF Removes
<1>. QED
    BY <1>1, <1>2, <1>3, <1>4, <1>5, QuietCases

(***************************************************************************)
(* persistent_hnsw.rs implements the VectorIndex port: until a failure hits *)
(* a disk window, every step of every operation, error, crash and reopen    *)
(* maps to one whole Insert, one Remove or a stutter.                       *)
(***************************************************************************)
THEOREM HnswImplementsVectorIndex == Spec => ImplementsVectorIndex
<1>1. Init => Port!Init
    <2> SUFFICES ASSUME Init PROVE Stored = <<>> /\ (~DiskExposed) = TRUE
        BY DEF Port!Init
    <2>1. ~DiskExposed /\ contents = <<>>
        BY DEF Init, DiskExposed
    <2>. QED
        BY <2>1, InvInit, StoredIsContents
<1> DEFINE Shown == ~DiskExposed => Stored = contents
<1>2. Inv /\ Shown' /\ [Next]_vars => [Port!Next]_(Port!vars)
    <2> SUFFICES ASSUME Inv, Shown', [Next]_vars PROVE [Port!Next]_(Port!vars)
        OBVIOUS
    <2>1. CASE DiskExposed'
        BY <2>1 DEF Port!Next
    <2>2. CASE ~DiskExposed'
        <3>1. ~DiskExposed
            BY <2>2, ExposedStep DEF Inv
        <3>2. Stored = contents
            BY <3>1, StoredIsContents
        <3>3. Stored' = contents'
            BY <2>2
        <3>4. CASE contents' = contents
            BY <2>2, <3>1, <3>2, <3>3, <3>4 DEF Port!vars
        <3>5. CASE \E new : Inserts(new)
            <4>1. PICK new : Inserts(new)
                BY <3>5
            <4>2. PICK S \in SUBSET Ids : new \in [S -> Values]
                BY <4>1 DEF Inserts
            <4>3. Port!Insert(new)
                BY <3>2, <3>3, <4>1 DEF Port!Insert, Inserts
            <4>. QED
                BY <2>2, <3>1, <4>2, <4>3 DEF Port!Next
        <3>6. CASE \E id \in Ids : Removes(id)
            <4>1. PICK id \in Ids : Removes(id)
                BY <3>6
            <4>2. Port!Remove(id)
                BY <3>2, <3>3, <4>1 DEF Port!Remove, Removes
            <4>. QED
                BY <2>2, <3>1, <4>2 DEF Port!Next
        <3>. QED
            BY <2>2, <3>4, <3>5, <3>6, ContentsStep
    <2>. QED
        BY <2>1, <2>2
<1>3. Inv => Shown
    BY StoredIsContents
<1>. QED
    BY <1>1, <1>2, <1>3, InvAlways, PTL DEF Spec, ImplementsVectorIndex, Port!Spec
=============================================================================
