----------------------------- MODULE HnswGraph -----------------------------
(***************************************************************************)
(* The in-memory HNSW graph (eidosdb-hnsw, graph.rs and index.rs): nodes in *)
(* insertion order, each with a neighbour list per layer, tombstones for    *)
(* removed vectors, and an entry point.                                     *)
(*                                                                          *)
(* Distances are abstracted: which of the nodes a search can reach come     *)
(* first, and which of them the selection heuristic keeps, is a choice, so  *)
(* the model covers every placement of the vectors.  What the code          *)
(* guarantees whatever the distances is kept: the closest candidate is      *)
(* always selected and starts the search one layer down, and a list never   *)
(* exceeds its limit.  Beams are wide enough to hold every node.  Node      *)
(* indices start at 1.                                                      *)
(***************************************************************************)
EXTENDS Integers, Sequences, FiniteSets

CONSTANTS
    Ids,            \* vector ids
    Values,         \* embeddings
    M,              \* HnswConfig::m
    MaxLevel,       \* bound: level the RNG draws
    MaxNodes        \* bound: nodes of the graph, tombstones included

ASSUME GraphAssumption ==
    /\ M \in Nat \ {0} /\ MaxLevel \in Nat /\ MaxNodes \in Nat

None == 0

VARIABLE graph      \* [nodes, entry]; the live map is derived from the nodes

Empty == [nodes |-> <<>>, entry |-> None]

m_limit(layer) == IF layer = 0 THEN 2 * M ELSE M

Indices(g) == 1..Len(g.nodes)
LiveNodes(g) == {n \in Indices(g) : g.nodes[n].tombstone = "no"}
LiveIds(g) == {g.nodes[n].id : n \in LiveNodes(g)}
level(g, n) == g.nodes[n].level

\* The neighbour list of n at a layer, empty above the node's level.
neighbors(g, n, layer) == IF layer <= level(g, n) THEN g.nodes[n].neighbors[layer] ELSE {}

\* The nodes a search at one layer visits from the nodes in S, tombstones included.
Reach(g, S, layer) ==
    LET within[k \in 0..Len(g.nodes)] ==
            IF k = 0 THEN S
            ELSE within[k - 1] \cup UNION {neighbors(g, n, layer) : n \in within[k - 1]}
    IN within[Len(g.nodes)]

\* greedy_descent: where it may end, going down from one layer to another.
Descent(g, start, from, to) ==
    LET down[k \in 0..(from + 1)] == IF k > from THEN {start} ELSE Reach(g, down[k + 1], k)
    IN IF from < to THEN {start} ELSE down[to]

\* beam_search admits live nodes only, but navigates all of them.
Candidates(g, start, layer) == Reach(g, {start}, layer) \cap LiveNodes(g)

-----------------------------------------------------------------------------
(* insert_tracked.                                                          *)

add_node(g, id, v, l) ==
    [g EXCEPT !.nodes = Append(@, [id |-> id, val |-> v, level |-> l, tombstone |-> "no",
                                   neighbors |-> [layer \in 0..l |-> {}]])]

\* The layers the new node is linked on: none in a graph without entry point.
LinkedLayers(g, l) ==
    IF g.entry = None THEN {}
    ELSE 0..(IF l <= level(g, g.entry) THEN l ELSE level(g, g.entry))

(***************************************************************************)
(* What select_neighbors_heuristic may choose on each layer: sel[k] among   *)
(* the candidates found from start[k].  The best candidate of a layer is    *)
(* always selected, and the search of the layer below starts there.         *)
(***************************************************************************)
Selections(g, l) ==
    LET layers == LinkedLayers(g, l)
        tops == IF g.entry = None THEN {} ELSE Descent(g, g.entry, level(g, g.entry), l + 1)
    IN { sel \in [layers -> SUBSET LiveNodes(g)] :
            \E start \in [layers -> Indices(g)] : \A k \in layers :
                /\ start[k] \in IF k + 1 \notin layers THEN tops
                                ELSE IF sel[k + 1] = {} THEN {start[k + 1]} ELSE sel[k + 1]
                /\ sel[k] \subseteq Candidates(g, start[k], k)
                /\ sel[k] = {} <=> Candidates(g, start[k], k) = {}
                /\ Cardinality(sel[k]) <= m_limit(k) }

\* Mutant: a list is cut only once it is two nodes too long.
OverfullLate(g, sel) ==
    {p \in UNION {sel[k] \X {k} : k \in DOMAIN sel} :
        Cardinality(neighbors(g, p[1], p[2])) > m_limit(p[2])}

\* The lists of selected nodes that the new node makes too long, <<node, layer>>.
Overfull(g, sel) ==
    {p \in UNION {sel[k] \X {k} : k \in DOMAIN sel} :
        Cardinality(neighbors(g, p[1], p[2])) >= m_limit(p[2])}

\* What the heuristic may keep of each of them: within the limit, its closest at least.
Prunings(g, sel) ==
    {keep \in [Overfull(g, sel) -> SUBSET (Indices(g) \cup {Len(g.nodes) + 1})] :
        \A p \in Overfull(g, sel) :
            /\ keep[p] \subseteq neighbors(g, p[1], p[2]) \cup {Len(g.nodes) + 1}
            /\ keep[p] # {} /\ Cardinality(keep[p]) <= m_limit(p[2])}

\* Mutant: a node above the entry point's level does not become the entry point.
EntryKept(g, l) == IF g.entry = None THEN Len(g.nodes) + 1 ELSE g.entry

\* Mutant: the node count after the insert is taken for the new index.
EntryBeyond(g, l) == Len(g.nodes) + 2

EntryAfterInsert(g, l) ==
    IF g.entry = None THEN Len(g.nodes) + 1
    ELSE IF l > level(g, g.entry) THEN Len(g.nodes) + 1 ELSE g.entry

\* A node with other lists.
Relisted(node, lists) == [node EXCEPT !.neighbors = lists]

\* The graph with the new node linked to sel and the overfull lists cut to keep.
Linked(g, id, v, l, sel, keep) ==
    LET wide == add_node(g, id, v, l)
        new == Len(wide.nodes)
        list(n, k) ==
            IF k \notin DOMAIN sel THEN wide.nodes[n].neighbors[k]
            ELSE IF n = new THEN sel[k]
            ELSE IF <<n, k>> \in DOMAIN keep THEN keep[<<n, k>>]
            ELSE wide.nodes[n].neighbors[k] \cup (IF n \in sel[k] THEN {new} ELSE {})
    IN [nodes |-> [n \in Indices(wide) |->
                      Relisted(wide.nodes[n], [k \in 0..level(wide, n) |-> list(n, k)])],
        entry |-> EntryAfterInsert(g, l)]

\* Mutant: the rows of the neighbours that got a new link are not reported.
TouchedNew(g, sel) == {Len(g.nodes) + 1}

\* InsertDelta::touched_nodes: the nodes whose rows the insert changed.
Touched(g, sel) == {Len(g.nodes) + 1} \cup UNION {sel[k] : k \in DOMAIN sel}

(***************************************************************************)
(* The outcomes of insert_tracked for an id that is not live (a live one is *)
(* refused): one for each level the RNG may draw and each set of links.     *)
(***************************************************************************)
insert_tracked(g, id, v) ==
    { [graph |-> Linked(g, id, v, c.level, c.sel, c.keep),
       touched |-> Touched(g, c.sel)] :
      c \in UNION {UNION {{[level |-> l, sel |-> sel, keep |-> keep] : keep \in Prunings(g, sel)} :
                              sel \in Selections(g, l)} : l \in 0..MaxLevel} }

-----------------------------------------------------------------------------
(* remove_tracked and compact.                                              *)

\* Mutant: the first live node is elected, whatever its level.
FirstLive(g) ==
    IF LiveNodes(g) = {} THEN None
    ELSE CHOOSE n \in LiveNodes(g) : \A other \in LiveNodes(g) : n <= other

\* max_by_key over the live nodes: the highest level, the last one on a tie.
Elected(g) ==
    IF LiveNodes(g) = {} THEN None
    ELSE CHOOSE n \in LiveNodes(g) : \A other \in LiveNodes(g) :
            \/ level(g, other) < level(g, n)
            \/ level(g, other) = level(g, n) /\ other <= n

\* id_to_node: the live map holds the node added last for the id.
NodeOf(g, id) ==
    CHOOSE n \in LiveNodes(g) :
        g.nodes[n].id = id /\ \A m \in LiveNodes(g) : g.nodes[m].id = id => m <= n

\* Mutant: a removed node gives up its lists.
remove_unlinks(g, id) ==
    LET n == NodeOf(g, id)
        buried == [g EXCEPT !.nodes[n].tombstone = "yes",
                            !.nodes[n].neighbors = [k \in DOMAIN @ |-> {}]]
    IN [buried EXCEPT !.entry = IF g.entry = n THEN Elected(buried) ELSE @]

\* Graph::tombstone: the node stays, with its lists, for navigation.
tombstone(g, n) == [g EXCEPT !.nodes[n].tombstone = "yes"]

remove_tracked(g, id) ==
    LET n == NodeOf(g, id)
        buried == tombstone(g, n)
    IN [nodes |-> buried.nodes, entry |-> IF g.entry = n THEN Elected(buried) ELSE g.entry]

\* Mutant: compact collects the first node of every id, tombstone or not.
FirstPoints(g) ==
    LET first == {n \in Indices(g) : \A m \in Indices(g) : g.nodes[m].id = g.nodes[n].id => n <= m}
        nth(k) == CHOOSE n \in first : Cardinality({m \in first : m <= n}) = k
    IN [k \in 1..Cardinality(first) |-> [id |-> g.nodes[nth(k)].id, val |-> g.nodes[nth(k)].val]]

\* The live vectors in node order, as compact collects them.
LivePoints(g) ==
    LET nth(k) == CHOOSE n \in LiveNodes(g) : Cardinality({m \in LiveNodes(g) : m <= n}) = k
    IN [k \in 1..Cardinality(LiveNodes(g)) |->
            [id |-> g.nodes[nth(k)].id, val |-> g.nodes[nth(k)].val]]

\* bulk_insert of distinct ids into an empty graph: the graphs it may build.
Built(points) ==
    LET after[k \in 0..Len(points)] ==
            IF k = 0 THEN {Empty}
            ELSE UNION {{o.graph : o \in insert_tracked(g, points[k].id, points[k].val)} :
                            g \in after[k - 1]}
    IN after[Len(points)]

\* What the graph stores: every live id with its embedding.
Held(g) == [id \in LiveIds(g) |-> g.nodes[NodeOf(g, id)].val]

-----------------------------------------------------------------------------
(* Correctness of a graph.                                                  *)

IsNode(n) ==
    /\ n.id \in Ids /\ n.level \in 0..MaxLevel /\ n.tombstone \in {"no", "yes"}
    /\ n.neighbors \in [0..n.level -> SUBSET (1..MaxNodes)]

GraphOK(g) ==
    /\ \A n \in Indices(g) : IsNode(g.nodes[n])
    /\ g.entry \in {None} \cup Indices(g)

(***************************************************************************)
(* An id is live in at most one node, and every list holds other nodes of   *)
(* the graph that exist on its layer, no more of them than its limit.       *)
(***************************************************************************)
WellLinked ==
    /\ \A m, n \in LiveNodes(graph) : graph.nodes[m].id = graph.nodes[n].id => m = n
    /\ \A n \in Indices(graph) : \A k \in 0..level(graph, n) :
        /\ Cardinality(neighbors(graph, n, k)) <= m_limit(k)
        /\ \A other \in neighbors(graph, n, k) :
            other \in Indices(graph) \ {n} /\ level(graph, other) >= k

(***************************************************************************)
(* The entry point is a live node of the highest live level, and there is   *)
(* one whenever anything is live: the descent skips no layer that holds a   *)
(* live vector, through any order of inserts, removals and re-elections.    *)
(***************************************************************************)
EntryIsTop ==
    IF LiveNodes(graph) = {} THEN graph.entry = None
    ELSE /\ graph.entry \in LiveNodes(graph)
         /\ \A n \in LiveNodes(graph) : level(graph, n) <= level(graph, graph.entry)

(***************************************************************************)
(* As long as no list of layer 0 can have been cut, search_filtered visits  *)
(* every live vector wherever its greedy descent ends: removals leave the   *)
(* tombstones in place for navigation, and a new entry point is one of the  *)
(* nodes they connect.                                                      *)
(***************************************************************************)
LiveReachable ==
    (graph.entry # None /\ Len(graph.nodes) <= m_limit(0) + 1) =>
        \A start \in Descent(graph, graph.entry, level(graph, graph.entry), 1) :
            LiveNodes(graph) \subseteq Reach(graph, {start}, 0)
=============================================================================
