-------------------------- MODULE HnswIndex_proofs --------------------------
(***************************************************************************)
(* Theorems about HnswIndex, for every degree, level, number of nodes and   *)
(* set of ids: what the run on a few nodes checks holds through any         *)
(* sequence of inserts, removals and compactions.                           *)
(***************************************************************************)
EXTENDS HnswIndex, HnswGraph_proofs

-----------------------------------------------------------------------------
(* The queue of a compaction.                                               *)

Waiting(t) == {t[k].id : k \in 1..Len(t)}

\* Points under distinct ids, none of them in the graph.
Queue(g, t) ==
    /\ IsSeq(t) /\ Len(t) \in Nat
    /\ \A k \in 1..Len(t) : t[k].id \in Ids
    /\ DistinctIds(t)
    /\ Waiting(t) \cap LiveIds(g) = {}

\* What the queue and the graph store.
StoredOf(g, t) ==
    [id \in LiveIds(g) \cup Waiting(t) |->
        IF id \in Waiting(t) THEN t[CHOOSE k \in 1..Len(t) : t[k].id = id].val
        ELSE g.nodes[NodeOf(g, id)].val]

IndexInv == Sound(graph) /\ Queue(graph, todo)

\* Stored, in this state and in the next.
LEMMA StoredIn == Stored = StoredOf(graph, todo) /\ Stored' = StoredOf(graph', todo')
BY DEF Stored, StoredOf, Waiting, LiveIds, LiveNodes, Indices, NodeOf

\* A function that gives every live node and every waiting point its embedding.
Represents(f, g, t) ==
    /\ f = [id \in LiveIds(g) \cup Waiting(t) |-> f[id]]
    /\ \A n \in LiveNodes(g) : f[g.nodes[n].id] = g.nodes[n].val
    /\ \A k \in 1..Len(t) : f[t[k].id] = t[k].val

\* StoredOf does.
LEMMA StoredFacts ==
    ASSUME NEW g, Sound(g), NEW t, Queue(g, t)
    PROVE  Represents(StoredOf(g, t), g, t)
<1> DEFINE f == StoredOf(g, t)
<1>1. f = [id \in LiveIds(g) \cup Waiting(t) |-> f[id]]
    BY DEF StoredOf
<1>2. ASSUME NEW id \in LiveIds(g) PROVE f[id] = Held(g)[id]
    <2>1. id \notin Waiting(t)
        BY DEF Queue
    <2>2. f[id] = g.nodes[NodeOf(g, id)].val
        BY <2>1 DEF StoredOf
    <2>. QED
        BY <2>2 DEF Held
<1>3. \A n \in LiveNodes(g) : f[g.nodes[n].id] = g.nodes[n].val
    BY <1>2, HeldOf DEF Sound
<1>4. ASSUME NEW k \in 1..Len(t) PROVE f[t[k].id] = t[k].val
    <2> DEFINE id == t[k].id
               j == CHOOSE i \in 1..Len(t) : t[i].id = id
    <2>1. id \in Waiting(t)
        BY DEF Waiting
    <2>2. j \in 1..Len(t) /\ t[j].id = id
        OBVIOUS
    <2>3. j = k
        BY <2>2 DEF Queue, DistinctIds
    <2>4. f[id] = t[j].val
        BY <2>1 DEF StoredOf
    <2>. QED
        BY <2>3, <2>4
<1> HIDE DEF f
<1>5. Represents(f, g, t)
    BY <1>1, <1>3, <1>4 DEF Represents
<1>. QED
    BY <1>5 DEF f

\* And no other function does.
LEMMA StoredIs ==
    ASSUME NEW g, Sound(g), NEW t, Queue(g, t), NEW f, Represents(f, g, t)
    PROVE  StoredOf(g, t) = f
<1> DEFINE s == StoredOf(g, t)
<1>0. Represents(s, g, t)
    BY StoredFacts
<1> HIDE DEF s
<1>1. s = [id \in LiveIds(g) \cup Waiting(t) |-> s[id]]
      /\ f = [id \in LiveIds(g) \cup Waiting(t) |-> f[id]]
    BY <1>0 DEF Represents
<1>2. \A id \in LiveIds(g) : s[id] = f[id]
    <2>1. \A n \in LiveNodes(g) : s[g.nodes[n].id] = g.nodes[n].val
        BY <1>0, Zenon DEF Represents
    <2>2. \A n \in LiveNodes(g) : f[g.nodes[n].id] = g.nodes[n].val
        BY Zenon DEF Represents
    <2>. QED
        BY <2>1, <2>2 DEF LiveIds
<1>3. \A id \in Waiting(t) : s[id] = f[id]
    <2>1. \A k \in 1..Len(t) : s[t[k].id] = t[k].val
        BY <1>0, Zenon DEF Represents
    <2>2. \A k \in 1..Len(t) : f[t[k].id] = t[k].val
        BY Zenon DEF Represents
    <2>. QED
        BY <2>1, <2>2 DEF Waiting
<1>4. \A id \in LiveIds(g) \cup Waiting(t) : s[id] = f[id]
    BY <1>2, <1>3
<1>5. s = f
    BY <1>1, <1>4
<1>. QED
    BY <1>5 DEF s

\* Outside a compaction the graph stores everything.
LEMMA StoredInGraph ==
    ASSUME NEW g, Sound(g)
    PROVE  Queue(g, <<>>) /\ StoredOf(g, <<>>) = Held(g)
<1>1. Len(<<>>) = 0 /\ IsSeq(<<>>)
    BY DEF IsSeq
<1>2. Waiting(<<>>) = {}
    BY <1>1 DEF Waiting
<1>3. Queue(g, <<>>)
    BY <1>1, <1>2 DEF Queue, DistinctIds
<1>4. StoredOf(g, <<>>) = [id \in LiveIds(g) |-> g.nodes[NodeOf(g, id)].val]
    BY <1>2 DEF StoredOf
<1>. QED
    BY <1>3, <1>4 DEF Held

-----------------------------------------------------------------------------
(* Compaction.                                                              *)

\* Collecting the live vectors moves all of them to the queue.
LEMMA CollectingKeeps ==
    ASSUME NEW g, Sound(g), NEW t, t = LivePoints(g)
    PROVE  Queue(Empty, t) /\ StoredOf(Empty, t) = Held(g)
<1> DEFINE live == LiveNodes(g)
           at(k) == Place(live, k)
<1>1. Shape(g) /\ Links(g)
    BY DEF Sound
<1>2. Collects(g, t)
    BY <1>1, LivePointsCollects
<1>3. IsSeq(t) /\ Len(t) \in Nat
    BY <1>2 DEF Collects
<1>4. ASSUME NEW k \in 1..Len(t)
      PROVE  /\ at(k) \in live /\ t[k].id = g.nodes[at(k)].id /\ t[k].val = g.nodes[at(k)].val
    BY <1>2 DEF Collects
<1>5. \A n \in live : \E k \in 1..Len(t) : at(k) = n
    BY <1>2 DEF Collects
<1>6. \A j, k \in 1..Len(t) : at(j) = at(k) => j = k
    BY <1>2 DEF Collects
<1> HIDE DEF at
<1>7. Waiting(t) = LiveIds(g)
    BY <1>4, <1>5 DEF Waiting, LiveIds
<1>8. DistinctIds(t)
    BY <1>1, <1>4, <1>6 DEF DistinctIds, Links
<1>9. \A n \in live : g.nodes[n].id \in Ids
    BY <1>1, ShapeFacts DEF Shape, NodeShape
<1>10. Queue(Empty, t)
    BY <1>3, <1>4, <1>8, <1>9, EmptySound DEF Queue
<1>11. LiveNodes(Empty) = {} /\ LiveIds(Empty) \cup Waiting(t) = LiveIds(g)
    BY <1>7, EmptySound DEF LiveNodes
<1>12. StoredOf(Empty, t) = Held(g)
    <2> DEFINE f == Held(g)
    <2>1. f = [id \in LiveIds(Empty) \cup Waiting(t) |-> f[id]]
        BY <1>11 DEF Held
    <2>2. \A k \in 1..Len(t) : f[t[k].id] = t[k].val
        BY <1>1, <1>4, HeldOf
    <2>3. \A n \in LiveNodes(Empty) : f[Empty.nodes[n].id] = Empty.nodes[n].val
        BY <1>11
    <2> HIDE DEF f
    <2>4. Represents(f, Empty, t)
        BY <2>1, <2>2, <2>3 DEF Represents
    <2>5. StoredOf(Empty, t) = f
        BY <1>10, <2>4, EmptySound, StoredIs
    <2>. QED
        BY <2>5 DEF f
<1>. QED
    BY <1>10, <1>12

\* Inserting the head of the queue moves it back.
LEMMA ReinsertingKeeps ==
    ASSUME NEW g, Sound(g), NEW t, Queue(g, t), t # <<>>,
           NEW o \in insert_tracked(g, Head(t).id, Head(t).val)
    PROVE  /\ Sound(o.graph) /\ Queue(o.graph, Tail(t))
           /\ StoredOf(o.graph, Tail(t)) = StoredOf(g, t)
<1> DEFINE id == t[1].id
           v == t[1].val
           h == o.graph
           s == Tail(t)
           f == StoredOf(g, t)
<1>1. PICK S : t \in Seq(S)
    BY DEF Queue, IsSeq
<1>2. /\ Len(t) \in Nat /\ Len(t) > 0 /\ 1 \in 1..Len(t)
      /\ Head(t) = t[1] /\ s \in Seq(S) /\ Len(s) = Len(t) - 1
      /\ \A k \in 1..Len(s) : s[k] = t[k + 1]
    BY <1>1
<1>3. id \in Ids /\ id \in Waiting(t) /\ id \notin LiveIds(g) /\ o \in insert_tracked(g, id, v)
    BY <1>2 DEF Queue, Waiting
<1> HIDE DEF s
<1>4. /\ Sound(h) /\ LiveIds(h) = LiveIds(g) \cup {id} /\ Held(h) = Plus(Held(g), id, v)
    <2> HIDE DEF id, v
    <2>. QED
        BY <1>3, InsertSound
<1>5. \A k \in 1..Len(s) : k + 1 \in 1..Len(t) /\ k + 1 # 1
    BY <1>2
<1>6. \A k \in 1..Len(t) : k = 1 \/ (k - 1 \in 1..Len(s) /\ (k - 1) + 1 = k)
    BY <1>2
<1>7. Waiting(s) \subseteq Waiting(t) /\ id \notin Waiting(s) /\ Waiting(t) \subseteq Waiting(s) \cup {id}
    <2>1. \A k \in 1..Len(s) : s[k].id = t[k + 1].id /\ t[k + 1].id # id
        BY <1>2, <1>5 DEF Queue, DistinctIds
    <2>2. Waiting(s) \subseteq Waiting(t) /\ id \notin Waiting(s)
        BY <1>5, <2>1 DEF Waiting
    <2>3. ASSUME NEW k \in 1..Len(t) PROVE t[k].id \in Waiting(s) \cup {id}
        <3>1. CASE k = 1
            BY <3>1
        <3>2. CASE k # 1
            <4>1. k - 1 \in 1..Len(s) /\ s[k - 1] = t[k]
                BY <1>2, <1>6, <3>2
            <4>. QED
                BY <4>1 DEF Waiting
        <3>. QED
            BY <3>1, <3>2
    <2>. QED
        BY <2>2, <2>3 DEF Waiting
<1>8. Queue(h, s)
    <2>1. IsSeq(s) /\ Len(s) \in Nat
        BY <1>2 DEF IsSeq
    <2>2. \A k \in 1..Len(s) : s[k].id \in Ids
        BY <1>2, <1>5 DEF Queue
    <2>3. DistinctIds(s)
        <3> SUFFICES ASSUME NEW i \in 1..Len(s), NEW j \in 1..Len(s), s[i].id = s[j].id PROVE i = j
            BY DEF DistinctIds
        <3>1. t[i + 1].id = t[j + 1].id /\ i + 1 \in 1..Len(t) /\ j + 1 \in 1..Len(t)
            BY <1>2, <1>5
        <3>2. i + 1 = j + 1
            BY <3>1 DEF Queue, DistinctIds
        <3>. QED
            BY <3>2
    <2>4. Waiting(s) \cap LiveIds(h) = {}
        BY <1>4, <1>7 DEF Queue
    <2>. QED
        BY <2>1, <2>2, <2>3, <2>4 DEF Queue
<1>9. /\ \A k \in 1..Len(t) : f[t[k].id] = t[k].val
      /\ \A x \in LiveIds(g) : f[x] = Held(g)[x]
    <2>1. Represents(f, g, t)
        BY StoredFacts
    <2> HIDE DEF f
    <2>2. \A n \in LiveNodes(g) : f[g.nodes[n].id] = g.nodes[n].val
        BY <2>1 DEF Represents
    <2>3. \A n \in LiveNodes(g) : Held(g)[g.nodes[n].id] = g.nodes[n].val
        BY HeldOf DEF Sound
    <2>4. \A x \in LiveIds(g) : f[x] = Held(g)[x]
        BY <2>2, <2>3 DEF LiveIds
    <2>. QED
        BY <2>1, <2>4 DEF Represents
<1>10. f = [x \in LiveIds(h) \cup Waiting(s) |-> f[x]]
    <2>1. LiveIds(h) \cup Waiting(s) = LiveIds(g) \cup Waiting(t)
        BY <1>3, <1>4, <1>7
    <2>2. f = [x \in LiveIds(g) \cup Waiting(t) |-> f[x]]
        BY DEF StoredOf
    <2>. QED
        BY <2>1, <2>2, Zenon
<1> HIDE DEF f, h
<1>11. \A n \in LiveNodes(h) : f[h.nodes[n].id] = h.nodes[n].val
    <2> TAKE n \in LiveNodes(h)
    <2> DEFINE x == h.nodes[n].id
    <2>1. x \in LiveIds(h) /\ Held(h)[x] = h.nodes[n].val
        BY <1>4, HeldOf DEF Sound
    <2>2. DOMAIN Held(g) = LiveIds(g)
        BY DEF Held
    <2>3. Held(h)[x] = IF x = id THEN v ELSE Held(g)[x]
        BY <1>4, <2>1, <2>2 DEF Plus
    <2>4. f[id] = v
        BY <1>2, <1>9
    <2> HIDE DEF x, id, v
    <2>5. f[x] = Held(h)[x]
        BY <1>4, <1>9, <2>1, <2>3, <2>4
    <2>. QED
        BY <2>1, <2>5 DEF x
<1>12. \A k \in 1..Len(s) : f[s[k].id] = s[k].val
    BY <1>2, <1>5, <1>9
<1>13. StoredOf(h, s) = f
    <2>1. Represents(f, h, s)
        BY <1>10, <1>11, <1>12 DEF Represents
    <2>. QED
        BY <1>4, <1>8, <2>1, StoredIs
<1>. QED
    BY <1>4, <1>8, <1>13 DEF h, s, f

-----------------------------------------------------------------------------
(* The steps.                                                               *)

\* What one step does to the stored vectors.
Changes(id, v) == Stored' = Plus(Stored, id, v) /\ id \notin DOMAIN Stored
Drops(id) == id \in DOMAIN Stored /\ Stored' = [x \in DOMAIN Stored \ {id} |-> Stored[x]]

\* insert adds its vector.
LEMMA InsertStep ==
    ASSUME IndexInv, NEW id \in Ids, NEW v \in Values, insert(id, v)
    PROVE  IndexInv' /\ Changes(id, v)
<1>1. Sound(graph) /\ todo = <<>> /\ id \notin LiveIds(graph) /\ todo' = todo
    BY DEF IndexInv, insert
<1>2. PICK o \in insert_tracked(graph, id, v) : graph' = o.graph
    BY DEF insert
<1>3. Sound(graph') /\ Held(graph') = Plus(Held(graph), id, v)
    BY <1>1, <1>2, InsertSound
<1>4. Queue(graph', todo')
    BY <1>1, <1>3, StoredInGraph
<1>5. Stored = Held(graph) /\ Stored' = Held(graph')
    BY <1>1, <1>3, StoredIn, StoredInGraph
<1>6. DOMAIN Stored = LiveIds(graph)
    BY <1>5 DEF Held
<1>7. IndexInv'
    BY <1>3, <1>4 DEF IndexInv
<1>. QED
    BY <1>1, <1>3, <1>5, <1>6, <1>7 DEF Changes

\* remove drops its vector.
LEMMA RemoveStep ==
    ASSUME IndexInv, NEW id \in Ids, remove(id)
    PROVE  IndexInv' /\ Drops(id) /\ todo = <<>> /\ todo' = <<>>
<1>1. Sound(graph) /\ todo = <<>> /\ id \in LiveIds(graph) /\ todo' = todo
      /\ graph' = remove_tracked(graph, id)
    BY DEF IndexInv, remove
<1>2. Sound(graph') /\ Held(graph') = [x \in LiveIds(graph) \ {id} |-> Held(graph)[x]]
    BY <1>1, RemoveSound
<1>3. Queue(graph', todo')
    BY <1>1, <1>2, StoredInGraph
<1>4. Stored = Held(graph) /\ Stored' = Held(graph')
    BY <1>1, <1>2, StoredIn, StoredInGraph
<1>5. DOMAIN Stored = LiveIds(graph)
    BY <1>4 DEF Held
<1>6. IndexInv'
    BY <1>2, <1>3 DEF IndexInv
<1>. QED
    BY <1>1, <1>2, <1>4, <1>5, <1>6 DEF Drops

\* No step of a compaction changes what is stored.
LEMMA CompactionStep ==
    ASSUME IndexInv, compact \/ CompactInserts
    PROVE  IndexInv' /\ Stored' = Stored
<1>1. Sound(graph) /\ Queue(graph, todo)
    BY DEF IndexInv
<1>2. CASE compact
    <2>1. todo = <<>> /\ todo' = LivePoints(graph) /\ graph' = Empty
        BY <1>2 DEF compact
    <2>2. Queue(graph', todo') /\ StoredOf(graph', todo') = Held(graph)
        BY <1>1, <2>1, CollectingKeeps
    <2>3. StoredOf(graph, todo) = Held(graph)
        BY <1>1, <2>1, StoredInGraph
    <2>4. Sound(graph')
        BY <2>1, EmptySound
    <2>. QED
        BY <2>2, <2>3, <2>4, StoredIn DEF IndexInv
<1>3. CASE CompactInserts
    <2>1. todo # <<>> /\ todo' = Tail(todo)
        BY <1>3 DEF CompactInserts
    <2>2. PICK o \in insert_tracked(graph, Head(todo).id, Head(todo).val) : graph' = o.graph
        BY <1>3 DEF CompactInserts
    <2>3. /\ Sound(graph') /\ Queue(graph', todo')
          /\ StoredOf(graph', todo') = StoredOf(graph, todo)
        BY <1>1, <2>1, <2>2, ReinsertingKeeps
    <2>. QED
        BY <2>3, StoredIn DEF IndexInv
<1>. QED
    BY <1>2, <1>3

\* One step, of any kind.
LEMMA IndexStep ==
    ASSUME IndexInv, [Next]_vars
    PROVE  /\ IndexInv'
           /\ \/ Stored' = Stored
              \/ /\ todo = <<>> /\ todo' = <<>>
                 /\ \E id \in Ids : Drops(id) \/ \E v \in Values : Changes(id, v)
<1>1. ASSUME NEW id \in Ids, NEW v \in Values, insert(id, v)
      PROVE  IndexInv' /\ Changes(id, v) /\ todo = <<>> /\ todo' = <<>>
    <2>1. todo = <<>> /\ todo' = <<>>
        BY <1>1 DEF insert
    <2>. QED
        BY <1>1, <2>1, InsertStep
<1>2. ASSUME NEW id \in Ids, remove(id)
      PROVE  IndexInv' /\ Drops(id) /\ todo = <<>> /\ todo' = <<>>
    BY <1>2, RemoveStep
<1>3. ASSUME compact \/ CompactInserts PROVE IndexInv' /\ Stored' = Stored
    BY <1>3, CompactionStep
<1>4. CASE UNCHANGED vars
    <2>1. graph' = graph /\ todo' = todo
        BY <1>4 DEF vars
    <2>2. Stored' = Stored
        BY <2>1, StoredIn
    <2>3. IndexInv'
        BY <2>1 DEF IndexInv
    <2>. QED
        BY <2>2, <2>3
<1>. QED
    BY <1>1, <1>2, <1>3, <1>4 DEF Next

\* The invariant holds initially.
LEMMA IndexInit == Init => IndexInv
BY EmptySound, StoredInGraph DEF Init, IndexInv

-----------------------------------------------------------------------------
(* Theorems.                                                                *)

(***************************************************************************)
(* Whatever the order of inserts, removals and compactions, the graph is    *)
(* sound and the points a compaction has taken out are none of its live     *)
(* ones (index.rs, insert_tracked, remove_tracked, compact).                *)
(***************************************************************************)
THEOREM IndexInvAlways == Spec => []IndexInv
<1>1. IndexInv /\ [Next]_vars => IndexInv'
    BY IndexStep
<1>. QED
    BY <1>1, IndexInit, PTL DEF Spec

(***************************************************************************)
(* Of every degree, level and size: an id is live in one node at most, and  *)
(* select_neighbors_heuristic keeps every list within its limit, on its     *)
(* layer and free of the node itself.                                       *)
(***************************************************************************)
THEOREM AlwaysWellLinked == Spec => []WellLinked
<1>1. IndexInv => WellLinked
    BY DEF IndexInv, Sound, Links, WellLinked
<1>. QED
    BY <1>1, IndexInvAlways, PTL

(***************************************************************************)
(* The entry point is a live node of the highest live level after every     *)
(* insert, removal and step of a compaction.                                *)
(***************************************************************************)
THEOREM EntryAlwaysTop == Spec => []EntryIsTop
<1>1. IndexInv => EntryIsTop
    BY DEF IndexInv, Sound, Top, EntryIsTop
<1>. QED
    BY <1>1, IndexInvAlways, PTL

(***************************************************************************)
(* Until a list of layer 0 can have been cut, search_filtered visits every  *)
(* live vector: there is a set of nodes that holds all live ones, that no   *)
(* link of any layer leaves, and in which layer 0 connects each node to     *)
(* every other; the descent starts in it and so ends in it.                 *)
(***************************************************************************)
THEOREM LiveAlwaysReachable == Spec => []LiveReachable
<1>1. IndexInv => LiveReachable
    BY ConnectedReaches DEF IndexInv, Sound, LiveReachable
<1>. QED
    BY <1>1, IndexInvAlways, PTL

(***************************************************************************)
(* index.rs:69: no step of a compaction drops a vector, alters it or brings *)
(* a removed one back.                                                      *)
(***************************************************************************)
THEOREM CompactionAlwaysKeepsContents == Spec => CompactionKeepsContents
<1>1. IndexInv /\ [Next]_vars => [todo # <<>> \/ todo' # <<>> => Stored' = Stored]_vars
    <2> SUFFICES ASSUME IndexInv, [Next]_vars, todo # <<>> \/ todo' # <<>> PROVE Stored' = Stored
        OBVIOUS
    <2>. QED
        BY IndexStep
<1>. QED
    BY <1>1, IndexInvAlways, PTL DEF Spec, CompactionKeepsContents

(***************************************************************************)
(* HnswIndex implements the VectorIndex port: each insert maps to one       *)
(* Insert, each removal to one Remove, and every step of a compaction to a  *)
(* stutter.                                                                 *)
(***************************************************************************)
THEOREM IndexImplementsVectorIndex == Spec => ImplementsVectorIndex
<1>1. Init => Port!Init
    <2> SUFFICES ASSUME Init PROVE Stored = <<>>
        BY DEF Port!Init
    <2>1. Stored = Held(Empty)
        BY EmptySound, StoredIn, StoredInGraph DEF Init
    <2>2. Held(Empty) = <<>>
        BY EmptySound DEF Held
    <2>. QED
        BY <2>1, <2>2
<1>2. IndexInv /\ [Next]_vars => [Port!Next]_(Port!vars)
    <2> SUFFICES ASSUME IndexInv, [Next]_vars PROVE [Port!Next]_(Port!vars)
        OBVIOUS
    <2>1. CASE Stored' = Stored
        BY <2>1 DEF Port!vars
    <2>2. CASE \E id \in Ids : Drops(id)
        <3>1. PICK id \in Ids : Drops(id)
            BY <2>2
        <3>2. Port!Remove(id)
            BY <3>1 DEF Port!Remove, Drops
        <3>. QED
            BY <3>2 DEF Port!Next
    <2>3. CASE \E id \in Ids : \E v \in Values : Changes(id, v)
        <3>1. PICK id \in Ids, v \in Values : Changes(id, v)
            BY <2>3
        <3> DEFINE new == [x \in {id} |-> v]
        <3>2. DOMAIN new = {id} /\ {id} \in SUBSET Ids /\ new \in [{id} -> Values] /\ new[id] = v
            OBVIOUS
        <3> HIDE DEF new
        <3>3. Port!Insert(new)
            <4>1. DOMAIN new \cap DOMAIN Stored = {}
                BY <3>1, <3>2 DEF Changes
            <4>2. Stored' = [x \in DOMAIN Stored \cup DOMAIN new |->
                                IF x \in DOMAIN new THEN new[x] ELSE Stored[x]]
                BY <3>1, <3>2 DEF Changes, Plus
            <4>. QED
                BY <4>1, <4>2 DEF Port!Insert
        <3>. QED
            BY <3>2, <3>3 DEF Port!Next
    <2>. QED
        BY <2>1, <2>2, <2>3, IndexStep
<1>. QED
    BY <1>1, <1>2, IndexInvAlways, PTL DEF Spec, ImplementsVectorIndex, Port!Spec
=============================================================================
