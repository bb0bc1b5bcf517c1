-------------------------- MODULE HnswGraph_proofs --------------------------
(***************************************************************************)
(* Facts about the graph operators of HnswGraph, for every degree, level    *)
(* and number of nodes: what a walk over one layer and a descent over       *)
(* several can reach, what insert_tracked and remove_tracked keep, and what *)
(* compact collects and builds again.                                       *)
(*                                                                          *)
(* Walks, descents and rebuilds are recursive functions.  What they compute *)
(* is shown by induction in the form that no number is the least            *)
(* counterexample.                                                          *)
(***************************************************************************)
EXTENDS HnswGraph, FiniteSetTheorems, WellFoundedInduction, TLAPS

-----------------------------------------------------------------------------
(* Numbers and finite sets.                                                 *)

\* Induction over the naturals: a set that holds n whenever it holds all below n.
LEMMA LeastCounterexample ==
    ASSUME NEW S, \A n \in Nat : (\A m \in Nat : m < n => m \in S) => n \in S
    PROVE  \A n \in Nat : n \in S
<1> SUFFICES ASSUME Nat \ S # {} PROVE FALSE
    OBVIOUS
<1>1. PICK x \in Nat \ S : \A y \in Nat \ S : ~ (<<y, x>> \in OpToRel(<, Nat))
    BY NatLessThanWellFounded, WFMin
<1>. QED
    BY <1>1 DEF OpToRel

\* Induction in steps of one, up to a bound.
LEMMA StepByStep ==
    ASSUME NEW S, NEW N \in Nat, 0 \in S,
           \A n \in Nat : n < N /\ n \in S => n + 1 \in S
    PROVE  \A n \in 0..N : n \in S
<1> DEFINE A == {n \in Nat : n <= N => n \in S}
<1>1. \A n \in Nat : (\A m \in Nat : m < n => m \in A) => n \in A
    <2> SUFFICES ASSUME NEW n \in Nat, \A m \in Nat : m < n => m \in A, n <= N
                 PROVE  n \in S
        OBVIOUS
    <2>1. CASE n = 0
        BY <2>1
    <2>2. CASE n # 0
        <3>1. n - 1 \in Nat /\ n - 1 < n /\ n - 1 < N /\ n = (n - 1) + 1
            BY <2>2
        <3>2. n - 1 \in S
            BY <3>1
        <3>. QED
            BY <3>1, <3>2
    <2>. QED
        BY <2>1, <2>2
<1>2. \A n \in Nat : n \in A
    <2> HIDE DEF A
    <2>. QED
        BY <1>1, LeastCounterexample
<1>. QED
    BY <1>2

\* A set of numbers up to N is finite.
LEMMA FiniteUpTo ==
    ASSUME NEW N \in Nat, NEW S, S \subseteq 1..N
    PROVE  IsFiniteSet(S) /\ Cardinality(S) \in Nat /\ Cardinality(S) <= N
<1>1. IsFiniteSet(1..N) /\ Cardinality(1..N) = N
    BY FS_Interval
<1>. QED
    BY <1>1, FS_Subset, FS_CardinalityType

\* A set of numbers up to N that is not empty has a largest one.
LEMMA LargestExists ==
    ASSUME NEW N \in Nat, NEW S, S \subseteq 0..N, S # {}
    PROVE  \E x \in S : \A y \in S : y <= x
<1> DEFINE A == {n \in Nat : (\E x \in S : x <= n) =>
                                \E x \in S : x <= n /\ \A y \in S : y <= n => y <= x}
<1>1. 0 \in A
    OBVIOUS
<1>2. \A n \in Nat : n < N /\ n \in A => n + 1 \in A
    <2> SUFFICES ASSUME NEW n \in Nat, n \in A, NEW z \in S, z <= n + 1
                 PROVE  \E x \in S : x <= n + 1 /\ \A y \in S : y <= n + 1 => y <= x
        OBVIOUS
    <2>1. CASE n + 1 \in S
        BY <2>1
    <2>2. CASE n + 1 \notin S
        <3>1. \A y \in S : y <= n + 1 <=> y <= n
            BY <2>2
        <3>2. PICK x \in S : x <= n /\ \A y \in S : y <= n => y <= x
            BY <3>1
        <3>. QED
            BY <3>1, <3>2
    <2>. QED
        BY <2>1, <2>2
<1>3. N \in A
    <2> HIDE DEF A
    <2>. QED
        BY <1>1, <1>2, StepByStep
<1>4. \A y \in S : y <= N /\ y \in Nat
    OBVIOUS
<1>. QED
    BY <1>3, <1>4

-----------------------------------------------------------------------------
(* Graphs.                                                                  *)

IsSeq(s) == \E S : s \in Seq(S)

\* A node whose lists, one per layer up to its level, name nodes of `all`.
NodeShape(r, all) ==
    /\ r = [id |-> r.id, val |-> r.val, level |-> r.level, tombstone |-> r.tombstone,
            neighbors |-> r.neighbors]
    /\ r.id \in Ids /\ r.level \in 0..MaxLevel /\ r.tombstone \in {"no", "yes"}
    /\ r.neighbors \in [0..r.level -> SUBSET all]

\* No list and no entry point names a node that does not exist.
Shape(g) ==
    /\ g = [nodes |-> g.nodes, entry |-> g.entry]
    /\ IsSeq(g.nodes)
    /\ g.entry \in {None} \cup Indices(g)
    /\ \A n \in Indices(g) : NodeShape(g.nodes[n], Indices(g))

\* The properties WellLinked and EntryIsTop, of any graph.
Links(g) ==
    /\ \A m, n \in LiveNodes(g) : g.nodes[m].id = g.nodes[n].id => m = n
    /\ \A n \in Indices(g) : \A k \in 0..level(g, n) :
        /\ Cardinality(neighbors(g, n, k)) <= m_limit(k)
        /\ \A other \in neighbors(g, n, k) : other \in Indices(g) \ {n} /\ level(g, other) >= k

Top(g) ==
    IF LiveNodes(g) = {} THEN g.entry = None
    ELSE /\ g.entry \in LiveNodes(g)
         /\ \A n \in LiveNodes(g) : level(g, n) <= level(g, g.entry)

\* The nodes of a graph, their fields and their lists.
LEMMA ShapeFacts ==
    ASSUME NEW g, Shape(g)
    PROVE  /\ Len(g.nodes) \in Nat /\ Indices(g) \subseteq Nat
           /\ IsFiniteSet(Indices(g)) /\ Cardinality(Indices(g)) = Len(g.nodes)
           /\ LiveNodes(g) \subseteq Indices(g)
           /\ \A n \in Indices(g) :
                /\ level(g, n) \in 0..MaxLevel /\ level(g, n) \in Nat
                /\ \A k \in Nat : neighbors(g, n, k) \subseteq Indices(g)
<1>1. Len(g.nodes) \in Nat
    BY DEF Shape, IsSeq
<1>2. IsFiniteSet(Indices(g)) /\ Cardinality(Indices(g)) = Len(g.nodes)
    BY <1>1, FS_Interval DEF Indices
<1>3. Indices(g) \subseteq Nat /\ LiveNodes(g) \subseteq Indices(g)
    BY <1>1 DEF Indices, LiveNodes
<1>4. ASSUME NEW n \in Indices(g)
      PROVE  /\ level(g, n) \in 0..MaxLevel /\ level(g, n) \in Nat
             /\ \A k \in Nat : neighbors(g, n, k) \subseteq Indices(g)
    <2>1. level(g, n) \in 0..MaxLevel /\ g.nodes[n].neighbors \in [0..level(g, n) -> SUBSET Indices(g)]
        BY DEF Shape, NodeShape, level
    <2>2. level(g, n) \in Nat
        BY <2>1, GraphAssumption
    <2>. QED
        BY <2>1, <2>2 DEF neighbors
<1>. QED
    BY <1>1, <1>2, <1>3, <1>4

-----------------------------------------------------------------------------
(* Walking one layer.                                                       *)

Step(g, layer, X) == X \cup UNION {neighbors(g, n, layer) : n \in X}

Walks(g, S, layer, m, w) == w = [k \in 0..m |-> IF k = 0 THEN S ELSE Step(g, layer, w[k - 1])]

\* The walk of any number of steps exists.
LEMMA WalkExists ==
    ASSUME NEW g, NEW S, NEW layer
    PROVE  \A m \in Nat : \E w : Walks(g, S, layer, m, w)
<1> DEFINE A == {m \in Nat : \E w : Walks(g, S, layer, m, w)}
<1>1. \A n \in Nat : (\A m \in Nat : m < n => m \in A) => n \in A
    <2> SUFFICES ASSUME NEW n \in Nat, \A m \in Nat : m < n => m \in A
                 PROVE  \E w : Walks(g, S, layer, n, w)
        OBVIOUS
    <2>1. CASE n = 0
        <3>1. Walks(g, S, layer, 0, [i \in 0..0 |-> S])
            BY DEF Walks
        <3>. QED
            BY <2>1, <3>1
    <2>2. CASE n # 0
        <3>1. n - 1 \in Nat /\ n - 1 < n
            BY <2>2
        <3>2. PICK w : Walks(g, S, layer, n - 1, w)
            BY <3>1
        <3> DEFINE Body(f, i) == IF i = 0 THEN S ELSE Step(g, layer, f[i - 1])
                   h == [i \in 0..n |-> Body(w, i)]
        <3>3. \A i \in 0..n - 1 : w[i] = Body(w, i)
            BY <3>1, <3>2 DEF Walks
        <3> HIDE DEF Body
        <3>4. \A i \in 0..n - 1 : h[i] = w[i]
            BY <3>1, <3>3
        <3>5. \A i \in 0..n : i # 0 => i - 1 \in 0..n - 1
            OBVIOUS
        <3> HIDE DEF h
        <3>6. \A i \in 0..n : Body(w, i) = Body(h, i)
            BY <3>4, <3>5 DEF Body
        <3>7. h = [i \in 0..n |-> Body(h, i)]
            BY <3>6 DEF h
        <3>8. Walks(g, S, layer, n, h)
            BY <3>7 DEF Walks, Body
        <3>. QED
            BY <3>8
    <2>. QED
        BY <2>1, <2>2
<1>2. \A n \in Nat : n \in A
    <2> HIDE DEF A
    <2>. QED
        BY <1>1, LeastCounterexample
<1>. QED
    BY <1>2

\* Reach is the last set of the walk over as many steps as there are nodes.
LEMMA ReachIsWalk ==
    ASSUME NEW g, NEW S, NEW layer, Len(g.nodes) \in Nat
    PROVE  \E w : /\ Reach(g, S, layer) = w[Len(g.nodes)]
                  /\ w[0] = S
                  /\ \A k \in Nat : k < Len(g.nodes) => w[k + 1] = Step(g, layer, w[k])
<1> DEFINE N == Len(g.nodes)
<1>1. Reach(g, S, layer) = (CHOOSE w : Walks(g, S, layer, N, w))[N]
    BY DEF Reach, Walks, Step
<1>2. PICK w : Walks(g, S, layer, N, w) /\ Reach(g, S, layer) = w[N]
    BY <1>1, WalkExists
<1> DEFINE Body(i) == IF i = 0 THEN S ELSE Step(g, layer, w[i - 1])
<1>3. w = [i \in 0..N |-> Body(i)]
    BY <1>2 DEF Walks
<1> HIDE DEF Body
<1>4. \A i \in 0..N : w[i] = Body(i)
    BY <1>3
<1>5. w[0] = S
    BY <1>4 DEF Body
<1>6. ASSUME NEW k \in Nat, k < N PROVE w[k + 1] = Step(g, layer, w[k])
    <2>1. k + 1 \in 0..N /\ k + 1 # 0 /\ (k + 1) - 1 = k
        BY <1>6
    <2>2. w[k + 1] = Body(k + 1)
        BY <1>4, <2>1
    <2>. QED
        BY <2>1, <2>2 DEF Body
<1>. QED
    BY <1>2, <1>5, <1>6

\* The walk contains its start, and stays in any set closed under the links.
LEMMA ReachLeast ==
    ASSUME NEW g, NEW S, NEW layer, Len(g.nodes) \in Nat,
           NEW P, S \subseteq P, \A n \in P : neighbors(g, n, layer) \subseteq P
    PROVE  S \subseteq Reach(g, S, layer) /\ Reach(g, S, layer) \subseteq P
<1>1. PICK w : /\ Reach(g, S, layer) = w[Len(g.nodes)] /\ w[0] = S
               /\ \A k \in Nat : k < Len(g.nodes) => w[k + 1] = Step(g, layer, w[k])
    BY ReachIsWalk
<1> DEFINE N == Len(g.nodes)
           A == {k \in Nat : S \subseteq w[k] /\ w[k] \subseteq P}
<1>2. 0 \in A
    BY <1>1
<1>3. \A k \in Nat : k < Len(g.nodes) /\ k \in A => k + 1 \in A
    BY <1>1 DEF Step
<1>4. N \in A
    <2>1. N \in Nat /\ \A k \in Nat : k < N /\ k \in A => k + 1 \in A
        BY <1>3
    <2> HIDE DEF A, N
    <2>2. \A k \in 0..N : k \in A
        BY <1>2, <2>1, StepByStep
    <2>. QED
        BY <2>1, <2>2
<1>. QED
    BY <1>1, <1>4

\* As many steps as there are nodes are enough: what is reached is closed.
LEMMA ReachClosed ==
    ASSUME NEW g, Shape(g), NEW S, S \subseteq Indices(g), NEW layer \in Nat
    PROVE  /\ S \subseteq Reach(g, S, layer) /\ Reach(g, S, layer) \subseteq Indices(g)
           /\ \A n \in Reach(g, S, layer) : neighbors(g, n, layer) \subseteq Reach(g, S, layer)
<1> DEFINE N == Len(g.nodes)
           U == Indices(g)
<1>1. N \in Nat /\ IsFiniteSet(U) /\ Cardinality(U) = N
      /\ \A n \in U : neighbors(g, n, layer) \subseteq U
    BY ShapeFacts
<1>2. S \subseteq Reach(g, S, layer) /\ Reach(g, S, layer) \subseteq U
    BY <1>1, ReachLeast
<1>3. PICK w : /\ Reach(g, S, layer) = w[N] /\ w[0] = S
               /\ \A k \in Nat : k < N => w[k + 1] = Step(g, layer, w[k])
    BY <1>1, ReachIsWalk
<1> HIDE DEF N, U
<1> DEFINE Done(X) == Step(g, layer, X) = X
           A == {k \in Nat : w[k] \subseteq U /\ (Done(w[k]) \/ Cardinality(w[k]) > k)}
<1>4. \A X : X \subseteq U =>
        /\ Step(g, layer, X) \subseteq U /\ X \subseteq Step(g, layer, X)
        /\ IsFiniteSet(X) /\ Cardinality(X) \in Nat /\ Cardinality(X) <= N
    BY <1>1, FS_Subset, FS_CardinalityType DEF Step
<1>5. 0 \in A
    <2>1. S = {} => Done(S)
        BY DEF Step
    <2>2. S # {} => Cardinality(S) > 0
        BY <1>4, FS_EmptySet DEF U
    <2>3. S \subseteq U
        BY DEF U
    <2>. QED
        BY <1>3, <2>1, <2>2, <2>3
<1>6. \A k \in Nat : k < N /\ k \in A => k + 1 \in A
    <2> SUFFICES ASSUME NEW k \in Nat, k < N, k \in A PROVE k + 1 \in A
        OBVIOUS
    <2> DEFINE X == w[k]
               Y == w[k + 1]
    <2>1. Y = Step(g, layer, X) /\ X \subseteq U
        BY <1>3
    <2>2. Y \subseteq U /\ X \subseteq Y /\ IsFiniteSet(Y) /\ Cardinality(Y) \in Nat /\ Cardinality(X) \in Nat
        BY <1>4, <2>1
    <2>3. CASE Done(X)
        BY <2>1, <2>2, <2>3
    <2>4. CASE ~Done(X)
        <3>1. X # Y
            BY <2>1, <2>4
        <3>2. Cardinality(X) <= Cardinality(Y) /\ Cardinality(X) # Cardinality(Y)
            BY <2>2, <3>1, FS_Subset
        <3>3. Cardinality(X) > k
            BY <2>4
        <3> HIDE DEF X, Y, Done
        <3>4. Cardinality(Y) > k + 1
            BY <2>2, <3>2, <3>3
        <3>. QED
            BY <2>2, <3>4 DEF Y
    <2>. QED
        BY <2>3, <2>4
<1>7. N \in A
    <2> HIDE DEF A
    <2>. QED
        BY <1>1, <1>5, <1>6, StepByStep
<1>8. Done(w[N])
    <2>1. ~(Cardinality(w[N]) > N)
        BY <1>1, <1>4, <1>7
    <2>. QED
        BY <1>7, <2>1
<1>. QED
    BY <1>2, <1>3, <1>8 DEF Step, U

-----------------------------------------------------------------------------
(* Descending over layers.                                                  *)

Descends(g, start, from, lo, d) ==
    d = [k \in lo..(from + 1) |-> IF k > from THEN {start} ELSE Reach(g, d[k + 1], k)]

\* The descent to any layer exists.
LEMMA DescentExists ==
    ASSUME NEW g, NEW start, NEW from \in Nat
    PROVE  \E d : Descends(g, start, from, 0, d)
<1> DEFINE A == {m \in Nat : \E d : Descends(g, start, from, from + 1 - m, d)}
<1>1. 0 \in A
    <2>1. Descends(g, start, from, from + 1, [k \in (from + 1)..(from + 1) |-> {start}])
        BY DEF Descends
    <2>2. from + 1 - 0 = from + 1
        OBVIOUS
    <2>. QED
        BY <2>1, <2>2
<1>2. \A m \in Nat : m < from + 1 /\ m \in A => m + 1 \in A
    <2> SUFFICES ASSUME NEW m \in Nat, m < from + 1, m \in A
                 PROVE  \E d : Descends(g, start, from, from + 1 - (m + 1), d)
        OBVIOUS
    <2> DEFINE lo == from + 1 - m
               Body(f, k) == IF k > from THEN {start} ELSE Reach(g, f[k + 1], k)
    <2>1. PICK d : Descends(g, start, from, lo, d)
        OBVIOUS
    <2>2. lo \in Nat /\ lo > 0 /\ from + 1 - (m + 1) = lo - 1
        OBVIOUS
    <2> DEFINE h == [k \in (lo - 1)..(from + 1) |-> Body(d, k)]
    <2>3. \A k \in lo..(from + 1) : d[k] = Body(d, k)
        BY <2>1 DEF Descends
    <2> HIDE DEF Body, lo
    <2>4. \A k \in lo..(from + 1) : h[k] = d[k]
        BY <2>2, <2>3
    <2>5. \A k \in (lo - 1)..(from + 1) : ~(k > from) => k + 1 \in lo..(from + 1)
        BY <2>2
    <2> HIDE DEF h
    <2>6. \A k \in (lo - 1)..(from + 1) : Body(d, k) = Body(h, k)
        BY <2>4, <2>5 DEF Body
    <2>7. h = [k \in (lo - 1)..(from + 1) |-> Body(h, k)]
        BY <2>6 DEF h
    <2>8. Descends(g, start, from, lo - 1, h)
        BY <2>7 DEF Descends, Body
    <2>. QED
        BY <2>2, <2>8
<1>3. from + 1 \in A
    <2>1. from + 1 \in Nat
        OBVIOUS
    <2> DEFINE N == from + 1
    <2>2. N \in Nat /\ \A m \in Nat : m < N /\ m \in A => m + 1 \in A
        BY <1>2, <2>1
    <2> HIDE DEF A, N
    <2>3. \A m \in 0..N : m \in A
        BY <1>1, <2>2, StepByStep
    <2>. QED
        BY <2>2, <2>3 DEF N
<1>4. from + 1 - (from + 1) = 0
    OBVIOUS
<1>. QED
    BY <1>3, <1>4

\* Sets of nodes, one per layer and growing downwards, that no link of their layer leaves.
Funnel(g, P, from) ==
    \A k \in 0..from : P[k + 1] \subseteq P[k] /\ \A n \in P[k] : neighbors(g, n, k) \subseteq P[k]

\* A descent that starts in such a funnel ends in it.
LEMMA DescentWithin ==
    ASSUME NEW g, Len(g.nodes) \in Nat, NEW start, NEW from \in Nat, NEW to \in Nat, to <= from,
           NEW P, Funnel(g, P, from), start \in P[from + 1]
    PROVE  Descent(g, start, from, to) \subseteq P[to]
<1>1. Descent(g, start, from, to) = (CHOOSE d : Descends(g, start, from, 0, d))[to]
    BY DEF Descent, Descends
<1>2. PICK d : Descends(g, start, from, 0, d) /\ Descent(g, start, from, to) = d[to]
    BY <1>1, DescentExists
<1> DEFINE Body(k) == IF k > from THEN {start} ELSE Reach(g, d[k + 1], k)
<1>3. \A k \in 0..(from + 1) : d[k] = Body(k)
    BY <1>2 DEF Descends
<1> HIDE DEF Body
<1> DEFINE N == from + 1
           A == {m \in Nat : d[N - m] \subseteq P[N - m]}
<1>4. 0 \in A
    <2>1. d[N] = {start}
        BY <1>3 DEF Body
    <2>2. N - 0 = N
        OBVIOUS
    <2>. QED
        BY <2>1, <2>2
<1>5. \A m \in Nat : m < N /\ m \in A => m + 1 \in A
    <2> SUFFICES ASSUME NEW m \in Nat, m < N, m \in A PROVE d[N - (m + 1)] \subseteq P[N - (m + 1)]
        OBVIOUS
    <2> DEFINE k == N - (m + 1)
    <2>1. k \in 0..from /\ k + 1 = N - m /\ k \in 0..(from + 1) /\ ~(k > from)
        OBVIOUS
    <2>2. d[k + 1] \subseteq P[k + 1]
        BY <2>1
    <2>3. d[k] = Reach(g, d[k + 1], k)
        BY <1>3, <2>1 DEF Body
    <2> HIDE DEF k
    <2>4. P[k + 1] \subseteq P[k] /\ \A n \in P[k] : neighbors(g, n, k) \subseteq P[k]
        BY <2>1 DEF Funnel
    <2>5. d[k + 1] \subseteq P[k]
        BY <2>2, <2>4
    <2>6. Reach(g, d[k + 1], k) \subseteq P[k]
        BY <2>4, <2>5, ReachLeast
    <2>. QED
        BY <2>3, <2>6 DEF k
<1>6. \A m \in 0..N : m \in A
    <2>1. N \in Nat
        OBVIOUS
    <2> HIDE DEF A, N
    <2>. QED
        BY <1>4, <1>5, <2>1, StepByStep
<1>7. N - to \in 0..N /\ N - (N - to) = to
    OBVIOUS
<1>8. d[N - (N - to)] \subseteq P[N - (N - to)]
    BY <1>6, <1>7
<1>. QED
    BY <1>2, <1>7, <1>8

-----------------------------------------------------------------------------
(* Selecting neighbours.                                                    *)

\* Where the search of each layer starts: within a funnel around the entry point.
Starts(g, sel, P, start) ==
    \A k \in DOMAIN sel :
        /\ start[k] \in Indices(g) /\ start[k] \in P[k]
        /\ sel[k] \subseteq Candidates(g, start[k], k)
        /\ sel[k] = {} <=> Candidates(g, start[k], k) = {}

\* What a selection is: live nodes on each linked layer, within the limit.
LEMMA SelectionTyped ==
    ASSUME NEW g, Shape(g), NEW l \in 0..MaxLevel, NEW sel \in Selections(g, l)
    PROVE  /\ DOMAIN sel = LinkedLayers(g, l)
           /\ \A k \in DOMAIN sel :
                /\ k \in 0..l /\ k \in Nat /\ sel[k] \subseteq LiveNodes(g) /\ sel[k] \subseteq Indices(g)
                /\ Cardinality(sel[k]) <= m_limit(k)
           /\ g.entry # None =>
                /\ g.entry \in Indices(g) /\ level(g, g.entry) \in Nat
                /\ LinkedLayers(g, l) = 0..(IF l <= level(g, g.entry) THEN l ELSE level(g, g.entry))
<1>1. g.entry # None => g.entry \in Indices(g) /\ level(g, g.entry) \in Nat
    BY ShapeFacts DEF Shape
<1>2. l \in Nat
    BY GraphAssumption
<1>3. LinkedLayers(g, l) \subseteq 0..l
    BY <1>1, <1>2 DEF LinkedLayers
<1>4. sel \in [LinkedLayers(g, l) -> SUBSET LiveNodes(g)]
    BY DEF Selections
<1>5. \A k \in LinkedLayers(g, l) : Cardinality(sel[k]) <= m_limit(k)
    BY DEF Selections
<1>6. LiveNodes(g) \subseteq Indices(g)
    BY DEF LiveNodes
<1>7. 0..l \subseteq Nat
    BY <1>2
<1>8. g.entry # None => LinkedLayers(g, l) = 0..(IF l <= level(g, g.entry) THEN l ELSE level(g, g.entry))
    BY DEF LinkedLayers
<1>. QED
    BY <1>1, <1>3, <1>4, <1>5, <1>6, <1>7, <1>8

\* Every layer's search starts, and selects, within a funnel around the entry point.
LEMMA SelectionWithin ==
    ASSUME NEW g, Shape(g), g.entry # None, NEW l \in 0..MaxLevel, NEW sel \in Selections(g, l),
           NEW P, Funnel(g, P, level(g, g.entry)), g.entry \in P[level(g, g.entry) + 1]
    PROVE  \E start : Starts(g, sel, P, start)
<1> DEFINE from == level(g, g.entry)
           layers == LinkedLayers(g, l)
           tops == Descent(g, g.entry, from, l + 1)
<1>1. /\ g.entry \in Indices(g) /\ from \in Nat
      /\ layers = 0..(IF l <= from THEN l ELSE from)
      /\ DOMAIN sel = layers /\ \A k \in layers : k \in Nat /\ sel[k] \subseteq Indices(g)
    BY SelectionTyped
<1>2. l \in Nat /\ Len(g.nodes) \in Nat
    BY GraphAssumption, ShapeFacts
<1>3. PICK start \in [layers -> Indices(g)] : \A k \in layers :
        /\ start[k] \in IF k + 1 \notin layers THEN tops
                        ELSE IF sel[k + 1] = {} THEN {start[k + 1]} ELSE sel[k + 1]
        /\ sel[k] \subseteq Candidates(g, start[k], k)
        /\ sel[k] = {} <=> Candidates(g, start[k], k) = {}
    BY DEF Selections
<1> DEFINE last == IF l <= from THEN l ELSE from
           A == {m \in Nat : start[last - m] \in P[last - m]}
<1>4. last \in Nat /\ layers = 0..last /\ last <= from
    BY <1>1, <1>2
<1>5. tops \subseteq P[last]
    <2>1. CASE from < l + 1
        <3>1. tops = {g.entry} /\ last = from
            BY <1>1, <1>2, <2>1 DEF Descent
        <3>2. P[from + 1] \subseteq P[from]
            BY <1>1 DEF Funnel
        <3>. QED
            BY <3>1, <3>2
    <2>2. CASE ~(from < l + 1)
        <3>1. l + 1 \in Nat /\ l + 1 <= from /\ last = l /\ l \in 0..from
            BY <1>1, <1>2, <2>2
        <3>2. tops \subseteq P[l + 1]
            BY <1>1, <1>2, <3>1, DescentWithin
        <3>3. P[l + 1] \subseteq P[l]
            BY <3>1 DEF Funnel
        <3>. QED
            BY <3>1, <3>2, <3>3
    <2>. QED
        BY <2>1, <2>2
<1> HIDE DEF tops, layers, from, last
<1>6. 0 \in A
    <2>1. last \in layers /\ last + 1 \notin layers /\ last - 0 = last
        BY <1>4
    <2>2. start[last] \in tops
        BY <1>3, <2>1
    <2>. QED
        BY <1>5, <2>1, <2>2
<1>7. \A m \in Nat : m < last /\ m \in A => m + 1 \in A
    <2> SUFFICES ASSUME NEW m \in Nat, m < last, m \in A
                 PROVE  start[last - (m + 1)] \in P[last - (m + 1)]
        OBVIOUS
    <2> DEFINE k == last - (m + 1)
    <2>1. k \in layers /\ k + 1 \in layers /\ k + 1 = last - m /\ k \in 0..from /\ k + 1 \in 0..from
          /\ k + 1 \in Nat
        BY <1>1, <1>4 DEF from
    <2>2. start[k + 1] \in P[k + 1] /\ start[k + 1] \in Indices(g)
        BY <1>3, <2>1
    <2>3. sel[k + 1] \subseteq Candidates(g, start[k + 1], k + 1)
        BY <1>3, <2>1
    <2>4. start[k] \in IF sel[k + 1] = {} THEN {start[k + 1]} ELSE sel[k + 1]
        BY <1>3, <2>1
    <2> HIDE DEF k
    <2>5. P[k + 1] \subseteq P[k] /\ \A n \in P[k + 1] : neighbors(g, n, k + 1) \subseteq P[k + 1]
        BY <2>1 DEF Funnel, from
    <2>6. Reach(g, {start[k + 1]}, k + 1) \subseteq P[k + 1]
        <3> DEFINE S == {start[k + 1]}
                   j == k + 1
                   Q == P[k + 1]
        <3>1. S \subseteq Q /\ \A n \in Q : neighbors(g, n, j) \subseteq Q
            BY <2>2, <2>5
        <3> HIDE DEF S, j, Q
        <3>2. Reach(g, S, j) \subseteq Q
            BY <1>2, <3>1, ReachLeast
        <3>. QED
            BY <3>2 DEF S, j, Q
    <2>7. sel[k + 1] \subseteq P[k + 1]
        BY <2>3, <2>6 DEF Candidates
    <2>8. start[k] \in P[k + 1]
        BY <2>2, <2>4, <2>7
    <2>. QED
        BY <2>5, <2>8 DEF k
<1>8. \A m \in 0..last : m \in A
    <2> HIDE DEF A
    <2>. QED
        BY <1>4, <1>6, <1>7, StepByStep
<1>9. \A k \in layers : start[k] \in P[k]
    <2> SUFFICES ASSUME NEW k \in layers PROVE start[k] \in P[k]
        OBVIOUS
    <2>1. last - k \in 0..last /\ last - (last - k) = k
        BY <1>4
    <2>2. start[last - (last - k)] \in P[last - (last - k)]
        BY <1>8, <2>1
    <2>. QED
        BY <2>1, <2>2
<1>10. DOMAIN sel = layers
    BY <1>1 DEF layers
<1>11. Starts(g, sel, P, start)
    BY <1>3, <1>9, <1>10 DEF Starts
<1>. QED
    BY <1>11

-----------------------------------------------------------------------------
(* Inserting.                                                               *)

\* h is g with one node more, linked to sel, and the lists in keep cut.
Joins(g, h, id, v, l, sel, keep) ==
    LET new == Len(g.nodes) + 1 IN
    /\ Len(h.nodes) = new
    /\ h.entry = EntryAfterInsert(g, l)
    /\ \A n \in Indices(g) :
        /\ h.nodes[n].id = g.nodes[n].id /\ h.nodes[n].val = g.nodes[n].val
        /\ h.nodes[n].level = g.nodes[n].level /\ h.nodes[n].tombstone = g.nodes[n].tombstone
    /\ h.nodes[new].id = id /\ h.nodes[new].val = v
    /\ h.nodes[new].level = l /\ h.nodes[new].tombstone = "no"
    /\ \A k \in 0..l : h.nodes[new].neighbors[k] = IF k \in DOMAIN sel THEN sel[k] ELSE {}
    /\ \A n \in Indices(g) : \A k \in 0..level(g, n) :
        h.nodes[n].neighbors[k] =
            IF k \notin DOMAIN sel THEN g.nodes[n].neighbors[k]
            ELSE IF <<n, k>> \in DOMAIN keep THEN keep[<<n, k>>]
            ELSE g.nodes[n].neighbors[k] \cup (IF n \in sel[k] THEN {new} ELSE {})

\* Appending to a sequence.
LEMMA Appended ==
    ASSUME NEW s, IsSeq(s), NEW e
    PROVE  /\ IsSeq(Append(s, e)) /\ Len(s) \in Nat /\ Len(Append(s, e)) = Len(s) + 1
           /\ \A i \in 1..Len(s) : Append(s, e)[i] = s[i]
           /\ Append(s, e)[Len(s) + 1] = e
<1>1. PICK S : s \in Seq(S)
    BY DEF IsSeq
<1>2. s \in Seq(S \cup {e}) /\ e \in S \cup {e}
    BY <1>1
<1> DEFINE T == S \cup {e}
<1>3. s \in Seq(T) /\ e \in T
    BY <1>2
<1> HIDE DEF T
<1>4. /\ Append(s, e) \in Seq(T) /\ Len(s) \in Nat /\ Len(Append(s, e)) = Len(s) + 1
      /\ \A i \in 1..Len(s) : Append(s, e)[i] = s[i]
      /\ Append(s, e)[Len(s) + 1] = e
    BY <1>3
<1>. QED
    BY <1>4 DEF IsSeq

\* A function on 1..N is a sequence of that length.
LEMMA Enumerated ==
    ASSUME NEW N \in Nat, NEW f, DOMAIN f = 1..N, f = [i \in 1..N |-> f[i]]
    PROVE  IsSeq(f) /\ Len(f) = N
<1> DEFINE S == {f[i] : i \in 1..N}
<1>1. f \in [1..N -> S]
    OBVIOUS
<1> HIDE DEF S
<1>2. f \in Seq(S) /\ Len(f) = N
    BY <1>1
<1>. QED
    BY <1>2 DEF IsSeq

\* A node keeps everything but its lists.
LEMMA RelistedFields ==
    ASSUME NEW r, NEW lists, NEW all, NodeShape(r, all)
    PROVE  Relisted(r, lists) = [id |-> r.id, val |-> r.val, level |-> r.level,
                                 tombstone |-> r.tombstone, neighbors |-> lists]
<1> DEFINE a == r.id
           b == r.val
           c == r.level
           d == r.tombstone
           e == r.neighbors
<1>1. r = [id |-> a, val |-> b, level |-> c, tombstone |-> d, neighbors |-> e]
    BY DEF NodeShape
<1> HIDE DEF a, b, c, d, e
<1>2. [r EXCEPT !.neighbors = lists]
        = [id |-> a, val |-> b, level |-> c, tombstone |-> d, neighbors |-> lists]
    BY <1>1
<1>. QED
    BY <1>2 DEF Relisted, a, b, c, d

\* The graph before linking: g with a node that has no links yet.
LEMMA Widened ==
    ASSUME NEW g, Shape(g), NEW id \in Ids, NEW v, NEW l \in 0..MaxLevel
    PROVE  LET wide == add_node(g, id, v, l)
               new == Len(g.nodes) + 1 IN
           /\ Len(wide.nodes) = new
           /\ \A n \in Indices(g) : wide.nodes[n] = g.nodes[n]
           /\ wide.nodes[new] = [id |-> id, val |-> v, level |-> l, tombstone |-> "no",
                                 neighbors |-> [layer \in 0..l |-> {}]]
           /\ \A n \in 1..new : NodeShape(wide.nodes[n], 1..new)
<1> DEFINE new == Len(g.nodes) + 1
           e == [id |-> id, val |-> v, level |-> l, tombstone |-> "no",
                 neighbors |-> [layer \in 0..l |-> {}]]
           s == Append(g.nodes, e)
           wide == add_node(g, id, v, l)
<1>1. wide = [g EXCEPT !.nodes = s]
    BY DEF add_node
<1> HIDE DEF e
<1>2. wide.nodes = s
    <2> HIDE DEF s
    <2>1. wide = [g EXCEPT !.nodes = s] /\ g = [nodes |-> g.nodes, entry |-> g.entry]
        BY <1>1 DEF Shape
    <2>. QED
        BY <2>1
<1>3. /\ IsSeq(s) /\ Len(g.nodes) \in Nat /\ Len(s) = Len(g.nodes) + 1
      /\ \A i \in 1..Len(g.nodes) : s[i] = g.nodes[i]
      /\ s[Len(g.nodes) + 1] = e
    BY Appended DEF Shape
<1> HIDE DEF s, wide
<1>4. NodeShape(e, 1..new)
    BY DEF NodeShape, e
<1>5. \A n \in Indices(g) : NodeShape(g.nodes[n], 1..new)
    <2> SUFFICES ASSUME NEW n \in Indices(g) PROVE NodeShape(g.nodes[n], 1..new)
        OBVIOUS
    <2>1. NodeShape(g.nodes[n], Indices(g))
        BY DEF Shape
    <2>2. Indices(g) \subseteq 1..new
        BY <1>3 DEF Indices
    <2> DEFINE r == g.nodes[n]
               U == Indices(g)
               W == 1..new
    <2> HIDE DEF r, U, W
    <2>3. NodeShape(r, U) /\ U \subseteq W => NodeShape(r, W)
        BY DEF NodeShape
    <2>. QED
        BY <2>1, <2>2, <2>3 DEF r, U, W
<1>6. \A n \in 1..new : n \in Indices(g) \/ n = new
    BY <1>3 DEF Indices
<1>7. /\ Len(wide.nodes) = new
      /\ \A n \in Indices(g) : wide.nodes[n] = g.nodes[n]
      /\ wide.nodes[new] = e
    BY <1>2, <1>3 DEF Indices
<1>8. \A n \in 1..new : NodeShape(wide.nodes[n], 1..new)
    BY <1>4, <1>5, <1>6, <1>7
<1>. QED
    BY <1>7, <1>8 DEF wide, e

\* What a pruning is: it cuts lists of selected nodes only, to nodes they hold.
PruningFacts(g, sel, keep) ==
    \A n, k : <<n, k>> \in DOMAIN keep =>
        /\ k \in DOMAIN sel /\ n \in sel[k]
        /\ Cardinality(neighbors(g, n, k)) >= m_limit(k)
        /\ keep[<<n, k>>] \subseteq neighbors(g, n, k) \cup {Len(g.nodes) + 1}
        /\ keep[<<n, k>>] # {} /\ Cardinality(keep[<<n, k>>]) <= m_limit(k)

\* Every pruning is one.
LEMMA PruningTyped ==
    ASSUME NEW g, NEW sel, NEW keep \in Prunings(g, sel)
    PROVE  /\ DOMAIN keep = Overfull(g, sel)
           /\ PruningFacts(g, sel, keep)
<1>1. DOMAIN keep = Overfull(g, sel)
    BY DEF Prunings
<1>2. \A p \in Overfull(g, sel) :
        /\ keep[p] \subseteq neighbors(g, p[1], p[2]) \cup {Len(g.nodes) + 1}
        /\ keep[p] # {} /\ Cardinality(keep[p]) <= m_limit(p[2])
    BY DEF Prunings
<1>3. ASSUME NEW n, NEW k, <<n, k>> \in Overfull(g, sel)
      PROVE  /\ k \in DOMAIN sel /\ n \in sel[k]
             /\ Cardinality(neighbors(g, n, k)) >= m_limit(k)
    BY <1>3 DEF Overfull
<1>4. ASSUME NEW n, NEW k, <<n, k>> \in Overfull(g, sel)
      PROVE  /\ keep[<<n, k>>] \subseteq neighbors(g, n, k) \cup {Len(g.nodes) + 1}
             /\ keep[<<n, k>>] # {} /\ Cardinality(keep[<<n, k>>]) <= m_limit(k)
    <2> DEFINE p == <<n, k>>
    <2>1. p[1] = n /\ p[2] = k
        OBVIOUS
    <2>2. /\ keep[p] \subseteq neighbors(g, p[1], p[2]) \cup {Len(g.nodes) + 1}
          /\ keep[p] # {} /\ Cardinality(keep[p]) <= m_limit(p[2])
        BY <1>2, <1>4
    <2>. QED
        BY <2>1, <2>2
<1>. QED
    BY <1>1, <1>3, <1>4 DEF PruningFacts

\* Linking a new node joins it to the graph, and no list names a missing node.
LEMMA LinkedJoins ==
    ASSUME NEW g, Shape(g), NEW id \in Ids, NEW v, NEW l \in 0..MaxLevel,
           NEW sel \in Selections(g, l), NEW keep \in Prunings(g, sel)
    PROVE  /\ Joins(g, Linked(g, id, v, l, sel, keep), id, v, l, sel, keep)
           /\ Shape(Linked(g, id, v, l, sel, keep))
<1> DEFINE wide == add_node(g, id, v, l)
           new == Len(g.nodes) + 1
           list(n, k) ==
               IF k \notin DOMAIN sel THEN wide.nodes[n].neighbors[k]
               ELSE IF n = new THEN sel[k]
               ELSE IF <<n, k>> \in DOMAIN keep THEN keep[<<n, k>>]
               ELSE wide.nodes[n].neighbors[k] \cup (IF n \in sel[k] THEN {new} ELSE {})
           lists(n) == [k \in 0..level(wide, n) |-> list(n, k)]
           rows == [n \in 1..new |-> Relisted(wide.nodes[n], lists(n))]
           h == Linked(g, id, v, l, sel, keep)
<1>1. /\ Len(wide.nodes) = new
      /\ \A n \in Indices(g) : wide.nodes[n] = g.nodes[n]
      /\ wide.nodes[new] = [id |-> id, val |-> v, level |-> l, tombstone |-> "no",
                            neighbors |-> [layer \in 0..l |-> {}]]
      /\ \A n \in 1..new : NodeShape(wide.nodes[n], 1..new)
    BY Widened
<1>2. Len(g.nodes) \in Nat /\ new \in Nat /\ new \in 1..new /\ Indices(g) \subseteq 1..new
      /\ new \notin Indices(g) /\ \A n \in 1..new : n \in Indices(g) \/ n = new
    BY ShapeFacts DEF Indices
<1>3. h = [nodes |-> rows, entry |-> EntryAfterInsert(g, l)]
    BY <1>1 DEF Linked, Indices
<1>4. /\ DOMAIN sel = LinkedLayers(g, l)
      /\ \A k \in DOMAIN sel : k \in Nat /\ sel[k] \subseteq Indices(g)
    BY SelectionTyped
<1>5. PruningFacts(g, sel, keep)
    BY PruningTyped
<1>6. l \in Nat
    BY GraphAssumption
<1> HIDE DEF wide, h, new, list, lists
<1>7. \A n \in 1..new : /\ rows[n].id = wide.nodes[n].id /\ rows[n].val = wide.nodes[n].val
                        /\ rows[n].level = wide.nodes[n].level
                        /\ rows[n].tombstone = wide.nodes[n].tombstone
                        /\ rows[n].neighbors = lists(n)
                        /\ rows[n] = [id |-> rows[n].id, val |-> rows[n].val,
                                      level |-> rows[n].level, tombstone |-> rows[n].tombstone,
                                      neighbors |-> rows[n].neighbors]
    <2> SUFFICES ASSUME NEW n \in 1..new
                 PROVE  /\ rows[n].id = wide.nodes[n].id /\ rows[n].val = wide.nodes[n].val
                        /\ rows[n].level = wide.nodes[n].level
                        /\ rows[n].tombstone = wide.nodes[n].tombstone
                        /\ rows[n].neighbors = lists(n)
                        /\ rows[n] = [id |-> rows[n].id, val |-> rows[n].val,
                                      level |-> rows[n].level, tombstone |-> rows[n].tombstone,
                                      neighbors |-> rows[n].neighbors]
        OBVIOUS
    <2> DEFINE w == wide.nodes[n]
               r == rows[n]
               x == lists(n)
    <2>1. r = Relisted(w, x)
        OBVIOUS
    <2>2. NodeShape(w, 1..new)
        BY <1>1
    <2> HIDE DEF w, r, x
    <2>3. r = [id |-> w.id, val |-> w.val, level |-> w.level, tombstone |-> w.tombstone,
               neighbors |-> x]
        BY <2>1, <2>2, RelistedFields
    <2>4. /\ r.id = w.id /\ r.val = w.val /\ r.level = w.level /\ r.tombstone = w.tombstone
          /\ r.neighbors = x
        BY <2>3
    <2>5. r = [id |-> r.id, val |-> r.val, level |-> r.level, tombstone |-> r.tombstone,
               neighbors |-> r.neighbors]
        BY <2>3, <2>4
    <2>. QED
        BY <2>4, <2>5 DEF w, r, x
<1>8. h.nodes = rows /\ h.entry = EntryAfterInsert(g, l)
    BY <1>3
<1>9. IsSeq(rows) /\ Len(rows) = new
    <2>1. DOMAIN rows = 1..new /\ rows = [n \in 1..new |-> rows[n]]
        OBVIOUS
    <2> HIDE DEF rows
    <2>. QED
        BY <1>2, <2>1, Enumerated
<1> HIDE DEF rows
<1>10. ASSUME NEW n \in Indices(g), NEW k \in 0..level(g, n)
       PROVE  /\ rows[n].neighbors[k] =
                    IF k \notin DOMAIN sel THEN g.nodes[n].neighbors[k]
                    ELSE IF <<n, k>> \in DOMAIN keep THEN keep[<<n, k>>]
                    ELSE g.nodes[n].neighbors[k] \cup (IF n \in sel[k] THEN {new} ELSE {})
              /\ list(n, k) \subseteq 1..new
    <2>1. n \in 1..new /\ n # new /\ wide.nodes[n] = g.nodes[n]
        BY <1>1, <1>2
    <2>2. level(wide, n) = level(g, n)
        BY <2>1 DEF level
    <2>3. rows[n].neighbors = lists(n)
        BY <1>7, <2>1
    <2>4. rows[n].neighbors[k] = list(n, k)
        BY <2>2, <2>3 DEF lists
    <2>5. list(n, k) = IF k \notin DOMAIN sel THEN g.nodes[n].neighbors[k]
                       ELSE IF <<n, k>> \in DOMAIN keep THEN keep[<<n, k>>]
                       ELSE g.nodes[n].neighbors[k] \cup (IF n \in sel[k] THEN {new} ELSE {})
        BY <2>1 DEF list
    <2>6. k \in Nat /\ k <= level(g, n) /\ neighbors(g, n, k) \subseteq Indices(g)
        BY ShapeFacts
    <2>7. neighbors(g, n, k) = g.nodes[n].neighbors[k]
        BY <2>6 DEF neighbors
    <2>8. <<n, k>> \in DOMAIN keep => keep[<<n, k>>] \subseteq 1..new
        BY <1>2, <1>5, <2>6 DEF PruningFacts, new
    <2>9. list(n, k) \subseteq 1..new
        BY <1>2, <2>5, <2>6, <2>7, <2>8
    <2>. QED
        BY <2>4, <2>5, <2>9
<1>11. ASSUME NEW k \in 0..l
       PROVE  /\ rows[new].neighbors[k] = (IF k \in DOMAIN sel THEN sel[k] ELSE {})
              /\ list(new, k) \subseteq 1..new
    <2>1. level(wide, new) = l /\ wide.nodes[new].neighbors = [layer \in 0..l |-> {}]
        BY <1>1 DEF level
    <2>2. rows[new].neighbors = lists(new)
        BY <1>2, <1>7
    <2>3. rows[new].neighbors[k] = list(new, k)
        BY <2>1, <2>2 DEF lists
    <2>4. list(new, k) = IF k \in DOMAIN sel THEN sel[k] ELSE {}
        BY <2>1 DEF list
    <2>. QED
        BY <1>2, <1>4, <2>3, <2>4
<1>12. Joins(g, h, id, v, l, sel, keep)
    <2>1. \A n \in Indices(g) :
            /\ rows[n].id = g.nodes[n].id /\ rows[n].val = g.nodes[n].val
            /\ rows[n].level = g.nodes[n].level /\ rows[n].tombstone = g.nodes[n].tombstone
        BY <1>1, <1>2, <1>7
    <2>2. rows[new].id = id /\ rows[new].val = v /\ rows[new].level = l
          /\ rows[new].tombstone = "no"
        <3>1. /\ wide.nodes[new].id = id /\ wide.nodes[new].val = v
              /\ wide.nodes[new].level = l /\ wide.nodes[new].tombstone = "no"
            BY <1>1
        <3>. QED
            BY <1>2, <1>7, <3>1
    <2>. QED
        BY <1>8, <1>9, <1>10, <1>11, <2>1, <2>2 DEF Joins, new
<1>13. EntryAfterInsert(g, l) \in 1..new
    BY <1>2 DEF EntryAfterInsert, Shape, new
<1>14. ASSUME NEW n \in 1..new PROVE NodeShape(rows[n], 1..new)
    <2>1. NodeShape(wide.nodes[n], 1..new)
        BY <1>1
    <2>2. \A k \in 0..level(wide, n) : list(n, k) \subseteq 1..new
        <3>1. CASE n \in Indices(g)
            <4>1. level(wide, n) = level(g, n)
                BY <1>1, <3>1 DEF level
            <4>. QED
                BY <1>10, <3>1, <4>1
        <3>2. CASE n = new
            <4>1. level(wide, n) = l
                BY <1>1, <3>2 DEF level
            <4>. QED
                BY <1>11, <3>2, <4>1
        <3>. QED
            BY <1>2, <3>1, <3>2
    <2>3. lists(n) \in [0..level(wide, n) -> SUBSET (1..new)]
        BY <2>2 DEF lists
    <2>4. rows[n].level = level(wide, n) /\ rows[n].neighbors = lists(n)
        BY <1>7 DEF level
    <2>5. /\ rows[n].id \in Ids /\ rows[n].level \in 0..MaxLevel
          /\ rows[n].tombstone \in {"no", "yes"}
        BY <1>7, <2>1 DEF NodeShape
    <2>. QED
        BY <1>7, <2>3, <2>4, <2>5 DEF NodeShape
<1>15. Shape(h)
    <2>1. Indices(h) = 1..new
        BY <1>8, <1>9 DEF Indices
    <2>2. h = [nodes |-> h.nodes, entry |-> h.entry]
        BY <1>3
    <2>. QED
        BY <1>8, <1>9, <1>13, <1>14, <2>1, <2>2 DEF Shape
<1>. QED
    BY <1>12, <1>15 DEF h

\* An outcome of insert_tracked is a linked graph with the nodes it touched.
LEMMA OutcomeOf ==
    ASSUME NEW g, NEW id, NEW v, NEW o \in insert_tracked(g, id, v)
    PROVE  \E l \in 0..MaxLevel : \E sel \in Selections(g, l) : \E keep \in Prunings(g, sel) :
                o.graph = Linked(g, id, v, l, sel, keep) /\ o.touched = Touched(g, sel)
<1>1. PICK c \in UNION {UNION {{[level |-> l, sel |-> sel, keep |-> keep] : keep \in Prunings(g, sel)} :
                              sel \in Selections(g, l)} : l \in 0..MaxLevel} :
        o = [graph |-> Linked(g, id, v, c.level, c.sel, c.keep), touched |-> Touched(g, c.sel)]
    BY DEF insert_tracked
<1>2. PICK l \in 0..MaxLevel : c \in UNION {{[level |-> l, sel |-> sel, keep |-> keep] :
                                    keep \in Prunings(g, sel)} : sel \in Selections(g, l)}
    BY <1>1
<1>3. PICK sel \in Selections(g, l) : c \in {[level |-> l, sel |-> sel, keep |-> keep] :
                                    keep \in Prunings(g, sel)}
    BY <1>2
<1>4. PICK keep \in Prunings(g, sel) : c = [level |-> l, sel |-> sel, keep |-> keep]
    BY <1>3
<1>5. c.level = l /\ c.sel = sel /\ c.keep = keep
    BY <1>4
<1>6. o.graph = Linked(g, id, v, l, sel, keep) /\ o.touched = Touched(g, sel)
    BY <1>1, <1>5
<1>. QED
    BY <1>6

\* The nodes and lists of a joined graph, seen through neighbors.
Joined(g, h, l, sel, keep) ==
    LET new == Len(g.nodes) + 1 IN
    /\ new \in Nat /\ new \notin Indices(g) /\ Indices(h) = Indices(g) \cup {new}
    /\ level(h, new) = l /\ \A n \in Indices(g) : level(h, n) = level(g, n)
    /\ LiveNodes(h) = LiveNodes(g) \cup {new}
    /\ \A k \in 0..l : neighbors(h, new, k) = IF k \in DOMAIN sel THEN sel[k] ELSE {}
    /\ \A n \in Indices(g) : \A k \in 0..level(g, n) :
         neighbors(h, n, k) =
             IF k \notin DOMAIN sel THEN neighbors(g, n, k)
             ELSE IF <<n, k>> \in DOMAIN keep THEN keep[<<n, k>>]
             ELSE neighbors(g, n, k) \cup (IF n \in sel[k] THEN {new} ELSE {})

\* A graph that a node joins has them.
LEMMA JoinedLists ==
    ASSUME NEW g, Shape(g), NEW h, NEW id, NEW v, NEW l \in 0..MaxLevel, NEW sel, NEW keep,
           Joins(g, h, id, v, l, sel, keep)
    PROVE  Joined(g, h, l, sel, keep)
<1> DEFINE new == Len(g.nodes) + 1
<1>1. Len(g.nodes) \in Nat /\ \A n \in Indices(g) : level(g, n) \in Nat
    BY ShapeFacts
<1>2. new \in Nat /\ new \notin Indices(g) /\ Indices(h) = Indices(g) \cup {new}
    BY <1>1 DEF Joins, Indices
<1>3. level(h, new) = l /\ \A n \in Indices(g) : level(h, n) = level(g, n)
    BY DEF Joins, level
<1>4. LiveNodes(h) = LiveNodes(g) \cup {new}
    <2>1. \A n \in Indices(g) : h.nodes[n].tombstone = g.nodes[n].tombstone
        BY DEF Joins
    <2>2. h.nodes[new].tombstone = "no"
        BY DEF Joins
    <2> HIDE DEF new
    <2>. QED
        BY <1>2, <2>1, <2>2 DEF LiveNodes
<1>5. l \in Nat
    BY GraphAssumption
<1>6. \A k \in 0..l : neighbors(h, new, k) = IF k \in DOMAIN sel THEN sel[k] ELSE {}
    BY <1>3, <1>5 DEF Joins, neighbors
<1>7. ASSUME NEW n \in Indices(g), NEW k \in 0..level(g, n)
      PROVE  neighbors(h, n, k) =
                    IF k \notin DOMAIN sel THEN neighbors(g, n, k)
                    ELSE IF <<n, k>> \in DOMAIN keep THEN keep[<<n, k>>]
                    ELSE neighbors(g, n, k) \cup (IF n \in sel[k] THEN {new} ELSE {})
    <2>1. k <= level(g, n) /\ k <= level(h, n)
        BY <1>1, <1>3
    <2>2. neighbors(h, n, k) = h.nodes[n].neighbors[k] /\ neighbors(g, n, k) = g.nodes[n].neighbors[k]
        BY <2>1 DEF neighbors
    <2>3. h.nodes[n].neighbors[k] =
            IF k \notin DOMAIN sel THEN g.nodes[n].neighbors[k]
            ELSE IF <<n, k>> \in DOMAIN keep THEN keep[<<n, k>>]
            ELSE g.nodes[n].neighbors[k] \cup (IF n \in sel[k] THEN {new} ELSE {})
        BY DEF Joins
    <2>. QED
        BY <2>2, <2>3
<1>. QED
    BY <1>2, <1>3, <1>4, <1>6, <1>7 DEF Joined

\* The nodes that exist on a layer: no link of the layer leaves them.
OnLayer(g, k) == {n \in Indices(g) : level(g, n) >= k}

\* A node selected on a layer exists on it: the search never leaves the layer.
LEMMA SelectedOnLayer ==
    ASSUME NEW g, Shape(g), Links(g), NEW l \in 0..MaxLevel, NEW sel \in Selections(g, l),
           NEW k \in DOMAIN sel
    PROVE  sel[k] \subseteq OnLayer(g, k)
<1> DEFINE from == level(g, g.entry)
           P == [j \in 0..(from + 1) |-> IF j > from THEN {g.entry} ELSE OnLayer(g, j)]
<1>1. g.entry # None
    BY SelectionTyped DEF LinkedLayers
<1>2. /\ g.entry \in Indices(g) /\ from \in Nat /\ l \in Nat
      /\ DOMAIN sel = 0..(IF l <= from THEN l ELSE from)
    BY <1>1, SelectionTyped, GraphAssumption
<1>3. k \in 0..from
    BY <1>2
<1>4. P[from + 1] = {g.entry} /\ \A j \in 0..from : P[j] = OnLayer(g, j)
    BY <1>2
<1>5. \A n \in Indices(g) : level(g, n) \in Nat
    BY ShapeFacts
<1> HIDE DEF P
<1>6. Funnel(g, P, from)
    <2> SUFFICES ASSUME NEW j \in 0..from
                 PROVE  P[j + 1] \subseteq P[j] /\ \A n \in P[j] : neighbors(g, n, j) \subseteq P[j]
        BY DEF Funnel
    <2>1. j \in Nat /\ (j = from \/ j + 1 \in 0..from)
        BY <1>2
    <2>2. P[j + 1] \subseteq P[j]
        <3>1. CASE j = from
            <4>1. g.entry \in OnLayer(g, j)
                BY <1>2, <3>1 DEF OnLayer
            <4>. QED
                BY <1>4, <3>1, <4>1
        <3>2. CASE j + 1 \in 0..from
            <4>1. OnLayer(g, j + 1) \subseteq OnLayer(g, j)
                BY <1>5, <2>1 DEF OnLayer
            <4>. QED
                BY <1>4, <3>2, <4>1
        <3>. QED
            BY <2>1, <3>1, <3>2
    <2>3. ASSUME NEW n \in OnLayer(g, j) PROVE neighbors(g, n, j) \subseteq OnLayer(g, j)
        <3>1. n \in Indices(g) /\ j \in 0..level(g, n)
            BY <1>5, <2>1 DEF OnLayer
        <3>2. \A other \in neighbors(g, n, j) : other \in Indices(g) /\ level(g, other) >= j
            BY <3>1 DEF Links
        <3>. QED
            BY <3>2 DEF OnLayer
    <2>. QED
        BY <1>4, <2>2, <2>3
<1>7. g.entry \in P[from + 1]
    BY <1>4
<1>8. PICK start : Starts(g, sel, P, start)
    BY <1>1, <1>6, <1>7, SelectionWithin
<1>9. start[k] \in OnLayer(g, k) /\ start[k] \in Indices(g)
      /\ sel[k] \subseteq Reach(g, {start[k]}, k)
    BY <1>3, <1>4, <1>8 DEF Starts, Candidates
<1>10. \A n \in OnLayer(g, k) : neighbors(g, n, k) \subseteq OnLayer(g, k)
    BY <1>3, <1>4, <1>6 DEF Funnel
<1>11. Reach(g, {start[k]}, k) \subseteq OnLayer(g, k)
    <2> DEFINE S == {start[k]}
               Q == OnLayer(g, k)
    <2>1. S \subseteq Q /\ \A n \in Q : neighbors(g, n, k) \subseteq Q
        BY <1>9, <1>10
    <2>2. Len(g.nodes) \in Nat
        BY ShapeFacts
    <2> HIDE DEF S, Q
    <2>3. Reach(g, S, k) \subseteq Q
        BY <2>1, <2>2, ReachLeast
    <2>. QED
        BY <2>3 DEF S, Q
<1>. QED
    BY <1>9, <1>11

\* Limits are positive numbers.
LEMMA LimitTyped == ASSUME NEW k \in Nat PROVE m_limit(k) \in Nat /\ m_limit(k) >= 1
BY GraphAssumption DEF m_limit

\* Joining a node under an id that is not live keeps the lists as they must be.
LEMMA JoinKeepsLinks ==
    ASSUME NEW g, Shape(g), Links(g), NEW id, id \notin LiveIds(g), NEW v, NEW l \in 0..MaxLevel,
           NEW sel \in Selections(g, l), NEW keep \in Prunings(g, sel), NEW h,
           Joins(g, h, id, v, l, sel, keep)
    PROVE  Links(h)
<1> DEFINE new == Len(g.nodes) + 1
<1>0. Joined(g, h, l, sel, keep)
    BY JoinedLists
<1>1. /\ new \in Nat /\ new \notin Indices(g) /\ Indices(h) = Indices(g) \cup {new}
      /\ level(h, new) = l /\ \A n \in Indices(g) : level(h, n) = level(g, n)
      /\ LiveNodes(h) = LiveNodes(g) \cup {new}
      /\ \A k \in 0..l : neighbors(h, new, k) = IF k \in DOMAIN sel THEN sel[k] ELSE {}
      /\ \A n \in Indices(g) : \A k \in 0..level(g, n) :
           neighbors(h, n, k) =
               IF k \notin DOMAIN sel THEN neighbors(g, n, k)
               ELSE IF <<n, k>> \in DOMAIN keep THEN keep[<<n, k>>]
               ELSE neighbors(g, n, k) \cup (IF n \in sel[k] THEN {new} ELSE {})
    BY <1>0 DEF Joined
<1>2. PruningFacts(g, sel, keep) /\ DOMAIN keep = Overfull(g, sel)
    BY PruningTyped
<1>3. \A k \in DOMAIN sel : /\ k \in 0..l /\ k \in Nat /\ sel[k] \subseteq Indices(g)
                            /\ Cardinality(sel[k]) <= m_limit(k)
                            /\ sel[k] \subseteq OnLayer(g, k)
    BY SelectionTyped, SelectedOnLayer
<1>4. /\ IsFiniteSet(Indices(g)) /\ LiveNodes(g) \subseteq Indices(g)
      /\ \A n \in Indices(g) : level(g, n) \in Nat
    BY ShapeFacts
<1>5. l \in Nat
    BY GraphAssumption
<1>6. \A m, n \in LiveNodes(h) : h.nodes[m].id = h.nodes[n].id => m = n
    <2>1. \A n \in LiveNodes(g) : h.nodes[n].id = g.nodes[n].id /\ g.nodes[n].id # id
        BY <1>4 DEF Joins, LiveIds
    <2>2. h.nodes[new].id = id
        BY DEF Joins
    <2>3. \A m, n \in LiveNodes(g) : g.nodes[m].id = g.nodes[n].id => m = n
        BY DEF Links
    <2> HIDE DEF new
    <2>. QED
        BY <1>1, <2>1, <2>2, <2>3
<1> HIDE DEF new
<1>7. ASSUME NEW k \in 0..l
      PROVE  /\ Cardinality(neighbors(h, new, k)) <= m_limit(k)
             /\ \A other \in neighbors(h, new, k) :
                    other \in Indices(h) \ {new} /\ level(h, other) >= k
    <2>1. CASE k \in DOMAIN sel
        <3>1. neighbors(h, new, k) = sel[k]
            BY <1>1, <2>1
        <3>2. \A other \in sel[k] : other \in Indices(g) /\ level(g, other) >= k
            BY <1>3, <2>1 DEF OnLayer
        <3>. QED
            BY <1>1, <1>3, <2>1, <3>1, <3>2
    <2>2. CASE k \notin DOMAIN sel
        <3>1. neighbors(h, new, k) = {}
            BY <1>1, <2>2
        <3>2. k \in Nat /\ m_limit(k) \in Nat /\ m_limit(k) >= 1
            BY <1>5, LimitTyped
        <3>. QED
            BY <3>1, <3>2, FS_EmptySet
    <2>. QED
        BY <2>1, <2>2
<1>8. ASSUME NEW n \in Indices(g), NEW k \in 0..level(g, n)
      PROVE  /\ Cardinality(neighbors(h, n, k)) <= m_limit(k)
             /\ \A other \in neighbors(h, n, k) :
                    other \in Indices(h) \ {n} /\ level(h, other) >= k
    <2> DEFINE old == neighbors(g, n, k)
    <2>1. /\ Cardinality(old) <= m_limit(k)
          /\ \A other \in old : other \in Indices(g) \ {n} /\ level(g, other) >= k
        BY DEF Links
    <2>2. k \in Nat /\ m_limit(k) \in Nat /\ n # new
        BY <1>1, <1>4, LimitTyped
    <2>3. \A other \in old : other \in Indices(h) \ {n} /\ level(h, other) >= k
        BY <1>1, <2>1
    <2>4. IsFiniteSet(old) /\ Cardinality(old) \in Nat
        BY <1>4, <2>1, FS_Subset, FS_CardinalityType
    <2>5. CASE k \notin DOMAIN sel
        BY <1>1, <2>1, <2>3, <2>5
    <2>6. CASE k \in DOMAIN sel
        <3>1. new \in Indices(h) \ {n} /\ level(h, new) >= k
            BY <1>1, <1>3, <1>5, <2>2, <2>6
        <3>2. CASE <<n, k>> \in DOMAIN keep
            <4>1. neighbors(h, n, k) = keep[<<n, k>>]
                BY <1>1, <2>6, <3>2
            <4>2. /\ keep[<<n, k>>] \subseteq old \cup {new}
                  /\ Cardinality(keep[<<n, k>>]) <= m_limit(k)
                BY <1>2, <3>2 DEF PruningFacts, new
            <4>. QED
                BY <2>3, <3>1, <4>1, <4>2
        <3>3. CASE <<n, k>> \notin DOMAIN keep /\ n \in sel[k]
            <4>1. neighbors(h, n, k) = old \cup {new}
                BY <1>1, <2>6, <3>3
            <4>2. ~(Cardinality(old) >= m_limit(k))
                BY <1>2, <2>6, <3>3 DEF Overfull
            <4>3. new \notin old
                BY <1>1, <2>1
            <4>4. Cardinality(old \cup {new}) = Cardinality(old) + 1
                BY <2>4, <4>3, FS_AddElement
            <4> HIDE DEF old
            <4>. QED
                BY <2>2, <2>3, <2>4, <3>1, <4>1, <4>2, <4>4
        <3>4. CASE <<n, k>> \notin DOMAIN keep /\ n \notin sel[k]
            <4>1. neighbors(h, n, k) = old \cup {}
                BY <1>1, <2>6, <3>4
            <4>. QED
                BY <2>1, <2>3, <4>1
        <3>. QED
            BY <3>2, <3>3, <3>4
    <2>. QED
        BY <2>5, <2>6
<1>. QED
    BY <1>1, <1>6, <1>7, <1>8 DEF Links

\* Joining a node elects it when it is the first or above the entry point.
LEMMA JoinKeepsTop ==
    ASSUME NEW g, Shape(g), Top(g), NEW id, NEW v, NEW l \in 0..MaxLevel, NEW sel, NEW keep,
           NEW h, Joins(g, h, id, v, l, sel, keep)
    PROVE  Top(h)
<1> DEFINE new == Len(g.nodes) + 1
<1>1. /\ new \in Nat /\ new \notin Indices(g)
      /\ level(h, new) = l /\ \A n \in Indices(g) : level(h, n) = level(g, n)
      /\ LiveNodes(h) = LiveNodes(g) \cup {new}
    BY JoinedLists DEF Joined
<1>2. /\ LiveNodes(g) \subseteq Indices(g)
      /\ \A n \in Indices(g) : level(g, n) \in Nat
    BY ShapeFacts
<1>3. l \in Nat
    BY GraphAssumption
<1>4. h.entry = IF g.entry = None THEN new
                ELSE IF l > level(g, g.entry) THEN new ELSE g.entry
    BY DEF Joins, EntryAfterInsert
<1>5. 0 \notin Indices(g)
    BY DEF Indices
<1> HIDE DEF new
<1>6. CASE LiveNodes(g) = {}
    BY <1>1, <1>3, <1>4, <1>6 DEF Top
<1>7. CASE LiveNodes(g) # {}
    <2>1. g.entry \in LiveNodes(g) /\ g.entry # None
          /\ \A n \in LiveNodes(g) : level(g, n) <= level(g, g.entry)
        BY <1>2, <1>5, <1>7 DEF Top, None
    <2>. QED
        BY <1>1, <1>2, <1>3, <1>4, <2>1 DEF Top
<1>. QED
    BY <1>6, <1>7

-----------------------------------------------------------------------------
(* Reachability of the live vectors.                                        *)

\* More links reach more.
LEMMA ReachMonotone ==
    ASSUME NEW g, Shape(g), NEW h, Shape(h), Indices(g) \subseteq Indices(h),
           NEW k \in Nat, \A n \in Indices(g) : neighbors(g, n, k) \subseteq neighbors(h, n, k),
           NEW S, S \subseteq Indices(g)
    PROVE  Reach(g, S, k) \subseteq Reach(h, S, k)
<1> DEFINE R == Reach(h, S, k)
           P == R \cap Indices(g)
<1>1. S \subseteq R /\ \A n \in R : neighbors(h, n, k) \subseteq R
    BY ReachClosed
<1>2. Len(g.nodes) \in Nat /\ \A n \in Indices(g) : neighbors(g, n, k) \subseteq Indices(g)
    BY ShapeFacts
<1>3. S \subseteq P /\ \A n \in P : neighbors(g, n, k) \subseteq P
    BY <1>1, <1>2
<1>4. P \subseteq R
    OBVIOUS
<1> HIDE DEF P, R
<1>5. Reach(g, S, k) \subseteq P
    BY <1>2, <1>3, ReachLeast
<1>. QED
    BY <1>4, <1>5 DEF R

(***************************************************************************)
(* The part of the graph in use: it holds every live node, no link of any   *)
(* layer leaves it, and each of its nodes reaches all of it on layer 0.     *)
(* Nodes removed before the graph was last empty of live ones are outside.  *)
(***************************************************************************)
Component(g, C) ==
    /\ C \subseteq Indices(g) /\ LiveNodes(g) \subseteq C
    /\ \A n \in C : \A k \in Nat : neighbors(g, n, k) \subseteq C
    /\ \A s \in C : C \subseteq Reach(g, {s}, 0)

Connected(g) == (g.entry # None /\ Len(g.nodes) <= m_limit(0) + 1) => \E C : Component(g, C)

\* The first node after the graph was empty of live ones is a component.
LEMMA JoinStartsComponent ==
    ASSUME NEW g, Shape(g), Top(g), g.entry = None, NEW id, NEW v, NEW l \in 0..MaxLevel,
           NEW sel \in Selections(g, l), NEW keep, NEW h, Shape(h),
           Joins(g, h, id, v, l, sel, keep)
    PROVE  \E C : Component(h, C)
<1> DEFINE new == Len(g.nodes) + 1
<1>0. Joined(g, h, l, sel, keep)
    BY JoinedLists
<1>1. /\ new \in Nat /\ Indices(h) = Indices(g) \cup {new} /\ level(h, new) = l
      /\ LiveNodes(h) = LiveNodes(g) \cup {new}
      /\ \A k \in 0..l : neighbors(h, new, k) = IF k \in DOMAIN sel THEN sel[k] ELSE {}
    BY <1>0 DEF Joined
<1>2. LiveNodes(g) = {}
    <2>1. LiveNodes(g) \subseteq Indices(g) /\ 0 \notin Indices(g)
        BY DEF LiveNodes, Indices
    <2>. QED
        BY <2>1 DEF Top, None
<1>3. DOMAIN sel = {}
    BY SelectionTyped DEF LinkedLayers
<1>4. l \in Nat
    BY GraphAssumption
<1> HIDE DEF new
<1>5. \A k \in Nat : neighbors(h, new, k) = {}
    <2> SUFFICES ASSUME NEW k \in Nat PROVE neighbors(h, new, k) = {}
        OBVIOUS
    <2>1. CASE k \in 0..l
        BY <1>1, <1>3, <2>1
    <2>2. CASE k \notin 0..l
        <3>1. ~(k <= level(h, new))
            BY <1>1, <1>4, <2>2
        <3>. QED
            BY <3>1 DEF neighbors
    <2>. QED
        BY <2>1, <2>2
<1>6. {new} \subseteq Reach(h, {new}, 0)
    <2> DEFINE S == {new}
    <2>1. S \subseteq Indices(h) /\ 0 \in Nat
        BY <1>1
    <2> HIDE DEF S
    <2>2. S \subseteq Reach(h, S, 0)
        BY <2>1, ReachClosed
    <2>. QED
        BY <2>2 DEF S
<1>7. Component(h, {new})
    BY <1>1, <1>2, <1>5, <1>6 DEF Component
<1>. QED
    BY <1>7

\* The search of layer 0 starts in the component, so it finds a node to link to.
LEMMA JoinFindsComponent ==
    ASSUME NEW g, Shape(g), Top(g), g.entry # None, NEW C, Component(g, C),
           NEW l \in 0..MaxLevel, NEW sel \in Selections(g, l)
    PROVE  0 \in DOMAIN sel /\ sel[0] # {} /\ g.entry \in C
<1> DEFINE from == level(g, g.entry)
           P == [j \in 0..(from + 1) |-> C]
<1>1. /\ g.entry \in Indices(g) /\ from \in Nat /\ l \in Nat
      /\ DOMAIN sel = 0..(IF l <= from THEN l ELSE from)
    BY SelectionTyped, GraphAssumption
<1>2. 0 \in DOMAIN sel
    BY <1>1
<1>3. g.entry \in LiveNodes(g) /\ LiveNodes(g) \subseteq C
    BY DEF Top, Component
<1>4. \A j \in 0..(from + 1) : P[j] = C
    OBVIOUS
<1> HIDE DEF P
<1>5. Funnel(g, P, from)
    <2> SUFFICES ASSUME NEW j \in 0..from
                 PROVE  P[j + 1] \subseteq P[j] /\ \A n \in P[j] : neighbors(g, n, j) \subseteq P[j]
        BY DEF Funnel
    <2>1. j \in Nat /\ j \in 0..(from + 1) /\ j + 1 \in 0..(from + 1)
        BY <1>1
    <2>2. P[j] = C /\ P[j + 1] = C
        BY <1>4, <2>1
    <2>. QED
        BY <2>1, <2>2 DEF Component
<1>6. g.entry \in P[from + 1]
    <2>1. from + 1 \in 0..(from + 1)
        BY <1>1
    <2>. QED
        BY <1>3, <1>4, <2>1
<1>7. PICK start : Starts(g, sel, P, start)
    BY <1>5, <1>6, SelectionWithin
<1>8. start[0] \in C /\ (sel[0] = {} <=> Candidates(g, start[0], 0) = {})
    <2>1. 0 \in 0..(from + 1)
        BY <1>1
    <2>2. P[0] = C
        BY <1>4, <2>1
    <2>. QED
        BY <1>2, <1>7, <2>2 DEF Starts
<1>9. g.entry \in Candidates(g, start[0], 0)
    <2>1. C \subseteq Reach(g, {start[0]}, 0)
        BY <1>8 DEF Component
    <2>. QED
        BY <1>3, <2>1 DEF Candidates
<1>. QED
    BY <1>2, <1>3, <1>8, <1>9

\* While no list of layer 0 is cut, the new node belongs to the component.
LEMMA JoinGrowsComponent ==
    ASSUME NEW g, Shape(g), Links(g), Top(g), g.entry # None, NEW C, Component(g, C),
           Len(g.nodes) <= m_limit(0), NEW id, NEW v, NEW l \in 0..MaxLevel,
           NEW sel \in Selections(g, l), NEW keep \in Prunings(g, sel), NEW h, Shape(h),
           Joins(g, h, id, v, l, sel, keep)
    PROVE  \E D : Component(h, D)
<1> DEFINE new == Len(g.nodes) + 1
           D == C \cup {new}
<1>0. Joined(g, h, l, sel, keep)
    BY JoinedLists
<1>1. /\ new \in Nat /\ new \notin Indices(g) /\ Indices(h) = Indices(g) \cup {new}
      /\ level(h, new) = l /\ \A n \in Indices(g) : level(h, n) = level(g, n)
      /\ LiveNodes(h) = LiveNodes(g) \cup {new}
      /\ \A k \in 0..l : neighbors(h, new, k) = IF k \in DOMAIN sel THEN sel[k] ELSE {}
      /\ \A n \in Indices(g) : \A k \in 0..level(g, n) :
           neighbors(h, n, k) =
               IF k \notin DOMAIN sel THEN neighbors(g, n, k)
               ELSE IF <<n, k>> \in DOMAIN keep THEN keep[<<n, k>>]
               ELSE neighbors(g, n, k) \cup (IF n \in sel[k] THEN {new} ELSE {})
    BY <1>0 DEF Joined
<1>2. PruningFacts(g, sel, keep)
    BY PruningTyped
<1>3. \A k \in DOMAIN sel : k \in Nat /\ sel[k] \subseteq LiveNodes(g) /\ sel[k] \subseteq Indices(g)
    BY SelectionTyped
<1>4. /\ IsFiniteSet(Indices(g)) /\ Cardinality(Indices(g)) = Len(g.nodes) /\ Len(g.nodes) \in Nat
      /\ \A n \in Indices(g) : level(g, n) \in Nat
    BY ShapeFacts
<1>5. 0 \in DOMAIN sel /\ sel[0] # {}
    BY JoinFindsComponent
<1>6. C \subseteq Indices(g) /\ LiveNodes(g) \subseteq C
    BY DEF Component
<1>7. l \in Nat
    BY GraphAssumption
<1> HIDE DEF new
<1>8. ASSUME NEW n \in Indices(g) PROVE <<n, 0>> \notin DOMAIN keep
    <2> SUFFICES ASSUME <<n, 0>> \in DOMAIN keep PROVE FALSE
        OBVIOUS
    <2> DEFINE X == neighbors(g, n, 0)
               U == Indices(g) \ {n}
    <2>1. Cardinality(X) >= m_limit(0)
        BY <1>2 DEF PruningFacts
    <2>2. X \subseteq U
        BY <1>4 DEF Links
    <2>3. IsFiniteSet(U) /\ Cardinality(U) = Len(g.nodes) - 1
        BY <1>4, FS_RemoveElement
    <2> HIDE DEF X, U
    <2>4. Cardinality(X) <= Cardinality(U) /\ Cardinality(X) \in Nat
        BY <2>2, <2>3, FS_Subset, FS_CardinalityType
    <2>5. m_limit(0) \in Nat
        BY LimitTyped
    <2>. QED
        BY <1>4, <2>1, <2>3, <2>4, <2>5
<1>9. ASSUME NEW n \in Indices(g)
      PROVE  /\ neighbors(g, n, 0) \subseteq neighbors(h, n, 0)
             /\ n \in sel[0] => new \in neighbors(h, n, 0)
    <2>1. 0 \in 0..level(g, n)
        BY <1>4
    <2>2. neighbors(h, n, 0) = neighbors(g, n, 0) \cup (IF n \in sel[0] THEN {new} ELSE {})
        BY <1>1, <1>5, <1>8, <2>1
    <2>. QED
        BY <2>2
<1>10. ASSUME NEW n \in D, NEW k \in Nat PROVE neighbors(h, n, k) \subseteq D
    <2>1. CASE n = new
        <3>1. CASE k \in 0..l
            <4>1. neighbors(h, new, k) = IF k \in DOMAIN sel THEN sel[k] ELSE {}
                BY <1>1, <3>1
            <4>. QED
                BY <1>3, <1>6, <2>1, <4>1
        <3>2. CASE k \notin 0..l
            <4>1. ~(k <= level(h, new))
                BY <1>1, <1>7, <3>2
            <4>. QED
                BY <2>1, <4>1 DEF neighbors
        <3>. QED
            BY <3>1, <3>2
    <2>2. CASE n \in C
        <3>1. n \in Indices(g) /\ neighbors(g, n, k) \subseteq C
            BY <1>6, <2>2 DEF Component
        <3>2. CASE k \in 0..level(g, n)
            <4>1. neighbors(h, n, k) =
                    IF k \notin DOMAIN sel THEN neighbors(g, n, k)
                    ELSE IF <<n, k>> \in DOMAIN keep THEN keep[<<n, k>>]
                    ELSE neighbors(g, n, k) \cup (IF n \in sel[k] THEN {new} ELSE {})
                BY <1>1, <3>1, <3>2
            <4>2. <<n, k>> \in DOMAIN keep => keep[<<n, k>>] \subseteq neighbors(g, n, k) \cup {new}
                BY <1>2 DEF PruningFacts, new
            <4>. QED
                BY <3>1, <4>1, <4>2
        <3>3. CASE k \notin 0..level(g, n)
            <4>1. ~(k <= level(h, n))
                BY <1>1, <1>4, <3>1, <3>3
            <4>. QED
                BY <4>1 DEF neighbors
        <3>. QED
            BY <3>2, <3>3
    <2>. QED
        BY <2>1, <2>2
<1>11. ASSUME NEW s \in D PROVE D \subseteq Reach(h, {s}, 0)
    <2> DEFINE R == Reach(h, {s}, 0)
    <2>1. s \in R /\ \A n \in R : neighbors(h, n, 0) \subseteq R
        <3> DEFINE S == {s}
        <3>1. S \subseteq Indices(h) /\ 0 \in Nat
            BY <1>1, <1>6
        <3> HIDE DEF S
        <3>2. S \subseteq Reach(h, S, 0)
              /\ \A n \in Reach(h, S, 0) : neighbors(h, n, 0) \subseteq Reach(h, S, 0)
            BY <3>1, ReachClosed
        <3>. QED
            BY <3>2 DEF S
    <2>2. ASSUME NEW x \in C, x \in R PROVE C \subseteq R
        <3> DEFINE S == {x}
                   Q == R \cap Indices(g)
        <3>1. C \subseteq Reach(g, S, 0)
            BY DEF Component
        <3>2. \A n \in Indices(g) : neighbors(g, n, 0) \subseteq Indices(g)
            BY ShapeFacts
        <3>3. S \subseteq Q /\ \A n \in Q : neighbors(g, n, 0) \subseteq Q
            BY <1>6, <1>9, <2>1, <2>2, <3>2
        <3> HIDE DEF S, Q
        <3>4. Reach(g, S, 0) \subseteq Q
            BY <1>4, <3>3, ReachLeast
        <3>. QED
            BY <3>1, <3>4 DEF Q
    <2>3. PICK y \in sel[0] : y \in C /\ y \in Indices(g)
        BY <1>3, <1>5, <1>6
    <2>4. CASE s = new
        <3>1. neighbors(h, new, 0) = sel[0]
            BY <1>1, <1>5, <1>7
        <3>2. y \in R
            BY <2>1, <2>3, <2>4, <3>1
        <3> HIDE DEF R
        <3>. QED
            BY <2>1, <2>2, <2>3, <2>4, <3>2 DEF R
    <2>5. CASE s \in C
        <3>1. C \subseteq R
            BY <2>1, <2>2, <2>5
        <3>2. new \in neighbors(h, y, 0)
            BY <1>9, <2>3
        <3>3. new \in R
            BY <2>1, <2>3, <3>1, <3>2
        <3>. QED
            BY <3>1, <3>3
    <2>. QED
        BY <2>4, <2>5
<1>12. Component(h, D)
    <2>1. D \subseteq Indices(h) /\ LiveNodes(h) \subseteq D
        BY <1>1, <1>6
    <2> HIDE DEF D
    <2>. QED
        BY <1>10, <1>11, <2>1 DEF Component
<1>. QED
    BY <1>12

\* Inserting keeps the graph connected as long as no list of layer 0 is cut.
LEMMA JoinKeepsConnected ==
    ASSUME NEW g, Shape(g), Links(g), Top(g), Connected(g), NEW id, NEW v,
           NEW l \in 0..MaxLevel, NEW sel \in Selections(g, l), NEW keep \in Prunings(g, sel),
           NEW h, Shape(h), Joins(g, h, id, v, l, sel, keep)
    PROVE  Connected(h)
<1> SUFFICES ASSUME Len(h.nodes) <= m_limit(0) + 1 PROVE \E C : Component(h, C)
    BY DEF Connected
<1>1. Len(g.nodes) \in Nat /\ Len(h.nodes) = Len(g.nodes) + 1 /\ m_limit(0) \in Nat
    BY ShapeFacts, LimitTyped DEF Joins
<1>2. Len(g.nodes) <= m_limit(0) /\ Len(g.nodes) <= m_limit(0) + 1
    BY <1>1
<1>3. CASE g.entry = None
    BY <1>3, JoinStartsComponent
<1>4. CASE g.entry # None
    <2>1. PICK C : Component(g, C)
        BY <1>2, <1>4 DEF Connected
    <2>. QED
        BY <1>2, <1>4, <2>1, JoinGrowsComponent
<1>. QED
    BY <1>3, <1>4

\* In a connected graph every search of layer 0 finds every live node.
LEMMA ConnectedReaches ==
    ASSUME NEW g, Shape(g), Top(g), Connected(g), g.entry # None,
           Len(g.nodes) <= m_limit(0) + 1,
           NEW start \in Descent(g, g.entry, level(g, g.entry), 1)
    PROVE  LiveNodes(g) \subseteq Reach(g, {start}, 0)
<1> DEFINE from == level(g, g.entry)
           P(C) == [j \in 0..(from + 1) |-> C]
<1>1. PICK C : Component(g, C)
    BY DEF Connected
<1>2. g.entry \in LiveNodes(g) /\ LiveNodes(g) \subseteq C
    BY <1>1 DEF Top, Component
<1>3. from \in Nat /\ Len(g.nodes) \in Nat
    BY <1>2, ShapeFacts
<1>4. start \in C
    <2>1. CASE from < 1
        <3>1. Descent(g, g.entry, from, 1) = {g.entry}
            BY <2>1 DEF Descent
        <3>. QED
            BY <1>2, <3>1
    <2>2. CASE ~(from < 1)
        <3> DEFINE Q == P(C)
        <3>1. \A j \in 0..(from + 1) : Q[j] = C
            OBVIOUS
        <3>2. 1 \in Nat /\ 1 <= from /\ 1 \in 0..(from + 1) /\ from + 1 \in 0..(from + 1)
            BY <1>3, <2>2
        <3> HIDE DEF Q
        <3>3. Funnel(g, Q, from)
            <4> SUFFICES ASSUME NEW j \in 0..from
                         PROVE  Q[j + 1] \subseteq Q[j] /\ \A n \in Q[j] : neighbors(g, n, j) \subseteq Q[j]
                BY DEF Funnel
            <4>1. j \in Nat /\ j \in 0..(from + 1) /\ j + 1 \in 0..(from + 1)
                BY <1>3
            <4>2. Q[j] = C /\ Q[j + 1] = C
                BY <3>1, <4>1
            <4>. QED
                BY <1>1, <4>1, <4>2 DEF Component
        <3>4. g.entry \in Q[from + 1]
            BY <1>2, <3>1, <3>2
        <3> HIDE DEF from
        <3>5. Descent(g, g.entry, from, 1) \subseteq Q[1]
            BY <1>3, <3>2, <3>3, <3>4, DescentWithin
        <3>6. start \in Q[1]
            BY <3>5 DEF from
        <3>. QED
            BY <3>1, <3>2, <3>6
    <2>. QED
        BY <2>1, <2>2
<1>5. C \subseteq Reach(g, {start}, 0)
    BY <1>1, <1>4 DEF Component
<1>. QED
    BY <1>2, <1>5

-----------------------------------------------------------------------------
(* Removing a node.                                                         *)

\* The live map names a live node of the id.
LEMMA NodeOfLive ==
    ASSUME NEW g, Shape(g), NEW id \in LiveIds(g)
    PROVE  NodeOf(g, id) \in LiveNodes(g) /\ g.nodes[NodeOf(g, id)].id = id
<1> DEFINE S == {n \in LiveNodes(g) : g.nodes[n].id = id}
<1>1. Len(g.nodes) \in Nat /\ S \subseteq 0..Len(g.nodes)
    BY ShapeFacts DEF Indices, LiveNodes
<1>2. S # {}
    BY DEF LiveIds
<1>3. \E n \in S : \A m \in S : m <= n
    <2> HIDE DEF S
    <2>. QED
        BY <1>1, <1>2, LargestExists
<1>4. \E n \in LiveNodes(g) :
        g.nodes[n].id = id /\ \A m \in LiveNodes(g) : g.nodes[m].id = id => m <= n
    BY <1>3
<1>. QED
    BY <1>4 DEF NodeOf

\* When the live ids are distinct, it is the only one.
LEMMA NodeOfOnly ==
    ASSUME NEW g, Shape(g), Links(g), NEW n \in LiveNodes(g)
    PROVE  g.nodes[n].id \in LiveIds(g) /\ NodeOf(g, g.nodes[n].id) = n
<1>1. g.nodes[n].id \in LiveIds(g)
    BY DEF LiveIds
<1>. QED
    BY <1>1, NodeOfLive DEF Links

\* The elected node is live and no live node is above it.
LEMMA ElectedTop ==
    ASSUME NEW g, Shape(g)
    PROVE  IF LiveNodes(g) = {} THEN Elected(g) = None
           ELSE /\ Elected(g) \in LiveNodes(g)
                /\ \A n \in LiveNodes(g) : level(g, n) <= level(g, Elected(g))
<1>1. CASE LiveNodes(g) = {}
    BY <1>1 DEF Elected
<1>2. CASE LiveNodes(g) # {}
    <2> DEFINE L == {level(g, n) : n \in LiveNodes(g)}
    <2>1. Len(g.nodes) \in Nat /\ LiveNodes(g) \subseteq 0..Len(g.nodes) /\ MaxLevel \in Nat
          /\ \A n \in LiveNodes(g) : level(g, n) \in 0..MaxLevel /\ level(g, n) \in Nat
        BY ShapeFacts, GraphAssumption DEF Indices, LiveNodes
    <2>2. L \subseteq 0..MaxLevel /\ L # {}
        BY <1>2, <2>1
    <2>3. \E x \in L : \A y \in L : y <= x
        <3> HIDE DEF L
        <3>. QED
            BY <2>1, <2>2, LargestExists
    <2>4. PICK top \in LiveNodes(g) : \A n \in LiveNodes(g) : level(g, n) <= level(g, top)
        BY <2>3
    <2> DEFINE S == {n \in LiveNodes(g) : level(g, n) = level(g, top)}
    <2>5. S \subseteq 0..Len(g.nodes) /\ S # {}
        BY <2>1
    <2>6. \E x \in S : \A y \in S : y <= x
        <3> HIDE DEF S
        <3>. QED
            BY <2>1, <2>5, LargestExists
    <2>7. \E n \in LiveNodes(g) : \A other \in LiveNodes(g) :
            \/ level(g, other) < level(g, n)
            \/ level(g, other) = level(g, n) /\ other <= n
        BY <2>1, <2>4, <2>6
    <2>8. /\ Elected(g) \in LiveNodes(g)
          /\ \A other \in LiveNodes(g) :
                \/ level(g, other) < level(g, Elected(g))
                \/ level(g, other) = level(g, Elected(g)) /\ other <= Elected(g)
        BY <1>2, <2>7 DEF Elected
    <2>. QED
        BY <1>2, <2>1, <2>8
<1>. QED
    BY <1>1, <1>2

\* A graph h that is g with a tombstone on node n.
Buries(g, h, n) ==
    /\ Len(h.nodes) = Len(g.nodes)
    /\ \A m \in Indices(g) :
        /\ h.nodes[m].id = g.nodes[m].id /\ h.nodes[m].val = g.nodes[m].val
        /\ h.nodes[m].level = g.nodes[m].level /\ h.nodes[m].neighbors = g.nodes[m].neighbors
        /\ h.nodes[m].tombstone = IF m = n THEN "yes" ELSE g.nodes[m].tombstone

\* What the lemmas below use of it.
BuriesFacts(g, h, n) ==
    /\ Indices(h) = Indices(g) /\ LiveNodes(h) = LiveNodes(g) \ {n}
    /\ \A m \in Indices(g) : level(h, m) = level(g, m) /\ \A k \in Nat : neighbors(h, m, k) = neighbors(g, m, k)

\* A buried node keeps its lists, and the others keep everything.
LEMMA BuriedLists ==
    ASSUME NEW g, NEW h, NEW n, Buries(g, h, n)
    PROVE  BuriesFacts(g, h, n)
<1>1. Indices(h) = Indices(g)
    BY DEF Buries, Indices
<1>2. LiveNodes(h) = LiveNodes(g) \ {n}
    <2>1. \A m \in Indices(g) : h.nodes[m].tombstone = "no" <=> (g.nodes[m].tombstone = "no" /\ m # n)
        BY DEF Buries
    <2>. QED
        BY <1>1, <2>1 DEF LiveNodes
<1>3. \A m \in Indices(g) : level(h, m) = level(g, m)
    BY DEF Buries, level
<1>4. ASSUME NEW m \in Indices(g), NEW k \in Nat PROVE neighbors(h, m, k) = neighbors(g, m, k)
    <2>1. level(h, m) = level(g, m) /\ h.nodes[m].neighbors = g.nodes[m].neighbors
        BY <1>3 DEF Buries
    <2>. QED
        BY <2>1 DEF neighbors
<1>. QED
    BY <1>1, <1>2, <1>3, <1>4 DEF BuriesFacts

\* tombstone changes nothing but the mark.
LEMMA TombstoneBuries ==
    ASSUME NEW g, Shape(g), NEW n \in Indices(g)
    PROVE  /\ Buries(g, tombstone(g, n), n)
           /\ Shape(tombstone(g, n))
<1> DEFINE s == g.nodes
           h == tombstone(g, n)
           e == g.entry
<1>1. g = [nodes |-> s, entry |-> e]
    BY DEF Shape
<1>2. IsSeq(s) /\ Len(s) \in Nat /\ n \in 1..Len(s)
    BY ShapeFacts DEF Shape, Indices
<1> DEFINE r == s[n]
           all == Indices(g)
<1>3. NodeShape(r, all)
    BY DEF Shape
<1>4. \A m \in 1..Len(s) : NodeShape(s[m], all)
    BY DEF Shape, Indices
<1> DEFINE dead == [r EXCEPT !.tombstone = "yes"]
           t == [s EXCEPT ![n] = dead]
<1>5. h = [nodes |-> t, entry |-> e]
    <2>1. h = [g EXCEPT !.nodes[n].tombstone = "yes"]
        BY DEF tombstone
    <2>. QED
        BY <1>1, <2>1
<1>6. dead = [id |-> r.id, val |-> r.val, level |-> r.level, tombstone |-> "yes", neighbors |-> r.neighbors]
    <2> DEFINE x1 == r.id
               x2 == r.val
               x3 == r.level
               x4 == r.tombstone
               x5 == r.neighbors
    <2>1. r = [id |-> x1, val |-> x2, level |-> x3, tombstone |-> x4, neighbors |-> x5]
        BY <1>3 DEF NodeShape
    <2> HIDE DEF r
    <2>. QED
        BY <2>1
<1> HIDE DEF dead
<1>7. NodeShape(dead, all) /\ dead.id = r.id /\ dead.val = r.val /\ dead.level = r.level
      /\ dead.tombstone = "yes" /\ dead.neighbors = r.neighbors
    <2> DEFINE x1 == r.id
               x2 == r.val
               x3 == r.level
               x5 == r.neighbors
    <2>1. dead = [id |-> x1, val |-> x2, level |-> x3, tombstone |-> "yes", neighbors |-> x5]
        BY <1>6
    <2>2. x1 \in Ids /\ x3 \in 0..MaxLevel /\ x5 \in [0..x3 -> SUBSET all]
        BY <1>3 DEF NodeShape
    <2> HIDE DEF x1, x2, x3, x5
    <2>3. dead.id = x1 /\ dead.val = x2 /\ dead.level = x3 /\ dead.tombstone = "yes" /\ dead.neighbors = x5
        BY <2>1
    <2>4. NodeShape(dead, all)
        BY <2>1, <2>2, <2>3 DEF NodeShape
    <2>. QED
        BY <2>3, <2>4 DEF x1, x2, x3, x5
<1>8. DOMAIN s = 1..Len(s)
    BY <1>2 DEF IsSeq
<1>9. /\ Len(t) = Len(s) /\ IsSeq(t)
      /\ \A m \in 1..Len(s) : t[m] = IF m = n THEN dead ELSE s[m]
    <2> HIDE DEF s
    <2>1. t = [i \in 1..Len(s) |-> IF i = n THEN dead ELSE s[i]]
        BY <1>2, <1>8
    <2> HIDE DEF t
    <2>2. DOMAIN t = 1..Len(s) /\ t = [i \in 1..Len(s) |-> t[i]]
        BY <2>1
    <2>3. IsSeq(t) /\ Len(t) = Len(s)
        BY <1>2, <2>2, Enumerated
    <2>. QED
        BY <2>1, <2>3
<1> HIDE DEF t, h
<1>10. h.nodes = t /\ h.entry = e
    BY <1>5
<1>11. Indices(h) = all /\ all = 1..Len(s)
    BY <1>9, <1>10 DEF Indices
<1>12. Shape(h)
    <2>1. \A m \in Indices(h) : NodeShape(h.nodes[m], Indices(h))
        BY <1>4, <1>7, <1>9, <1>10, <1>11
    <2>2. h.entry \in {None} \cup Indices(h)
        BY <1>10, <1>11 DEF Shape
    <2>3. h = [nodes |-> h.nodes, entry |-> h.entry]
        BY <1>5, <1>10
    <2>. QED
        BY <1>9, <1>10, <2>1, <2>2, <2>3 DEF Shape
<1>13. Buries(g, h, n)
    <2>1. Len(h.nodes) = Len(g.nodes)
        BY <1>9, <1>10
    <2>2. ASSUME NEW m \in Indices(g)
          PROVE  /\ h.nodes[m].id = g.nodes[m].id /\ h.nodes[m].val = g.nodes[m].val
                 /\ h.nodes[m].level = g.nodes[m].level /\ h.nodes[m].neighbors = g.nodes[m].neighbors
                 /\ h.nodes[m].tombstone = IF m = n THEN "yes" ELSE g.nodes[m].tombstone
        <3>1. h.nodes[m] = IF m = n THEN dead ELSE s[m]
            BY <1>9, <1>10, <1>11
        <3>. QED
            BY <1>7, <3>1
    <2>. QED
        BY <2>1, <2>2 DEF Buries
<1>. QED
    BY <1>12, <1>13 DEF h

\* remove_tracked buries the node of the id and elects a new entry point if it was that node.
LEMMA RemoveBuries ==
    ASSUME NEW g, Shape(g), NEW id \in LiveIds(g)
    PROVE  LET h == remove_tracked(g, id)
               n == NodeOf(g, id) IN
           /\ n \in LiveNodes(g) /\ g.nodes[n].id = id
           /\ Shape(h) /\ Buries(g, h, n)
           /\ Top(g) => Top(h)
           /\ h.entry # None => g.entry # None
<1> DEFINE n == NodeOf(g, id)
           b == tombstone(g, n)
           h == remove_tracked(g, id)
           e == IF g.entry = n THEN Elected(b) ELSE g.entry
<1>1. n \in LiveNodes(g) /\ n \in Indices(g) /\ g.nodes[n].id = id
    BY NodeOfLive, ShapeFacts
<1>2. Buries(g, b, n) /\ Shape(b)
    <2> HIDE DEF n
    <2>. QED
        BY <1>1, TombstoneBuries
<1>3. h = [nodes |-> b.nodes, entry |-> e]
    BY DEF remove_tracked
<1> HIDE DEF n, b, h, e
<1>4. h.nodes = b.nodes /\ h.entry = e
    BY <1>3
<1>5. Buries(g, h, n)
    BY <1>2, <1>4 DEF Buries
<1>6. BuriesFacts(g, h, n) /\ BuriesFacts(g, b, n)
    BY <1>2, <1>5, BuriedLists
<1>7. IF LiveNodes(b) = {} THEN Elected(b) = None
      ELSE /\ Elected(b) \in LiveNodes(b)
           /\ \A m \in LiveNodes(b) : level(b, m) <= level(b, Elected(b))
    BY <1>2, ElectedTop
<1>8. LiveNodes(b) = LiveNodes(h) /\ Indices(b) = Indices(h) /\ LiveNodes(h) = LiveNodes(g) \ {n}
      /\ Indices(h) = Indices(g)
    BY <1>6 DEF BuriesFacts
<1>9. \A m \in Indices(g) : level(b, m) = level(g, m) /\ level(h, m) = level(g, m)
    BY <1>6 DEF BuriesFacts
<1>10. LiveNodes(b) \subseteq Indices(g)
    BY <1>2, <1>8, ShapeFacts
<1>11. e \in {None} \cup Indices(h)
    BY <1>7, <1>8, <1>10 DEF e, Shape
<1>12. Shape(h)
    <2>1. \A m \in Indices(h) : NodeShape(h.nodes[m], Indices(h))
        BY <1>2, <1>4, <1>8 DEF Shape
    <2>. QED
        BY <1>2, <1>3, <1>4, <1>11, <2>1 DEF Shape
<1>13. Top(g) => Top(h)
    <2> SUFFICES ASSUME Top(g) PROVE Top(h)
        OBVIOUS
    <2>1. g.entry \in LiveNodes(g) /\ \A m \in LiveNodes(g) : level(g, m) <= level(g, g.entry)
        BY <1>1 DEF Top
    <2>2. CASE g.entry = n
        BY <1>4, <1>7, <1>8, <1>9, <1>10, <2>2 DEF Top, e
    <2>3. CASE g.entry # n
        <3>1. h.entry = g.entry /\ g.entry \in LiveNodes(h)
            BY <1>4, <1>8, <2>1, <2>3 DEF e
        <3>. QED
            BY <1>8, <1>9, <1>10, <2>1, <3>1 DEF Top
    <2>. QED
        BY <2>2, <2>3
<1>14. h.entry # None => g.entry # None
    BY <1>1, <1>4, ShapeFacts DEF e, None, Indices
<1>. QED
    BY <1>1, <1>5, <1>12, <1>13, <1>14 DEF h, n

\* Burying a node keeps the lists as they must be.
LEMMA BuryKeepsLinks ==
    ASSUME NEW g, Shape(g), Links(g), NEW h, NEW n, Buries(g, h, n)
    PROVE  Links(h)
<1>1. BuriesFacts(g, h, n)
    BY BuriedLists
<1>2. Indices(h) = Indices(g) /\ LiveNodes(h) \subseteq LiveNodes(g) /\ LiveNodes(g) \subseteq Indices(g)
    BY <1>1, ShapeFacts DEF BuriesFacts
<1>3. \A m \in Indices(g) : level(h, m) = level(g, m) /\ level(g, m) \in Nat
        /\ \A k \in Nat : neighbors(h, m, k) = neighbors(g, m, k)
    BY <1>1, ShapeFacts DEF BuriesFacts
<1>4. \A m \in Indices(g) : h.nodes[m].id = g.nodes[m].id
    BY DEF Buries
<1>5. \A l, m \in LiveNodes(h) : h.nodes[l].id = h.nodes[m].id => l = m
    BY <1>2, <1>4 DEF Links
<1>6. ASSUME NEW m \in Indices(h), NEW k \in 0..level(h, m)
      PROVE  /\ Cardinality(neighbors(h, m, k)) <= m_limit(k)
             /\ \A other \in neighbors(h, m, k) : other \in Indices(h) \ {m} /\ level(h, other) >= k
    <2>1. k \in Nat /\ m \in Indices(g) /\ k \in 0..level(g, m)
        BY <1>2, <1>3
    <2>2. neighbors(h, m, k) = neighbors(g, m, k)
        BY <1>3, <2>1
    <2>3. /\ Cardinality(neighbors(g, m, k)) <= m_limit(k)
          /\ \A other \in neighbors(g, m, k) : other \in Indices(g) \ {m} /\ level(g, other) >= k
        BY <2>1 DEF Links
    <2>. QED
        BY <1>2, <1>3, <2>2, <2>3
<1>. QED
    BY <1>5, <1>6 DEF Links

\* A component stays one: the buried node is still walked over.
LEMMA BuryKeepsConnected ==
    ASSUME NEW g, Shape(g), Connected(g), NEW h, Shape(h), NEW n, Buries(g, h, n),
           h.entry # None => g.entry # None
    PROVE  Connected(h)
<1>1. BuriesFacts(g, h, n)
    BY BuriedLists
<1>2. SUFFICES ASSUME h.entry # None, Len(h.nodes) <= m_limit(0) + 1
               PROVE  \E C : Component(h, C)
    BY DEF Connected
<1>3. PICK C : Component(g, C)
    BY <1>2 DEF Connected, Buries
<1>4. Indices(h) = Indices(g) /\ LiveNodes(h) \subseteq LiveNodes(g)
      /\ \A m \in Indices(g) : \A k \in Nat : neighbors(h, m, k) = neighbors(g, m, k)
    BY <1>1 DEF BuriesFacts
<1>5. C \subseteq Indices(g)
    BY <1>3 DEF Component
<1>6. ASSUME NEW s \in C PROVE C \subseteq Reach(h, {s}, 0)
    <2>1. Reach(g, {s}, 0) \subseteq Reach(h, {s}, 0)
        BY <1>4, <1>5, ReachMonotone
    <2>. QED
        BY <1>3, <2>1 DEF Component
<1>7. \A m \in C : \A k \in Nat : neighbors(h, m, k) \subseteq C
    BY <1>3, <1>4, <1>5 DEF Component
<1>8. Component(h, C)
    BY <1>3, <1>4, <1>5, <1>6, <1>7 DEF Component
<1>. QED
    BY <1>8

-----------------------------------------------------------------------------
(* Numbering a set of nodes in order.                                       *)

Rank(S, n) == Cardinality({m \in S : m <= n})
Place(S, k) == CHOOSE n \in S : Rank(S, n) = k

\* The ranks of the members of S number them from 1 to its size.
LEMMA RankNumbers ==
    ASSUME NEW N \in Nat, NEW S, S \subseteq 1..N
    PROVE  /\ \A n \in S : Rank(S, n) \in 1..Cardinality(S)
           /\ \A m, n \in S : m < n => Rank(S, m) < Rank(S, n)
           /\ \A k \in 1..Cardinality(S) : \E n \in S : Rank(S, n) = k
<1> DEFINE upto(n) == {m \in S : m <= n}
<1>1. \A T : T \subseteq S => IsFiniteSet(T) /\ Cardinality(T) \in Nat /\ Cardinality(T) <= Cardinality(S)
    <2>1. IsFiniteSet(S)
        BY FiniteUpTo
    <2>. QED
        BY <2>1, FS_Subset, FS_CardinalityType
<1>2. ASSUME NEW n \in S PROVE Rank(S, n) \in 1..Cardinality(S)
    <2>1. upto(n) \subseteq S /\ n \in upto(n)
        OBVIOUS
    <2>2. IsFiniteSet(upto(n)) /\ Cardinality(upto(n)) \in Nat /\ Cardinality(upto(n)) <= Cardinality(S)
        BY <1>1, <2>1
    <2>3. Cardinality(upto(n)) # 0
        BY <2>1, <2>2, FS_EmptySet
    <2>4. Cardinality(S) \in Nat
        BY <1>1
    <2> HIDE DEF upto
    <2>5. Cardinality(upto(n)) \in 1..Cardinality(S)
        BY <2>2, <2>3, <2>4
    <2>. QED
        BY <2>5 DEF Rank, upto
<1>3. ASSUME NEW m \in S, NEW n \in S, m < n PROVE Rank(S, m) < Rank(S, n)
    <2>1. upto(m) \subseteq upto(n) /\ upto(n) \subseteq S /\ n \in upto(n) /\ n \notin upto(m)
        <3>1. m \in Nat /\ n \in Nat /\ \A x \in S : x \in Nat
            OBVIOUS
        <3>2. \A x \in S : x <= m => x <= n
            BY <1>3, <3>1
        <3>3. n <= n /\ ~(n <= m)
            BY <1>3, <3>1
        <3>. QED
            BY <3>2, <3>3
    <2> HIDE DEF upto
    <2>2. IsFiniteSet(upto(n)) /\ Cardinality(upto(n)) \in Nat /\ Cardinality(upto(m)) \in Nat
        BY <1>1, <2>1
    <2>3. Cardinality(upto(m)) <= Cardinality(upto(n)) /\ Cardinality(upto(m)) # Cardinality(upto(n))
        BY <2>1, <2>2, FS_Subset
    <2>4. Cardinality(upto(m)) < Cardinality(upto(n))
        BY <2>2, <2>3
    <2>. QED
        BY <2>4 DEF Rank, upto
<1>4. ASSUME NEW k \in 1..Cardinality(S) PROVE \E n \in S : Rank(S, n) = k
    <2> DEFINE T == 1..Cardinality(S)
               f == [n \in S |-> Rank(S, n)]
    <2>1. f \in [S -> T]
        BY <1>2
    <2>2. \A m, n \in S : f[m] = f[n] => m = n
        <3> SUFFICES ASSUME NEW m \in S, NEW n \in S, m # n PROVE f[m] # f[n]
            OBVIOUS
        <3>1. f[m] = Rank(S, m) /\ f[n] = Rank(S, n) /\ Rank(S, m) \in Nat /\ Rank(S, n) \in Nat
            BY <1>1, <1>2
        <3>2. m < n \/ n < m
            OBVIOUS
        <3>3. Rank(S, m) < Rank(S, n) \/ Rank(S, n) < Rank(S, m)
            BY <1>3, <3>2
        <3>. QED
            BY <3>1, <3>3
    <2>3. Cardinality(S) \in Nat /\ IsFiniteSet(T) /\ Cardinality(T) = Cardinality(S)
        <3>1. Cardinality(S) \in Nat
            BY <1>1
        <3>. QED
            BY <3>1, FS_Interval
    <2> HIDE DEF T, f
    <2>4. f \in Injection(S, T)
        BY <2>1, <2>2 DEF Injection, IsInjective
    <2>5. f \in Surjection(S, T)
        BY <2>3, <2>4, FS_Injection
    <2>6. \A t \in T : \E n \in S : f[n] = t
        BY <2>5 DEF Surjection
    <2>. QED
        BY <2>6 DEF f, T
<1>. QED
    BY <1>2, <1>3, <1>4

\* So the member at each place is that of its rank.
LEMMA PlacesNumber ==
    ASSUME NEW N \in Nat, NEW S, S \subseteq 1..N
    PROVE  /\ \A k \in 1..Cardinality(S) : Place(S, k) \in S /\ Rank(S, Place(S, k)) = k
           /\ \A n \in S : Rank(S, n) \in 1..Cardinality(S) /\ Place(S, Rank(S, n)) = n
<1>1. /\ \A n \in S : Rank(S, n) \in 1..Cardinality(S)
      /\ \A m, n \in S : m < n => Rank(S, m) < Rank(S, n)
      /\ \A k \in 1..Cardinality(S) : \E n \in S : Rank(S, n) = k
    BY RankNumbers
<1>2. Cardinality(S) \in Nat
    BY FiniteUpTo
<1>3. \A k \in 1..Cardinality(S) : Place(S, k) \in S /\ Rank(S, Place(S, k)) = k
    BY <1>1 DEF Place
<1>4. ASSUME NEW n \in S PROVE Place(S, Rank(S, n)) = n
    <2> DEFINE m == Place(S, Rank(S, n))
    <2>1. m \in S /\ Rank(S, m) = Rank(S, n) /\ Rank(S, n) \in Nat
        BY <1>1, <1>2, <1>3
    <2> HIDE DEF m
    <2>2. m \in Nat /\ n \in Nat
        BY <2>1
    <2>3. m = n \/ m < n \/ n < m
        BY <2>2
    <2>4. ~(m < n) /\ ~(n < m)
        BY <1>1, <2>1
    <2>. QED
        BY <2>3, <2>4 DEF m
<1>. QED
    BY <1>1, <1>3, <1>4

\* The numbers from 1 to n are numbered by themselves.
LEMMA PlacesOfInterval ==
    ASSUME NEW n \in Nat
    PROVE  Cardinality(1..n) = n /\ \A k \in 1..n : Place(1..n, k) = k
<1> DEFINE S == 1..n
<1>1. Cardinality(S) = n
    BY FS_Interval
<1>2. ASSUME NEW k \in 1..n PROVE Rank(S, k) = k
    <2>1. {m \in S : m <= k} = 1..k /\ k \in Nat /\ k > 0
        OBVIOUS
    <2>2. Cardinality(1..k) = k
        BY <2>1, FS_Interval
    <2>. QED
        BY <2>1, <2>2 DEF Rank
<1>3. S \subseteq 1..n
    OBVIOUS
<1> HIDE DEF S
<1>4. \A k \in S : Place(S, Rank(S, k)) = k
    BY <1>3, PlacesNumber
<1>. QED
    BY <1>1, <1>2, <1>4 DEF S

\* What compact collects: the live nodes in order, each with its vector.
Collects(g, p) ==
    LET live == LiveNodes(g) IN
    /\ IsSeq(p) /\ Len(p) = Cardinality(live) /\ Len(p) \in Nat
    /\ \A k \in 1..Len(p) :
        /\ Place(live, k) \in live
        /\ p[k] = [id |-> g.nodes[Place(live, k)].id, val |-> g.nodes[Place(live, k)].val]
    /\ \A n \in live : \E k \in 1..Len(p) : Place(live, k) = n
    /\ \A j, k \in 1..Len(p) : Place(live, j) = Place(live, k) => j = k

\* LivePoints does.
LEMMA LivePointsCollects ==
    ASSUME NEW g, Shape(g)
    PROVE  Collects(g, LivePoints(g))
<1> DEFINE live == LiveNodes(g)
           N == Cardinality(live)
           pt(k) == [id |-> g.nodes[Place(live, k)].id, val |-> g.nodes[Place(live, k)].val]
           p == LivePoints(g)
<1>1. Len(g.nodes) \in Nat /\ live \subseteq 1..Len(g.nodes)
    BY ShapeFacts DEF Indices
<1>2. N \in Nat
    BY <1>1, FiniteUpTo
<1>3. p = [k \in 1..N |-> pt(k)]
    BY DEF LivePoints, Place, Rank
<1>4. /\ \A k \in 1..N : Place(live, k) \in live /\ Rank(live, Place(live, k)) = k
      /\ \A n \in live : Rank(live, n) \in 1..N /\ Place(live, Rank(live, n)) = n
    BY <1>1, PlacesNumber
<1> HIDE DEF live, N, pt, p
<1>5. DOMAIN p = 1..N /\ p = [k \in 1..N |-> p[k]] /\ \A k \in 1..N : p[k] = pt(k)
    BY <1>3
<1>6. IsSeq(p) /\ Len(p) = N
    BY <1>2, <1>5, Enumerated
<1>. QED
    BY <1>2, <1>4, <1>5, <1>6 DEF Collects, pt, p, live, N

-----------------------------------------------------------------------------
(* What the operations keep, and what they do to the stored vectors.        *)

Sound(g) == Shape(g) /\ Links(g) /\ Top(g) /\ Connected(g)

\* The embedding stored under an id is that of the live node of the id.
LEMMA HeldOf ==
    ASSUME NEW g, Shape(g), Links(g)
    PROVE  /\ DOMAIN Held(g) = LiveIds(g)
           /\ \A n \in LiveNodes(g) : g.nodes[n].id \in LiveIds(g) /\ Held(g)[g.nodes[n].id] = g.nodes[n].val
           /\ \A id \in LiveIds(g) : \E n \in LiveNodes(g) : g.nodes[n].id = id
<1>1. DOMAIN Held(g) = LiveIds(g) /\ \A id \in LiveIds(g) : Held(g)[id] = g.nodes[NodeOf(g, id)].val
    BY DEF Held
<1>2. \A n \in LiveNodes(g) : g.nodes[n].id \in LiveIds(g) /\ NodeOf(g, g.nodes[n].id) = n
    BY NodeOfOnly
<1>3. \A id \in LiveIds(g) : \E n \in LiveNodes(g) : g.nodes[n].id = id
    BY DEF LiveIds
<1>. QED
    BY <1>1, <1>2, <1>3

\* A function with the domain and the values of Held is Held.
LEMMA HeldIs ==
    ASSUME NEW g, Shape(g), Links(g), NEW f, f = [id \in LiveIds(g) |-> f[id]],
           \A n \in LiveNodes(g) : f[g.nodes[n].id] = g.nodes[n].val
    PROVE  Held(g) = f
<1>1. Held(g) = [id \in LiveIds(g) |-> Held(g)[id]]
    BY DEF Held
<1>2. \A id \in LiveIds(g) : Held(g)[id] = f[id]
    BY HeldOf
<1>. QED
    BY <1>1, <1>2

\* The stored vectors with one more.
Plus(f, id, v) == [x \in DOMAIN f \cup {id} |-> IF x = id THEN v ELSE f[x]]

\* A node that joins adds its vector.
LEMMA JoinHolds ==
    ASSUME NEW g, Shape(g), Links(g), NEW id, id \notin LiveIds(g), NEW v, NEW l \in 0..MaxLevel,
           NEW sel, NEW keep, NEW h, Shape(h), Links(h), Joins(g, h, id, v, l, sel, keep)
    PROVE  LiveIds(h) = LiveIds(g) \cup {id} /\ Held(h) = Plus(Held(g), id, v)
<1> DEFINE new == Len(g.nodes) + 1
           f == Plus(Held(g), id, v)
<1>1. LiveNodes(h) = LiveNodes(g) \cup {new} /\ LiveNodes(g) \subseteq Indices(g)
    BY JoinedLists, ShapeFacts DEF Joined
<1>2. /\ \A n \in Indices(g) : h.nodes[n].id = g.nodes[n].id /\ h.nodes[n].val = g.nodes[n].val
      /\ h.nodes[new].id = id /\ h.nodes[new].val = v
    BY DEF Joins
<1>3. LiveIds(h) = LiveIds(g) \cup {id}
    <2>1. {h.nodes[n].id : n \in LiveNodes(g)} = LiveIds(g)
        BY <1>1, <1>2 DEF LiveIds
    <2>. QED
        BY <1>1, <1>2, <2>1 DEF LiveIds
<1>4. DOMAIN Held(g) = LiveIds(g)
      /\ \A n \in LiveNodes(g) : g.nodes[n].id \in LiveIds(g) /\ Held(g)[g.nodes[n].id] = g.nodes[n].val
    BY HeldOf
<1>5. f = [x \in LiveIds(h) |-> IF x = id THEN v ELSE Held(g)[x]]
    BY <1>3, <1>4 DEF Plus
<1> HIDE DEF f
<1>6. f = [x \in LiveIds(h) |-> f[x]]
    BY <1>5
<1>7. \A n \in LiveNodes(h) : f[h.nodes[n].id] = h.nodes[n].val
    <2>1. f[id] = v
        BY <1>3, <1>5
    <2>2. \A x \in LiveIds(g) : f[x] = Held(g)[x]
        BY <1>3, <1>5
    <2>. QED
        BY <1>1, <1>2, <1>4, <2>1, <2>2
<1>8. Held(h) = f
    BY <1>6, <1>7, HeldIs
<1>. QED
    BY <1>3, <1>8 DEF f

\* A node that is buried takes its vector away.
LEMMA BuryHolds ==
    ASSUME NEW g, Shape(g), Links(g), NEW n \in LiveNodes(g), NEW h, Shape(h), Links(h), Buries(g, h, n)
    PROVE  /\ LiveIds(h) = LiveIds(g) \ {g.nodes[n].id}
           /\ Held(h) = [x \in LiveIds(g) \ {g.nodes[n].id} |-> Held(g)[x]]
<1> DEFINE id == g.nodes[n].id
           f == [x \in LiveIds(g) \ {id} |-> Held(g)[x]]
<1>1. LiveNodes(h) = LiveNodes(g) \ {n} /\ LiveNodes(g) \subseteq Indices(g)
    BY BuriedLists, ShapeFacts DEF BuriesFacts
<1>2. \A m \in Indices(g) : h.nodes[m].id = g.nodes[m].id /\ h.nodes[m].val = g.nodes[m].val
    BY DEF Buries
<1>3. \A m \in LiveNodes(g) : g.nodes[m].id = id <=> m = n
    BY DEF Links
<1>4. LiveIds(h) = LiveIds(g) \ {id}
    BY <1>1, <1>2, <1>3 DEF LiveIds
<1>5. \A m \in LiveNodes(g) : g.nodes[m].id \in LiveIds(g) /\ Held(g)[g.nodes[m].id] = g.nodes[m].val
    BY HeldOf
<1>6. f = [x \in LiveIds(h) |-> f[x]]
    BY <1>4
<1>7. \A m \in LiveNodes(h) : f[h.nodes[m].id] = h.nodes[m].val
    <2>1. \A x \in LiveIds(h) : f[x] = Held(g)[x]
        BY <1>4
    <2>2. \A m \in LiveNodes(h) : h.nodes[m].id \in LiveIds(h)
        BY DEF LiveIds
    <2>. QED
        BY <1>1, <1>2, <1>5, <2>1, <2>2
<1> HIDE DEF f
<1>8. Held(h) = f
    BY <1>6, <1>7, HeldIs
<1>. QED
    BY <1>4, <1>8 DEF f

\* insert_tracked appends one node, and closes every list over the nodes.
LEMMA InsertShape ==
    ASSUME NEW g, Shape(g), NEW id \in Ids, NEW v, NEW o \in insert_tracked(g, id, v)
    PROVE  /\ Shape(o.graph)
           /\ \E l \in 0..MaxLevel : \E sel \in Selections(g, l) : \E keep \in Prunings(g, sel) :
                Joins(g, o.graph, id, v, l, sel, keep) /\ o.touched = Touched(g, sel)
<1>1. PICK l \in 0..MaxLevel : \E sel \in Selections(g, l) : \E keep \in Prunings(g, sel) :
            o.graph = Linked(g, id, v, l, sel, keep) /\ o.touched = Touched(g, sel)
    BY OutcomeOf
<1>2. PICK sel \in Selections(g, l) : \E keep \in Prunings(g, sel) :
            o.graph = Linked(g, id, v, l, sel, keep) /\ o.touched = Touched(g, sel)
    BY <1>1
<1>3. PICK keep \in Prunings(g, sel) :
            o.graph = Linked(g, id, v, l, sel, keep) /\ o.touched = Touched(g, sel)
    BY <1>2
<1>4. Shape(o.graph) /\ Joins(g, o.graph, id, v, l, sel, keep)
    BY <1>3, LinkedJoins
<1>. QED
    BY <1>3, <1>4

\* Inserting an id that is not live keeps a graph sound and adds the vector.
LEMMA InsertSound ==
    ASSUME NEW g, Sound(g), NEW id \in Ids, id \notin LiveIds(g), NEW v,
           NEW o \in insert_tracked(g, id, v)
    PROVE  /\ Sound(o.graph)
           /\ LiveIds(o.graph) = LiveIds(g) \cup {id}
           /\ Held(o.graph) = Plus(Held(g), id, v)
<1> DEFINE h == o.graph
<1>1. Shape(g) /\ Links(g) /\ Top(g) /\ Connected(g)
    BY DEF Sound
<1>2. Shape(h)
    BY <1>1, InsertShape
<1>3. \E l \in 0..MaxLevel : \E sel \in Selections(g, l) : \E keep \in Prunings(g, sel) :
            Joins(g, h, id, v, l, sel, keep)
    BY <1>1, InsertShape
<1> HIDE DEF h
<1>4. PICK l \in 0..MaxLevel : \E sel \in Selections(g, l) : \E keep \in Prunings(g, sel) :
            Joins(g, h, id, v, l, sel, keep)
    BY <1>3
<1>5. PICK sel \in Selections(g, l) : \E keep \in Prunings(g, sel) : Joins(g, h, id, v, l, sel, keep)
    BY <1>4
<1>6. PICK keep \in Prunings(g, sel) : Joins(g, h, id, v, l, sel, keep)
    BY <1>5
<1>7. Links(h)
    BY <1>1, <1>6, JoinKeepsLinks
<1>8. Top(h)
    BY <1>1, <1>6, JoinKeepsTop
<1>9. Connected(h)
    BY <1>1, <1>2, <1>6, JoinKeepsConnected
<1>10. LiveIds(h) = LiveIds(g) \cup {id} /\ Held(h) = Plus(Held(g), id, v)
    BY <1>1, <1>2, <1>6, <1>7, JoinHolds
<1>. QED
    BY <1>2, <1>7, <1>8, <1>9, <1>10 DEF Sound, h

\* Removing a live id keeps a graph sound and takes the vector away.
LEMMA RemoveSound ==
    ASSUME NEW g, Sound(g), NEW id \in LiveIds(g)
    PROVE  /\ Sound(remove_tracked(g, id))
           /\ LiveIds(remove_tracked(g, id)) = LiveIds(g) \ {id}
           /\ Held(remove_tracked(g, id)) = [x \in LiveIds(g) \ {id} |-> Held(g)[x]]
<1> DEFINE h == remove_tracked(g, id)
           n == NodeOf(g, id)
<1>1. Shape(g) /\ Links(g) /\ Top(g) /\ Connected(g)
    BY DEF Sound
<1>2. /\ n \in LiveNodes(g) /\ g.nodes[n].id = id
      /\ Shape(h) /\ Buries(g, h, n) /\ Top(h) /\ (h.entry # None => g.entry # None)
    BY <1>1, RemoveBuries
<1> HIDE DEF h, n
<1>3. Links(h)
    BY <1>1, <1>2, BuryKeepsLinks
<1>4. Connected(h)
    BY <1>1, <1>2, BuryKeepsConnected
<1>5. LiveIds(h) = LiveIds(g) \ {id} /\ Held(h) = [x \in LiveIds(g) \ {id} |-> Held(g)[x]]
    <2>1. /\ LiveIds(h) = LiveIds(g) \ {g.nodes[n].id}
          /\ Held(h) = [x \in LiveIds(g) \ {g.nodes[n].id} |-> Held(g)[x]]
        BY <1>1, <1>2, <1>3, BuryHolds
    <2>2. g.nodes[n].id = id
        BY <1>2
    <2>. QED
        BY <2>1, <2>2, Zenon
<1>. QED
    BY <1>2, <1>3, <1>4, <1>5 DEF Sound, h

\* The graph without nodes.
LEMMA EmptySound == Sound(Empty) /\ LiveIds(Empty) = {} /\ Indices(Empty) = {} /\ Len(Empty.nodes) = 0
<1>1. Empty.nodes = <<>> /\ Empty.entry = None /\ Empty = [nodes |-> Empty.nodes, entry |-> Empty.entry]
    BY DEF Empty
<1>2. Len(Empty.nodes) = 0 /\ Indices(Empty) = {} /\ IsSeq(Empty.nodes)
    BY <1>1 DEF Indices, IsSeq
<1>3. LiveNodes(Empty) = {} /\ LiveIds(Empty) = {}
    BY <1>2 DEF LiveNodes, LiveIds
<1>4. Shape(Empty)
    BY <1>1, <1>2 DEF Shape
<1>5. Links(Empty) /\ Top(Empty) /\ Connected(Empty)
    BY <1>1, <1>2, <1>3 DEF Links, Top, Connected
<1>. QED
    BY <1>2, <1>3, <1>4, <1>5 DEF Sound

-----------------------------------------------------------------------------
(* Building a graph from points.                                            *)

\* The graphs one more point may lead to.
Grown(gs, p) == UNION {{o.graph : o \in insert_tracked(g, p.id, p.val)} : g \in gs}

Grows(points, m, a) == a = [k \in 0..m |-> IF k = 0 THEN {Empty} ELSE Grown(a[k - 1], points[k])]

\* The sets of graphs after each number of points exist.
LEMMA GrowthExists ==
    ASSUME NEW points
    PROVE  \A m \in Nat : \E a : Grows(points, m, a)
<1> DEFINE A == {m \in Nat : \E a : Grows(points, m, a)}
<1>1. \A n \in Nat : (\A m \in Nat : m < n => m \in A) => n \in A
    <2> SUFFICES ASSUME NEW n \in Nat, \A m \in Nat : m < n => m \in A
                 PROVE  \E a : Grows(points, n, a)
        OBVIOUS
    <2>1. CASE n = 0
        <3>1. Grows(points, 0, [i \in 0..0 |-> {Empty}])
            BY DEF Grows
        <3>. QED
            BY <2>1, <3>1
    <2>2. CASE n # 0
        <3>1. n - 1 \in Nat /\ n - 1 < n
            BY <2>2
        <3>2. PICK w : Grows(points, n - 1, w)
            BY <3>1
        <3> DEFINE Body(f, i) == IF i = 0 THEN {Empty} ELSE Grown(f[i - 1], points[i])
                   h == [i \in 0..n |-> Body(w, i)]
        <3>3. \A i \in 0..n - 1 : w[i] = Body(w, i)
            BY <3>1, <3>2 DEF Grows
        <3> HIDE DEF Body
        <3>4. \A i \in 0..n - 1 : h[i] = w[i]
            BY <3>1, <3>3
        <3>5. \A i \in 0..n : i # 0 => i - 1 \in 0..n - 1
            OBVIOUS
        <3> HIDE DEF h
        <3>6. \A i \in 0..n : Body(w, i) = Body(h, i)
            BY <3>4, <3>5 DEF Body
        <3>7. h = [i \in 0..n |-> Body(h, i)]
            BY <3>6 DEF h
        <3>8. Grows(points, n, h)
            BY <3>7 DEF Grows, Body
        <3>. QED
            BY <3>8
    <2>. QED
        BY <2>1, <2>2
<1>2. \A n \in Nat : n \in A
    <2> HIDE DEF A
    <2>. QED
        BY <1>1, LeastCounterexample
<1>. QED
    BY <1>2

\* Built is the last of them.
LEMMA BuiltIsGrowth ==
    ASSUME NEW points, Len(points) \in Nat
    PROVE  \E a : /\ Built(points) = a[Len(points)]
                  /\ a[0] = {Empty}
                  /\ \A k \in Nat : k < Len(points) => a[k + 1] = Grown(a[k], points[k + 1])
<1> DEFINE N == Len(points)
<1>1. Built(points) = (CHOOSE a : Grows(points, N, a))[N]
    BY DEF Built, Grows, Grown
<1>2. PICK a : Grows(points, N, a) /\ Built(points) = a[N]
    BY <1>1, GrowthExists
<1> DEFINE Body(i) == IF i = 0 THEN {Empty} ELSE Grown(a[i - 1], points[i])
<1>3. a = [i \in 0..N |-> Body(i)]
    BY <1>2 DEF Grows
<1> HIDE DEF Body
<1>4. \A i \in 0..N : a[i] = Body(i)
    BY <1>3
<1>5. a[0] = {Empty}
    BY <1>4 DEF Body
<1>6. ASSUME NEW k \in Nat, k < N PROVE a[k + 1] = Grown(a[k], points[k + 1])
    <2>1. k + 1 \in 0..N /\ k + 1 # 0 /\ (k + 1) - 1 = k
        BY <1>6
    <2>2. a[k + 1] = Body(k + 1)
        BY <1>4, <2>1
    <2>. QED
        BY <2>1, <2>2 DEF Body
<1>. QED
    BY <1>2, <1>5, <1>6

\* A graph that holds the first k points, in order and all live.
HoldsFirst(g, points, k) ==
    /\ Shape(g) /\ Len(g.nodes) = k
    /\ \A i \in 1..k : /\ g.nodes[i].id = points[i].id /\ g.nodes[i].val = points[i].val
                       /\ g.nodes[i].tombstone = "no"

DistinctIds(points) == \A i, j \in 1..Len(points) : points[i].id = points[j].id => i = j

\* One more point joins behind the others.
LEMMA HoldsNext ==
    ASSUME NEW points, Len(points) \in Nat, NEW k \in Nat, k < Len(points),
           NEW g, HoldsFirst(g, points, k), points[k + 1].id \in Ids,
           NEW o \in insert_tracked(g, points[k + 1].id, points[k + 1].val)
    PROVE  /\ HoldsFirst(o.graph, points, k + 1)
           /\ DistinctIds(points) /\ Sound(g) => Sound(o.graph)
<1> DEFINE p == points[k + 1]
           h == o.graph
           v == p.val
           id == p.id
<1>1. Shape(g) /\ Len(g.nodes) = k /\ Indices(g) = 1..k
    BY DEF HoldsFirst, Indices
<1>2. id \in Ids /\ o \in insert_tracked(g, id, v)
    OBVIOUS
<1> HIDE DEF id, v
<1>3. Shape(h) /\ \E l \in 0..MaxLevel : \E sel \in Selections(g, l) : \E keep \in Prunings(g, sel) :
            Joins(g, h, id, v, l, sel, keep)
    BY <1>1, <1>2, InsertShape
<1>4. HoldsFirst(h, points, k + 1)
    <2> HIDE DEF h
    <2>1. PICK l, sel, keep : Joins(g, h, id, v, l, sel, keep)
        BY <1>3
    <2>2. /\ Len(h.nodes) = k + 1
          /\ \A n \in 1..k : /\ h.nodes[n].id = g.nodes[n].id /\ h.nodes[n].val = g.nodes[n].val
                             /\ h.nodes[n].tombstone = g.nodes[n].tombstone
          /\ h.nodes[k + 1].id = id /\ h.nodes[k + 1].val = v /\ h.nodes[k + 1].tombstone = "no"
        BY <1>1, <2>1 DEF Joins
    <2>3. \A i \in 1..(k + 1) : i \in 1..k \/ i = k + 1
        OBVIOUS
    <2>4. \A n \in 1..k : /\ g.nodes[n].id = points[n].id /\ g.nodes[n].val = points[n].val
                          /\ g.nodes[n].tombstone = "no"
        BY DEF HoldsFirst
    <2>5. \A n \in 1..(k + 1) : /\ h.nodes[n].id = points[n].id /\ h.nodes[n].val = points[n].val
                                /\ h.nodes[n].tombstone = "no"
        BY <2>2, <2>3, <2>4 DEF id, v
    <2>. QED
        BY <1>3, <2>2, <2>5 DEF HoldsFirst
<1>5. ASSUME DistinctIds(points), Sound(g) PROVE Sound(h)
    <2>1. id \notin LiveIds(g)
        <3> SUFFICES ASSUME NEW n \in LiveNodes(g), g.nodes[n].id = id PROVE FALSE
            BY DEF LiveIds
        <3>1. n \in 1..k /\ n \in 1..Len(points) /\ k + 1 \in 1..Len(points) /\ n # k + 1
            BY <1>1 DEF LiveNodes
        <3>2. points[n].id = points[k + 1].id
            BY <3>1 DEF HoldsFirst, id
        <3>. QED
            BY <1>5, <3>1, <3>2 DEF DistinctIds
    <2>. QED
        BY <1>2, <1>5, <2>1, InsertSound
<1>. QED
    BY <1>4, <1>5

\* What bulk_insert builds holds the points, in order and all live.
LEMMA BuiltHolds ==
    ASSUME NEW points, Len(points) \in Nat, \A k \in 1..Len(points) : points[k].id \in Ids,
           NEW h \in Built(points)
    PROVE  /\ HoldsFirst(h, points, Len(points))
           /\ DistinctIds(points) => Sound(h)
<1>1. PICK a : /\ Built(points) = a[Len(points)] /\ a[0] = {Empty}
               /\ \A k \in Nat : k < Len(points) => a[k + 1] = Grown(a[k], points[k + 1])
    BY BuiltIsGrowth
<1> DEFINE N == Len(points)
           J(g, k) == HoldsFirst(g, points, k) /\ (DistinctIds(points) => Sound(g))
           A == {k \in Nat : \A g \in a[k] : J(g, k)}
<1>2. 0 \in A
    <2>1. J(Empty, 0)
        BY EmptySound DEF HoldsFirst, Sound
    <2>. QED
        BY <1>1, <2>1
<1>3. \A k \in Nat : k < N /\ k \in A => k + 1 \in A
    <2> SUFFICES ASSUME NEW k \in Nat, k < N, k \in A, NEW h2 \in a[k + 1] PROVE J(h2, k + 1)
        OBVIOUS
    <2>1. h2 \in Grown(a[k], points[k + 1])
        BY <1>1
    <2>2. PICK g \in a[k] : h2 \in {o.graph : o \in insert_tracked(g, points[k + 1].id, points[k + 1].val)}
        BY <2>1 DEF Grown
    <2>3. PICK o \in insert_tracked(g, points[k + 1].id, points[k + 1].val) : h2 = o.graph
        BY <2>2
    <2>4. J(g, k) /\ points[k + 1].id \in Ids
        OBVIOUS
    <2>5. /\ HoldsFirst(o.graph, points, k + 1)
          /\ DistinctIds(points) /\ Sound(g) => Sound(o.graph)
        BY <2>4, HoldsNext
    <2>. QED
        BY <2>3, <2>4, <2>5
<1>4. N \in A
    <2>1. N \in Nat
        OBVIOUS
    <2> HIDE DEF A, N
    <2>2. \A k \in 0..N : k \in A
        BY <1>2, <1>3, <2>1, StepByStep
    <2>. QED
        BY <2>1, <2>2
<1>. QED
    BY <1>1, <1>4
=============================================================================
