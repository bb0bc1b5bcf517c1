------------------------------- MODULE Query -------------------------------
(***************************************************************************)
(* eidosdb-query and the scoring of eidosdb-core and eidosdb-lexical, as    *)
(* operators on values: filters, dense and lexical ranking, reciprocal rank *)
(* fusion, and the searches and writes of a Collection.                     *)
(*                                                                          *)
(* Data.  An option is a sequence of length 0 or 1.  Identifiers are        *)
(* integers in UUID order.  An embedding [len, x] is x times the all-ones   *)
(* vector of len components; a text is a sequence of words, " " being white *)
(* space and "!" a word without alphanumeric characters; a Value is a kind  *)
(* and an integer (for text, its place in the lexicographic order).  Hits   *)
(* carry no score: it is the order that the properties are about.  One call *)
(* at a time: interleavings are the subject of Collection and Server.       *)
(***************************************************************************)
EXTENDS Integers, Sequences, FiniteSets, FiniteSetsExt, Functions

CONSTANTS
    Floats,     \* the finite f64 values: dense near zero, ever further apart away from it
    NaN, Inf,   \* the non-finite ones: NaN orders with nothing, Inf above every number
    MinI64, MaxI64,   \* the range of i64
    MaxUsize,   \* where saturating_mul saturates
    MaxDepth    \* bound: how deep filters nest

None == <<>>
Some(v) == <<v>>
With(f, x, value) == [y \in DOMAIN f \cup {x} |-> IF y = x THEN value ELSE f[y]]
Without(f, S) == Restrict(f, DOMAIN f \ S)

NonFinite == {NaN, Inf}

Metrics == {"Cosine", "DotProduct", "Euclidean"}

-----------------------------------------------------------------------------
(* Values and filters *)

Distance(a, b) == IF a < b THEN b - a ELSE a - b

\* `as f64`: an integer that no float equals becomes the nearest one.  Between two as
\* near, with the gap from one float to the next being twice their distance, it is the
\* one whose mantissa is even.
as_f64(value) ==
    LET n == value.v
        d == Min({Distance(x, n) : x \in Floats})
        nearest == {x \in {n - d, n + d} : x \in Floats}
        even(x) == x % (4 * d) = 0
    IN  IF value.kind # "Integer" \/ n \in Floats THEN n
        ELSE CHOOSE x \in nearest : (\E y \in nearest : even(y)) => even(x)

is_numeric(value) == value.kind \in {"Integer", "Float"}

Compare(a, b) == IF a < b THEN "Less" ELSE IF a > b THEN "Greater" ELSE "Equal"

\* Mutant: every numeric pair goes through f64 with its sides exchanged.
ordered_swapped(a, b) ==
    IF a.kind = b.kind /\ a.kind \in {"Integer", "Text"} THEN Some(Compare(a.v, b.v))
    ELSE IF is_numeric(a) /\ is_numeric(b) /\ NaN \notin {a.v, b.v}
    THEN Some(Compare(as_f64(b), as_f64(a)))
    ELSE None

ordered(a, b) ==
    IF a.kind = b.kind /\ a.kind \in {"Integer", "Text"} THEN Some(Compare(a.v, b.v))
    ELSE IF is_numeric(a) /\ is_numeric(b) /\ NaN \notin {a.v, b.v}
    THEN Some(Compare(as_f64(a), as_f64(b)))
    ELSE None

\* PartialEq of Value: by variant, and NaN equals nothing.
SameValue(a, b) == a = b /\ ~(a.kind = "Float" /\ a.v = NaN)

\* A payload is a function from field names to [kind, values]; a Scalar holds one.
scalar(payload, field) ==
    IF field \in DOMAIN payload /\ payload[field].kind = "Scalar"
    THEN Some(payload[field].values[1])
    ELSE None

ordered_is(payload, field, value, expected) ==
    LET s == scalar(payload, field)
    IN  s # None /\ ordered(s[1], value) # None /\ ordered(s[1], value)[1] \in expected

\* A filter, or its message, and everything nested in it.
Nested(root, Inside(_)) ==
    LET within[k \in 0..MaxDepth] ==
            IF k = 0 THEN {root}
            ELSE within[k - 1] \cup UNION {Range(Inside(f)) : f \in within[k - 1]}
    IN  within[MaxDepth]

\* A filter that is not combined of others: [op, field, values], one value to compare.
Matches(f, payload) ==
    LET s == scalar(payload, f.field)
        orders(expected) == ordered_is(payload, f.field, f.values[1], expected)
    IN  CASE f.op = "Eq"  -> s # None /\ SameValue(s[1], f.values[1])
          [] f.op = "Ne"  -> s # None /\ ~SameValue(s[1], f.values[1])
          [] f.op = "Lt"  -> orders({"Less"})
          [] f.op = "Lte" -> orders({"Less", "Equal"})
          [] f.op = "Gt"  -> orders({"Greater"})
          [] f.op = "Gte" -> orders({"Greater", "Equal"})
          [] f.op = "In"  -> s # None /\ \E v \in Range(f.values) : SameValue(v, s[1])
          [] f.op = "Contains" ->
                 /\ f.field \in DOMAIN payload
                 /\ payload[f.field].kind = "Array"
                 /\ \E v \in Range(payload[f.field].values) : SameValue(v, f.values[1])
          [] f.op = "Exists" -> f.field \in DOMAIN payload

\* The recursion of matches over And, Or and Not, whose filters are in subs.
evaluate(f, payload) ==
    LET holds[g \in Nested(f, LAMBDA h : h.subs)] ==
            CASE g.op = "And" -> \A h \in Range(g.subs) : holds[h]
              [] g.op = "Or"  -> \E h \in Range(g.subs) : holds[h]
              [] g.op = "Not" -> ~holds[g.subs[1]]
              [] OTHER -> Matches(g, payload)
    IN  holds[f]

\* Payload::new refuses non-finite floats.
check_finite(value) == ~(value.kind = "Float" /\ value.v \in NonFinite)
FinitePayload(payload) ==
    \A field \in DOMAIN payload : \A v \in Range(payload[field].values) : check_finite(v)

\* Embedding::new, Document::new, HnswConfig::new, Dimension::try_from.
ValidEmbedding(e) == e.len > 0 /\ e.x \notin NonFinite
ValidDocument(text) == \E i \in DOMAIN text : text[i] # " "
ValidConfig(c) == c.m >= 2 /\ c.ef_construction >= 1 /\ c.ef_search >= 1

-----------------------------------------------------------------------------
(* Ranking.  A collection has a meta record and three stores:               *)
(* vectors, documents and payloads, functions from identifiers.             *)

matching_ids(col, f) == {id \in DOMAIN col.payloads : evaluate(f, col.payloads[id])}

\* The ids a query admits: with no filter, all of them.
Admissible(col, filter, ids) ==
    IF filter = None THEN ids ELSE ids \cap matching_ids(col, filter[1])

Sign(n) == IF n > 0 THEN 1 ELSE IF n < 0 THEN -1 ELSE 0

\* Metric::score up to a factor common to the embeddings compared.
score(metric, a, b) ==
    CASE metric = "Cosine" -> Sign(a.x) * Sign(b.x)
      [] metric = "DotProduct" -> a.x * b.x
      [] metric = "Euclidean" -> IF a.x < b.x THEN a.x - b.x ELSE b.x - a.x

\* A set in the order of a comparison: the k-th has k - 1 before it.
Ranked(S, Before(_, _)) ==
    [k \in 1..Cardinality(S) |->
        CHOOSE x \in S : Cardinality({y \in S : Before(y, x)}) = k - 1]

Truncate(s, k) == SubSeq(s, 1, IF k < Len(s) THEN k ELSE Len(s))

\* search_filtered of the vector indexes: best score first, ties by ascending id.
\* The flat scan is exact.  So is the beam of an HNSW search as long as ef_search is no
\* smaller than the graph, tombstones included, and no list of it was cut (LiveReachable
\* of HnswGraph); beyond that it may miss ids, and no property here relies on it.
search_filtered(col, e, k, metric, admissible) ==
    LET value(id) == score(metric, e, col.vectors[id])
        before(a, b) == value(a) > value(b) \/ (value(a) = value(b) /\ a < b)
    IN  Truncate(Ranked(admissible \cap DOMAIN col.vectors, before), k)

\* The places of a text that hold a token.
tokenize(text) == {i \in DOMAIN text : text[i] \notin {" ", "!"}}

\* BM25 for a query of one distinct term, where the idf is a common factor:
\* f / (f + K1 * (1 - B + B * len / avgdl)) compared by cross-multiplication,
\* B being 3/4 and avgdl the tokens of the corpus over its documents.
search_text_filtered(col, text, k, admissible) ==
    LET terms == {text[i] : i \in tokenize(text)}
        corpus == DOMAIN col.documents
        tokens(id) == tokenize(col.documents[id])
        total == Cardinality(UNION {{id} \X tokens(id) : id \in corpus})
        frequency(id) == Cardinality({i \in tokens(id) : col.documents[id][i] \in terms})
        length(id) == total + 3 * Cardinality(tokens(id)) * Cardinality(corpus)
        better(a, b) == frequency(a) * length(b) > frequency(b) * length(a)
        before(a, b) == better(a, b) \/ (~better(b, a) /\ a < b)
        hits == {id \in corpus \cap admissible : frequency(id) > 0}
    IN  Truncate(Ranked(hits, before), k)

PositionIn(ranking, id) == CHOOSE p \in DOMAIN ranking : ranking[p] = id

\* Mutant: the ranks themselves are summed, and the larger sum comes first.
fuse_rrf_reversed(rankings, rrf_k) ==
    LET ids == Range(rankings[1]) \cup Range(rankings[2])
        rank(i, id) == IF id \in Range(rankings[i]) THEN PositionIn(rankings[i], id) ELSE 0
        score_of(id) == rank(1, id) + rank(2, id)
        before(a, b) == score_of(a) > score_of(b) \/ (score_of(a) = score_of(b) /\ a < b)
    IN  Ranked(ids, before)

\* What a ranking adds to a score: 1 / (rrf_k + rank), nothing when the id is not in it.
Share(ranking, rrf_k, id) ==
    IF id \in Range(ranking) THEN [num |-> 1, den |-> rrf_k + PositionIn(ranking, id)]
    ELSE [num |-> 0, den |-> 1]

\* fuse_rrf of two rankings, the way it is called: the sums of the shares, as exact
\* fractions; ties by ascending id.
fuse_rrf(rankings, rrf_k) ==
    LET ids == Range(rankings[1]) \cup Range(rankings[2])
        one(id) == Share(rankings[1], rrf_k, id)
        two(id) == Share(rankings[2], rrf_k, id)
        num(id) == one(id).num * two(id).den + two(id).num * one(id).den
        den(id) == one(id).den * two(id).den
        better(a, b) == num(a) * den(b) > num(b) * den(a)
        before(a, b) == better(a, b) \/ (~better(b, a) /\ a < b)
    IN  Ranked(ids, before)

saturating_mul(a, b) == IF a * b > MaxUsize THEN MaxUsize ELSE a * b

-----------------------------------------------------------------------------
(* Collection.  An operation gives [code, col, value]: the status its error *)
(* becomes, the collection after it, and what it returns.                   *)

supported_metrics(col) ==
    IF col.meta.index_type = "Flat" THEN Metrics ELSE {col.meta.metric}

Done(col, value) == [code |-> "OK", col |-> col, value |-> value]
Failed(col, code) == [code |-> code, col |-> col, value |-> None]

EmptyCollection(meta) ==
    [meta |-> meta, vectors |-> <<>>, documents |-> <<>>, payloads |-> <<>>]

\* The prior vector is removed before the index refuses a wrong dimension.
upsert(col, p) ==
    LET removed == [col EXCEPT !.vectors = Without(@, {p.id})]
        put(store, option) == IF option = None THEN Without(store, {p.id})
                              ELSE With(store, p.id, option[1])
    IN  IF p.embedding.len # col.meta.dimension THEN Failed(removed, "INVALID_ARGUMENT")
        ELSE Done([col EXCEPT !.vectors = With(@, p.id, p.embedding),
                              !.documents = put(@, p.document),
                              !.payloads = put(@, p.payload)], None)

Forget(col, ids) ==
    [meta |-> col.meta, vectors |-> Without(col.vectors, ids),
     documents |-> Without(col.documents, ids), payloads |-> Without(col.payloads, ids)]

delete(col, id) == Done(Forget(col, {id}), Some(id \in DOMAIN col.vectors))

delete_by_filter(col, f) ==
    LET matching == matching_ids(col, f)
    IN  Done(Forget(col, matching), Some(Cardinality(matching \cap DOMAIN col.vectors)))

hydrate(col, ids) ==
    [i \in DOMAIN ids |->
        [id |-> ids[i],
         payload |-> IF ids[i] \in DOMAIN col.payloads
                     THEN Some(col.payloads[ids[i]]) ELSE None]]

metric_of(col, metric) == IF metric = None THEN col.meta.metric ELSE metric[1]

\* Mutant: the filter is applied to the k nearest, after the scan.
search_postfiltered(col, q) ==
    LET metric == metric_of(col, q.metric)
        nearest == search_filtered(col, q.embedding, q.k, metric, DOMAIN col.vectors)
    IN  IF metric \notin supported_metrics(col) \/ q.embedding.len # col.meta.dimension
        THEN Failed(col, "INVALID_ARGUMENT")
        ELSE Done(col, hydrate(col, SelectSeq(nearest,
                 LAMBDA id : id \in Admissible(col, q.filter, DOMAIN col.vectors))))

search(col, q) ==
    LET metric == metric_of(col, q.metric)
        admissible == Admissible(col, q.filter, DOMAIN col.vectors)
    IN  IF metric \notin supported_metrics(col) \/ q.embedding.len # col.meta.dimension
        THEN Failed(col, "INVALID_ARGUMENT")
        ELSE Done(col, hydrate(col,
                 search_filtered(col, q.embedding, q.k, metric, admissible)))

search_hybrid(col, q) ==
    LET metric == metric_of(col, q.metric)
        depth == saturating_mul(q.k, q.overfetch_factor)
        known == DOMAIN col.vectors \cup DOMAIN col.documents
        admissible == Admissible(col, q.filter, known)
        dense == search_filtered(col, q.vector[1], depth, metric, admissible)
        lexical == search_text_filtered(col, q.text[1], depth, admissible)
        ranked == IF q.text = None THEN dense
                  ELSE IF q.vector = None THEN lexical
                  ELSE fuse_rrf(<<dense, lexical>>, q.rrf_k)
    IN  IF \/ q.vector = None /\ q.text = None
           \/ /\ q.vector # None
              /\ \/ metric \notin supported_metrics(col)
                 \/ q.vector[1].len # col.meta.dimension
        THEN Failed(col, "INVALID_ARGUMENT")
        ELSE Done(col, hydrate(col, Truncate(ranked, q.k)))

=============================================================================
