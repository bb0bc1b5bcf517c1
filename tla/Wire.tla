-------------------------------- MODULE Wire --------------------------------
(***************************************************************************)
(* eidosdb-proto: the conversions between domain values and the messages of *)
(* eidosdb.v1, and the resolution of optional parameters by the server.     *)
(*                                                                          *)
(* A message is a record of its fields; an optional field, a oneof without  *)
(* a kind ("none") and an enum number that is unspecified or unknown can    *)
(* all be on the wire.  X_from_pb gives an option: None when the message is *)
(* refused (every ConversionError becomes INVALID_ARGUMENT).                *)
(***************************************************************************)
EXTENDS Query

CONSTANT MaxU32   \* the largest u32

ASSUME WireAssumption == MaxU32 \in Nat /\ MaxUsize \in Nat /\ MaxU32 <= MaxUsize

AnyNone(options) == \E i \in DOMAIN options : options[i] = None

\* collect::<Result<Vec<_>, _>>: all of them, or the first error.
Collect(options) ==
    IF AnyNone(options) THEN None
    ELSE Some([i \in DOMAIN options |-> options[i][1]])

Map(s, Op(_)) == [i \in DOMAIN s |-> Op(s[i])]
MapOption(option, Op(_)) == IF option = None THEN None ELSE Some(Op(option[1]))

\* option.map(f).transpose(): an absent field is fine, a refused one is not.
Transpose(option, Op(_)) ==
    IF option = None THEN Some(None)
    ELSE IF Op(option[1]) = None THEN None ELSE Some(Op(option[1]))

-----------------------------------------------------------------------------
(* Enums *)

MetricNumber == [Cosine |-> 1, DotProduct |-> 2, Euclidean |-> 3]
metric_to_pb(metric) == MetricNumber[metric]

\* Metric::try_from refuses unknown numbers, metric_from_pb the number 0.
metric_from_pb(n) ==
    IF n \in Range(MetricNumber) THEN Some(CHOOSE m \in Metrics : MetricNumber[m] = n)
    ELSE None

optional_metric_from_pb(option) ==
    IF option \in {None, Some(0)} THEN Some(None)
    ELSE IF metric_from_pb(option[1]) = None THEN None ELSE Some(metric_from_pb(option[1]))

IndexTypeNumber == [Flat |-> 1, Hnsw |-> 2]
index_type_to_pb(choice) == IndexTypeNumber[choice]
index_type_from_pb(n) ==
    IF n \in Range(IndexTypeNumber)
    THEN Some(CHOOSE t \in DOMAIN IndexTypeNumber : IndexTypeNumber[t] = n)
    ELSE None

-----------------------------------------------------------------------------
(* Values, payloads and filters *)

ValueKind == [Text |-> "text", Integer |-> "integer", Float |-> "float_value",
              Bool |-> "bool_value"]
FieldKind == [Scalar |-> "scalar", Array |-> "array"]
FilterKind == [Eq |-> "eq", Ne |-> "ne", Lt |-> "lt", Lte |-> "lte", Gt |-> "gt",
               Gte |-> "gte", In |-> "is_in", Contains |-> "contains",
               Exists |-> "exists", And |-> "all_of", Or |-> "any_of",
               Not |-> "negation"]
Named(kinds, kind) == CHOOSE name \in DOMAIN kinds : kinds[name] = kind

value_to_pb(value) == [kind |-> ValueKind[value.kind], v |-> value.v]
value_from_pb(m) ==
    IF m.kind = "none" THEN None ELSE Some([kind |-> Named(ValueKind, m.kind), v |-> m.v])

field_value_to_pb(f) == [kind |-> FieldKind[f.kind], values |-> Map(f.values, value_to_pb)]
field_value_from_pb(m) ==
    LET values == Collect(Map(m.values, value_from_pb))
    IN  IF m.kind = "none" \/ values = None THEN None
        ELSE Some([kind |-> Named(FieldKind, m.kind), values |-> values[1]])

payload_to_pb(payload) == Map(payload, field_value_to_pb)

\* Mutant: the finiteness of floats is left to the caller.
payload_from_pb_unchecked(m) == Collect(Map(m, field_value_from_pb))

payload_from_pb(m) ==
    LET fields == Collect(Map(m, field_value_from_pb))
    IN  IF fields = None THEN None
        ELSE IF FinitePayload(fields[1]) THEN fields ELSE None

filter_to_pb(f) ==
    LET message[g \in Nested(f, LAMBDA h : h.subs)] ==
            [kind |-> FilterKind[g.op], field |-> g.field,
             values |-> Map(g.values, value_to_pb),
             filters |-> [i \in DOMAIN g.subs |-> message[g.subs[i]]]]
    IN  message[f]

\* A comparison without its value is refused; so is a filter without a kind.
NeedsValue == {"eq", "ne", "lt", "lte", "gt", "gte", "contains"}
DecodedFilter(m, subs) ==
    LET values == Collect(Map(m.values, value_from_pb))
    IN  IF \/ m.kind = "none"
           \/ m.kind \in NeedsValue /\ m.values = <<>>
           \/ values = None \/ subs = None
        THEN None
        ELSE Some([op |-> Named(FilterKind, m.kind), field |-> m.field,
                   values |-> values[1], subs |-> subs[1]])

filter_from_pb(m) ==
    LET filter[n \in Nested(m, LAMBDA h : h.filters)] ==
            DecodedFilter(n, Collect([i \in DOMAIN n.filters |-> filter[n.filters[i]]]))
    IN  filter[m]

delete_by_filter_to_pb(collection, f) ==
    [collection |-> collection, filter |-> Some(filter_to_pb(f))]
delete_by_filter_from_pb(m) ==
    IF m.filter = None THEN None ELSE filter_from_pb(m.filter[1])

-----------------------------------------------------------------------------
(* Points and batches *)

ID_LENGTH == 16
vector_id_to_pb(id) == [len |-> ID_LENGTH, n |-> id]
vector_id_from_pb(m) == IF m.len # ID_LENGTH THEN None ELSE Some(m.n)

embedding_to_pb(e) == e
embedding_from_pb(v) == IF ValidEmbedding(v) THEN Some(v) ELSE None

document_from_pb(text) == IF ValidDocument(text) THEN Some(text) ELSE None

point_to_pb(p) ==
    [id |-> vector_id_to_pb(p.id), vector |-> embedding_to_pb(p.embedding),
     document |-> p.document, payload |-> MapOption(p.payload, payload_to_pb)]

point_from_pb(m) ==
    LET id == vector_id_from_pb(m.id)
        embedding == embedding_from_pb(m.vector)
        document == Transpose(m.document, document_from_pb)
        payload == Transpose(m.payload, payload_from_pb)
    IN  IF AnyNone(<<id, embedding, document, payload>>) THEN None
        ELSE Some([id |-> id[1], embedding |-> embedding[1],
                   document |-> document[1], payload |-> payload[1]])

point_batch_to_pb(collection, points) == [collection |-> collection, points |-> points]

\* batch_upsert_from_pb and bulk_upsert_from_pb: an absent batch is refused.
point_batch_from_pb(batch) ==
    LET points == Collect(Map(batch[1].points, point_from_pb))
    IN  IF batch = None THEN None
        ELSE IF points = None THEN None
        ELSE Some([collection |-> batch[1].collection, points |-> points[1]])

-----------------------------------------------------------------------------
(* Searches *)

narrow_u32(n) == IF n > MaxU32 THEN None ELSE Some(n)

search_query_to_pb(collection, q) ==
    IF narrow_u32(q.k) = None THEN None
    ELSE Some([collection |-> collection, vector |-> embedding_to_pb(q.embedding),
               k |-> q.k, metric |-> MapOption(q.metric, metric_to_pb),
               filter |-> MapOption(q.filter, filter_to_pb)])

search_query_from_pb(m) ==
    LET embedding == embedding_from_pb(m.vector)
        metric == optional_metric_from_pb(m.metric)
        filter == Transpose(m.filter, filter_from_pb)
    IN  IF AnyNone(<<embedding, metric, filter>>) THEN None
        ELSE Some([embedding |-> embedding[1], k |-> m.k, metric |-> metric[1],
                   filter |-> filter[1]])

NoVector == [len |-> 0, x |-> 0]

hybrid_query_to_pb(collection, q) ==
    IF AnyNone(<<narrow_u32(q.k), narrow_u32(q.overfetch_factor)>>) THEN None
    ELSE Some([collection |-> collection,
               vector |-> IF q.vector = None THEN NoVector ELSE embedding_to_pb(q.vector[1]),
               text |-> q.text, k |-> q.k,
               filter |-> MapOption(q.filter, filter_to_pb),
               metric |-> MapOption(q.metric, metric_to_pb),
               rrf_k |-> Some(q.rrf_k), overfetch_factor |-> Some(q.overfetch_factor)])

DEFAULT_RRF_K == 60
DEFAULT_OVERFETCH_FACTOR == 4

rrf_k_from_pb(option) ==
    IF option = None THEN Some(DEFAULT_RRF_K)
    ELSE IF option[1] \notin NonFinite /\ option[1] > 0 THEN option ELSE None

\* Mutant: the requested factor is not looked at.
overfetch_factor_ignored(option) ==
    IF option = Some(0) THEN None ELSE Some(DEFAULT_OVERFETCH_FACTOR)

overfetch_factor_from_pb(option) ==
    IF option = None THEN Some(DEFAULT_OVERFETCH_FACTOR)
    ELSE IF option[1] = 0 THEN None ELSE option

\* An empty vector and an empty text mean that the channel is not asked for.
hybrid_query_from_pb(m) ==
    LET vector == IF m.vector.len = 0 THEN Some(None)
                  ELSE IF ValidEmbedding(m.vector) THEN Some(Some(m.vector)) ELSE None
        text == IF m.text \in {None, Some(<<>>)} THEN None ELSE m.text
        filter == Transpose(m.filter, filter_from_pb)
        metric == optional_metric_from_pb(m.metric)
        rrf_k == rrf_k_from_pb(m.rrf_k)
        overfetch == overfetch_factor_from_pb(m.overfetch_factor)
    IN  IF AnyNone(<<vector, filter, metric, rrf_k, overfetch>>) THEN None
        ELSE Some([vector |-> vector[1], text |-> text, k |-> m.k, filter |-> filter[1],
                   metric |-> metric[1], rrf_k |-> rrf_k[1],
                   overfetch_factor |-> overfetch[1]])

hit_to_pb(hit) == [id |-> vector_id_to_pb(hit.id),
                   payload |-> MapOption(hit.payload, payload_to_pb)]
hit_from_pb(m) ==
    LET id == vector_id_from_pb(m.id)
        payload == Transpose(m.payload, payload_from_pb)
    IN  IF AnyNone(<<id, payload>>) THEN None
        ELSE Some([id |-> id[1], payload |-> payload[1]])

hits_to_pb(hits) == Map(hits, hit_to_pb)
hits_from_pb(hits) == Collect(Map(hits, hit_from_pb))

-----------------------------------------------------------------------------
(* Parameters of an HNSW collection *)

\* HnswConfig::default; 42 stands for DEFAULT_SEED.
DefaultConfig == [m |-> 16, ef_construction |-> 200, ef_search |-> 64, seed |-> 42]
Unset == [m |-> None, ef_construction |-> None, ef_search |-> None, seed |-> None]

\* positive_or_default, for the fields that refuse an explicit zero.
positive_or_default(option, default) ==
    IF option = None THEN Some(default) ELSE IF option[1] = 0 THEN None ELSE option

hnsw_config_from_pb(option) ==
    LET p == IF option = None THEN Unset ELSE option[1]
        m == positive_or_default(p.m, DefaultConfig.m)
        efc == positive_or_default(p.ef_construction, DefaultConfig.ef_construction)
        efs == positive_or_default(p.ef_search, DefaultConfig.ef_search)
    IN  IF AnyNone(<<m, efc, efs>>) THEN None
        ELSE LET config == [m |-> m[1], ef_construction |-> efc[1], ef_search |-> efs[1],
                            seed |-> IF p.seed = None THEN DefaultConfig.seed ELSE p.seed[1]]
             IN  IF ValidConfig(config) THEN Some(config) ELSE None
=============================================================================
