------------------------------ MODULE Requests ------------------------------
(***************************************************************************)
(* A request from the argument of a command to the printed answer: the CLI, *)
(* the typed client, the messages, the handlers of the gRPC service over    *)
(* the registry, and back.  One request at a time: what happens when        *)
(* requests interleave, fail half way or meet a restart is in Server and    *)
(* Collection, and a registered collection is here its three stores.        *)
(*                                                                          *)
(* Requests come from commands (Cli), from typed calls (Client) and from    *)
(* other programs, which may put any message on the wire (Other).           *)
(***************************************************************************)
EXTENDS Cli

CONSTANTS
    CliArgs,     \* arguments of commands, a record with a set for each command
    ClientArgs,  \* arguments of typed calls, a record with a set for each method
    OtherArgs,   \* messages of other programs, a record with a set for each RPC
    Names,       \* names used in requests
    InvalidNames,\* the ones is_valid_name refuses
    Ids          \* identifiers used in deletes

(***************************************************************************)
(* Arguments and messages are of the types that Rust and protobuf give      *)
(* them; what is well typed and refused (a blank text, a zero, a value that *)
(* is not finite, a kind that is missing) is among them.  An argument of a  *)
(* typed call went through the constructors (Embedding::new, Document::new, *)
(* Payload::new, HnswConfig::new, Dimension::try_from).                     *)
(***************************************************************************)
IsList(s) == s \in Seq(Range(s))
IsOption(o) == o = None \/ o = Some(o[1])
Vectors == [len : Nat, x : Int]
IsFloat(n) == n \in Floats \cup NonFinite
IsInteger(n) == n \in MinI64..MaxI64
IsValue(v) ==
    /\ v \in [kind : DOMAIN ValueKind, v : Int]
    /\ v.kind = "Float" => IsFloat(v.v)
    /\ v.kind = "Integer" => IsInteger(v.v)
IsValues(s) == IsList(s) /\ \A i \in DOMAIN s : IsValue(s[i])
IsPayload(p) ==
    /\ p = [key \in DOMAIN p |-> [kind |-> p[key].kind, values |-> p[key].values]]
    /\ \A key \in DOMAIN p :
          /\ p[key].kind \in DOMAIN FieldKind /\ IsValues(p[key].values)
          /\ p[key].kind = "Scalar" => Len(p[key].values) = 1
ValidPayload(p) == IsPayload(p) /\ FinitePayload(p)
ValidVector(e) == e \in Vectors /\ ValidEmbedding(e)
IsDocument(text) == IsList(text) /\ ValidDocument(text)
ValidPoint(p) ==
    /\ p = [id |-> p.id, embedding |-> p.embedding, document |-> p.document,
            payload |-> p.payload]
    /\ p.id \in Int /\ ValidVector(p.embedding)
    /\ IsOption(p.document) /\ (p.document # None => IsDocument(p.document[1]))
    /\ IsOption(p.payload) /\ (p.payload # None => ValidPayload(p.payload[1]))
IsConfig(c) == c \in [DOMAIN DefaultConfig -> Nat] /\ ValidConfig(c)
IsSpec(spec) ==
    /\ spec = [name |-> spec.name, metric |-> spec.metric, dimension |-> spec.dimension,
               index_type |-> spec.index_type, hnsw |-> spec.hnsw]
    /\ spec.name \in Names \cup InvalidNames /\ spec.dimension \in Nat \ {0}
    /\ spec.metric \in Metrics /\ spec.index_type \in DOMAIN IndexTypeNumber
    /\ IsOption(spec.hnsw) /\ (spec.hnsw # None => IsConfig(spec.hnsw[1]))

\* A filter nests no deeper than MaxDepth: some rank falls from each to those in it.
IsFilter(f) ==
    LET all == Nested(f, LAMBDA h : h.subs)
    IN  /\ \A g \in all :
              /\ g = [op |-> g.op, field |-> g.field, values |-> g.values, subs |-> g.subs]
              /\ g.op \in DOMAIN FilterKind /\ IsValues(g.values) /\ IsList(g.subs)
              /\ FilterKind[g.op] \in NeedsValue => g.values # <<>>
        /\ \E rank \in [all -> 0..MaxDepth] :
              \A g \in all : \A i \in DOMAIN g.subs :
                  g.subs[i] \in all /\ rank[g.subs[i]] < rank[g]
IsChoice(metric) == IsOption(metric) /\ (metric # None => metric[1] \in Metrics)
IsQuery(q) ==
    /\ q = [embedding |-> q.embedding, k |-> q.k, metric |-> q.metric, filter |-> q.filter]
    /\ ValidVector(q.embedding) /\ q.k \in Nat /\ IsChoice(q.metric)
    /\ IsOption(q.filter) /\ (q.filter # None => IsFilter(q.filter[1]))
IsHybrid(q) ==
    /\ q = [vector |-> q.vector, text |-> q.text, k |-> q.k, filter |-> q.filter,
            metric |-> q.metric, rrf_k |-> q.rrf_k, overfetch_factor |-> q.overfetch_factor]
    /\ IsOption(q.vector) /\ (q.vector # None => ValidVector(q.vector[1]))
    /\ IsOption(q.text) /\ q.k \in Nat /\ q.rrf_k \in Int /\ q.overfetch_factor \in Nat
    /\ IsOption(q.filter) /\ (q.filter # None => IsFilter(q.filter[1])) /\ IsChoice(q.metric)

\* The argument of a typed call.
IsArgument(op, arg) ==
    CASE op = "create" -> IsSpec(arg)
      [] op = "upsert" -> ValidPoint(arg)
      [] op = "batch_upsert" -> IsList(arg) /\ \A i \in DOMAIN arg : ValidPoint(arg[i])
      [] op = "bulk_upsert" ->
             IsList(arg) /\ \A k \in DOMAIN arg :
                 IsList(arg[k]) /\ \A i \in DOMAIN arg[k] : ValidPoint(arg[k][i])
      [] op = "delete" -> arg \in Int
      [] op = "delete_by_filter" -> IsFilter(arg)
      [] op = "search" -> IsQuery(arg)
      [] op = "search_hybrid" -> IsHybrid(arg)
      [] OTHER -> arg = None

IsPbValue(m) ==
    /\ m.kind \in {"none"} \cup Range(ValueKind) /\ m.v \in Int
    /\ m.kind = "float_value" => IsFloat(m.v)
    /\ m.kind = "integer" => IsInteger(m.v)
IsPbPayload(m) ==
    \A key \in DOMAIN m :
        /\ m[key].kind \in {"none"} \cup Range(FieldKind) /\ IsList(m[key].values)
        /\ m[key].kind = "scalar" => Len(m[key].values) = 1
        /\ \A i \in DOMAIN m[key].values : IsPbValue(m[key].values[i])
IsPbPoint(m) ==
    /\ m.id \in [len : Nat, n : Int] /\ m.vector \in Vectors
    /\ m.document # None => IsList(m.document[1])
    /\ m.payload # None => IsPbPayload(m.payload[1])
IsPbBatch(m) ==
    m.batch # None =>
        IsList(m.batch[1].points)
        /\ \A i \in DOMAIN m.batch[1].points : IsPbPoint(m.batch[1].points[i])

\* What the message of an RPC can be.
IsMessage(op, m) ==
    CASE op = "create" -> m.name \in Names \cup InvalidNames /\ m.dimension \in Nat
      [] op = "upsert" -> m.point # None => IsPbPoint(m.point[1])
      [] op = "batch_upsert" -> IsPbBatch(m)
      [] op = "bulk_upsert" -> IsList(m) /\ \A i \in DOMAIN m : IsPbBatch(m[i])
      [] op = "search" -> m.vector \in Vectors /\ m.k \in Nat
      [] op = "search_hybrid" ->
             /\ m.vector \in Vectors /\ m.k \in Nat
             /\ m.rrf_k # None => m.rrf_k[1] \in Int
             /\ m.overfetch_factor # None => m.overfetch_factor[1] \in Nat
      [] OTHER -> TRUE

\* A JSON value and what it holds, down to the depth at which parsing gives up; a key
\* of an object is there once.
IsScalar(j) ==
    /\ j.v \in Int /\ (j.kind = "float" => IsFloat(j.v))
    /\ j.kind \in {"string", "bool", "int", "float"} => j = Json(j.kind, j.v)
IsField(j) ==
    /\ IsScalar(j)
    /\ j.kind = "array" =>
          /\ j = [Json("array", 0) EXCEPT !.items = j.items] /\ IsList(j.items)
          /\ \A i \in DOMAIN j.items : IsScalar(j.items[i])
IsJson(j) ==
    j.kind = "object" =>
        /\ IsList(j.keys) /\ DOMAIN j.items = DOMAIN j.keys
        /\ \A i, k \in DOMAIN j.keys : j.keys[i] = j.keys[k] => i = k
        /\ \A i \in DOMAIN j.items : IsField(j.items[i])

ASSUME BoundTypes == MaxDepth \in Nat /\ MaxI64 \in Nat /\ MinI64 \in Int

\* There is a float, and the finite ones and i64 lie between the two that stand for the others.
ASSUME FloatTypes ==
    /\ NaN \in Int /\ Inf \in Int /\ NaN < MinI64 /\ MaxI64 < Inf
    /\ Floats \subseteq Int /\ Floats # {}
    /\ \A x \in Floats : NaN < x /\ x < Inf

ASSUME OtherTypes == \A op \in DOMAIN OtherArgs : \A m \in OtherArgs[op] : IsMessage(op, m)

ASSUME ClientTypes ==
    /\ DOMAIN ClientArgs = {"create", "upsert", "batch_upsert", "bulk_upsert", "delete",
                            "delete_by_filter", "search", "search_hybrid"}
    /\ \A op \in DOMAIN ClientArgs : \A arg \in ClientArgs[op] : IsArgument(op, arg)

IsRawFilter(raw) == IsOption(raw) /\ (raw # None => IsScalar(raw[1].eq))

ASSUME CliTypes ==
    /\ \A args \in CliArgs.create :
          /\ args.name \in Names \cup InvalidNames /\ args.dimension \in Nat
          /\ args.metric \in Metrics /\ args.index_type \in DOMAIN IndexTypeNumber
          /\ \A key \in DOMAIN DefaultConfig :
                /\ IsOption(args.hnsw[key])
                /\ args.hnsw[key] # None => args.hnsw[key][1] \in Nat
    /\ \A args \in CliArgs.upsert :
          /\ args.id \in Int /\ args.vector \in Vectors
          /\ args.document # None => IsList(args.document[1])
          /\ IsOption(args.payload) /\ (args.payload # None => IsJson(args.payload[1]))
    /\ \A raw \in CliArgs.delete : raw \in Int
    /\ \A args \in CliArgs.search :
          /\ args.vector \in Vectors /\ args.k \in Nat
          /\ IsChoice(args.metric) /\ IsRawFilter(args.filter)
    /\ \A args \in CliArgs.search_hybrid :
          /\ args.vector # None => args.vector[1] \in Vectors
          /\ IsOption(args.text) /\ args.k \in Nat /\ IsRawFilter(args.filter)

VARIABLES
    cols,    \* registered collections: a function from names
    given,   \* history: <<name, id>> to the JSON payload of the command that wrote it
    phase,   \* "idle", "sent", "served" or "done"
    call,    \* the call under way: who makes it, the method, its name and argument
    wire,    \* the message sent
    answer,  \* the status and message that came back
    result   \* what the caller gets

vars == <<cols, given, phase, call, wire, answer, result>>

Nothing == [op |-> "none"]
Init ==
    /\ cols = <<>>
    /\ given = <<>>
    /\ phase = "idle"
    /\ call = Nothing
    /\ wire = Nothing
    /\ answer = Nothing
    /\ result = Nothing

-----------------------------------------------------------------------------
(* The handlers.  Each gives [code, cols, body]. *)

Reply(c, body) == [code |-> "OK", cols |-> c, body |-> body]
Refuse(code) == [code |-> code, cols |-> cols, body |-> None]

\* The outcome of an operation on one collection, as the handler passes it on.
Update(name, r, body) ==
    [code |-> r.code, cols |-> [cols EXCEPT ![name] = r.col],
     body |-> IF r.code = "OK" THEN body ELSE None]

registry_create(meta) ==
    IF meta.name \in InvalidNames THEN Refuse("INVALID_ARGUMENT")
    ELSE IF meta.name \in DOMAIN cols THEN Refuse("ALREADY_EXISTS")
    ELSE Reply(With(cols, meta.name, EmptyCollection(meta)), None)

\* Mutant: the parameters are resolved whatever the index.
params_of_any(index_type, params) == Some(hnsw_config_from_pb(params))

\* Parameters are resolved only for an HNSW index: an option of an option.
params_of(index_type, params) ==
    IF index_type # Some("Hnsw") THEN Some(None)
    ELSE IF hnsw_config_from_pb(params) = None THEN None
    ELSE Some(hnsw_config_from_pb(params))

create_collection(m) ==
    LET metric == metric_from_pb(m.metric)
        index_type == index_type_from_pb(m.index_type)
        hnsw == params_of(index_type, m.hnsw_params)
    IN  IF AnyNone(<<metric, index_type, hnsw>>) \/ m.dimension = 0
        THEN Refuse("INVALID_ARGUMENT")
        ELSE registry_create([name |-> m.name, metric |-> metric[1],
                              dimension |-> m.dimension, index_type |-> index_type[1],
                              hnsw |-> hnsw[1]])

drop_collection(name) == Reply(Without(cols, {name}), Some(name \in DOMAIN cols))

info(col) ==
    [name |-> col.meta.name, metric |-> metric_to_pb(col.meta.metric),
     dimension |-> col.meta.dimension,
     index_type |-> index_type_to_pb(col.meta.index_type),
     count |-> Cardinality(DOMAIN col.vectors)]

list_collections == Reply(cols, Map(cols, info))

describe_collection(name) ==
    IF name \notin DOMAIN cols THEN Refuse("NOT_FOUND")
    ELSE Reply(cols, Some(info(cols[name])))

Upsert(m) ==
    LET dimension == cols[m.collection].meta.dimension
        point == point_from_pb(m.point[1])
    IN  IF m.collection \notin DOMAIN cols THEN Refuse("NOT_FOUND")
        ELSE IF \/ m.point = None
                \/ m.point[1].vector.len # dimension
                \/ point = None
        THEN Refuse("INVALID_ARGUMENT")
        ELSE Update(m.collection, upsert(cols[m.collection], point[1]), None)

\* Mutant: the index is left to find out.
ensure_dimension_lax(points, expected) == TRUE

ensure_dimension(points, expected) ==
    \A i \in DOMAIN points : points[i].embedding.len = expected

\* The loop over decoded points under one write guard; the first error ends it.
UpsertNext(r, p) == IF r.code = "OK" THEN upsert(r.col, p) ELSE r

UpsertAll(col, points) ==
    LET after[k \in 0..Len(points)] ==
            IF k = 0 THEN Done(col, None) ELSE UpsertNext(after[k - 1], points[k])
    IN  after[Len(points)]

batch_upsert(m) ==
    LET batch == point_batch_from_pb(m.batch)
    IN  IF batch = None THEN Refuse("INVALID_ARGUMENT")
        ELSE IF batch[1].collection \notin DOMAIN cols THEN Refuse("NOT_FOUND")
        ELSE LET col == cols[batch[1].collection]
                 points == batch[1].points
             IN  IF ~ensure_dimension(points, col.meta.dimension)
                 THEN Refuse("INVALID_ARGUMENT")
                 ELSE Update(batch[1].collection, UpsertAll(col, points), Some(Len(points)))

\* One message of a stream: the chunks before a refused one stay applied.
Chunk(r, name, m) ==
    LET batch == point_batch_from_pb(m.batch)
    IN  IF r.code # "OK" THEN r
        ELSE IF batch = None THEN Failed(r.col, "INVALID_ARGUMENT")
        ELSE IF \/ batch[1].collection \notin {"", name}
                \/ ~ensure_dimension(batch[1].points, r.col.meta.dimension)
        THEN Failed(r.col, "INVALID_ARGUMENT")
        ELSE LET s == UpsertAll(r.col, batch[1].points)
             IN  [s EXCEPT !.value = Some(r.value[1] + Len(batch[1].points))]

UpsertStream(col, name, stream) ==
    LET after[k \in 0..Len(stream)] ==
            IF k = 0 THEN Done(col, Some(0)) ELSE Chunk(after[k - 1], name, stream[k])
    IN  after[Len(stream)]

bulk_upsert(stream) ==
    LET first == point_batch_from_pb(stream[1].batch)
        name == first[1].collection
        r == UpsertStream(cols[name], name, stream)
    IN  IF stream = <<>> THEN Refuse("INVALID_ARGUMENT")
        ELSE IF first = None THEN Refuse("INVALID_ARGUMENT")
        ELSE IF name \notin DOMAIN cols THEN Refuse("NOT_FOUND")
        ELSE Update(name, r, r.value)

Delete(m) ==
    LET id == vector_id_from_pb(m.id)
        r == delete(cols[m.collection], id[1])
    IN  IF m.collection \notin DOMAIN cols THEN Refuse("NOT_FOUND")
        ELSE IF id = None THEN Refuse("INVALID_ARGUMENT")
        ELSE Update(m.collection, r, r.value)

DeleteByFilter(m) ==
    LET filter == delete_by_filter_from_pb(m)
        r == delete_by_filter(cols[m.collection], filter[1])
    IN  IF filter = None THEN Refuse("INVALID_ARGUMENT")
        ELSE IF m.collection \notin DOMAIN cols THEN Refuse("NOT_FOUND")
        ELSE Update(m.collection, r, r.value)

Search(m) ==
    LET query == search_query_from_pb(m)
        r == search(cols[m.collection], query[1])
    IN  IF query = None THEN Refuse("INVALID_ARGUMENT")
        ELSE IF m.collection \notin DOMAIN cols THEN Refuse("NOT_FOUND")
        ELSE IF query[1].embedding.len # cols[m.collection].meta.dimension
        THEN Refuse("INVALID_ARGUMENT")
        ELSE Update(m.collection, r, hits_to_pb(r.value))

SearchHybrid(m) ==
    LET query == hybrid_query_from_pb(m)
        r == search_hybrid(cols[m.collection], query[1])
    IN  IF query = None THEN Refuse("INVALID_ARGUMENT")
        ELSE IF m.collection \notin DOMAIN cols THEN Refuse("NOT_FOUND")
        ELSE IF /\ query[1].vector # None
                /\ query[1].vector[1].len # cols[m.collection].meta.dimension
        THEN Refuse("INVALID_ARGUMENT")
        ELSE Update(m.collection, r, hits_to_pb(r.value))

\* Compaction moves records inside the vector index; the contents stay.
Compact(name) ==
    IF name \notin DOMAIN cols THEN Refuse("NOT_FOUND") ELSE Reply(cols, None)

-----------------------------------------------------------------------------
(* Sending.  A call whose encoding is refused ends without a message. *)

\* The message of a typed call, as an option.
create_request(spec) ==
    LET params(c) == [key \in DOMAIN c |-> Some(c[key])]
        fits(c) == \A key \in {"m", "ef_construction", "ef_search"} : c[key] <= MaxU32
    IN  IF spec.hnsw # None /\ ~fits(spec.hnsw[1]) THEN None
        ELSE Some([name |-> spec.name, metric |-> metric_to_pb(spec.metric),
                   dimension |-> spec.dimension,
                   index_type |-> index_type_to_pb(spec.index_type),
                   hnsw_params |-> MapOption(spec.hnsw, params)])

BatchMessage(name, points) ==
    [batch |-> Some(point_batch_to_pb(name, Map(points, point_to_pb)))]

Request(op, name, arg) ==
    CASE op = "create" -> create_request(arg)
      [] op \in {"drop", "describe", "compact"} -> Some(name)
      [] op = "list" -> Some(None)
      [] op = "upsert" -> Some([collection |-> name, point |-> Some(point_to_pb(arg))])
      [] op = "batch_upsert" -> Some(BatchMessage(name, arg))
      [] op = "bulk_upsert" ->
             Some([i \in DOMAIN arg |-> BatchMessage(name, arg[i])])
      [] op = "delete" -> Some([collection |-> name, id |-> vector_id_to_pb(arg)])
      [] op = "delete_by_filter" -> Some(delete_by_filter_to_pb(name, arg))
      [] op = "search" -> search_query_to_pb(name, arg)
      [] op = "search_hybrid" -> hybrid_query_to_pb(name, arg)

Begin(from, op, name, arg, raw) ==
    LET request == Request(op, name, arg)
    IN  /\ phase = "idle"
        /\ call' = [from |-> from, op |-> op, name |-> name, arg |-> arg, raw |-> raw]
        /\ IF request = None
           THEN /\ phase' = "done"
                /\ result' = [op |-> op, code |-> "Conversion", value |-> None]
                /\ UNCHANGED wire
           ELSE /\ phase' = "sent"
                /\ wire' = [op |-> op, body |-> request[1]]
                /\ UNCHANGED result
        /\ UNCHANGED <<cols, given, answer>>

\* The methods of EidosClient that take an argument beside the name.
Typed(op) ==
    \E name \in Names, arg \in ClientArgs[op] :
        Begin("client", op, IF op = "create" THEN arg.name ELSE name, arg, None)

\* The methods, and the commands, that take a name or nothing.
Plain(from) ==
    \E op \in {"drop", "describe", "compact", "list"}, name \in Names :
        Begin(from, op, name, None, None)

\* A command: its handler parses the arguments and makes the typed call, or ends
\* with a usage or JSON error.
Command(op, name, handled, raw) ==
    IF handled # None THEN Begin("cli", op, name, handled[1], raw)
    ELSE /\ phase = "idle"
         /\ phase' = "done"
         /\ call' = [from |-> "cli", op |-> op, name |-> name, arg |-> None, raw |-> raw]
         /\ result' = [op |-> op, code |-> "Usage", value |-> None]
         /\ UNCHANGED <<cols, given, wire, answer>>

CreateCommand ==
    \E args \in CliArgs.create : Command("create", args.name, handle_create(args), args)
UpsertCommand ==
    \E name \in Names, args \in CliArgs.upsert :
        Command("upsert", name, handle_upsert(args), args)
DeleteCommand ==
    \E name \in Names, raw \in CliArgs.delete : Command("delete", name, parse_id(raw), raw)
SearchCommand ==
    \E name \in Names, args \in CliArgs.search :
        Command("search", name, handle_search(args), args)
HybridCommand ==
    \E name \in Names, args \in CliArgs.search_hybrid :
        Command("search_hybrid", name, handle_search_hybrid(args), args)

\* A message put on the wire by another program.
Foreign(op) ==
    \E body \in OtherArgs[op] :
        /\ phase = "idle"
        /\ phase' = "sent"
        /\ call' = [from |-> "other", op |-> op]
        /\ wire' = [op |-> op, body |-> body]
        /\ UNCHANGED <<cols, given, answer, result>>

-----------------------------------------------------------------------------
(* Serving and answering *)

\* The point stored under a name and id, as an option; for the history.
StoredAt(c, key) ==
    IF key[1] \notin DOMAIN c THEN None
    ELSE IF key[2] \notin DOMAIN c[key[1]].vectors THEN None
    ELSE Some([vector |-> c[key[1]].vectors[key[2]],
               payload |-> IF key[2] \in DOMAIN c[key[1]].payloads
                           THEN Some(c[key[1]].payloads[key[2]]) ELSE None])

\* What is stored as before was given as before, also when a stream stops half way.
GivenAfter(reply) ==
    LET kept == {key \in DOMAIN given : StoredAt(reply.cols, key) = StoredAt(cols, key)}
    IN  IF reply.code = "OK" /\ call.from = "cli" /\ call.op = "upsert"
        THEN With(Restrict(given, kept), <<call.name, call.arg.id>>, call.raw.payload)
        ELSE Restrict(given, kept)

\* The handler runs to its end: the message is taken, the answer is there.
Serve(op, Handler(_)) ==
    /\ phase = "sent"
    /\ wire.op = op
    /\ LET reply == Handler(wire.body)
       IN  /\ cols' = reply.cols
           /\ answer' = [op |-> op, code |-> reply.code, body |-> reply.body]
           /\ given' = GivenAfter(reply)
    /\ phase' = "served"
    /\ wire' = Nothing
    /\ UNCHANGED <<call, result>>

ServeAny ==
    \/ Serve("create", create_collection)
    \/ Serve("drop", drop_collection)
    \/ Serve("list", LAMBDA m : list_collections)
    \/ Serve("describe", describe_collection)
    \/ Serve("upsert", Upsert)
    \/ Serve("batch_upsert", batch_upsert)
    \/ Serve("bulk_upsert", bulk_upsert)
    \/ Serve("delete", Delete)
    \/ Serve("delete_by_filter", DeleteByFilter)
    \/ Serve("search", Search)
    \/ Serve("search_hybrid", SearchHybrid)
    \/ Serve("compact", Compact)

\* collection_info_to_view: the metadata of a collection, decoded.
collection_info_to_view(m) ==
    LET metric == metric_from_pb(m.metric)
        index_type == index_type_from_pb(m.index_type)
    IN  IF AnyNone(<<metric, index_type>>) \/ m.dimension = 0 THEN None
        ELSE Some([name |-> m.name, metric |-> metric[1], dimension |-> m.dimension,
                   index_type |-> index_type[1], count |-> m.count])

\* What the typed client makes of an answer.
Decoded(a) ==
    LET value == CASE a.op = "list" -> Collect(Map(a.body, collection_info_to_view))
                   [] a.op = "describe" -> collection_info_to_view(a.body[1])
                   [] a.op \in {"search", "search_hybrid"} -> hits_from_pb(a.body)
                   [] OTHER -> Some(a.body)
    IN  IF a.code # "OK" THEN [op |-> a.op, code |-> a.code, value |-> None]
        ELSE IF value = None THEN [op |-> a.op, code |-> "Conversion", value |-> None]
        ELSE [op |-> a.op, code |-> "OK", value |-> value[1]]

\* What a command prints: payloads as JSON; the rest is printed as it is.
Printed(r) ==
    IF r.code = "OK" /\ r.op \in {"search", "search_hybrid"}
    THEN [r EXCEPT !.value = Map(@, hit_to_json)]
    ELSE r

Deliver ==
    /\ phase = "served"
    /\ result' = CASE call.from = "other" -> Nothing
                   [] call.from = "client" -> Decoded(answer)
                   [] call.from = "cli" -> Printed(Decoded(answer))
    /\ phase' = "done"
    /\ answer' = Nothing
    /\ UNCHANGED <<cols, given, call, wire>>

Return ==
    /\ phase = "done"
    /\ phase' = "idle"
    /\ call' = Nothing
    /\ result' = Nothing
    /\ UNCHANGED <<cols, given, wire, answer>>

Next ==
    \/ \E op \in DOMAIN ClientArgs : Typed(op)
    \/ \E op \in DOMAIN OtherArgs : Foreign(op)
    \/ \E from \in {"client", "cli"} : Plain(from)
    \/ CreateCommand \/ UpsertCommand \/ DeleteCommand \/ SearchCommand \/ HybridCommand
    \/ ServeAny
    \/ Deliver
    \/ Return

Spec == Init /\ [][Next]_vars

-----------------------------------------------------------------------------
(* Properties *)

Serves == phase = "sent" /\ phase' = "served"

\* The registry maps names to collections made by create_collection: a metric and
\* an index the enums know, a positive dimension, parameters exactly for HNSW.
TypeOK ==
    /\ phase \in {"idle", "sent", "served", "done"}
    /\ DOMAIN cols \subseteq Names \ InvalidNames
    /\ \A name \in DOMAIN cols :
           LET meta == cols[name].meta
           IN  /\ meta.name = name
               /\ meta.metric \in Metrics
               /\ meta.dimension > 0
               /\ (meta.index_type = "Hnsw") = (meta.hnsw # None)
               /\ meta.hnsw # None => ValidConfig(meta.hnsw[1])
    /\ \A key \in DOMAIN given : StoredAt(cols, key) # None

\* Whatever arrives, by any of the three ways to write, every stored vector is
\* finite and has the dimension of its collection, no document is blank, no
\* payload holds a non-finite float, and no document or payload is without vector.
StoredAreValid ==
    \A name \in DOMAIN cols :
        LET col == cols[name]
        IN  /\ \A id \in DOMAIN col.vectors :
                   /\ ValidEmbedding(col.vectors[id])
                   /\ col.vectors[id].len = col.meta.dimension
            /\ \A id \in DOMAIN col.documents : ValidDocument(col.documents[id])
            /\ \A id \in DOMAIN col.payloads : FinitePayload(col.payloads[id])
            /\ DOMAIN col.documents \cup DOMAIN col.payloads \subseteq DOMAIN col.vectors

\* "All points are decoded and validated before any write occurs": a request that is
\* answered with an error has changed nothing.  The one exception is a stream, whose
\* earlier chunks stay; there the change is that of a stream ended before the bad one.
RejectionIsClean ==
    [][Serves /\ answer'.code # "OK" =>
          \/ cols' = cols
          \/ /\ wire.op = "bulk_upsert"
             /\ \E n \in 1..Len(wire.body) - 1 :
                    LET prefix == bulk_upsert(SubSeq(wire.body, 1, n))
                    IN  prefix.code = "OK" /\ cols' = prefix.cols]_vars

\* The same call made in the process that holds the collections.
View(col) ==
    [name |-> col.meta.name, metric |-> col.meta.metric, dimension |-> col.meta.dimension,
     index_type |-> col.meta.index_type, count |-> Cardinality(DOMAIN col.vectors)]

MetaOf(spec) ==
    [spec EXCEPT !.hnsw = IF spec.index_type = "Flat" THEN None
                          ELSE IF @ = None THEN Some(DefaultConfig) ELSE @]

\* The batches of a stream one after the other, and the points in them counted.
UpsertBatch(r, points) ==
    IF r.code # "OK" THEN r
    ELSE [UpsertAll(r.col, points) EXCEPT !.value = Some(r.value[1] + Len(points))]

UpsertBatches(col, batches) ==
    LET after[k \in 0..Len(batches)] ==
            IF k = 0 THEN Done(col, Some(0)) ELSE UpsertBatch(after[k - 1], batches[k])
    IN  after[Len(batches)]

OnCollection(op, col, arg) ==
    CASE op = "upsert" -> upsert(col, arg)
      [] op = "batch_upsert" -> [UpsertAll(col, arg) EXCEPT !.value = Some(Len(arg))]
      [] op = "bulk_upsert" -> UpsertBatches(col, arg)
      [] op = "delete" -> delete(col, arg)
      [] op = "delete_by_filter" -> delete_by_filter(col, arg)
      [] op = "search" -> search(col, arg)
      [] op = "search_hybrid" -> search_hybrid(col, arg)
      [] op = "describe" -> Done(col, View(col))
      [] op = "compact" -> Done(col, None)

Embedded ==
    CASE call.op = "create" -> registry_create(MetaOf(call.arg))
      [] call.op = "drop" -> drop_collection(call.name)
      [] call.op = "list" -> Reply(cols, Map(cols, View))
      [] OTHER -> IF call.name \notin DOMAIN cols THEN Refuse("NOT_FOUND")
                  ELSE LET r == OnCollection(call.op, cols[call.name], call.arg)
                       IN  Update(call.name, r, r.value)

\* What the service refuses although a Collection in the process would take it: a
\* stream without messages, an empty text as the only channel, parameters of the
\* fusion that are not positive.
NotOnTheWire ==
    \/ call.op = "bulk_upsert" /\ call.arg = <<>>
    \/ /\ call.op = "search_hybrid"
       /\ \/ call.arg.vector = None /\ call.arg.text = Some(<<>>)
          \/ call.arg.rrf_k \in NonFinite \/ call.arg.rrf_k <= 0
          \/ call.arg.overfetch_factor = 0

\* An answer, and the collections after it, as the same call in the process gives them.
AsEmbedded(a, c) ==
    IF a.code = "OK"
    THEN /\ Embedded.code = "OK"
         /\ c = Embedded.cols
         /\ Decoded(a).code = "OK"
         /\ Decoded(a).value = Embedded.body
    ELSE NotOnTheWire \/ Embedded.code = a.code

\* A call through client, messages and service does what the same call on the
\* registry and the Collection does, and returns what it returns: no conversion
\* loses or changes an argument or a result.
RemoteIsEmbedded ==
    [][Serves /\ call.from # "other" => AsEmbedded(answer', cols')]_vars

SearchesFlat(op) ==
    /\ Serves
    /\ wire.op = op
    /\ answer'.code = "OK"
    /\ cols[wire.body.collection].meta.index_type = "Flat"

\* The body of an answer is exactly the k best of the vectors that the filter of the
\* message admits (all of them without a filter, only ones with a matching payload with
\* one), each with its stored payload, nearer ones first and equal ones by identifier.
ExactAnswer(m, body) ==
    LET col == cols[m.collection]
        q == search_query_from_pb(m)[1]
        hits == hits_from_pb(body)[1]
        metric == IF q.metric = None THEN col.meta.metric ELSE q.metric[1]
        admitted == {id \in DOMAIN col.vectors :
                        q.filter # None => /\ id \in DOMAIN col.payloads
                                           /\ evaluate(q.filter[1], col.payloads[id])}
        value(id) == score(metric, q.embedding, col.vectors[id])
        found == {hits[i].id : i \in DOMAIN hits}
        before(a, b) == value(a) > value(b) \/ (value(a) = value(b) /\ a < b)
    IN  /\ found \subseteq admitted
        /\ Len(hits) = Cardinality(found)
        /\ Len(hits) = Min({q.k, Cardinality(admitted)})
        /\ \A i, j \in DOMAIN hits : i < j => before(hits[i].id, hits[j].id)
        /\ \A a \in found, b \in admitted \ found : before(a, b)
        /\ \A i \in DOMAIN hits :
               hits[i].payload = IF hits[i].id \in DOMAIN col.payloads
                                 THEN Some(col.payloads[hits[i].id]) ELSE None

\* A dense search of a flat collection that succeeds returns exactly what its query asks
\* for, through the scan and the sort of FlatIndex, the filter and the hydration of
\* Collection, and the conversions.
SearchIsExact ==
    [][SearchesFlat("search") => ExactAnswer(wire.body, answer'.body)]_vars

\* When one admitted id comes before another in the complete dense and the complete
\* lexical ranking, it is in front of it in the body of the answer.  An id that is not in
\* a ranking comes after those that are.
InOrder(m, body) ==
    LET col == cols[m.collection]
        q == hybrid_query_from_pb(m)[1]
        all == Admissible(col, q.filter, DOMAIN col.vectors)
        metric == IF q.metric = None THEN col.meta.metric ELSE q.metric[1]
        dense == search_filtered(col, q.vector[1], MaxUsize, metric, all)
        lexical == search_text_filtered(col, q.text[1], MaxUsize, all)
        ids == [i \in DOMAIN body |-> body[i].id.n]
        place(s, id) == IF id \in Range(s) THEN CHOOSE i \in DOMAIN s : s[i] = id
                        ELSE Len(s) + 1
        dominates(a, b) == /\ a # b
                           /\ place(dense, a) <= place(dense, b)
                           /\ place(lexical, a) <= place(lexical, b)
    IN  q.vector # None /\ q.text # None =>
            \A a \in all, b \in Range(ids) :
                dominates(a, b) => place(ids, a) < place(ids, b)

\* Fusion respects dominance in a flat collection, whatever over-fetch depth cut the two
\* lists that are fused.
FusionRespectsDominance ==
    [][SearchesFlat("search_hybrid") => InOrder(wire.body, answer'.body)]_vars

\* Whether a JSON payload survives: an integer outside i64 is printed as a float.
Representable(j) ==
    CASE j.kind = "int" -> IsInteger(j.v)
      [] j.kind \in {"array", "object"} ->
             \A i \in DOMAIN j.items : j.items[i].kind = "int" => IsInteger(j.items[i].v)
      [] OTHER -> TRUE

\* The payload a command prints for a hit is the JSON that the command which wrote the
\* point was given, through parsing, message, store, message and printing.
ShownIsGiven ==
    phase = "done" /\ call.from = "cli" /\ result.op \in {"search", "search_hybrid"}
                   /\ result.code = "OK" =>
        \A i \in DOMAIN result.value :
            LET hit == result.value[i]
                key == <<call.name, hit.id>>
            IN  key \in DOMAIN given =>
                    IF given[key] = None THEN hit.payload = None
                    ELSE LET j == given[key][1]
                         IN  /\ hit.payload # None
                             /\ DOMAIN hit.payload[1] = Range(j.keys)
                             /\ \A k \in DOMAIN j.keys :
                                    Representable(j.items[k]) =>
                                        hit.payload[1][j.keys[k]] = j.items[k]

\* Ordered comparisons of stored numbers never invert: through the rounding of mixed
\* comparisons a smaller number may come out equal, never greater; two integers or two
\* texts compare exactly; exchanging the sides exchanges the outcome.
ComparisonsNeverInvert ==
    LET Stored == UNION {UNION {UNION {Range(p[f].values) : f \in DOMAIN p}
                                  : p \in Range(cols[name].payloads)} : name \in DOMAIN cols}
        Asked == UNION {Range(f.values) : f \in ClientArgs.delete_by_filter}
        Opposite == [Less |-> "Greater", Equal |-> "Equal", Greater |-> "Less"]
    IN  \A a \in Stored, b \in Asked :
            LET outcome == ordered(a, b)
            IN  /\ ordered(b, a) = MapOption(outcome, LAMBDA o : Opposite[o])
                /\ outcome # None =>
                       /\ a.v < b.v => outcome[1] # "Greater"
                       /\ a.v > b.v => outcome[1] # "Less"
                       /\ a.v = b.v => outcome[1] = "Equal"
                       /\ a.kind = b.kind => outcome[1] = Compare(a.v, b.v)
=============================================================================
