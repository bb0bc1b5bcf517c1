-------------------------------- MODULE Cli --------------------------------
(***************************************************************************)
(* eidosdb-cli: from the arguments of a command to the typed call it makes, *)
(* and from what the client returns to the JSON it prints.                  *)
(*                                                                          *)
(* A JSON value is [kind, v, keys, items]: scalars use v, arrays items,     *)
(* objects keys and items side by side; "invalid" is text that serde_json   *)
(* does not parse.  Argument parsers give None on a usage or JSON error.    *)
(***************************************************************************)
EXTENDS Wire

Garbage == -2000   \* a vector component that is not a number

Json(kind, v) == [kind |-> kind, v |-> v, keys |-> <<>>, items |-> <<>>]

\* parse_vector and Embedding::new: "nan" and "inf" parse, and are refused next.
parse_vector(raw) == IF raw.x = Garbage \/ ~ValidEmbedding(raw) THEN None ELSE Some(raw)

\* parse_id: a raw id that is not a UUID is negative.
parse_id(raw) == IF raw < 0 THEN None ELSE Some(raw)

\* Mutant: numbers are tried as floats first.
json_to_value_floats(j) ==
    CASE j.kind = "string" -> Some([kind |-> "Text", v |-> j.v])
      [] j.kind = "bool" -> Some([kind |-> "Bool", v |-> j.v])
      [] j.kind \in {"int", "float"} ->
             Some([kind |-> "Float", v |-> as_f64([kind |-> "Integer", v |-> j.v])])
      [] OTHER -> None

\* as_i64: an integer above or below i64 parses as a JSON number and becomes the
\* nearest float.  (One beyond every float does not parse.)
json_to_value(j) ==
    CASE j.kind = "string" -> Some([kind |-> "Text", v |-> j.v])
      [] j.kind = "bool" -> Some([kind |-> "Bool", v |-> j.v])
      [] j.kind = "int" /\ j.v \in MinI64..MaxI64 -> Some([kind |-> "Integer", v |-> j.v])
      [] j.kind = "int" /\ j.v \notin MinI64..MaxI64 ->
             Some([kind |-> "Float", v |-> as_f64([kind |-> "Integer", v |-> j.v])])
      [] j.kind = "float" -> Some([kind |-> "Float", v |-> j.v])
      [] OTHER -> None

json_to_field_value(j) ==
    LET values == IF j.kind = "array" THEN Collect(Map(j.items, json_to_value))
                  ELSE Collect(<<json_to_value(j)>>)
    IN  IF values = None THEN None
        ELSE Some([kind |-> IF j.kind = "array" THEN "Array" ELSE "Scalar",
                   values |-> values[1]])

parse_payload(j) ==
    LET fields == Collect(Map(j.items, json_to_field_value))
        at(key) == CHOOSE i \in DOMAIN j.keys : j.keys[i] = key
        payload == [key \in Range(j.keys) |-> fields[1][at(key)]]
    IN  IF j.kind # "object" \/ fields = None THEN None
        ELSE IF FinitePayload(payload) THEN Some(payload) ELSE None

\* Only {"field": name, "eq": value}; here the two are given apart, an absent or
\* ill-typed "field" being "".
parse_filter(raw) ==
    LET value == json_to_value(raw.eq)
    IN  IF raw.field = "" \/ value = None THEN None
        ELSE Some([op |-> "Eq", field |-> raw.field, values |-> value, subs |-> <<>>])

build_hnsw(args) ==
    LET pick(option, default) == IF option = None THEN default ELSE option[1]
        config == [key \in DOMAIN DefaultConfig |-> pick(args[key], DefaultConfig[key])]
    IN  IF ValidConfig(config) THEN Some(config) ELSE None

-----------------------------------------------------------------------------
(* The typed call of a command: None when its arguments are refused. *)

handle_create(args) ==
    LET hnsw == IF args.index_type = "Hnsw" THEN build_hnsw(args.hnsw) ELSE None
    IN  IF (args.index_type = "Hnsw" /\ hnsw = None) \/ args.dimension = 0 THEN None
        ELSE Some([name |-> args.name, metric |-> args.metric,
                   dimension |-> args.dimension, index_type |-> args.index_type,
                   hnsw |-> hnsw])

handle_upsert(args) ==
    LET id == parse_id(args.id)
        embedding == parse_vector(args.vector)
        document == Transpose(args.document, document_from_pb)
        payload == Transpose(args.payload, parse_payload)
    IN  IF AnyNone(<<id, embedding, document, payload>>) THEN None
        ELSE Some([id |-> id[1], embedding |-> embedding[1],
                   document |-> document[1], payload |-> payload[1]])

handle_search(args) ==
    LET embedding == parse_vector(args.vector)
        filter == Transpose(args.filter, parse_filter)
    IN  IF AnyNone(<<embedding, filter>>) THEN None
        ELSE Some([embedding |-> embedding[1], k |-> args.k, metric |-> args.metric,
                   filter |-> filter[1]])

handle_search_hybrid(args) ==
    LET vector == Transpose(args.vector, parse_vector)
        filter == Transpose(args.filter, parse_filter)
    IN  IF AnyNone(<<vector, filter>>) THEN None
        ELSE Some([vector |-> vector[1], text |-> args.text, k |-> args.k,
                   filter |-> filter[1], metric |-> None, rrf_k |-> DEFAULT_RRF_K,
                   overfetch_factor |-> DEFAULT_OVERFETCH_FACTOR])

-----------------------------------------------------------------------------
(* What is printed *)

JsonKind == [Text |-> "string", Integer |-> "int", Float |-> "float", Bool |-> "bool"]
value_to_json(value) == Json(JsonKind[value.kind], value.v)

\* Keys are printed in order; here an object is compared by what each key holds.
payload_to_json(payload) ==
    [key \in DOMAIN payload |->
        IF payload[key].kind = "Scalar" THEN value_to_json(payload[key].values[1])
        ELSE [Json("array", 0) EXCEPT !.items = Map(payload[key].values, value_to_json)]]

hit_to_json(hit) == [id |-> hit.id, payload |-> MapOption(hit.payload, payload_to_json)]
=============================================================================
