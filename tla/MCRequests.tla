----------------------------- MODULE MCRequests -----------------------------
(* An instance of Requests for TLC: one collection that is created and dropped *)
(* as flat or HNSW, three identifiers, and for every method arguments that are *)
(* taken and arguments that each check on the way refuses.  Floats have two    *)
(* bits of mantissa: they lie one apart up to 4, two apart up to 8 and four    *)
(* apart up to 12, on both sides of zero; i64 is -8 .. 7 and u32 ends at 300.  *)
EXTENDS Requests

MCFloats == {-12, -8, -6, -4, -3, -2, -1, 0, 1, 2, 3, 4, 6, 8, 12}
MCMinI64 == -8
MCNaN == -1000

Num(n) == [kind |-> "Integer", v |-> n]
Flt(n) == [kind |-> "Float", v |-> n]
Txt(n) == [kind |-> "Text", v |-> n]
Scalar(v) == [kind |-> "Scalar", values |-> <<v>>]

Leaf(op, field, values) == [op |-> op, field |-> field, values |-> values, subs |-> <<>>]
Node(op, subs) == [op |-> op, field |-> "", values |-> <<>>, subs |-> subs]

Vec(len, x) == [len |-> len, x |-> x]
Point(id, x, doc, payload) ==
    [id |-> id, embedding |-> Vec(1, x), document |-> doc, payload |-> payload]

PayloadA == [n |-> Scalar(Num(5))]
PayloadC == [n |-> Scalar(Flt(4)), tags |-> [kind |-> "Array", values |-> <<Txt(1), Num(-7)>>]]

PointA(id) == Point(id, 1, Some(<<"t">>), Some(PayloadA))
PointB(id) == Point(id, 2, None, None)
PointC(id) == Point(id, 3, Some(<<"t", "t", "u">>), Some(PayloadC))
PointD(id) == Point(id, 2, Some(<<"u", "t", "!">>), Some(<<>>))
WrongLength(id) == [PointA(id) EXCEPT !.embedding = Vec(2, 1)]

Config == [m |-> 2, ef_construction |-> 8, ef_search |-> 8, seed |-> 0]
SpecOf(name, metric, dimension, index_type, hnsw) ==
    [name |-> name, metric |-> metric, dimension |-> dimension,
     index_type |-> index_type, hnsw |-> hnsw]

Filters ==
    {Leaf("Eq", "n", <<Num(5)>>), Leaf("Ne", "n", <<Num(5)>>), Leaf("Lt", "n", <<Flt(6)>>),
     Leaf("Lte", "n", <<Flt(NaN)>>), Leaf("Gt", "n", <<Num(4)>>), Leaf("Gte", "n", <<Flt(4)>>),
     Leaf("In", "n", <<Flt(4), Flt(-8), Flt(Inf), Num(7)>>), Leaf("Contains", "tags", <<Txt(1)>>),
     Node("And", <<>>), Node("Or", <<>>), Node("Not", <<Leaf("Exists", "n", <<>>)>>)}

Query_(x, k, metric, filter) ==
    [embedding |-> Vec(1, x), k |-> k, metric |-> metric, filter |-> filter]
Queries ==
    {Query_(x, k, metric, None) : x \in {2}, k \in {0, 2},
                                  metric \in {None, Some("DotProduct")}}
    \cup {Query_(1, 1, None, Some(f)) : f \in Filters}
    \cup {Query_(1, MaxU32 + 1, None, None),
          [Query_(1, 1, None, None) EXCEPT !.embedding = Vec(2, 1)]}

Hybrid(vector, text, k, filter, rrf_k, overfetch) ==
    [vector |-> vector, text |-> text, k |-> k, filter |-> filter, metric |-> None,
     rrf_k |-> rrf_k, overfetch_factor |-> overfetch]
Hybrids ==
    {Hybrid(Some(Vec(1, x)), Some(<<"t">>), k, None, rrf_k, o) :
        x \in {1, 3}, k \in {1, 2}, rrf_k \in {1, 60}, o \in {1, 4}}
    \cup {Hybrid(None, text, 2, None, 60, 4) : text \in {None, Some(<<"u">>), Some(<<>>)}}
    \cup {Hybrid(Some(Vec(1, 1)), text, 2, Some(Leaf("Exists", "n", <<>>)), 60, 4) :
              text \in {None, Some(<<"u">>), Some(<<" ">>), Some(<<>>)}}
    \cup {Hybrid(Some(Vec(1, 1)), Some(<<"t">>), 1, None, r, 4) : r \in {0, NaN}}
    \cup {Hybrid(Some(Vec(1, 1)), Some(<<"t">>), 1, None, 60, o) : o \in {0, MaxU32 + 1}}
    \cup {Hybrid(Some(Vec(2, 1)), Some(<<"t">>), 1, None, 60, 4)}

MCClientArgs ==
    [create |-> {SpecOf("c", "Euclidean", 1, "Flat", Some(Config)),
                 SpecOf("c", "Cosine", 1, "Hnsw", Some(Config)),
                 SpecOf("c", "DotProduct", 1, "Hnsw", None),
                 SpecOf("c", "Cosine", 1, "Hnsw", Some([Config EXCEPT !.m = MaxU32 + 1])),
                 SpecOf("a/b", "Cosine", 1, "Flat", None)},
     upsert |-> {PointA(id) : id \in Ids}
                \cup {PointC(1), PointB(2), PointC(3), PointD(3), WrongLength(1)},
     batch_upsert |-> {<<>>, <<PointA(2), PointC(3)>>, <<PointB(2), WrongLength(1)>>},
     bulk_upsert |-> {<<>>, << <<PointA(2)>>, <<PointC(3), PointB(2)>> >>,
                      << <<PointB(1)>>, <<PointA(2), WrongLength(1)>> >>},
     delete |-> Ids,
     delete_by_filter |-> Filters,
     search |-> Queries,
     search_hybrid |-> Hybrids]

JInt(n) == Json("int", n)
Object(keys, items) == [kind |-> "object", v |-> 0, keys |-> keys, items |-> items]
Array(items) == [kind |-> "array", v |-> 0, keys |-> <<>>, items |-> items]
UpsertArgs(id, x, doc, payload) ==
    [id |-> id, vector |-> Vec(1, x), document |-> doc, payload |-> payload]
SearchArgs(x, k, metric, filter) ==
    [vector |-> Vec(1, x), k |-> k, metric |-> metric, filter |-> filter]

MCCliArgs ==
    [create |-> {[name |-> "c", metric |-> "Euclidean", dimension |-> d, index_type |-> "Flat",
                  hnsw |-> Unset] : d \in {0, 1}}
                \cup {[name |-> "c", metric |-> "Cosine", dimension |-> 1,
                       index_type |-> "Hnsw", hnsw |-> [Unset EXCEPT !.m = m]] :
                      m \in {None, Some(1)}},
     upsert |-> {UpsertArgs(1, 1, Some(<<"t">>), payload) :
                    payload \in {None, Some(Object(<<"n">>, <<JInt(3)>>)),
                                 Some(Object(<<"n", "tags">>,
                                      <<JInt(MaxI64 + 2), Array(<<JInt(MinI64 - 2), Json("bool", 0)>>)>>))}}
                \cup {UpsertArgs(1, 1, None, Some(payload)) :
                         payload \in {JInt(3), Json("invalid", 0),
                                      Object(<<"n">>, <<Json("null", 0)>>),
                                      Object(<<"n">>, <<Array(<<Array(<<>>)>>)>>)}}
                \cup {UpsertArgs(-1, 1, None, None), UpsertArgs(1, Garbage, None, None),
                      UpsertArgs(1, Inf, None, None), UpsertArgs(1, 1, Some(<<" ">>), None)},
     delete |-> {-1, 1},
     search |-> {SearchArgs(1, 3, metric, filter) :
                    metric \in {None, Some("Euclidean")},
                    filter \in {None, Some([field |-> "n", eq |-> JInt(3)])}}
                \cup {SearchArgs(1, 3, None, Some([field |-> "", eq |-> JInt(3)])),
                      SearchArgs(1, 3, None, Some([field |-> "n", eq |-> Json("null", 0)]))},
     search_hybrid |-> {[vector |-> v, text |-> t, k |-> 2, filter |-> None] :
                           v \in {None, Some(Vec(1, 1)), Some(Vec(1, Garbage))},
                           t \in {None, Some(<<"t">>)}}]

PbPoint == point_to_pb(PointC(1))
Malformed ==
    {[PbPoint EXCEPT !.id = [len |-> 4, n |-> 1]], [PbPoint EXCEPT !.vector = Vec(1, NaN)],
     [PbPoint EXCEPT !.vector = Vec(0, 0)], [PbPoint EXCEPT !.vector = Vec(2, 1)],
     [PbPoint EXCEPT !.document = Some(<<" ">>)],
     [PbPoint EXCEPT !.payload = Some([n |-> [kind |-> "none", values |-> <<>>]])],
     [PbPoint EXCEPT !.payload =
         Some([n |-> [kind |-> "array", values |-> <<[kind |-> "none", v |-> 0]>>]])],
     [PbPoint EXCEPT !.payload =
         Some([n |-> [kind |-> "scalar", values |-> <<value_to_pb(Flt(Inf))>>]])]}
Message(name, points) == [batch |-> Some([collection |-> name, points |-> points])]
NoBatch == [batch |-> None]
PbFilter == filter_to_pb(Leaf("Eq", "n", <<Num(5)>>))
BadFilters ==
    {[PbFilter EXCEPT !.kind = "none"], [PbFilter EXCEPT !.values = <<>>],
     [PbFilter EXCEPT !.values = <<[kind |-> "none", v |-> 0]>>],
     [PbFilter EXCEPT !.kind = "negation", !.filters = <<[PbFilter EXCEPT !.kind = "none"]>>]}
PbCreate == create_request(SpecOf("c", "Cosine", 1, "Hnsw", Some(Config)))[1]
PbSearch == search_query_to_pb("c", Query_(1, 1, None, None))[1]
PbHybrid == hybrid_query_to_pb("c", Hybrid(Some(Vec(1, 1)), Some(<<"t">>), 1, None, 60, 4))[1]

MCOtherArgs ==
    [create |-> {[PbCreate EXCEPT !.metric = n] : n \in {0, 9}}
                \cup {[PbCreate EXCEPT !.index_type = n] : n \in {0, 9}}
                \cup {[PbCreate EXCEPT !.dimension = 0],
                      [PbCreate EXCEPT !.hnsw_params = Some([Unset EXCEPT !.ef_search = Some(0)])],
                      [PbCreate EXCEPT !.hnsw_params = Some([Unset EXCEPT !.m = Some(1)])]},
     upsert |-> {[collection |-> "c", point |-> Some(p)] : p \in Malformed}
                \cup {[collection |-> "c", point |-> None]},
     batch_upsert |-> {Message("c", <<point_to_pb(PointA(2)), p>>) : p \in Malformed}
                      \cup {NoBatch},
     bulk_upsert |-> {<<NoBatch>>, <<Message("", <<>>)>>}
                     \cup {<<Message("c", <<point_to_pb(PointA(2))>>), m>> :
                              m \in {NoBatch, Message("d", <<>>),
                                     Message("", <<point_to_pb(PointB(3))>>)}},
     delete |-> {[collection |-> "c", id |-> [len |-> 4, n |-> 1]]},
     delete_by_filter |-> {[collection |-> "c", filter |-> None]}
                          \cup {[collection |-> "c", filter |-> Some(f)] : f \in BadFilters},
     search |-> {[PbSearch EXCEPT !.metric = Some(n)] : n \in {0, 9}}
                \cup {[PbSearch EXCEPT !.filter = Some(f)] : f \in BadFilters}
                \cup {[PbSearch EXCEPT !.vector = Vec(0, 0)]},
     search_hybrid |-> {[PbHybrid EXCEPT !.metric = Some(9)],
                        [PbHybrid EXCEPT !.vector = Vec(1, NaN)],
                        [PbHybrid EXCEPT !.rrf_k = None, !.overfetch_factor = None]}]
=============================================================================
