--------------------------- MODULE Requests_proofs ---------------------------
(***************************************************************************)
(* What holds of every request, from any caller, for all arguments.         *)
(***************************************************************************)
EXTENDS Requests, FiniteSetTheorems, WellFoundedInduction, TLAPS

-----------------------------------------------------------------------------
(* Lists and options *)

\* A list is a function on the numbers up to its length.
LEMMA ListFacts ==
  ASSUME NEW s, IsList(s)
  PROVE  Len(s) \in Nat /\ DOMAIN s = 1..Len(s) /\ \A i \in 1..Len(s) : s[i] \in Range(s)
<1>1. s \in Seq(Range(s))
  BY DEF IsList
<1> DEFINE R == Range(s)
<1> HIDE DEF R
<1>2. s \in Seq(R)
  BY <1>1 DEF R
<1>3. Len(s) \in Nat /\ DOMAIN s = 1..Len(s) /\ \A i \in 1..Len(s) : s[i] \in R
  BY <1>2
<1> QED BY <1>3 DEF R

\* A function on the numbers up to n is a list of length n.
LEMMA ListOf ==
  ASSUME NEW n \in Nat, NEW f, f = [i \in 1..n |-> f[i]]
  PROVE  IsList(f) /\ Len(f) = n
<1>1. \A i \in 1..n : f[i] \in Range(f)
  BY DEF Range
<1> DEFINE R == Range(f)
<1> HIDE DEF R
<1>2. f \in [1..n -> R]
  BY <1>1 DEF R
<1>3. f \in Seq(R) /\ Len(f) = n
  BY <1>2
<1> QED BY <1>3 DEF R, IsList

\* None of the options of a tuple is None.
LEMMA AllGiven ==
  ASSUME NEW a, NEW b, NEW c, NEW d
  PROVE  /\ AnyNone(<<a, b, c, d>>) <=> None \in {a, b, c, d}
         /\ AnyNone(<<a, b, c>>) <=> None \in {a, b, c}
         /\ AnyNone(<<a, b>>) <=> None \in {a, b}
BY DEF AnyNone

\* All of a list of options, or nothing.
LEMMA Collected ==
  ASSUME NEW s
  PROVE  IF \E i \in DOMAIN s : s[i] = None THEN Collect(s) = None
         ELSE /\ Collect(s) = <<Collect(s)[1]>> /\ Collect(s) # None
              /\ Collect(s)[1] = [i \in DOMAIN s |-> s[i][1]]
BY DEF Collect, AnyNone, None, Some

-----------------------------------------------------------------------------
(* Decoding *)

\* The names of kinds and the kinds on the wire are in bijection.
LEMMA KindNames ==
  /\ \A kind \in Range(ValueKind) :
        Named(ValueKind, kind) \in DOMAIN ValueKind /\ ValueKind[Named(ValueKind, kind)] = kind
  /\ \A kind \in Range(FieldKind) :
        Named(FieldKind, kind) \in DOMAIN FieldKind /\ FieldKind[Named(FieldKind, kind)] = kind
  /\ \A name \in DOMAIN ValueKind : Named(ValueKind, ValueKind[name]) = name
  /\ \A name \in DOMAIN FieldKind : Named(FieldKind, FieldKind[name]) = name
BY DEF Named, Range, ValueKind, FieldKind

LEMMA ValueDecodes ==
  ASSUME NEW m, IsPbValue(m), value_from_pb(m) # None
  PROVE  value_from_pb(m) = Some(value_from_pb(m)[1]) /\ IsValue(value_from_pb(m)[1])
<1>1. m.kind \in Range(ValueKind) /\ m.kind # "none"
  BY DEF IsPbValue, value_from_pb
<1> DEFINE name == Named(ValueKind, m.kind)
           v == [kind |-> name, v |-> m.v]
<1>2. name \in DOMAIN ValueKind /\ ValueKind[name] = m.kind
  BY <1>1, KindNames
<1>3. value_from_pb(m) = <<v>>
  BY <1>1 DEF value_from_pb, Some
<1>4. (name = "Float" => m.kind = "float_value") /\ (name = "Integer" => m.kind = "integer")
  BY <1>2 DEF ValueKind
<1> HIDE DEF name
<1>5. v \in [kind : DOMAIN ValueKind, v : Int] /\ v.kind = name /\ v.v = m.v
  BY <1>2 DEF IsPbValue
<1>6. IsValue(v)
  BY <1>4, <1>5 DEF IsValue, IsPbValue
<1> QED BY <1>3, <1>6 DEF Some

\* A field decodes to the values of the message, each decoded.
LEMMA FieldDecodes ==
  ASSUME NEW m, m.kind \in {"none"} \cup Range(FieldKind), IsList(m.values),
         m.kind = "scalar" => Len(m.values) = 1,
         \A i \in DOMAIN m.values : IsPbValue(m.values[i]), field_value_from_pb(m) # None
  PROVE  LET f == field_value_from_pb(m)[1] IN
         /\ field_value_from_pb(m) = Some(f)
         /\ f = [kind |-> f.kind, values |-> f.values]
         /\ f.kind \in DOMAIN FieldKind /\ IsValues(f.values)
         /\ f.kind = "Scalar" => Len(f.values) = 1
<1> DEFINE s == Map(m.values, value_from_pb)
           values == Collect(s)
           f == [kind |-> Named(FieldKind, m.kind), values |-> values[1]]
<1>1. DOMAIN s = DOMAIN m.values /\ \A i \in DOMAIN m.values : s[i] = value_from_pb(m.values[i])
  BY DEF Map
<1>2. m.kind # "none" /\ values # None /\ field_value_from_pb(m) = <<f>>
  BY DEF field_value_from_pb, Some
<1> HIDE DEF s
<1>3. values[1] = [i \in DOMAIN m.values |-> s[i][1]] /\ \A i \in DOMAIN m.values : s[i] # None
  BY <1>1, <1>2, Collected
<1> HIDE DEF values
<1>4. \A i \in DOMAIN m.values : IsValue(values[1][i])
  BY <1>1, <1>3, ValueDecodes
<1>5. Len(m.values) \in Nat /\ DOMAIN m.values = 1..Len(m.values)
  BY ListFacts
<1>6. IsList(values[1]) /\ DOMAIN values[1] = DOMAIN m.values /\ Len(values[1]) = Len(m.values)
  BY <1>3, <1>5, ListOf
<1>7. /\ Named(FieldKind, m.kind) \in DOMAIN FieldKind
      /\ Named(FieldKind, m.kind) = "Scalar" => m.kind = "scalar"
  BY <1>2, KindNames DEF FieldKind
<1>8. /\ f.kind \in DOMAIN FieldKind /\ f.values = values[1]
      /\ f.kind = "Scalar" => m.kind = "scalar"
  BY <1>7
<1> QED BY <1>2, <1>4, <1>6, <1>8 DEF IsValues, Some

\* A payload that decodes is typed and holds no value that is not finite.
LEMMA PayloadDecodes ==
  ASSUME NEW m, IsPbPayload(m), payload_from_pb(m) # None
  PROVE  LET p == payload_from_pb(m)[1] IN
         payload_from_pb(m) = Some(p) /\ ValidPayload(p)
<1> DEFINE s == Map(m, field_value_from_pb)
           fields == Collect(s)
<1>1. DOMAIN s = DOMAIN m /\ \A k \in DOMAIN m : s[k] = field_value_from_pb(m[k])
  BY DEF Map
<1>2. fields # None /\ FinitePayload(fields[1]) /\ payload_from_pb(m) = fields
  BY DEF payload_from_pb
<1> HIDE DEF s
<1>3. /\ fields = <<fields[1]>> /\ fields[1] = [k \in DOMAIN m |-> s[k][1]]
      /\ \A k \in DOMAIN m : s[k] # None
  BY <1>1, <1>2, Collected
<1> HIDE DEF fields
<1>4. ASSUME NEW k \in DOMAIN m
      PROVE  LET f == fields[1][k] IN
             /\ f = [kind |-> f.kind, values |-> f.values]
             /\ f.kind \in DOMAIN FieldKind /\ IsValues(f.values)
             /\ f.kind = "Scalar" => Len(f.values) = 1
  <2>1. field_value_from_pb(m[k]) # None /\ fields[1][k] = field_value_from_pb(m[k])[1]
    BY <1>1, <1>3
  <2>2. /\ m[k].kind \in {"none"} \cup Range(FieldKind) /\ IsList(m[k].values)
        /\ m[k].kind = "scalar" => Len(m[k].values) = 1
        /\ \A i \in DOMAIN m[k].values : IsPbValue(m[k].values[i])
    BY DEF IsPbPayload
  <2> QED BY <2>1, <2>2, FieldDecodes
<1>5. IsPayload(fields[1])
  BY <1>3, <1>4 DEF IsPayload
<1> QED BY <1>2, <1>3, <1>5 DEF Some, ValidPayload

\* What point_from_pb lets through is valid, and has the id and the vector of the message.
LEMMA PointDecodes ==
  ASSUME NEW m, IsPbPoint(m), point_from_pb(m) # None
  PROVE  LET p == point_from_pb(m)[1] IN
         /\ point_from_pb(m) = Some(p) /\ ValidPoint(p)
         /\ p.id = m.id.n /\ p.embedding = m.vector
<1> DEFINE id == vector_id_from_pb(m.id)
           embedding == embedding_from_pb(m.vector)
           document == Transpose(m.document, document_from_pb)
           payload == Transpose(m.payload, payload_from_pb)
           p == [id |-> id[1], embedding |-> embedding[1],
                 document |-> document[1], payload |-> payload[1]]
<1>1. /\ id # None /\ embedding # None /\ document # None /\ payload # None
      /\ point_from_pb(m) = <<p>>
  BY ZenonT(40), AllGiven DEF point_from_pb, Some
<1>2. id[1] = m.id.n /\ id[1] \in Int
  BY <1>1 DEF vector_id_from_pb, IsPbPoint, Some
<1>3. embedding[1] = m.vector /\ ValidVector(embedding[1])
  BY <1>1 DEF embedding_from_pb, IsPbPoint, ValidVector, Some
<1>4. IsOption(document[1]) /\ (document[1] # None => IsDocument(document[1][1]))
  BY <1>1 DEF Transpose, document_from_pb, Some, None, IsOption, IsDocument, IsPbPoint
<1>5. IsOption(payload[1]) /\ (payload[1] # None => ValidPayload(payload[1][1]))
  <2>0. payload[1] = None => IsOption(payload[1])
    BY DEF IsOption
  <2> SUFFICES ASSUME payload[1] # None
               PROVE  IsOption(payload[1]) /\ ValidPayload(payload[1][1])
    BY <2>0
  <2>1. /\ m.payload # None /\ payload_from_pb(m.payload[1]) # None
        /\ payload[1] = payload_from_pb(m.payload[1])
    BY <1>1 DEF Transpose, Some, None
  <2>2. IsPbPayload(m.payload[1])
    BY <2>1 DEF IsPbPoint
  <2> QED BY <2>1, <2>2, PayloadDecodes DEF IsOption
<1> HIDE DEF id, embedding, document, payload
<1>6. ValidPoint(p)
  BY <1>2, <1>3, <1>4, <1>5 DEF ValidPoint
<1> QED BY <1>1, <1>2, <1>3, <1>6 DEF Some

\* A batch decodes to as many valid points as the message holds.
LEMMA BatchDecodes ==
  ASSUME NEW m, IsPbBatch(m), point_batch_from_pb(m.batch) # None
  PROVE  LET b == point_batch_from_pb(m.batch)[1] IN
         /\ m.batch # None /\ b.collection = m.batch[1].collection
         /\ IsList(b.points) /\ Len(b.points) = Len(m.batch[1].points)
         /\ \A i \in DOMAIN b.points :
               ValidPoint(b.points[i]) /\ b.points[i] = point_from_pb(m.batch[1].points[i])[1]
<1> DEFINE ms == m.batch[1].points
           s == Map(ms, point_from_pb)
           points == Collect(s)
           b == [collection |-> m.batch[1].collection, points |-> points[1]]
<1>1. m.batch # None /\ points # None /\ point_batch_from_pb(m.batch) = <<b>>
  BY DEF point_batch_from_pb, Some
<1>2. DOMAIN s = DOMAIN ms /\ \A i \in DOMAIN ms : s[i] = point_from_pb(ms[i])
  BY DEF Map
<1>3. /\ IsList(ms) /\ Len(ms) \in Nat /\ DOMAIN ms = 1..Len(ms)
      /\ \A i \in DOMAIN ms : IsPbPoint(ms[i])
  BY <1>1, ListFacts DEF IsPbBatch
<1> HIDE DEF s
<1>4. points[1] = [i \in DOMAIN ms |-> s[i][1]] /\ \A i \in DOMAIN ms : s[i] # None
  BY <1>1, <1>2, Collected
<1> HIDE DEF points, ms
<1>5. IsList(points[1]) /\ Len(points[1]) = Len(ms) /\ DOMAIN points[1] = DOMAIN ms
  BY <1>3, <1>4, ListOf
<1>6. \A i \in DOMAIN ms : points[1][i] = point_from_pb(ms[i])[1] /\ ValidPoint(points[1][i])
  BY <1>2, <1>3, <1>4, PointDecodes
<1> QED BY <1>1, <1>5, <1>6 DEF ms

-----------------------------------------------------------------------------
(* Collections *)

\* A collection whose stores hold only what was checked, with the vector of every id.
Sane(col) ==
    /\ col = [meta |-> col.meta, vectors |-> col.vectors,
              documents |-> col.documents, payloads |-> col.payloads]
    /\ IsFiniteSet(DOMAIN col.vectors) /\ DOMAIN col.vectors \subseteq Int
    /\ \A id \in DOMAIN col.vectors :
          ValidVector(col.vectors[id]) /\ col.vectors[id].len = col.meta.dimension
    /\ \A id \in DOMAIN col.documents : IsDocument(col.documents[id])
    /\ \A id \in DOMAIN col.payloads : ValidPayload(col.payloads[id])
    /\ DOMAIN col.documents \cup DOMAIN col.payloads \subseteq DOMAIN col.vectors

MetaOK(meta, name) ==
    /\ meta.name = name
    /\ meta.metric \in Metrics
    /\ meta.dimension \in Nat /\ meta.dimension > 0
    /\ meta.index_type \in DOMAIN IndexTypeNumber
    /\ (meta.index_type = "Hnsw") = (meta.hnsw # None)
    /\ meta.hnsw # None => ValidConfig(meta.hnsw[1])

\* A valid point of the right dimension is taken, whatever was stored under its id.
LEMMA UpsertKeeps ==
  ASSUME NEW col, Sane(col), NEW p, ValidPoint(p), p.embedding.len = col.meta.dimension
  PROVE  LET r == upsert(col, p) IN
         /\ r = [code |-> "OK", col |-> r.col, value |-> None] /\ r.code = "OK"
         /\ Sane(r.col) /\ r.col.meta = col.meta
         /\ r.col.vectors = With(col.vectors, p.id, p.embedding)
         /\ r.col.documents = (IF p.document = None THEN Without(col.documents, {p.id})
                               ELSE With(col.documents, p.id, p.document[1]))
         /\ r.col.payloads = (IF p.payload = None THEN Without(col.payloads, {p.id})
                              ELSE With(col.payloads, p.id, p.payload[1]))
<1> DEFINE put(store, option) == IF option = None THEN Without(store, {p.id})
                                 ELSE With(store, p.id, option[1])
           c == [meta |-> col.meta, vectors |-> With(col.vectors, p.id, p.embedding),
                 documents |-> put(col.documents, p.document),
                 payloads |-> put(col.payloads, p.payload)]
<1>1. upsert(col, p) = [code |-> "OK", col |-> c, value |-> None]
  BY DEF upsert, Done, Sane
<1>2. /\ DOMAIN c.vectors = DOMAIN col.vectors \cup {p.id}
      /\ \A y \in DOMAIN c.vectors :
            c.vectors[y] = IF y = p.id THEN p.embedding ELSE col.vectors[y]
  BY DEF With, Without, Restrict
<1>3. /\ DOMAIN c.documents \subseteq DOMAIN col.documents \cup {p.id}
      /\ \A y \in DOMAIN c.documents :
            IF y = p.id THEN p.document # None /\ c.documents[y] = p.document[1]
            ELSE y \in DOMAIN col.documents /\ c.documents[y] = col.documents[y]
  BY DEF With, Without, Restrict
<1>4. /\ DOMAIN c.payloads \subseteq DOMAIN col.payloads \cup {p.id}
      /\ \A y \in DOMAIN c.payloads :
            IF y = p.id THEN p.payload # None /\ c.payloads[y] = p.payload[1]
            ELSE y \in DOMAIN col.payloads /\ c.payloads[y] = col.payloads[y]
  BY DEF With, Without, Restrict
<1>5. c.meta = col.meta
  OBVIOUS
<1>6. c = [meta |-> c.meta, vectors |-> c.vectors, documents |-> c.documents,
           payloads |-> c.payloads]
  OBVIOUS
<1>7. upsert(col, p).col = c
  BY <1>1
<1>8. /\ c.vectors = With(col.vectors, p.id, p.embedding)
      /\ c.documents = put(col.documents, p.document)
      /\ c.payloads = put(col.payloads, p.payload)
  OBVIOUS
<1> HIDE DEF c
<1>9. IsFiniteSet(DOMAIN c.vectors)
  BY <1>2, FS_AddElement DEF Sane
<1>10. Sane(c)
  BY <1>2, <1>3, <1>4, <1>5, <1>6, <1>9 DEF Sane, ValidPoint
<1> QED BY <1>1, <1>5, <1>7, <1>8, <1>10

\* Removing ids from every store.
LEMMA ForgetKeeps ==
  ASSUME NEW col, Sane(col), NEW S
  PROVE  Sane(Forget(col, S)) /\ Forget(col, S).meta = col.meta
<1> DEFINE c == [meta |-> col.meta, vectors |-> Without(col.vectors, S),
                 documents |-> Without(col.documents, S), payloads |-> Without(col.payloads, S)]
<1>1. Forget(col, S) = c
  BY DEF Forget
<1>2. /\ DOMAIN c.vectors = DOMAIN col.vectors \ S /\ DOMAIN c.documents = DOMAIN col.documents \ S
      /\ DOMAIN c.payloads = DOMAIN col.payloads \ S
      /\ \A y \in DOMAIN c.vectors : c.vectors[y] = col.vectors[y]
      /\ \A y \in DOMAIN c.documents : c.documents[y] = col.documents[y]
      /\ \A y \in DOMAIN c.payloads : c.payloads[y] = col.payloads[y]
  BY DEF With, Without, Restrict
<1>3. c.meta = col.meta /\ c = [meta |-> c.meta, vectors |-> c.vectors,
                                documents |-> c.documents, payloads |-> c.payloads]
  OBVIOUS
<1> HIDE DEF c
<1>4. IsFiniteSet(DOMAIN c.vectors)
  BY <1>2, FS_Subset DEF Sane
<1>5. Sane(c)
  BY <1>2, <1>3, <1>4 DEF Sane
<1> QED BY <1>1, <1>3, <1>5

-----------------------------------------------------------------------------
(* Loops.  What a loop computes is a recursive function on the numbers up   *)
(* to the length of its list.  That there is one is shown by induction, in  *)
(* the form that no number is the least counterexample.                     *)

LEMMA Induction ==
  ASSUME NEW S, \A n \in Nat : (\A m \in Nat : m < n => m \in S) => n \in S
  PROVE  \A n \in Nat : n \in S
<1> SUFFICES ASSUME Nat \ S # {} PROVE FALSE
  OBVIOUS
<1>1. PICK x \in Nat \ S : \A y \in Nat \ S : ~ (<<y, x>> \in OpToRel(<, Nat))
  BY NatLessThanWellFounded, WFMin
<1> QED BY <1>1 DEF OpToRel

LEMMA StepByStep ==
  ASSUME NEW S, NEW N \in Nat, 0 \in S, \A n \in Nat : n < N /\ n \in S => n + 1 \in S
  PROVE  \A n \in 0..N : n \in S
<1> DEFINE A == {n \in Nat : n <= N => n \in S}
<1>1. \A n \in Nat : (\A m \in Nat : m < n => m \in A) => n \in A
  <2> SUFFICES ASSUME NEW n \in Nat, \A m \in Nat : m < n => m \in A, n <= N PROVE n \in S
    OBVIOUS
  <2>1. CASE n = 0
    BY <2>1
  <2>2. CASE n # 0
    <3>1. n - 1 \in Nat /\ n - 1 < n /\ n - 1 < N /\ (n - 1) + 1 = n
      BY <2>2
    <3>2. n - 1 \in S
      BY <3>1
    <3> QED BY <3>1, <3>2
  <2> QED BY <2>1, <2>2
<1>2. \A n \in Nat : n \in A
  <2> HIDE DEF A
  <2> QED BY <1>1, Induction
<1> QED BY <1>2

Upserts(col, points, n, w) ==
    w = [k \in 0..n |-> IF k = 0 THEN Done(col, None) ELSE UpsertNext(w[k - 1], points[k])]

LEMMA UpsertsExist ==
  ASSUME NEW col, NEW points
  PROVE  \A n \in Nat : \E w : Upserts(col, points, n, w)
<1> DEFINE A == {n \in Nat : \E w : Upserts(col, points, n, w)}
<1>1. \A n \in Nat : (\A m \in Nat : m < n => m \in A) => n \in A
  <2> SUFFICES ASSUME NEW n \in Nat, \A m \in Nat : m < n => m \in A
               PROVE  \E w : Upserts(col, points, n, w)
    OBVIOUS
  <2>1. CASE n = 0
    <3>1. Upserts(col, points, 0, [k \in 0..0 |-> Done(col, None)])
      BY DEF Upserts
    <3> QED BY <2>1, <3>1
  <2>2. CASE n # 0
    <3>1. n - 1 \in Nat /\ n - 1 < n
      BY <2>2
    <3>2. PICK w : Upserts(col, points, n - 1, w)
      BY <3>1
    <3> DEFINE Body(f, k) == IF k = 0 THEN Done(col, None) ELSE UpsertNext(f[k - 1], points[k])
               h == [k \in 0..n |-> Body(w, k)]
    <3>3. \A k \in 0..n - 1 : w[k] = Body(w, k)
      BY <3>1, <3>2 DEF Upserts
    <3> HIDE DEF Body
    <3>4. \A k \in 0..n - 1 : h[k] = w[k]
      BY <3>1, <3>3
    <3>5. \A k \in 0..n : k # 0 => k - 1 \in 0..n - 1
      OBVIOUS
    <3> HIDE DEF h
    <3>6. \A k \in 0..n : Body(w, k) = Body(h, k)
      BY <3>4, <3>5 DEF Body
    <3>7. h = [k \in 0..n |-> Body(h, k)]
      BY <3>6 DEF h
    <3>8. Upserts(col, points, n, h)
      BY <3>7 DEF Upserts, Body
    <3> QED BY <3>8
  <2> QED BY <2>1, <2>2
<1>2. \A n \in Nat : n \in A
  <2> HIDE DEF A
  <2> QED BY <1>1, Induction
<1> QED BY <1>2

\* UpsertAll is the last result of the loop.
LEMMA UpsertAllLoop ==
  ASSUME NEW col, NEW points, Len(points) \in Nat
  PROVE  \E w : /\ UpsertAll(col, points) = w[Len(points)]
                /\ w[0] = Done(col, None)
                /\ \A k \in Nat : k < Len(points) => w[k + 1] = UpsertNext(w[k], points[k + 1])
<1> DEFINE N == Len(points)
<1>1. UpsertAll(col, points) = (CHOOSE w : Upserts(col, points, N, w))[N]
  BY DEF UpsertAll, Upserts
<1>2. PICK w : Upserts(col, points, N, w) /\ UpsertAll(col, points) = w[N]
  BY <1>1, UpsertsExist
<1> DEFINE Body(k) == IF k = 0 THEN Done(col, None) ELSE UpsertNext(w[k - 1], points[k])
<1>3. w = [k \in 0..N |-> Body(k)]
  BY <1>2 DEF Upserts
<1> HIDE DEF Body
<1>4. \A k \in 0..N : w[k] = Body(k)
  BY <1>3
<1>5. w[0] = Done(col, None)
  BY <1>4 DEF Body
<1>6. ASSUME NEW k \in Nat, k < N PROVE w[k + 1] = UpsertNext(w[k], points[k + 1])
  <2>1. k + 1 \in 0..N /\ k + 1 # 0 /\ (k + 1) - 1 = k
    BY <1>6
  <2>2. w[k + 1] = Body(k + 1)
    BY <1>4, <2>1
  <2> QED BY <2>1, <2>2 DEF Body
<1> QED BY <1>2, <1>5, <1>6

\* A batch of valid points of the right dimension is taken whole.
LEMMA UpsertAllKeeps ==
  ASSUME NEW col, Sane(col), NEW points, IsList(points),
         \A i \in DOMAIN points : ValidPoint(points[i]) /\ points[i].embedding.len = col.meta.dimension
  PROVE  LET r == UpsertAll(col, points) IN
         /\ r = [code |-> "OK", col |-> r.col, value |-> None] /\ r.code = "OK"
         /\ Sane(r.col) /\ r.col.meta = col.meta
<1>1. Len(points) \in Nat /\ DOMAIN points = 1..Len(points)
  BY ListFacts
<1>2. PICK w : /\ UpsertAll(col, points) = w[Len(points)]
               /\ w[0] = Done(col, None)
               /\ \A k \in Nat : k < Len(points) => w[k + 1] = UpsertNext(w[k], points[k + 1])
  BY <1>1, UpsertAllLoop
<1> DEFINE Good(r) == /\ r = [code |-> "OK", col |-> r.col, value |-> None] /\ r.code = "OK"
                      /\ Sane(r.col) /\ r.col.meta = col.meta
           A == {k \in Nat : Good(w[k])}
           N == Len(points)
<1>3. 0 \in A
  BY <1>2 DEF Done
<1>4. ASSUME NEW k \in Nat, k < N, k \in A PROVE k + 1 \in A
  <2>1. k + 1 \in DOMAIN points
    BY <1>1, <1>4
  <2>2. w[k + 1] = upsert(w[k].col, points[k + 1])
    BY <1>2, <1>4 DEF UpsertNext
  <2>3. ValidPoint(points[k + 1]) /\ points[k + 1].embedding.len = w[k].col.meta.dimension
    BY <1>4, <2>1
  <2>4. Good(w[k + 1])
    <3> DEFINE c == w[k].col
               p == points[k + 1]
    <3>1. Sane(c) /\ c.meta = col.meta /\ ValidPoint(p) /\ p.embedding.len = c.meta.dimension
      BY <1>4, <2>3
    <3> HIDE DEF c, p
    <3>2. Good(upsert(c, p))
      BY <3>1, UpsertKeeps
    <3> QED BY <2>2, <3>2 DEF c, p
  <2> QED BY <2>4
<1>5. N \in A
  <2> HIDE DEF A
  <2>1. N \in Nat /\ \A k \in Nat : k < N /\ k \in A => k + 1 \in A
    BY <1>1, <1>4
  <2> HIDE DEF N
  <2>2. \A k \in 0..N : k \in A
    BY <1>3, <2>1, StepByStep
  <2> QED BY <2>1, <2>2
<1> QED BY <1>2, <1>5

Chunks(col, name, stream, n, w) ==
    w = [k \in 0..n |-> IF k = 0 THEN Done(col, Some(0)) ELSE Chunk(w[k - 1], name, stream[k])]

LEMMA ChunksExist ==
  ASSUME NEW col, NEW name, NEW stream
  PROVE  \A n \in Nat : \E w : Chunks(col, name, stream, n, w)
<1> DEFINE A == {n \in Nat : \E w : Chunks(col, name, stream, n, w)}
<1>1. \A n \in Nat : (\A m \in Nat : m < n => m \in A) => n \in A
  <2> SUFFICES ASSUME NEW n \in Nat, \A m \in Nat : m < n => m \in A
               PROVE  \E w : Chunks(col, name, stream, n, w)
    OBVIOUS
  <2>1. CASE n = 0
    <3>1. Chunks(col, name, stream, 0, [k \in 0..0 |-> Done(col, Some(0))])
      BY DEF Chunks
    <3> QED BY <2>1, <3>1
  <2>2. CASE n # 0
    <3>1. n - 1 \in Nat /\ n - 1 < n
      BY <2>2
    <3>2. PICK w : Chunks(col, name, stream, n - 1, w)
      BY <3>1
    <3> DEFINE Body(f, k) == IF k = 0 THEN Done(col, Some(0)) ELSE Chunk(f[k - 1], name, stream[k])
               h == [k \in 0..n |-> Body(w, k)]
    <3>3. \A k \in 0..n - 1 : w[k] = Body(w, k)
      BY <3>1, <3>2 DEF Chunks
    <3> HIDE DEF Body
    <3>4. \A k \in 0..n - 1 : h[k] = w[k]
      BY <3>1, <3>3
    <3>5. \A k \in 0..n : k # 0 => k - 1 \in 0..n - 1
      OBVIOUS
    <3> HIDE DEF h
    <3>6. \A k \in 0..n : Body(w, k) = Body(h, k)
      BY <3>4, <3>5 DEF Body
    <3>7. h = [k \in 0..n |-> Body(h, k)]
      BY <3>6 DEF h
    <3>8. Chunks(col, name, stream, n, h)
      BY <3>7 DEF Chunks, Body
    <3> QED BY <3>8
  <2> QED BY <2>1, <2>2
<1>2. \A n \in Nat : n \in A
  <2> HIDE DEF A
  <2> QED BY <1>1, Induction
<1> QED BY <1>2

\* The results after 0, 1, ... n chunks.
StreamRun(col, name, stream, n, w) ==
    /\ UpsertStream(col, name, stream) = w[n]
    /\ w[0] = Done(col, Some(0))
    /\ \A k \in Nat : k < n => w[k + 1] = Chunk(w[k], name, stream[k + 1])

LEMMA StreamLoop ==
  ASSUME NEW col, NEW name, NEW stream, Len(stream) \in Nat
  PROVE  \E w : StreamRun(col, name, stream, Len(stream), w)
<1> DEFINE N == Len(stream)
<1>1. UpsertStream(col, name, stream) = (CHOOSE w : Chunks(col, name, stream, N, w))[N]
  BY DEF UpsertStream, Chunks
<1>2. PICK w : Chunks(col, name, stream, N, w) /\ UpsertStream(col, name, stream) = w[N]
  BY <1>1, ChunksExist
<1> DEFINE Body(k) == IF k = 0 THEN Done(col, Some(0)) ELSE Chunk(w[k - 1], name, stream[k])
<1>3. w = [k \in 0..N |-> Body(k)]
  BY <1>2 DEF Chunks
<1> HIDE DEF Body
<1>4. \A k \in 0..N : w[k] = Body(k)
  BY <1>3
<1>5. w[0] = Done(col, Some(0))
  BY <1>4 DEF Body
<1>6. ASSUME NEW k \in Nat, k < N PROVE w[k + 1] = Chunk(w[k], name, stream[k + 1])
  <2>1. k + 1 \in 0..N /\ k + 1 # 0 /\ (k + 1) - 1 = k
    BY <1>6
  <2>2. w[k + 1] = Body(k + 1)
    BY <1>4, <2>1
  <2> QED BY <2>1, <2>2 DEF Body
<1> QED BY <1>2, <1>5, <1>6 DEF StreamRun

\* One chunk: taken whole, or refused with the collection as it was.
LEMMA ChunkKeeps ==
  ASSUME NEW r, NEW name, NEW m, IsPbBatch(m), Sane(r.col), NEW n \in Nat,
         r = [code |-> "OK", col |-> r.col, value |-> Some(n)]
  PROVE  LET s == Chunk(r, name, m) IN
         /\ Sane(s.col) /\ s.col.meta = r.col.meta
         /\ \/ s = [code |-> "INVALID_ARGUMENT", col |-> r.col, value |-> None]
            \/ \E k \in Nat : s = [code |-> "OK", col |-> s.col, value |-> Some(k)]
<1> DEFINE batch == point_batch_from_pb(m.batch)
           points == batch[1].points
           u == UpsertAll(r.col, points)
           s == Chunk(r, name, m)
<1>1. CASE batch = None \/ batch[1].collection \notin {"", name}
           \/ ~ensure_dimension(points, r.col.meta.dimension)
  <2>0. r.code = "OK"
    OBVIOUS
  <2>1. s = [code |-> "INVALID_ARGUMENT", col |-> r.col, value |-> None]
    BY <1>1, <2>0 DEF Chunk, Failed
  <2>2. s.col = r.col
    BY <2>1
  <2> QED BY <2>1, <2>2
<1>2. CASE ~(batch = None \/ batch[1].collection \notin {"", name}
             \/ ~ensure_dimension(points, r.col.meta.dimension))
  <2>1. s = [u EXCEPT !.value = Some(n + Len(points))]
    <3>1. r.code = "OK" /\ r.value[1] = n
      BY DEF Some
    <3> QED BY <1>2, <3>1 DEF Chunk
  <2>2. IsList(points) /\ \A i \in DOMAIN points : ValidPoint(points[i])
    BY <1>2, BatchDecodes
  <2>3. \A i \in DOMAIN points : points[i].embedding.len = r.col.meta.dimension
    BY <1>2 DEF ensure_dimension
  <2>4. /\ u = [code |-> "OK", col |-> u.col, value |-> None] /\ u.code = "OK"
        /\ Sane(u.col) /\ u.col.meta = r.col.meta
    <3> DEFINE c == r.col
               ps == points
    <3>1. /\ Sane(c) /\ IsList(ps)
          /\ \A i \in DOMAIN ps : ValidPoint(ps[i]) /\ ps[i].embedding.len = c.meta.dimension
      BY <2>2, <2>3
    <3> HIDE DEF c, ps
    <3>2. LET v == UpsertAll(c, ps) IN
          /\ v = [code |-> "OK", col |-> v.col, value |-> None] /\ v.code = "OK"
          /\ Sane(v.col) /\ v.col.meta = c.meta
      BY <3>1, UpsertAllKeeps
    <3> QED BY <3>2 DEF c, ps
  <2>5. Len(points) \in Nat
    BY <2>2, ListFacts
  <2> HIDE DEF u, points
  <2>6. s = [code |-> "OK", col |-> u.col, value |-> Some(n + Len(points))] /\ s.col = u.col
    BY <2>1, <2>4
  <2>7. n + Len(points) \in Nat
    BY <2>5
  <2> HIDE DEF s
  <2>8. /\ Sane(s.col) /\ s.col.meta = r.col.meta
        /\ \E k \in Nat : s = [code |-> "OK", col |-> s.col, value |-> Some(k)]
    BY <2>4, <2>6, <2>7
  <2> QED BY <2>8 DEF s
<1> QED BY <1>1, <1>2

\* A stream: as a whole, or up to the first chunk that is refused.
LEMMA StreamKeeps ==
  ASSUME NEW col, Sane(col), NEW name, NEW stream, IsList(stream),
         \A i \in DOMAIN stream : IsPbBatch(stream[i])
  PROVE  LET r == UpsertStream(col, name, stream) IN
         /\ Sane(r.col) /\ r.col.meta = col.meta
         /\ \/ \E k \in Nat : r = [code |-> "OK", col |-> r.col, value |-> Some(k)]
            \/ /\ r = [code |-> "INVALID_ARGUMENT", col |-> r.col, value |-> None]
               /\ r.col = col \/
                    \E n \in 1..Len(stream) - 1 : \E k \in Nat :
                       UpsertStream(col, name, SubSeq(stream, 1, n))
                         = [code |-> "OK", col |-> r.col, value |-> Some(k)]
<1> DEFINE N == Len(stream)
<1>1. N \in Nat /\ DOMAIN stream = 1..N
  BY ListFacts
<1>2. PICK w : /\ UpsertStream(col, name, stream) = w[N]
               /\ w[0] = Done(col, Some(0))
               /\ \A k \in Nat : k < N => w[k + 1] = Chunk(w[k], name, stream[k + 1])
  <2>1. \E w : StreamRun(col, name, stream, N, w)
    BY <1>1, StreamLoop
  <2> QED BY <2>1 DEF StreamRun
<1> DEFINE Taken(r) == \E k \in Nat : r = [code |-> "OK", col |-> r.col, value |-> Some(k)]
           Refused(r) == /\ r = [code |-> "INVALID_ARGUMENT", col |-> r.col, value |-> None]
                         /\ \/ r.col = col
                            \/ \E n \in 1..N - 1 : Taken(w[n]) /\ w[n].col = r.col
           Good(r) == /\ Sane(r.col) /\ r.col.meta = col.meta /\ (Taken(r) \/ Refused(r))
           A == {k \in Nat : Good(w[k])}
<1>3. 0 \in A
  BY <1>2 DEF Done
<1>4. ASSUME NEW k \in Nat, k < N, k \in A PROVE k + 1 \in A
  <2>1. k + 1 \in DOMAIN stream /\ IsPbBatch(stream[k + 1])
    BY <1>1, <1>4
  <2>2. w[k + 1] = Chunk(w[k], name, stream[k + 1])
    BY <1>2, <1>4
  <2>3. CASE Refused(w[k])
    <3>1. w[k].code # "OK"
      <4>1. w[k] = [code |-> "INVALID_ARGUMENT", col |-> w[k].col, value |-> None]
        BY <2>3
      <4> QED BY <4>1
    <3>2. w[k + 1] = w[k]
      BY <2>2, <3>1 DEF Chunk
    <3> QED BY <1>4, <3>2
  <2>4. CASE Taken(w[k])
    <3>1. PICK n \in Nat : w[k] = [code |-> "OK", col |-> w[k].col, value |-> Some(n)]
      BY <2>4
    <3> DEFINE r == w[k]
               s == Chunk(r, name, stream[k + 1])
    <3>2. Sane(r.col) /\ r.col.meta = col.meta
      BY <1>4
    <3>3. /\ Sane(s.col) /\ s.col.meta = r.col.meta
          /\ \/ s = [code |-> "INVALID_ARGUMENT", col |-> r.col, value |-> None]
             \/ Taken(s)
      <4> HIDE DEF r
      <4> QED BY <2>1, <3>1, <3>2, ChunkKeeps DEF r
    <3>4. s = [code |-> "INVALID_ARGUMENT", col |-> r.col, value |-> None] => Refused(s)
      <4> SUFFICES ASSUME s = [code |-> "INVALID_ARGUMENT", col |-> r.col, value |-> None]
                   PROVE  Refused(s)
        OBVIOUS
      <4>1. s.col = r.col /\ s = [code |-> "INVALID_ARGUMENT", col |-> s.col, value |-> None]
        OBVIOUS
      <4>2. CASE k = 0
        <5>1. r.col = col
          BY <1>2, <4>2 DEF Done
        <5> QED BY <4>1, <5>1
      <4>3. CASE k # 0
        <5>1. k \in 1..N - 1
          BY <1>1, <1>4, <4>3
        <5> HIDE DEF s
        <5> QED BY <2>4, <4>1, <5>1
      <4> QED BY <4>2, <4>3
    <3> HIDE DEF s
    <3>5. Good(s)
      BY <3>2, <3>3, <3>4
    <3>6. w[k + 1] = s
      BY <2>2 DEF s
    <3> QED BY <3>5, <3>6
  <2> QED BY <1>4, <2>3, <2>4
<1>5. Good(w[N])
  <2> HIDE DEF A
  <2>1. \A k \in Nat : k < N /\ k \in A => k + 1 \in A
    BY <1>4
  <2> HIDE DEF N
  <2>2. \A k \in 0..N : k \in A
    BY <1>1, <1>3, <2>1, StepByStep
  <2>3. N \in A
    BY <1>1, <2>2
  <2> QED BY <2>3 DEF A
<1>6. ASSUME NEW n \in 1..N - 1 PROVE UpsertStream(col, name, SubSeq(stream, 1, n)) = w[n]
  <2> DEFINE t == SubSeq(stream, 1, n)
  <2>1. Len(t) = n /\ n \in Nat /\ n < N /\ \A i \in 1..n : t[i] = stream[i]
    <3>1. stream \in Seq(Range(stream))
      BY DEF IsList
    <3> DEFINE R == Range(stream)
    <3> HIDE DEF R
    <3>2. stream \in Seq(R)
      BY <3>1 DEF R
    <3> QED BY <1>1, <3>2
  <2> HIDE DEF t
  <2>2. PICK v : /\ UpsertStream(col, name, t) = v[n]
                 /\ v[0] = Done(col, Some(0))
                 /\ \A k \in Nat : k < n => v[k + 1] = Chunk(v[k], name, t[k + 1])
    <3>1. Len(t) \in Nat
      BY <2>1
    <3>2. \E v : StreamRun(col, name, t, Len(t), v)
      BY <3>1, StreamLoop
    <3>3. \E v : StreamRun(col, name, t, n, v)
      BY <2>1, <3>2
    <3> QED BY <3>3 DEF StreamRun
  <2> DEFINE B == {k \in Nat : v[k] = w[k]}
  <2>3. 0 \in B
    BY <1>2, <2>2
  <2>4. ASSUME NEW k \in Nat, k < n, k \in B PROVE k + 1 \in B
    <3>1. k < N /\ k + 1 \in 1..n
      BY <1>1, <2>1, <2>4
    <3> QED BY <1>2, <2>1, <2>2, <2>4, <3>1
  <2>5. \A k \in 0..n : k \in B
    <3> HIDE DEF B
    <3> QED BY <2>1, <2>3, <2>4, StepByStep
  <2> QED BY <2>1, <2>2, <2>5 DEF t
<1> DEFINE r == w[N]
<1>7. Taken(r) \/ r = [code |-> "INVALID_ARGUMENT", col |-> r.col, value |-> None]
  BY <1>5
<1>8. ASSUME Refused(r), r.col # col
      PROVE  \E n \in 1..N - 1 : \E k \in Nat :
                UpsertStream(col, name, SubSeq(stream, 1, n))
                   = [code |-> "OK", col |-> r.col, value |-> Some(k)]
  BY <1>6, <1>8
<1> QED BY <1>2, <1>5, <1>7, <1>8

-----------------------------------------------------------------------------
(* What is encoded decodes to itself *)

LEMMA ValueRoundTrip ==
  ASSUME NEW v, IsValue(v)
  PROVE  IsPbValue(value_to_pb(v)) /\ value_from_pb(value_to_pb(v)) = Some(v)
<1> DEFINE m == [kind |-> ValueKind[v.kind], v |-> v.v]
<1>1. /\ v \in [kind : DOMAIN ValueKind, v : Int]
      /\ v.kind = "Float" => IsFloat(v.v)
      /\ v.kind = "Integer" => IsInteger(v.v)
  BY DEF IsValue
<1>2. /\ ValueKind[v.kind] \in Range(ValueKind) /\ ValueKind[v.kind] # "none"
      /\ Named(ValueKind, ValueKind[v.kind]) = v.kind
      /\ ValueKind[v.kind] = "float_value" => v.kind = "Float"
      /\ ValueKind[v.kind] = "integer" => v.kind = "Integer"
  <2>1. v.kind \in DOMAIN ValueKind
    BY <1>1
  <2>2. ValueKind[v.kind] \in Range(ValueKind)
    BY <2>1 DEF Range
  <2>3. /\ ValueKind[v.kind] # "none"
        /\ ValueKind[v.kind] = "float_value" => v.kind = "Float"
        /\ ValueKind[v.kind] = "integer" => v.kind = "Integer"
    BY <2>1 DEF ValueKind
  <2> QED BY <2>1, <2>2, <2>3, KindNames
<1>3. m.kind = ValueKind[v.kind] /\ m.v = v.v /\ v.v \in Int
  BY <1>1
<1>4. value_to_pb(v) = m
  BY DEF value_to_pb
<1>5. v = [kind |-> v.kind, v |-> v.v]
  BY <1>1
<1> HIDE DEF m
<1>6. IsPbValue(m)
  BY <1>1, <1>2, <1>3 DEF IsPbValue
<1>7. value_from_pb(m) = Some(v)
  BY <1>2, <1>3, <1>5 DEF value_from_pb
<1> QED BY <1>4, <1>6, <1>7

LEMMA ValuesRoundTrip ==
  ASSUME NEW s, IsValues(s)
  PROVE  /\ IsList(Map(s, value_to_pb)) /\ Len(Map(s, value_to_pb)) = Len(s)
         /\ \A i \in DOMAIN Map(s, value_to_pb) : IsPbValue(Map(s, value_to_pb)[i])
         /\ Collect(Map(Map(s, value_to_pb), value_from_pb)) = Some(s)
<1> DEFINE t == Map(s, value_to_pb)
           u == Map(t, value_from_pb)
<1>1. Len(s) \in Nat /\ DOMAIN s = 1..Len(s) /\ s = [i \in DOMAIN s |-> s[i]]
  <2>1. s \in Seq(Range(s))
    BY DEF IsValues, IsList
  <2> DEFINE R == Range(s)
  <2> HIDE DEF R
  <2>2. s \in Seq(R)
    BY <2>1 DEF R
  <2> QED BY <2>2
<1>2. t = [i \in 1..Len(s) |-> t[i]] /\ \A i \in 1..Len(s) : t[i] = value_to_pb(s[i])
  BY <1>1 DEF Map
<1>3. u = [i \in 1..Len(s) |-> u[i]] /\ \A i \in 1..Len(s) : u[i] = value_from_pb(t[i])
  BY <1>2 DEF Map
<1> HIDE DEF t, u
<1>4. IsList(t) /\ Len(t) = Len(s) /\ DOMAIN t = 1..Len(s) /\ DOMAIN u = 1..Len(s)
  BY <1>1, <1>2, <1>3, ListOf
<1>5. \A i \in 1..Len(s) : IsPbValue(t[i]) /\ u[i] = Some(s[i])
  <2> SUFFICES ASSUME NEW i \in 1..Len(s) PROVE IsPbValue(t[i]) /\ u[i] = Some(s[i])
    OBVIOUS
  <2>1. IsValue(s[i])
    BY <1>1 DEF IsValues
  <2> QED BY <1>2, <1>3, <2>1, ValueRoundTrip
<1>6. \A i \in 1..Len(s) : u[i] # None /\ u[i][1] = s[i]
  BY <1>5 DEF None, Some
<1>7. Collect(u) = <<[i \in 1..Len(s) |-> u[i][1]]>>
  BY <1>4, <1>6 DEF Collect, AnyNone, Some
<1>8. [i \in 1..Len(s) |-> u[i][1]] = s
  BY <1>1, <1>6
<1>9. Collect(u) = Some(s)
  BY <1>7, <1>8 DEF Some
<1> QED BY <1>4, <1>5, <1>9 DEF t, u

LEMMA FieldRoundTrip ==
  ASSUME NEW f, f = [kind |-> f.kind, values |-> f.values], f.kind \in DOMAIN FieldKind,
         IsValues(f.values)
  PROVE  LET m == field_value_to_pb(f) IN
         /\ field_value_from_pb(m) = Some(f)
         /\ m.kind \in Range(FieldKind) /\ (m.kind = "scalar" => f.kind = "Scalar")
         /\ IsList(m.values) /\ Len(m.values) = Len(f.values)
         /\ \A i \in DOMAIN m.values : IsPbValue(m.values[i])
<1> DEFINE vs == Map(f.values, value_to_pb)
           m == [kind |-> FieldKind[f.kind], values |-> vs]
<1>1. field_value_to_pb(f) = m
  BY DEF field_value_to_pb
<1>2. /\ FieldKind[f.kind] \in Range(FieldKind) /\ FieldKind[f.kind] # "none"
      /\ Named(FieldKind, FieldKind[f.kind]) = f.kind
      /\ FieldKind[f.kind] = "scalar" => f.kind = "Scalar"
  BY KindNames DEF Range, FieldKind
<1>3. /\ IsList(vs) /\ Len(vs) = Len(f.values) /\ \A i \in DOMAIN vs : IsPbValue(vs[i])
      /\ Collect(Map(vs, value_from_pb)) = Some(f.values)
  BY ValuesRoundTrip
<1> HIDE DEF vs
<1>4. m.kind = FieldKind[f.kind] /\ m.values = vs
  OBVIOUS
<1> HIDE DEF m
<1>5. field_value_from_pb(m) = Some([kind |-> f.kind, values |-> f.values])
  BY <1>2, <1>3, <1>4 DEF field_value_from_pb, Some, None
<1> QED BY <1>1, <1>2, <1>3, <1>4, <1>5

LEMMA PayloadRoundTrip ==
  ASSUME NEW p, ValidPayload(p)
  PROVE  IsPbPayload(payload_to_pb(p)) /\ payload_from_pb(payload_to_pb(p)) = Some(p)
<1> DEFINE m == Map(p, field_value_to_pb)
           u == Map(m, field_value_from_pb)
<1>1. /\ p = [key \in DOMAIN p |-> p[key]] /\ FinitePayload(p)
      /\ \A key \in DOMAIN p :
            /\ p[key] = [kind |-> p[key].kind, values |-> p[key].values]
            /\ p[key].kind \in DOMAIN FieldKind /\ IsValues(p[key].values)
            /\ p[key].kind = "Scalar" => Len(p[key].values) = 1
  BY DEF ValidPayload, IsPayload
<1>2. DOMAIN m = DOMAIN p /\ \A k \in DOMAIN p : m[k] = field_value_to_pb(p[k])
  BY DEF Map
<1>3. DOMAIN u = DOMAIN p /\ \A k \in DOMAIN p : u[k] = field_value_from_pb(m[k])
  BY <1>2 DEF Map
<1>4. payload_to_pb(p) = m
  BY DEF payload_to_pb
<1>5. payload_from_pb(m) = IF Collect(u) = None THEN None
                           ELSE IF FinitePayload(Collect(u)[1]) THEN Collect(u) ELSE None
  BY DEF payload_from_pb
<1> HIDE DEF m, u
<1>6. ASSUME NEW k \in DOMAIN p
      PROVE  /\ u[k] = Some(p[k])
             /\ m[k].kind \in {"none"} \cup Range(FieldKind) /\ IsList(m[k].values)
             /\ m[k].kind = "scalar" => Len(m[k].values) = 1
             /\ \A i \in DOMAIN m[k].values : IsPbValue(m[k].values[i])
  <2> DEFINE f == p[k]
  <2>1. /\ f = [kind |-> f.kind, values |-> f.values] /\ f.kind \in DOMAIN FieldKind
        /\ IsValues(f.values) /\ (f.kind = "Scalar" => Len(f.values) = 1)
    BY <1>1
  <2>2. m[k] = field_value_to_pb(f) /\ u[k] = field_value_from_pb(m[k])
    BY <1>2, <1>3
  <2> HIDE DEF f
  <2>3. LET n == field_value_to_pb(f) IN
         /\ field_value_from_pb(n) = Some(f)
         /\ n.kind \in Range(FieldKind) /\ (n.kind = "scalar" => f.kind = "Scalar")
         /\ IsList(n.values) /\ Len(n.values) = Len(f.values)
         /\ \A i \in DOMAIN n.values : IsPbValue(n.values[i])
    BY <2>1, FieldRoundTrip
  <2>4. u[k] = Some(p[k])
    BY <2>2, <2>3 DEF f
  <2> QED BY <2>1, <2>2, <2>3, <2>4
<1>7. \A k \in DOMAIN u : u[k] # None /\ u[k][1] = p[k]
  BY <1>3, <1>6 DEF Some, None
<1>8. [k \in DOMAIN u |-> u[k][1]] = p
  BY <1>1, <1>3, <1>7
<1>9. Collect(u) = <<p>>
  BY <1>7, <1>8 DEF Collect, AnyNone, Some
<1>10. payload_from_pb(m) = Some(p)
  BY <1>1, <1>5, <1>9 DEF Some, None
<1>11. IsPbPayload(m)
  BY <1>2, <1>6 DEF IsPbPayload
<1> QED BY <1>4, <1>10, <1>11

LEMMA OptionalPayloadRoundTrip ==
  ASSUME NEW o, IsOption(o), o # None => ValidPayload(o[1])
  PROVE  LET m == MapOption(o, payload_to_pb) IN
         /\ Transpose(m, payload_from_pb) = Some(o)
         /\ m # None => IsPbPayload(m[1])
<1>1. CASE o = None
  BY <1>1 DEF MapOption, Transpose
<1>2. CASE o # None
  <2> DEFINE p == o[1]
             q == payload_to_pb(p)
             m == MapOption(o, payload_to_pb)
  <2>1. IsPbPayload(q) /\ payload_from_pb(q) = Some(p)
    BY <1>2, PayloadRoundTrip
  <2>2. o = Some(p)
    BY <1>2 DEF IsOption
  <2>3. m = Some(q)
    BY <1>2 DEF MapOption
  <2> HIDE DEF p, q, m
  <2>4. m # None /\ m[1] = q
    BY <2>3 DEF Some, None
  <2>5. Some(p) # None
    BY DEF Some, None
  <2>6. Transpose(m, payload_from_pb) = Some(o)
    BY <2>1, <2>2, <2>4, <2>5 DEF Transpose
  <2>7. Transpose(m, payload_from_pb) = Some(o) /\ (m # None => IsPbPayload(m[1]))
    BY <2>1, <2>4, <2>6
  <2> QED BY <2>7 DEF m
<1> QED BY <1>1, <1>2

LEMMA PointRoundTrip ==
  ASSUME NEW p, ValidPoint(p)
  PROVE  /\ IsPbPoint(point_to_pb(p)) /\ point_from_pb(point_to_pb(p)) = Some(p)
         /\ point_to_pb(p).vector = p.embedding
<1> DEFINE pl == MapOption(p.payload, payload_to_pb)
           m == [id |-> [len |-> ID_LENGTH, n |-> p.id], vector |-> p.embedding,
                 document |-> p.document, payload |-> pl]
<1>1. point_to_pb(p) = m
  BY DEF point_to_pb, vector_id_to_pb, embedding_to_pb
<1>2. Transpose(pl, payload_from_pb) = Some(p.payload) /\ (pl # None => IsPbPayload(pl[1]))
  BY OptionalPayloadRoundTrip DEF ValidPoint
<1> HIDE DEF pl
<1>3. /\ m.id = [len |-> ID_LENGTH, n |-> p.id] /\ m.vector = p.embedding
      /\ m.document = p.document /\ m.payload = pl
  OBVIOUS
<1> HIDE DEF m
<1>4. m.id.len = ID_LENGTH /\ m.id.n = p.id
  BY <1>3
<1>5. vector_id_from_pb(m.id) = Some(p.id)
  BY <1>4 DEF vector_id_from_pb
<1>6. embedding_from_pb(m.vector) = Some(p.embedding)
  BY <1>3 DEF embedding_from_pb, ValidPoint, ValidVector
<1>7. Transpose(m.document, document_from_pb) = Some(p.document)
  <2>1. CASE p.document = None
    BY <1>3, <2>1 DEF Transpose
  <2>2. CASE p.document # None
    <3>1. p.document = Some(p.document[1]) /\ ValidDocument(p.document[1])
      BY <2>2 DEF ValidPoint, IsOption, IsDocument
    <3>2. document_from_pb(p.document[1]) = p.document
      BY <3>1 DEF document_from_pb
    <3> QED BY <1>3, <2>2, <3>2 DEF Transpose
  <2> QED BY <2>1, <2>2
<1>8. Transpose(m.payload, payload_from_pb) = Some(p.payload)
  BY <1>2, <1>3
<1>9. \A x : Some(x) # None /\ Some(x)[1] = x
  BY DEF Some, None
<1>10. point_from_pb(m) = Some([id |-> p.id, embedding |-> p.embedding,
                                document |-> p.document, payload |-> p.payload])
  <2> DEFINE a == vector_id_from_pb(m.id)
             b == embedding_from_pb(m.vector)
             c == Transpose(m.document, document_from_pb)
             d == Transpose(m.payload, payload_from_pb)
  <2>1. point_from_pb(m) = IF AnyNone(<<a, b, c, d>>) THEN None
                           ELSE Some([id |-> a[1], embedding |-> b[1],
                                      document |-> c[1], payload |-> d[1]])
    BY DEF point_from_pb
  <2>2. a = Some(p.id) /\ b = Some(p.embedding) /\ c = Some(p.document) /\ d = Some(p.payload)
    BY <1>5, <1>6, <1>7, <1>8
  <2> HIDE DEF a, b, c, d
  <2>3. ~AnyNone(<<a, b, c, d>>)
    <3>1. a # None /\ b # None /\ c # None /\ d # None
      BY <1>9, <2>2
    <3> QED BY <3>1 DEF AnyNone
  <2> QED BY <1>9, <2>1, <2>2, <2>3
<1>11. ID_LENGTH \in Nat
  BY DEF ID_LENGTH
<1>12. IsPbPoint(m)
  BY <1>2, <1>3, <1>11 DEF IsPbPoint, ValidPoint, ValidVector, IsDocument
<1> QED BY <1>1, <1>3, <1>10, <1>12 DEF ValidPoint

LEMMA BatchRoundTrip ==
  ASSUME NEW name, NEW s, IsList(s), \A i \in DOMAIN s : ValidPoint(s[i])
  PROVE  LET m == BatchMessage(name, s) IN
         /\ IsPbBatch(m)
         /\ point_batch_from_pb(m.batch) = Some([collection |-> name, points |-> s])
<1> DEFINE t == Map(s, point_to_pb)
           u == Map(t, point_from_pb)
           b == [collection |-> name, points |-> t]
           m == [batch |-> Some(b)]
<1>1. BatchMessage(name, s) = m
  BY DEF BatchMessage, point_batch_to_pb
<1>2. Len(s) \in Nat /\ DOMAIN s = 1..Len(s) /\ s = [i \in DOMAIN s |-> s[i]]
  <2>1. s \in Seq(Range(s))
    BY DEF IsList
  <2> DEFINE R == Range(s)
  <2> HIDE DEF R
  <2>2. s \in Seq(R)
    BY <2>1 DEF R
  <2> QED BY <2>2
<1>3. t = [i \in 1..Len(s) |-> t[i]] /\ \A i \in 1..Len(s) : t[i] = point_to_pb(s[i])
  BY <1>2 DEF Map
<1>4. u = [i \in 1..Len(s) |-> u[i]] /\ \A i \in 1..Len(s) : u[i] = point_from_pb(t[i])
  BY <1>3 DEF Map
<1>5. m.batch # None /\ m.batch[1].points = t /\ m.batch[1].collection = name
  BY DEF Some, None
<1>6. \A c : c.batch # None /\ c.batch[1].points = t /\ c.batch[1].collection = name =>
          point_batch_from_pb(c.batch)
            = IF Collect(u) = None THEN None
              ELSE Some([collection |-> name, points |-> Collect(u)[1]])
  BY DEF point_batch_from_pb
<1> HIDE DEF t, u, m
<1>7. IsList(t) /\ Len(t) = Len(s) /\ DOMAIN t = 1..Len(s) /\ DOMAIN u = 1..Len(s)
  BY <1>2, <1>3, <1>4, ListOf
<1>8. \A i \in 1..Len(s) : IsPbPoint(t[i]) /\ u[i] = Some(s[i])
  BY <1>2, <1>3, <1>4, PointRoundTrip
<1>9. \A i \in 1..Len(s) : u[i] # None /\ u[i][1] = s[i]
  BY <1>8 DEF None, Some
<1>10. [i \in 1..Len(s) |-> u[i][1]] = s
  BY <1>2, <1>9
<1>11. Collect(u) = <<s>>
  BY <1>7, <1>9, <1>10 DEF Collect, AnyNone, Some
<1>12. point_batch_from_pb(m.batch) = Some([collection |-> name, points |-> s])
  BY <1>5, <1>6, <1>11 DEF None
<1>13. IsPbBatch(m)
  BY <1>5, <1>7, <1>8 DEF IsPbBatch
<1> QED BY <1>1, <1>12, <1>13

-----------------------------------------------------------------------------
(* The arguments of commands *)

\* Some float is as near to a given integer as any.
LEMMA NearestExists ==
  ASSUME NEW n \in Int
  PROVE  \E x \in Floats : \A y \in Floats : Distance(x, n) <= Distance(y, n)
<1>1. \A x \in Floats : Distance(x, n) \in Nat
  BY FloatTypes DEF Distance
<1> DEFINE S == {d \in Nat : \A x \in Floats : Distance(x, n) # d}
<1> SUFFICES ASSUME \A x \in Floats : \E y \in Floats : ~(Distance(x, n) <= Distance(y, n))
             PROVE  FALSE
  OBVIOUS
<1>2. \A d \in Nat : (\A m \in Nat : m < d => m \in S) => d \in S
  <2> SUFFICES ASSUME NEW d \in Nat, \A m \in Nat : m < d => m \in S,
                      NEW x \in Floats, Distance(x, n) = d
               PROVE  FALSE
    OBVIOUS
  <2>1. PICK y \in Floats : ~(Distance(x, n) <= Distance(y, n))
    OBVIOUS
  <2>2. Distance(y, n) \in Nat /\ Distance(y, n) < d
    BY <1>1, <2>1
  <2> QED BY <2>2
<1> HIDE DEF S
<1>3. \A d \in Nat : d \in S
  BY <1>2, Induction
<1>4. PICK x : x \in Floats
  BY FloatTypes
<1> QED BY <1>1, <1>3, <1>4 DEF S

\* An integer converts to a float, to itself if it is one, and no float lies between.
LEMMA Rounded ==
  ASSUME NEW v, v.kind = "Integer", v.v \in Int
  PROVE  /\ as_f64(v) \in Floats /\ as_f64(v) \in Int
         /\ v.v \in Floats => as_f64(v) = v.v
         /\ \A x \in Floats : (v.v < x => as_f64(v) <= x) /\ (x < v.v => x <= as_f64(v))
<1> DEFINE n == v.v
           D == {Distance(x, n) : x \in Floats}
           d == Min(D)
           nearest == {x \in {n - d, n + d} : x \in Floats}
           even(x) == x % (4 * d) = 0
           r == CHOOSE x \in nearest : (\E y \in nearest : even(y)) => even(x)
<1>1. as_f64(v) = IF n \in Floats THEN n ELSE r
  BY DEF as_f64
<1>2. CASE n \in Floats
  BY <1>1, <1>2, FloatTypes
<1>3. CASE n \notin Floats
  <2>1. PICK x0 \in Floats : \A y \in Floats : Distance(x0, n) <= Distance(y, n)
    BY NearestExists
  <2>2. \A x \in Floats : x \in Int /\ Distance(x, n) \in Nat /\ Distance(x, n) \in D
                          /\ (x = n - Distance(x, n) \/ x = n + Distance(x, n))
    BY FloatTypes DEF Distance
  <2>3. d \in D /\ \A y \in Floats : d <= Distance(y, n)
    <3>1. Distance(x0, n) \in D /\ \A e \in D : Distance(x0, n) <= e
      BY <2>1, <2>2
    <3>2. d \in D /\ \A e \in D : d <= e
      BY <3>1 DEF Min
    <3> QED BY <2>2, <3>2
  <2>4. PICK x1 \in Floats : d = Distance(x1, n)
    BY <2>3
  <2> HIDE DEF d
  <2>5. x1 \in nearest
    BY <2>2, <2>4
  <2>6. \A x \in nearest : x \in Floats /\ (x = n - d \/ x = n + d)
    OBVIOUS
  <2> HIDE DEF nearest, even
  <2>7. r \in nearest
    BY <2>5
  <2> HIDE DEF r
  <2>8. d \in Nat /\ r \in Floats /\ (r = n - d \/ r = n + d)
    BY <2>2, <2>4, <2>6, <2>7
  <2>9. ASSUME NEW x \in Floats PROVE (n < x => r <= x) /\ (x < n => x <= r)
    <3>1. d <= Distance(x, n)
      BY <2>3
    <3>2. r \in Int /\ x \in Int
      BY <2>8, FloatTypes
    <3> QED BY <2>8, <3>1, <3>2 DEF Distance
  <2> QED BY <1>1, <1>3, <2>5, <2>8, <2>9, FloatTypes
<1> QED BY <1>2, <1>3

\* A JSON scalar gives a value, and the value prints as that scalar again.
LEMMA JsonValue ==
  ASSUME NEW j, IsScalar(j), json_to_value(j) # None
  PROVE  LET v == json_to_value(j)[1] IN
         /\ json_to_value(j) = Some(v) /\ IsValue(v)
         /\ (j.kind = "int" => IsInteger(j.v)) => value_to_json(v) = j
<1> USE BoundTypes
<1>0. j.v \in Int /\ (j.kind = "float" => IsFloat(j.v))
      /\ (j.kind \in {"string", "bool", "int", "float"} => j = Json(j.kind, j.v))
  BY DEF IsScalar
<1> DEFINE V(kind, n) == [kind |-> kind, v |-> n]
           R == as_f64([kind |-> "Integer", v |-> j.v])
<1>1. \A kind \in DOMAIN ValueKind, n \in Int :
          /\ V(kind, n) \in [kind : DOMAIN ValueKind, v : Int]
          /\ V(kind, n).kind = kind /\ V(kind, n).v = n
  OBVIOUS
<1>2. {"Text", "Bool", "Integer", "Float"} \subseteq DOMAIN ValueKind
  BY DEF ValueKind
<1>3. R \in Int /\ IsFloat(R)
  <2> DEFINE w == [kind |-> "Integer", v |-> j.v]
  <2>1. w.kind = "Integer" /\ w.v \in Int
    BY <1>0
  <2> HIDE DEF w
  <2>2. as_f64(w) \in Int /\ as_f64(w) \in Floats
    BY <2>1, Rounded
  <2> QED BY <2>2 DEF w, IsFloat
<1>4. \A kind \in DOMAIN ValueKind, n \in Int :
          value_to_json(V(kind, n)) = Json(JsonKind[kind], n)
  BY DEF value_to_json
<1>5. JsonKind["Text"] = "string" /\ JsonKind["Bool"] = "bool" /\ JsonKind["Integer"] = "int"
      /\ JsonKind["Float"] = "float"
  BY DEF JsonKind
<1>6. \A x : Some(x) # None /\ Some(x)[1] = x
  BY DEF Some, None
<1>7. \A x, y : IsValue(V(x, y)) <=> V(x, y) \in [kind : DOMAIN ValueKind, v : Int]
                                      /\ (V(x, y).kind = "Float" => IsFloat(V(x, y).v))
                                      /\ (V(x, y).kind = "Integer" => IsInteger(V(x, y).v))
  BY DEF IsValue
<1>8. IsInteger(j.v) <=> j.v \in MinI64..MaxI64
  BY DEF IsInteger
<1> HIDE DEF V, R
<1>10. CASE j.kind = "string"
  <2>1. json_to_value(j) = Some(V("Text", j.v))
    BY <1>10 DEF json_to_value, V
  <2> QED BY <1>0, <1>1, <1>2, <1>4, <1>5, <1>6, <1>7, <1>10, <2>1
<1>11. CASE j.kind = "bool"
  <2>1. json_to_value(j) = Some(V("Bool", j.v))
    BY <1>11 DEF json_to_value, V
  <2> QED BY <1>0, <1>1, <1>2, <1>4, <1>5, <1>6, <1>7, <1>11, <2>1
<1>12. CASE j.kind = "float"
  <2>1. json_to_value(j) = Some(V("Float", j.v))
    BY <1>12 DEF json_to_value, V
  <2> QED BY <1>0, <1>1, <1>2, <1>4, <1>5, <1>6, <1>7, <1>12, <2>1
<1>13. CASE j.kind = "int" /\ j.v \in MinI64..MaxI64
  <2>1. json_to_value(j) = Some(V("Integer", j.v))
    BY <1>0, <1>13 DEF json_to_value, V
  <2> QED BY <1>0, <1>1, <1>2, <1>4, <1>5, <1>6, <1>7, <1>8, <1>13, <2>1
<1>14. CASE j.kind = "int" /\ j.v \notin MinI64..MaxI64
  <2>1. json_to_value(j) = Some(V("Float", R))
    BY <1>0, <1>14 DEF json_to_value, V, R
  <2> QED BY <1>0, <1>1, <1>2, <1>3, <1>6, <1>7, <1>8, <1>14, <2>1
<1>15. CASE j.kind \notin {"string", "bool", "float", "int"}
  BY <1>15 DEF json_to_value
<1> QED BY <1>0, <1>10, <1>11, <1>12, <1>13, <1>14, <1>15

FieldJson(f) ==
    IF f.kind = "Scalar" THEN value_to_json(f.values[1])
    ELSE [Json("array", 0) EXCEPT !.items = Map(f.values, value_to_json)]

LEMMA JsonField ==
  ASSUME NEW j, IsField(j), json_to_field_value(j) # None
  PROVE  LET f == json_to_field_value(j)[1] IN
         /\ json_to_field_value(j) = Some(f)
         /\ f = [kind |-> f.kind, values |-> f.values]
         /\ f.kind \in DOMAIN FieldKind /\ IsValues(f.values)
         /\ f.kind = "Scalar" => Len(f.values) = 1
         /\ Representable(j) => FieldJson(f) = j
<1>0. \A x : Some(x) # None /\ Some(x)[1] = x
  BY DEF Some, None
<1>1. CASE j.kind = "array"
  <2> DEFINE s == Map(j.items, json_to_value)
             values == Collect(s)
             f == [kind |-> "Array", values |-> values[1]]
             t == Map(values[1], value_to_json)
  <2>1. /\ j = [Json("array", 0) EXCEPT !.items = j.items] /\ IsList(j.items)
        /\ \A i \in DOMAIN j.items : IsScalar(j.items[i])
    BY <1>1 DEF IsField
  <2>2. Len(j.items) \in Nat /\ DOMAIN j.items = 1..Len(j.items)
        /\ j.items = [i \in 1..Len(j.items) |-> j.items[i]]
    <3> DEFINE x == j.items
               X == Range(x)
    <3>1. x \in Seq(X)
      BY <2>1 DEF IsList
    <3> HIDE DEF x, X
    <3>2. Len(x) \in Nat /\ DOMAIN x = 1..Len(x) /\ x = [i \in 1..Len(x) |-> x[i]]
      BY <3>1
    <3> QED BY <3>2 DEF x
  <2>3. DOMAIN s = DOMAIN j.items /\ \A i \in DOMAIN j.items : s[i] = json_to_value(j.items[i])
    BY DEF Map
  <2>4. values # None /\ json_to_field_value(j) = Some(f)
    BY <1>1 DEF json_to_field_value
  <2> HIDE DEF s
  <2>5. values[1] = [i \in DOMAIN s |-> s[i][1]] /\ \A i \in DOMAIN s : s[i] # None
    BY <2>4, Collected
  <2>6. /\ DOMAIN t = DOMAIN values[1] /\ t = [i \in DOMAIN values[1] |-> t[i]]
        /\ \A i \in DOMAIN values[1] : t[i] = value_to_json(values[1][i])
    BY DEF Map
  <2>7. FieldJson(f) = [Json("array", 0) EXCEPT !.items = t]
    BY DEF FieldJson
  <2> HIDE DEF values, t
  <2>8. IsList(values[1]) /\ DOMAIN values[1] = DOMAIN j.items
    BY <2>2, <2>3, <2>5, ListOf
  <2>9. \A i \in DOMAIN j.items :
            /\ IsValue(values[1][i])
            /\ (j.items[i].kind = "int" => IsInteger(j.items[i].v)) =>
                   value_to_json(values[1][i]) = j.items[i]
    BY <2>1, <2>3, <2>5, JsonValue
  <2>10. ASSUME Representable(j) PROVE t = j.items
    <3>1. \A i \in DOMAIN j.items : j.items[i].kind = "int" => IsInteger(j.items[i].v)
      BY <1>1, <2>10 DEF Representable
    <3>2. \A i \in DOMAIN j.items : t[i] = j.items[i]
      BY <2>6, <2>8, <2>9, <3>1
    <3> DEFINE x == j.items
    <3>3. /\ t = [i \in DOMAIN x |-> t[i]] /\ x = [i \in DOMAIN x |-> x[i]]
          /\ \A i \in DOMAIN x : t[i] = x[i]
      BY <2>2, <2>6, <2>8, <3>2
    <3> HIDE DEF x
    <3>4. t = x
      BY <3>3
    <3> QED BY <3>4 DEF x
  <2>11. IsValues(values[1])
    BY <2>8, <2>9 DEF IsValues
  <2>12. /\ f.kind = "Array" /\ f.values = values[1] /\ "Array" \in DOMAIN FieldKind
         /\ f = [kind |-> f.kind, values |-> f.values]
    BY DEF FieldKind
  <2> HIDE DEF f
  <2>13. json_to_field_value(j)[1] = f
    BY <1>0, <2>4
  <2> QED BY <2>1, <2>4, <2>7, <2>10, <2>11, <2>12, <2>13
<1>2. CASE j.kind # "array"
  <2> DEFINE o == json_to_value(j)
             v == o[1]
             f == [kind |-> "Scalar", values |-> <<v>>]
  <2>1. o # None /\ json_to_field_value(j) = Some(f)
    <3>1. json_to_field_value(j) = IF Collect(<<o>>) = None THEN None
                                   ELSE Some([kind |-> "Scalar", values |-> Collect(<<o>>)[1]])
      BY <1>2 DEF json_to_field_value
    <3> HIDE DEF o
    <3>2. Collect(<<o>>) = IF o = None THEN None ELSE Some(<<o[1]>>)
      BY DEF Collect, AnyNone
    <3> QED BY <1>0, <3>1, <3>2
  <2>2. IsScalar(j)
    BY DEF IsField
  <2>3. o = Some(v) /\ IsValue(v) /\ ((j.kind = "int" => IsInteger(j.v)) => value_to_json(v) = j)
    BY <2>1, <2>2, JsonValue
  <2>4. Representable(j) => (j.kind = "int" => IsInteger(j.v))
    BY DEF Representable
  <2> HIDE DEF o, v
  <2>5. IsList(<<v>>) /\ Len(<<v>>) = 1 /\ DOMAIN <<v>> = {1} /\ <<v>>[1] = v
    <3> DEFINE x == <<v>>
    <3>1. x = [i \in 1..1 |-> x[i]] /\ Len(x) = 1 /\ DOMAIN x = {1} /\ x[1] = v
      OBVIOUS
    <3> HIDE DEF x
    <3>2. IsList(x)
      BY <3>1, ListOf
    <3> QED BY <3>1, <3>2 DEF x
  <2>6. IsValues(<<v>>)
    BY <2>3, <2>5 DEF IsValues
  <2>7. /\ f.kind = "Scalar" /\ f.values = <<v>> /\ "Scalar" \in DOMAIN FieldKind
        /\ f = [kind |-> f.kind, values |-> f.values]
    BY DEF FieldKind
  <2> HIDE DEF f
  <2>8. FieldJson(f) = value_to_json(v)
    BY <2>5, <2>7 DEF FieldJson
  <2>9. json_to_field_value(j)[1] = f
    BY <1>0, <2>1
  <2> QED BY <2>1, <2>3, <2>4, <2>5, <2>6, <2>7, <2>8, <2>9
<1> QED BY <1>1, <1>2

\* What a payload that came from JSON prints as.
Shows(p, j) ==
    /\ DOMAIN p = Range(j.keys)
    /\ \A k \in DOMAIN j.keys :
          Representable(j.items[k]) => payload_to_json(p)[j.keys[k]] = j.items[k]

LEMMA JsonPayload ==
  ASSUME NEW j, IsJson(j), parse_payload(j) # None
  PROVE  LET p == parse_payload(j)[1] IN
         parse_payload(j) = Some(p) /\ ValidPayload(p) /\ Shows(p, j)
<1> DEFINE s == Map(j.items, json_to_field_value)
           fields == Collect(s)
           at(key) == CHOOSE i \in DOMAIN j.keys : j.keys[i] = key
           p == [key \in Range(j.keys) |-> fields[1][at(key)]]
<1>0. \A x : Some(x) # None /\ Some(x)[1] = x
  BY DEF Some, None
<1>1. j.kind = "object" /\ fields # None /\ FinitePayload(p) /\ parse_payload(j) = Some(p)
  BY DEF parse_payload
<1>2. /\ IsList(j.keys) /\ DOMAIN j.items = DOMAIN j.keys
      /\ \A i, k \in DOMAIN j.keys : j.keys[i] = j.keys[k] => i = k
      /\ \A i \in DOMAIN j.items : IsField(j.items[i])
  BY <1>1 DEF IsJson
<1>3. DOMAIN s = DOMAIN j.keys /\ \A i \in DOMAIN j.keys : s[i] = json_to_field_value(j.items[i])
  BY <1>2 DEF Map
<1> HIDE DEF s
<1>4. fields[1] = [i \in DOMAIN s |-> s[i][1]] /\ \A i \in DOMAIN s : s[i] # None
  BY <1>1, Collected
<1>5. \A k \in DOMAIN j.keys : at(j.keys[k]) = k
  BY <1>2
<1>6. /\ DOMAIN p = Range(j.keys) /\ p = [key \in Range(j.keys) |-> p[key]]
      /\ \A k \in DOMAIN j.keys : j.keys[k] \in Range(j.keys)
      /\ \A key \in Range(j.keys) : \E k \in DOMAIN j.keys : key = j.keys[k]
      /\ \A k \in DOMAIN j.keys : p[j.keys[k]] = fields[1][at(j.keys[k])]
  <2>1. DOMAIN p = Range(j.keys) /\ p = [key \in Range(j.keys) |-> p[key]]
    OBVIOUS
  <2>2. /\ \A k \in DOMAIN j.keys : j.keys[k] \in Range(j.keys)
        /\ \A key \in Range(j.keys) : \E k \in DOMAIN j.keys : key = j.keys[k]
    BY DEF Range
  <2>3. \A key \in Range(j.keys) : p[key] = fields[1][at(key)]
    OBVIOUS
  <2> HIDE DEF p, at, fields
  <2> QED BY <2>1, <2>2, <2>3
<1> HIDE DEF fields, at, p
<1>7. \A k \in DOMAIN j.keys : p[j.keys[k]] = json_to_field_value(j.items[k])[1]
                               /\ json_to_field_value(j.items[k]) # None
  <2> TAKE k \in DOMAIN j.keys
  <2>1. k \in DOMAIN s /\ s[k] = json_to_field_value(j.items[k]) /\ s[k] # None
    BY <1>3, <1>4
  <2>2. p[j.keys[k]] = fields[1][k]
    BY <1>5, <1>6
  <2>3. fields[1][k] = s[k][1]
    BY <1>4, <2>1
  <2> QED BY <2>1, <2>2, <2>3
<1>8. ASSUME NEW k \in DOMAIN j.keys
      PROVE  LET f == p[j.keys[k]] IN
             /\ f = [kind |-> f.kind, values |-> f.values]
             /\ f.kind \in DOMAIN FieldKind /\ IsValues(f.values)
             /\ f.kind = "Scalar" => Len(f.values) = 1
             /\ Representable(j.items[k]) => FieldJson(f) = j.items[k]
  BY <1>2, <1>7, JsonField
<1>9. ASSUME NEW key \in DOMAIN p
      PROVE  /\ p[key] = [kind |-> p[key].kind, values |-> p[key].values]
             /\ p[key].kind \in DOMAIN FieldKind /\ IsValues(p[key].values)
             /\ p[key].kind = "Scalar" => Len(p[key].values) = 1
  <2>1. PICK k \in DOMAIN j.keys : key = j.keys[k]
    BY <1>6
  <2> QED BY <1>8, <2>1
<1>10. IsPayload(p)
  <2>1. p = [key \in DOMAIN p |-> [kind |-> p[key].kind, values |-> p[key].values]]
    BY <1>6, <1>9
  <2> QED BY <1>9, <2>1 DEF IsPayload
<1>11. \A k \in DOMAIN j.keys : payload_to_json(p)[j.keys[k]] = FieldJson(p[j.keys[k]])
  BY <1>6 DEF payload_to_json, FieldJson
<1>12. Shows(p, j)
  BY <1>6, <1>8, <1>11 DEF Shows
<1> QED BY <1>0, <1>1, <1>10, <1>12 DEF ValidPayload

\* The point that an upsert command asks for.
LEMMA CommandPoint ==
  ASSUME NEW args \in CliArgs.upsert, handle_upsert(args) # None
  PROVE  LET p == handle_upsert(args)[1] IN
         /\ handle_upsert(args) = Some(p) /\ ValidPoint(p)
         /\ IF args.payload = None THEN p.payload = None
            ELSE p.payload # None /\ Shows(p.payload[1], args.payload[1])
<1> DEFINE id == parse_id(args.id)
           embedding == parse_vector(args.vector)
           document == Transpose(args.document, document_from_pb)
           payload == Transpose(args.payload, parse_payload)
           p == [id |-> id[1], embedding |-> embedding[1],
                 document |-> document[1], payload |-> payload[1]]
<1>0. \A x : Some(x) # None /\ Some(x)[1] = x
  BY DEF Some, None
<1>1. /\ id # None /\ embedding # None /\ document # None /\ payload # None
      /\ handle_upsert(args) = Some(p)
  BY ZenonT(40), AllGiven DEF handle_upsert
<1>2. id[1] \in Int
  BY <1>1, CliTypes DEF parse_id, Some
<1>3. ValidVector(embedding[1])
  BY <1>1, CliTypes DEF parse_vector, Some, ValidVector
<1>4. IsOption(document[1]) /\ (document[1] # None => IsDocument(document[1][1]))
  <2>1. args.document # None => IsList(args.document[1])
    BY CliTypes
  <2> QED BY <1>1, <2>1 DEF Transpose, document_from_pb, Some, None, IsOption, IsDocument
<1>5. IF args.payload = None THEN payload[1] = None
      ELSE payload[1] = parse_payload(args.payload[1]) /\ payload[1] # None
  BY <1>0, <1>1 DEF Transpose
<1>6. args.payload # None => IsJson(args.payload[1])
  BY CliTypes
<1>7. /\ IsOption(payload[1]) /\ (payload[1] # None => ValidPayload(payload[1][1]))
      /\ args.payload # None => Shows(payload[1][1], args.payload[1])
  BY <1>5, <1>6, JsonPayload DEF IsOption
<1> HIDE DEF id, embedding, document, payload
<1>8. p.payload = payload[1] /\ ValidPoint(p)
  BY <1>2, <1>3, <1>4, <1>7 DEF ValidPoint
<1> HIDE DEF p
<1>9. handle_upsert(args)[1] = p
  BY <1>0, <1>1
<1> QED BY <1>1, <1>5, <1>7, <1>8, <1>9

-----------------------------------------------------------------------------
(* Handlers *)

\* A registry of collections that were created from checked metadata.
Registry(c) ==
    /\ c = [n \in DOMAIN c |-> c[n]]
    /\ DOMAIN c \subseteq Names \ InvalidNames
    /\ \A n \in DOMAIN c : MetaOK(c[n].meta, n) /\ Sane(c[n])

\* An answer that keeps the registry well formed, and as it was when it is an error.
Answers(reply) == Registry(reply.cols) /\ (reply.code # "OK" => reply.cols = cols)

LEMMA Given == \A x : Some(x) # None /\ Some(x)[1] = x
BY DEF Some, None

LEMMA RefuseAnswers ==
  ASSUME Registry(cols), NEW code, code # "OK"
  PROVE  /\ Answers(Refuse(code)) /\ Refuse(code).code = code
         /\ Refuse(code).cols = cols /\ Refuse(code).body = None
BY DEF Answers, Refuse

LEMMA ReplyAnswers ==
  ASSUME Registry(cols), NEW body
  PROVE  /\ Answers(Reply(cols, body)) /\ Reply(cols, body).code = "OK"
         /\ Reply(cols, body).cols = cols /\ Reply(cols, body).body = body
BY DEF Answers, Reply

LEMMA UpdateFields ==
  ASSUME NEW name, NEW r, NEW body
  PROVE  /\ Update(name, r, body).code = r.code
         /\ Update(name, r, body).body = IF r.code = "OK" THEN body ELSE None
BY DEF Update

LEMMA UpdateKeeps ==
  ASSUME Registry(cols), NEW name \in DOMAIN cols, NEW r, NEW body,
         Sane(r.col), r.col.meta = cols[name].meta
  PROVE  /\ Registry(Update(name, r, body).cols)
         /\ r.col = cols[name] => Update(name, r, body).cols = cols
         /\ DOMAIN Update(name, r, body).cols = DOMAIN cols
         /\ \A n \in DOMAIN cols :
               Update(name, r, body).cols[n] = IF n = name THEN r.col ELSE cols[n]
<1> DEFINE c == [cols EXCEPT ![name] = r.col]
<1>1. Update(name, r, body).cols = c
  BY DEF Update
<1>2. /\ DOMAIN c = DOMAIN cols /\ c = [n \in DOMAIN c |-> c[n]]
      /\ \A n \in DOMAIN c : c[n] = IF n = name THEN r.col ELSE cols[n]
  BY DEF Registry
<1> HIDE DEF c
<1>3. Registry(c)
  <2>1. ASSUME NEW n \in DOMAIN c PROVE MetaOK(c[n].meta, n) /\ Sane(c[n])
    BY <1>2, <2>1 DEF Registry
  <2> QED BY <1>2, <2>1 DEF Registry
<1>4. r.col = cols[name] => c = cols
  BY <1>2 DEF Registry
<1> QED BY <1>1, <1>2, <1>3, <1>4

LEMMA UpdateAnswers ==
  ASSUME Registry(cols), NEW name \in DOMAIN cols, NEW r, NEW body,
         Sane(r.col), r.col.meta = cols[name].meta, r.code # "OK" => r.col = cols[name]
  PROVE  Answers(Update(name, r, body))
BY UpdateKeeps, UpdateFields DEF Answers

\* The metadata of a collection to be created.
LEMMA MetricDecodes ==
  ASSUME NEW n, metric_from_pb(n) # None
  PROVE  metric_from_pb(n) = Some(metric_from_pb(n)[1]) /\ metric_from_pb(n)[1] \in Metrics
<1>1. \E m \in Metrics : MetricNumber[m] = n
  BY DEF metric_from_pb, Range, MetricNumber, Metrics
<1>2. (CHOOSE m \in Metrics : MetricNumber[m] = n) \in Metrics
  BY <1>1
<1> QED BY <1>2, Given DEF metric_from_pb

LEMMA IndexTypeDecodes ==
  ASSUME NEW n, index_type_from_pb(n) # None
  PROVE  /\ index_type_from_pb(n) = Some(index_type_from_pb(n)[1])
         /\ index_type_from_pb(n)[1] \in DOMAIN IndexTypeNumber
<1>1. \E t \in DOMAIN IndexTypeNumber : IndexTypeNumber[t] = n
  BY DEF index_type_from_pb, Range
<1>2. (CHOOSE t \in DOMAIN IndexTypeNumber : IndexTypeNumber[t] = n) \in DOMAIN IndexTypeNumber
  BY <1>1
<1> QED BY <1>2, Given DEF index_type_from_pb

LEMMA ConfigDecodes ==
  ASSUME NEW o, hnsw_config_from_pb(o) # None
  PROVE  ValidConfig(hnsw_config_from_pb(o)[1])
<1> DEFINE p == IF o = None THEN Unset ELSE o[1]
           m == positive_or_default(p.m, DefaultConfig.m)
           efc == positive_or_default(p.ef_construction, DefaultConfig.ef_construction)
           efs == positive_or_default(p.ef_search, DefaultConfig.ef_search)
           config == [m |-> m[1], ef_construction |-> efc[1], ef_search |-> efs[1],
                      seed |-> IF p.seed = None THEN DefaultConfig.seed ELSE p.seed[1]]
<1>1. hnsw_config_from_pb(o) = IF AnyNone(<<m, efc, efs>>) THEN None
                               ELSE IF ValidConfig(config) THEN Some(config) ELSE None
  BY DEF hnsw_config_from_pb
<1> HIDE DEF config, m, efc, efs
<1> QED BY <1>1, Given

LEMMA EmptyIsSane ==
  ASSUME NEW meta
  PROVE  Sane(EmptyCollection(meta)) /\ EmptyCollection(meta).meta = meta
<1> DEFINE e == EmptyCollection(meta)
<1>1. e = [meta |-> meta, vectors |-> <<>>, documents |-> <<>>, payloads |-> <<>>]
  BY DEF EmptyCollection
<1>2. /\ e.meta = meta /\ e.vectors = <<>> /\ e.documents = <<>> /\ e.payloads = <<>>
      /\ DOMAIN <<>> = {}
  BY <1>1
<1> HIDE DEF e
<1>3. e = [meta |-> e.meta, vectors |-> e.vectors, documents |-> e.documents,
           payloads |-> e.payloads]
  BY <1>1, <1>2
<1>4. IsFiniteSet({})
  BY FS_EmptySet
<1>5. Sane(e)
  BY <1>2, <1>3, <1>4 DEF Sane
<1> QED BY <1>2, <1>5 DEF e

LEMMA CreateAnswers ==
  ASSUME Registry(cols), NEW m, m.name \in Names \cup InvalidNames, m.dimension \in Nat
  PROVE  Answers(create_collection(m))
<1> DEFINE metric == metric_from_pb(m.metric)
           index_type == index_type_from_pb(m.index_type)
           hnsw == params_of(index_type, m.hnsw_params)
           meta == [name |-> m.name, metric |-> metric[1], dimension |-> m.dimension,
                    index_type |-> index_type[1], hnsw |-> hnsw[1]]
<1>1. create_collection(m) = IF AnyNone(<<metric, index_type, hnsw>>) \/ m.dimension = 0
                             THEN Refuse("INVALID_ARGUMENT") ELSE registry_create(meta)
  BY DEF create_collection
<1>2. CASE AnyNone(<<metric, index_type, hnsw>>) \/ m.dimension = 0
  BY <1>1, <1>2, RefuseAnswers
<1>3. CASE ~(AnyNone(<<metric, index_type, hnsw>>) \/ m.dimension = 0)
  <2>1. metric # None /\ index_type # None /\ hnsw # None /\ m.dimension > 0
    BY <1>3 DEF AnyNone
  <2>2. metric[1] \in Metrics /\ index_type[1] \in DOMAIN IndexTypeNumber
    BY <2>1, MetricDecodes, IndexTypeDecodes
  <2>3. (index_type[1] = "Hnsw") <=> (index_type = Some("Hnsw"))
    BY <2>1, IndexTypeDecodes, Given
  <2>4. /\ (index_type[1] = "Hnsw") = (hnsw[1] # None)
        /\ hnsw[1] # None => ValidConfig(hnsw[1][1])
    BY <2>1, <2>3, ConfigDecodes, Given DEF params_of
  <2> HIDE DEF metric, index_type, hnsw
  <2>5. MetaOK(meta, m.name) /\ meta.name = m.name
    BY <2>1, <2>2, <2>4 DEF MetaOK
  <2> HIDE DEF meta
  <2>6. CASE m.name \in InvalidNames
    BY <1>1, <1>3, <2>5, <2>6, RefuseAnswers DEF registry_create
  <2>7. CASE m.name \notin InvalidNames /\ m.name \in DOMAIN cols
    BY <1>1, <1>3, <2>5, <2>7, RefuseAnswers DEF registry_create
  <2>8. CASE m.name \notin InvalidNames /\ m.name \notin DOMAIN cols
    <3> DEFINE c == With(cols, m.name, EmptyCollection(meta))
    <3>1. create_collection(m) = Reply(c, None)
      BY <1>1, <1>3, <2>5, <2>8 DEF registry_create
    <3>2. /\ DOMAIN c = DOMAIN cols \cup {m.name} /\ c = [n \in DOMAIN c |-> c[n]]
          /\ \A n \in DOMAIN c : c[n] = IF n = m.name THEN EmptyCollection(meta) ELSE cols[n]
      BY DEF With
    <3> HIDE DEF c
    <3>3. ASSUME NEW n \in DOMAIN c PROVE MetaOK(c[n].meta, n) /\ Sane(c[n])
      <4>1. CASE n = m.name
        BY <2>5, <3>2, <4>1, EmptyIsSane
      <4>2. CASE n # m.name
        BY <3>2, <4>2 DEF Registry
      <4> QED BY <4>1, <4>2
    <3>4. Registry(c)
      BY <2>8, <3>2, <3>3 DEF Registry
    <3> QED BY <3>1, <3>4 DEF Answers, Reply
  <2> QED BY <2>6, <2>7, <2>8
<1> QED BY <1>2, <1>3

LEMMA DropAnswers ==
  ASSUME Registry(cols), NEW name
  PROVE  Answers(drop_collection(name))
<1> DEFINE c == Without(cols, {name})
<1>1. /\ DOMAIN c = DOMAIN cols \ {name} /\ c = [n \in DOMAIN c |-> c[n]]
      /\ \A n \in DOMAIN c : c[n] = cols[n]
  BY DEF Without, Restrict
<1>2. drop_collection(name) = Reply(c, Some(name \in DOMAIN cols))
  BY DEF drop_collection
<1> HIDE DEF c
<1>3. Registry(c)
  BY <1>1 DEF Registry
<1> QED BY <1>2, <1>3 DEF Answers, Reply

LEMMA ReadsAnswer ==
  ASSUME Registry(cols), NEW name
  PROVE  /\ Answers(list_collections) /\ Answers(describe_collection(name))
         /\ Answers(Compact(name))
BY RefuseAnswers, ReplyAnswers DEF list_collections, describe_collection, Compact

\* A point is taken when it decodes and has the dimension of its collection.
LEMMA UpsertAnswers ==
  ASSUME Registry(cols), NEW m, m.point # None => IsPbPoint(m.point[1])
  PROVE  LET name == m.collection
             p == point_from_pb(m.point[1])[1]
         IN  /\ Answers(Upsert(m)) /\ Upsert(m).body = None
             /\ Upsert(m).code = "OK" =>
                   /\ name \in DOMAIN cols /\ m.point # None
                   /\ point_from_pb(m.point[1]) = Some(p) /\ ValidPoint(p)
                   /\ p.embedding.len = cols[name].meta.dimension
                   /\ upsert(cols[name], p).code = "OK"
                   /\ Upsert(m).cols = [cols EXCEPT ![name] = upsert(cols[name], p).col]
             /\ Upsert(m).code # "OK" =>
                   Upsert(m).code = IF name \in DOMAIN cols THEN "INVALID_ARGUMENT" ELSE "NOT_FOUND"
<1> DEFINE name == m.collection
           point == point_from_pb(m.point[1])
           p == point[1]
           col == cols[name]
           r == upsert(col, p)
           Refused == \/ m.point = None
                      \/ m.point[1].vector.len # col.meta.dimension
                      \/ point = None
<1>1. Upsert(m) = IF name \notin DOMAIN cols THEN Refuse("NOT_FOUND")
                  ELSE IF Refused THEN Refuse("INVALID_ARGUMENT") ELSE Update(name, r, None)
  BY DEF Upsert
<1>2. CASE name \notin DOMAIN cols
  BY <1>1, <1>2, RefuseAnswers
<1>3. CASE name \in DOMAIN cols /\ Refused
  BY <1>1, <1>3, RefuseAnswers
<1>4. CASE name \in DOMAIN cols /\ ~Refused
  <2>1. point = Some(p) /\ ValidPoint(p) /\ p.embedding = m.point[1].vector
    BY <1>4, PointDecodes
  <2>2. p.embedding.len = col.meta.dimension /\ Sane(col)
    BY <1>4, <2>1 DEF Registry
  <2>3. r.code = "OK" /\ Sane(r.col) /\ r.col.meta = col.meta
    <3> HIDE DEF p, col, r
    <3> QED BY <2>1, <2>2, UpsertKeeps DEF r
  <2>4. Upsert(m) = Update(name, r, None)
    BY <1>1, <1>4
  <2> HIDE DEF r, p, point, Refused
  <2>5. Answers(Upsert(m)) /\ Upsert(m).body = None /\ Upsert(m).code = "OK"
        /\ Upsert(m).cols = [cols EXCEPT ![name] = r.col]
    <3>1. /\ name \in DOMAIN cols /\ Sane(r.col) /\ r.col.meta = cols[name].meta
          /\ r.code = "OK"
      BY <1>4, <2>3
    <3> HIDE DEF name
    <3>2. Answers(Update(name, r, None))
      BY <3>1, UpdateAnswers
    <3>3. Update(name, r, None).code = "OK" /\ Update(name, r, None).body = None
      BY <3>1, UpdateFields
    <3>4. Update(name, r, None).cols = [cols EXCEPT ![name] = r.col]
      BY DEF Update
    <3> QED BY <2>4, <3>2, <3>3, <3>4
  <2> QED BY <1>4, <2>1, <2>2, <2>3, <2>5 DEF r, p, point, Refused
<1> QED BY <1>2, <1>3, <1>4

LEMMA BatchAnswers ==
  ASSUME Registry(cols), NEW m, IsPbBatch(m)
  PROVE  Answers(batch_upsert(m))
<1> DEFINE batch == point_batch_from_pb(m.batch)
           name == batch[1].collection
           points == batch[1].points
           col == cols[name]
           r == UpsertAll(col, points)
<1>1. batch_upsert(m) =
         IF batch = None THEN Refuse("INVALID_ARGUMENT")
         ELSE IF name \notin DOMAIN cols THEN Refuse("NOT_FOUND")
         ELSE IF ~ensure_dimension(points, col.meta.dimension) THEN Refuse("INVALID_ARGUMENT")
         ELSE Update(name, r, Some(Len(points)))
  BY DEF batch_upsert
<1>2. CASE batch = None \/ name \notin DOMAIN cols \/ ~ensure_dimension(points, col.meta.dimension)
  BY <1>1, <1>2, RefuseAnswers
<1>3. CASE ~(batch = None \/ name \notin DOMAIN cols
             \/ ~ensure_dimension(points, col.meta.dimension))
  <2>1. IsList(points) /\ \A i \in DOMAIN points : ValidPoint(points[i])
    BY <1>3, BatchDecodes
  <2>2. \A i \in DOMAIN points : points[i].embedding.len = col.meta.dimension
    BY <1>3 DEF ensure_dimension
  <2>3. Sane(col)
    BY <1>3 DEF Registry
  <2>4. batch_upsert(m) = Update(name, r, Some(Len(points)))
    BY <1>1, <1>3
  <2>5. r.code = "OK" /\ Sane(r.col) /\ r.col.meta = col.meta
    <3> HIDE DEF points, col, r
    <3> QED BY <2>1, <2>2, <2>3, UpsertAllKeeps DEF r
  <2> DEFINE b == Some(Len(points))
  <2>6. batch_upsert(m) = Update(name, r, b) /\ name \in DOMAIN cols /\ r.code = "OK"
        /\ Sane(r.col) /\ r.col.meta = cols[name].meta
    BY <1>3, <2>4, <2>5
  <2> HIDE DEF r, b, name
  <2>7. Answers(Update(name, r, b))
    BY <2>6, UpdateAnswers
  <2> QED BY <2>6, <2>7
<1> QED BY <1>2, <1>3

LEMMA DeleteAnswers ==
  ASSUME Registry(cols), NEW m
  PROVE  Answers(Delete(m)) /\ Answers(DeleteByFilter(m))
<1> DEFINE name == m.collection
           col == cols[name]
<1>1. ASSUME name \in DOMAIN cols, NEW S, NEW value, NEW body
      PROVE  Answers(Update(name, Done(Forget(col, S), value), body))
  <2> DEFINE r == Done(Forget(col, S), value)
  <2>1. r.code = "OK" /\ r.col = Forget(col, S)
    BY DEF Done
  <2>2. Sane(r.col) /\ r.col.meta = cols[name].meta /\ name \in DOMAIN cols
    BY <1>1, <2>1, ForgetKeeps DEF Registry
  <2> HIDE DEF r, name
  <2>3. Answers(Update(name, r, body))
    BY <2>1, <2>2, UpdateAnswers
  <2> QED BY <2>3 DEF r, name
<1>2. Answers(Delete(m))
  BY <1>1, RefuseAnswers DEF Delete, delete
<1>3. Answers(DeleteByFilter(m))
  BY <1>1, RefuseAnswers DEF DeleteByFilter, delete_by_filter
<1> QED BY <1>2, <1>3

\* Searches leave a collection as it is, and what they find they hydrate.
LEMMA SearchKeeps ==
  ASSUME NEW col, NEW q
  PROVE  LET r == search(col, q) IN
         r.col = col /\ (r.code = "OK" => \E ids : r.value = hydrate(col, ids))
BY DEF search, Done, Failed

LEMMA HybridKeeps ==
  ASSUME NEW col, NEW q
  PROVE  LET r == search_hybrid(col, q) IN
         r.col = col /\ (r.code = "OK" => \E ids : r.value = hydrate(col, ids))
BY DEF search_hybrid, Done, Failed

\* What the answer of a search is made of.
Found(reply, name) ==
    reply.code = "OK" =>
        name \in DOMAIN cols /\ \E ids : reply.body = hits_to_pb(hydrate(cols[name], ids))

LEMMA SearchAnswers ==
  ASSUME Registry(cols), NEW m
  PROVE  LET s == Search(m)
             h == SearchHybrid(m)
         IN  /\ Answers(s) /\ s.cols = cols /\ Found(s, m.collection)
             /\ Answers(h) /\ h.cols = cols /\ Found(h, m.collection)
<1> DEFINE name == m.collection
           col == cols[name]
<1>1. ASSUME name \in DOMAIN cols, NEW r, r.col = col,
             r.code = "OK" => \E ids : r.value = hydrate(col, ids)
      PROVE  LET u == Update(name, r, hits_to_pb(r.value)) IN
             Answers(u) /\ u.cols = cols /\ Found(u, name)
  <2>1. Sane(r.col) /\ r.col.meta = col.meta
    BY <1>1 DEF Registry
  <2> DEFINE b == hits_to_pb(r.value)
  <2>2. r.code = "OK" => \E ids : b = hits_to_pb(hydrate(col, ids))
    BY <1>1
  <2> HIDE DEF b
  <2>3. LET u == Update(name, r, b) IN
        /\ u.code = r.code /\ u.cols = cols /\ Registry(u.cols) /\ (r.code = "OK" => u.body = b)
    <3>1. Sane(r.col) /\ r.col.meta = cols[name].meta /\ r.col = cols[name] /\ name \in DOMAIN cols
      BY <1>1, <2>1
    <3> HIDE DEF name
    <3>2. Update(name, r, b).code = r.code /\ (r.code = "OK" => Update(name, r, b).body = b)
      BY UpdateFields
    <3>3. Registry(Update(name, r, b).cols) /\ Update(name, r, b).cols = cols
      BY <3>1, UpdateKeeps
    <3> QED BY <3>2, <3>3
  <2> QED BY <1>1, <2>2, <2>3 DEF Answers, Found, b
<1>2. ASSUME NEW code, code # "OK"
      PROVE  Answers(Refuse(code)) /\ Refuse(code).cols = cols /\ Found(Refuse(code), name)
  BY <1>2, RefuseAnswers DEF Found
<1>3. LET s == Search(m) IN Answers(s) /\ s.cols = cols /\ Found(s, name)
  <2> DEFINE query == search_query_from_pb(m)
             r == search(col, query[1])
  <2>1. \/ \E code : code # "OK" /\ Search(m) = Refuse(code)
        \/ name \in DOMAIN cols /\ Search(m) = Update(name, r, hits_to_pb(r.value))
    BY DEF Search
  <2>2. r.col = col /\ (r.code = "OK" => \E ids : r.value = hydrate(col, ids))
    BY SearchKeeps
  <2> HIDE DEF r
  <2> QED BY <1>1, <1>2, <2>1, <2>2
<1>4. LET h == SearchHybrid(m) IN Answers(h) /\ h.cols = cols /\ Found(h, name)
  <2> DEFINE query == hybrid_query_from_pb(m)
             r == search_hybrid(col, query[1])
  <2>1. \/ \E code : code # "OK" /\ SearchHybrid(m) = Refuse(code)
        \/ name \in DOMAIN cols /\ SearchHybrid(m) = Update(name, r, hits_to_pb(r.value))
    BY DEF SearchHybrid
  <2>2. r.col = col /\ (r.code = "OK" => \E ids : r.value = hydrate(col, ids))
    BY HybridKeeps
  <2> HIDE DEF r
  <2> QED BY <1>1, <1>2, <2>1, <2>2
<1> QED BY <1>3, <1>4

\* A stream that is refused leaves what the stream up to the refused chunk would leave.
LEMMA BulkAnswers ==
  ASSUME Registry(cols), NEW stream, IsList(stream), \A i \in DOMAIN stream : IsPbBatch(stream[i])
  PROVE  LET reply == bulk_upsert(stream) IN
         /\ Registry(reply.cols)
         /\ reply.code # "OK" =>
               \/ reply.cols = cols
               \/ \E n \in 1..Len(stream) - 1 :
                     LET prefix == bulk_upsert(SubSeq(stream, 1, n))
                     IN  prefix.code = "OK" /\ reply.cols = prefix.cols
<1> DEFINE First(s) == point_batch_from_pb(s[1].batch)
           Name(s) == First(s)[1].collection
           R(s) == UpsertStream(cols[Name(s)], Name(s), s)
<1>1. \A s : bulk_upsert(s) = IF s = <<>> THEN Refuse("INVALID_ARGUMENT")
                              ELSE IF First(s) = None THEN Refuse("INVALID_ARGUMENT")
                              ELSE IF Name(s) \notin DOMAIN cols THEN Refuse("NOT_FOUND")
                              ELSE Update(Name(s), R(s), R(s).value)
  BY DEF bulk_upsert
<1> DEFINE name == Name(stream)
           col == cols[name]
           r == R(stream)
           reply == bulk_upsert(stream)
<1>2. CASE stream = <<>> \/ First(stream) = None \/ name \notin DOMAIN cols
  <2>1. \E code : code # "OK" /\ reply = Refuse(code)
    BY <1>1, <1>2
  <2>2. Registry(reply.cols) /\ reply.cols = cols
    BY <2>1, RefuseAnswers DEF Answers
  <2> QED BY <2>2
<1>3. CASE ~(stream = <<>> \/ First(stream) = None \/ name \notin DOMAIN cols)
  <2>1. reply = Update(name, r, r.value) /\ name \in DOMAIN cols
    BY <1>1, <1>3
  <2>2. Sane(col)
    BY <2>1 DEF Registry
  <2>3. r = UpsertStream(col, name, stream)
    OBVIOUS
  <2> HIDE DEF First, Name, R, name, col, r, reply
  <2>4. /\ Sane(r.col) /\ r.col.meta = col.meta
        /\ \/ \E k \in Nat : r = [code |-> "OK", col |-> r.col, value |-> Some(k)]
           \/ /\ r = [code |-> "INVALID_ARGUMENT", col |-> r.col, value |-> None]
              /\ r.col = col \/
                    \E n \in 1..Len(stream) - 1 : \E k \in Nat :
                       UpsertStream(col, name, SubSeq(stream, 1, n))
                         = [code |-> "OK", col |-> r.col, value |-> Some(k)]
    BY <2>2, <2>3, StreamKeeps
  <2>5. Registry(reply.cols) /\ (r.col = cols[name] => reply.cols = cols) /\ reply.code = r.code
    <3> DEFINE b == r.value
    <3>1. Sane(r.col) /\ r.col.meta = cols[name].meta
      BY <2>4 DEF col
    <3>2. reply = Update(name, r, b)
      BY <2>1
    <3> HIDE DEF b
    <3>3. Update(name, r, b).code = r.code
      BY UpdateFields
    <3>4. Registry(Update(name, r, b).cols) /\ (r.col = cols[name] => Update(name, r, b).cols = cols)
      BY <2>1, <3>1, UpdateKeeps
    <3> QED BY <3>2, <3>3, <3>4
  <2>6. ASSUME NEW n \in 1..Len(stream) - 1, NEW k \in Nat,
               UpsertStream(col, name, SubSeq(stream, 1, n))
                         = [code |-> "OK", col |-> r.col, value |-> Some(k)]
        PROVE  bulk_upsert(SubSeq(stream, 1, n)).code = "OK"
               /\ bulk_upsert(SubSeq(stream, 1, n)).cols = reply.cols
    <3> DEFINE t == SubSeq(stream, 1, n)
               u == UpsertStream(col, name, t)
    <3>1. t # <<>> /\ t[1] = stream[1]
      <4> DEFINE X == Range(stream)
      <4>1. stream \in Seq(X)
        BY DEF IsList
      <4> HIDE DEF X
      <4> QED BY <2>6, <4>1
    <3> HIDE DEF t, u
    <3>2. First(t) = First(stream)
      BY <3>1 DEF First
    <3>3. Name(t) = name
      BY <3>2 DEF Name, name
    <3>4. R(t) = u
      BY <3>3 DEF R, u, col
    <3>5. bulk_upsert(t) = Update(name, u, u.value)
      BY <1>1, <1>3, <2>1, <3>1, <3>2, <3>3, <3>4
    <3>6. u.code = "OK" /\ u.col = r.col
      BY <2>6 DEF u, t
    <3>7. bulk_upsert(t).code = "OK"
      BY <3>5, <3>6, UpdateFields
    <3>8. bulk_upsert(t).cols = [cols EXCEPT ![name] = u.col]
      BY <3>5 DEF Update
    <3>9. reply.cols = [cols EXCEPT ![name] = r.col]
      BY <2>1 DEF Update
    <3> QED BY <3>6, <3>7, <3>8, <3>9 DEF t
  <2>7. r.code # "OK" => \/ reply.cols = cols
                         \/ \E n \in 1..Len(stream) - 1 :
                              bulk_upsert(SubSeq(stream, 1, n)).code = "OK"
                              /\ bulk_upsert(SubSeq(stream, 1, n)).cols = reply.cols
    <3>1. CASE \E k \in Nat : r = [code |-> "OK", col |-> r.col, value |-> Some(k)]
      <4>1. r.code = "OK"
        BY <3>1
      <4> QED BY <4>1
    <3>2. CASE r.col = col
      BY <2>5, <3>2 DEF col
    <3>3. CASE \E n \in 1..Len(stream) - 1 : \E k \in Nat :
                       UpsertStream(col, name, SubSeq(stream, 1, n))
                         = [code |-> "OK", col |-> r.col, value |-> Some(k)]
      BY <2>6, <3>3
    <3> QED BY <2>4, <3>1, <3>2, <3>3
  <2> QED BY <2>5, <2>7 DEF reply
<1> QED BY <1>2, <1>3

-----------------------------------------------------------------------------
(* Requests *)

Methods == {"create", "drop", "describe", "compact", "list", "upsert", "batch_upsert",
            "bulk_upsert", "delete", "delete_by_filter", "search", "search_hybrid"}

LEMMA RequestIsOption ==
  ASSUME NEW op \in Methods, NEW name, NEW arg
  PROVE  IsOption(Request(op, name, arg))
<1>1. IsOption(create_request(arg))
  BY Given DEF IsOption, create_request
<1>2. IsOption(search_query_to_pb(name, arg))
  BY Given DEF IsOption, search_query_to_pb
<1>3. IsOption(hybrid_query_to_pb(name, arg))
  BY Given DEF IsOption, hybrid_query_to_pb
<1>4. \A x : IsOption(Some(x))
  BY Given DEF IsOption
<1>5. CASE op = "create"
  BY <1>1, <1>5 DEF Request
<1>6. CASE op \in {"drop", "describe", "compact"}
  BY <1>4, <1>6 DEF Request
<1>7. CASE op = "list"
  BY <1>4, <1>7 DEF Request
<1>8. CASE op = "upsert"
  BY <1>4, <1>8 DEF Request
<1>9. CASE op = "batch_upsert"
  BY <1>4, <1>9 DEF Request
<1>10. CASE op = "bulk_upsert"
  BY <1>4, <1>10 DEF Request
<1>11. CASE op = "delete"
  BY <1>4, <1>11 DEF Request
<1>12. CASE op = "delete_by_filter"
  BY <1>4, <1>12 DEF Request
<1>13. CASE op = "search"
  BY <1>2, <1>13 DEF Request
<1>14. CASE op = "search_hybrid"
  BY <1>3, <1>14 DEF Request
<1> QED BY <1>5, <1>6, <1>7, <1>8, <1>9, <1>10, <1>11, <1>12, <1>13, <1>14 DEF Methods

LEMMA CreateMessage ==
  ASSUME NEW spec, IsSpec(spec), create_request(spec) # None
  PROVE  IsMessage("create", create_request(spec)[1])
<1> DEFINE params(c) == [key \in DOMAIN c |-> Some(c[key])]
           h == MapOption(spec.hnsw, params)
           m == [name |-> spec.name, metric |-> metric_to_pb(spec.metric),
                 dimension |-> spec.dimension,
                 index_type |-> index_type_to_pb(spec.index_type), hnsw_params |-> h]
<1>1. create_request(spec) = Some(m)
  BY DEF create_request
<1> HIDE DEF h
<1>2. m.name = spec.name /\ m.dimension = spec.dimension
  OBVIOUS
<1> HIDE DEF m
<1>3. create_request(spec)[1] = m
  BY <1>1, Given
<1> QED BY <1>2, <1>3 DEF IsMessage, IsSpec

LEMMA SearchMessage ==
  ASSUME NEW name, NEW q, IsQuery(q), search_query_to_pb(name, q) # None
  PROVE  IsMessage("search", search_query_to_pb(name, q)[1])
<1> DEFINE a == MapOption(q.metric, metric_to_pb)
           b == MapOption(q.filter, filter_to_pb)
           m == [collection |-> name, vector |-> q.embedding, k |-> q.k, metric |-> a, filter |-> b]
<1>1. search_query_to_pb(name, q) = Some(m)
  BY DEF search_query_to_pb, embedding_to_pb
<1> HIDE DEF a, b
<1>2. m.vector = q.embedding /\ m.k = q.k
  OBVIOUS
<1> HIDE DEF m
<1>3. search_query_to_pb(name, q)[1] = m
  BY <1>1, Given
<1> QED BY <1>2, <1>3 DEF IsMessage, IsQuery, ValidVector

LEMMA HybridMessage ==
  ASSUME NEW name, NEW q, IsHybrid(q), hybrid_query_to_pb(name, q) # None
  PROVE  IsMessage("search_hybrid", hybrid_query_to_pb(name, q)[1])
<1> DEFINE a == MapOption(q.metric, metric_to_pb)
           b == MapOption(q.filter, filter_to_pb)
           v == IF q.vector = None THEN NoVector ELSE q.vector[1]
           m == [collection |-> name, vector |-> v, text |-> q.text, k |-> q.k, filter |-> b,
                 metric |-> a, rrf_k |-> Some(q.rrf_k), overfetch_factor |-> Some(q.overfetch_factor)]
<1>1. hybrid_query_to_pb(name, q) = Some(m)
  BY DEF hybrid_query_to_pb, embedding_to_pb
<1>2. v \in Vectors
  BY DEF IsHybrid, ValidVector, Vectors, NoVector
<1> HIDE DEF a, b, v
<1>3. /\ m.vector = v /\ m.k = q.k /\ m.rrf_k = Some(q.rrf_k)
      /\ m.overfetch_factor = Some(q.overfetch_factor)
  OBVIOUS
<1> HIDE DEF m
<1>4. hybrid_query_to_pb(name, q)[1] = m
  BY <1>1, Given
<1> QED BY <1>2, <1>3, <1>4, Given DEF IsMessage, IsHybrid

\* The message of a typed call is well typed.
LEMMA RequestIsMessage ==
  ASSUME NEW op \in Methods, NEW name, NEW arg, IsArgument(op, arg), Request(op, name, arg) # None
  PROVE  IsMessage(op, Request(op, name, arg)[1])
<1>1. CASE op = "create"
  BY <1>1, CreateMessage DEF Request, IsArgument
<1>2. CASE op \in {"drop", "describe", "compact", "list", "delete", "delete_by_filter"}
  BY <1>2 DEF IsMessage
<1>3. CASE op = "upsert"
  <2> DEFINE q == point_to_pb(arg)
             m == [collection |-> name, point |-> Some(q)]
  <2>1. Request(op, name, arg) = Some(m)
    BY <1>3 DEF Request
  <2>2. IsPbPoint(q)
    BY <1>3, PointRoundTrip DEF IsArgument
  <2> HIDE DEF q
  <2>3. m.point = Some(q)
    OBVIOUS
  <2> HIDE DEF m
  <2> QED BY <1>3, <2>1, <2>2, <2>3, Given DEF IsMessage
<1>4. CASE op = "batch_upsert"
  <2>1. Request(op, name, arg) = Some(BatchMessage(name, arg))
    BY <1>4 DEF Request
  <2>2. IsPbBatch(BatchMessage(name, arg))
    BY <1>4, BatchRoundTrip DEF IsArgument
  <2> QED BY <1>4, <2>1, <2>2, Given DEF IsMessage
<1>5. CASE op = "bulk_upsert"
  <2> DEFINE s == [i \in DOMAIN arg |-> BatchMessage(name, arg[i])]
  <2>1. Request(op, name, arg) = Some(s)
    BY <1>5 DEF Request
  <2>2. /\ IsList(arg)
        /\ \A k \in DOMAIN arg : IsList(arg[k]) /\ \A i \in DOMAIN arg[k] : ValidPoint(arg[k][i])
    BY <1>5 DEF IsArgument
  <2>3. Len(arg) \in Nat /\ DOMAIN arg = 1..Len(arg)
    BY <2>2, ListFacts
  <2>4. s = [i \in 1..Len(arg) |-> s[i]] /\ DOMAIN s = DOMAIN arg
    BY <2>3
  <2>5. \A k \in DOMAIN arg : IsPbBatch(s[k])
    BY <2>2, BatchRoundTrip
  <2> HIDE DEF s
  <2>6. IsList(s)
    BY <2>3, <2>4, ListOf
  <2> QED BY <1>5, <2>1, <2>4, <2>5, <2>6, Given DEF IsMessage
<1>6. CASE op = "search"
  BY <1>6, SearchMessage DEF Request, IsArgument
<1>7. CASE op = "search_hybrid"
  BY <1>7, HybridMessage DEF Request, IsArgument
<1> QED BY <1>1, <1>2, <1>3, <1>4, <1>5, <1>6, <1>7 DEF Methods

-----------------------------------------------------------------------------
(* What is nested in a filter *)

Layers(f, n, w) ==
    w = [k \in 0..n |-> IF k = 0 THEN {f} ELSE w[k - 1] \cup UNION {Range(g.subs) : g \in w[k - 1]}]

LEMMA LayersExist ==
  ASSUME NEW f
  PROVE  \A n \in Nat : \E w : Layers(f, n, w)
<1> DEFINE A == {n \in Nat : \E w : Layers(f, n, w)}
<1>1. \A n \in Nat : (\A m \in Nat : m < n => m \in A) => n \in A
  <2> SUFFICES ASSUME NEW n \in Nat, \A m \in Nat : m < n => m \in A
               PROVE  \E w : Layers(f, n, w)
    OBVIOUS
  <2>1. CASE n = 0
    <3>1. Layers(f, 0, [k \in 0..0 |-> {f}])
      BY DEF Layers
    <3> QED BY <2>1, <3>1
  <2>2. CASE n # 0
    <3>1. n - 1 \in Nat /\ n - 1 < n
      BY <2>2
    <3>2. PICK w : Layers(f, n - 1, w)
      BY <3>1
    <3> DEFINE More(S) == S \cup UNION {Range(g.subs) : g \in S}
               Body(v, k) == IF k = 0 THEN {f} ELSE More(v[k - 1])
               h == [k \in 0..n |-> Body(w, k)]
    <3>3. \A k \in 0..n - 1 : w[k] = Body(w, k)
      BY <3>1, <3>2 DEF Layers
    <3> HIDE DEF Body
    <3>4. \A k \in 0..n - 1 : h[k] = w[k]
      BY <3>1, <3>3
    <3>5. \A k \in 0..n : k # 0 => k - 1 \in 0..n - 1
      OBVIOUS
    <3> HIDE DEF h, More
    <3>6. \A k \in 0..n : Body(w, k) = Body(h, k)
      BY <3>4, <3>5 DEF Body
    <3>7. h = [k \in 0..n |-> Body(h, k)]
      BY <3>6 DEF h
    <3>8. Layers(f, n, h)
      BY <3>7 DEF Layers, Body, More
    <3> QED BY <3>8
  <2> QED BY <2>1, <2>2
<1>2. \A n \in Nat : n \in A
  <2> HIDE DEF A
  <2> QED BY <1>1, Induction
<1> QED BY <1>2

LEMMA NestedLoop ==
  ASSUME NEW f
  PROVE  \E w : /\ Nested(f, LAMBDA h : h.subs) = w[MaxDepth]
                /\ w[0] = {f}
                /\ \A k \in Nat : k < MaxDepth =>
                      w[k + 1] = w[k] \cup UNION {Range(g.subs) : g \in w[k]}
<1>0. MaxDepth \in Nat
  BY BoundTypes
<1>1. Nested(f, LAMBDA h : h.subs) = (CHOOSE w : Layers(f, MaxDepth, w))[MaxDepth]
  BY DEF Nested, Layers
<1>2. PICK w : Layers(f, MaxDepth, w) /\ Nested(f, LAMBDA h : h.subs) = w[MaxDepth]
  BY <1>0, <1>1, LayersExist
<1> DEFINE More(S) == S \cup UNION {Range(g.subs) : g \in S}
           Body(k) == IF k = 0 THEN {f} ELSE More(w[k - 1])
<1>3. w = [k \in 0..MaxDepth |-> Body(k)]
  BY <1>2 DEF Layers
<1> HIDE DEF Body, More
<1>4. \A k \in 0..MaxDepth : w[k] = Body(k)
  BY <1>3
<1>5. w[0] = {f}
  BY <1>0, <1>4 DEF Body
<1>6. ASSUME NEW k \in Nat, k < MaxDepth PROVE w[k + 1] = More(w[k])
  <2>1. k + 1 \in 0..MaxDepth /\ k + 1 # 0 /\ (k + 1) - 1 = k
    BY <1>0, <1>6
  <2>2. w[k + 1] = Body(k + 1)
    BY <1>4, <2>1
  <2> QED BY <2>1, <2>2 DEF Body
<1> QED BY <1>2, <1>5, <1>6 DEF More

\* A filter is among what is nested in it, and alone there when it combines nothing.
LEMMA NestedAround ==
  ASSUME NEW f
  PROVE  /\ f \in Nested(f, LAMBDA h : h.subs)
         /\ f.subs = <<>> => Nested(f, LAMBDA h : h.subs) = {f}
<1>0. MaxDepth \in Nat
  BY BoundTypes
<1>1. PICK w : /\ Nested(f, LAMBDA h : h.subs) = w[MaxDepth]
               /\ w[0] = {f}
               /\ \A k \in Nat : k < MaxDepth =>
                      w[k + 1] = w[k] \cup UNION {Range(g.subs) : g \in w[k]}
  BY NestedLoop
<1> DEFINE A == {k \in Nat : f \in w[k]}
           B == {k \in Nat : f.subs = <<>> => w[k] = {f}}
<1>2. 0 \in A /\ 0 \in B
  BY <1>1
<1>3. \A k \in Nat : k < MaxDepth /\ k \in A => k + 1 \in A
  BY <1>1
<1>4. ASSUME NEW k \in Nat, k < MaxDepth, k \in B PROVE k + 1 \in B
  <2> SUFFICES ASSUME f.subs = <<>> PROVE w[k + 1] = {f}
    OBVIOUS
  <2>1. w[k] = {f} /\ w[k + 1] = w[k] \cup UNION {Range(g.subs) : g \in w[k]}
    BY <1>1, <1>4
  <2>2. Range(f.subs) = {}
    BY DEF Range
  <2> QED BY <2>1, <2>2
<1>5. \A k \in 0..MaxDepth : k \in A
  <2> HIDE DEF A
  <2> QED BY <1>0, <1>2, <1>3, StepByStep
<1>6. \A k \in 0..MaxDepth : k \in B
  <2> HIDE DEF B
  <2> QED BY <1>0, <1>2, <1>4, StepByStep
<1> QED BY <1>0, <1>1, <1>5, <1>6

-----------------------------------------------------------------------------
(* The typed calls of commands *)

LEMMA CommandFilter ==
  ASSUME NEW raw, IsRawFilter(raw), Transpose(raw, parse_filter) # None
  PROVE  LET o == Transpose(raw, parse_filter)[1] IN
         IsOption(o) /\ (o # None => IsFilter(o[1]))
<1>1. CASE raw = None
  <2>1. Transpose(raw, parse_filter) = Some(None)
    BY <1>1 DEF Transpose
  <2> QED BY <2>1, Given DEF IsOption
<1>2. CASE raw # None
  <2> DEFINE r == raw[1]
             o == parse_filter(r)
             value == json_to_value(r.eq)
             f == [op |-> "Eq", field |-> r.field, values |-> value, subs |-> <<>>]
             all == Nested(f, LAMBDA h : h.subs)
  <2>1. Transpose(raw, parse_filter) = Some(o) /\ o # None
    BY <1>2 DEF Transpose
  <2>2. o = Some(f) /\ value # None
    BY <2>1 DEF parse_filter
  <2>3. value = Some(value[1]) /\ IsValue(value[1])
    BY <1>2, <2>2, JsonValue DEF IsRawFilter
  <2> HIDE DEF value
  <2>4. IsValues(value) /\ value # <<>>
    <3> DEFINE v == value[1]
               x == <<v>>
    <3>1. x = [i \in 1..1 |-> x[i]] /\ DOMAIN x = {1} /\ x[1] = v /\ x # <<>>
      OBVIOUS
    <3>2. value = x
      BY <2>3 DEF Some
    <3>3. IsValue(v)
      BY <2>3
    <3> HIDE DEF x, v
    <3>4. IsList(x)
      BY <3>1, ListOf
    <3> QED BY <3>1, <3>2, <3>3, <3>4 DEF IsValues
  <2>5. /\ f = [op |-> f.op, field |-> f.field, values |-> f.values, subs |-> f.subs]
        /\ f.op = "Eq" /\ f.subs = <<>> /\ f.values = value /\ "Eq" \in DOMAIN FilterKind
    BY DEF FilterKind
  <2> HIDE DEF f, all
  <2>6. all = {f}
    BY <2>5, NestedAround DEF all
  <2>7. IsList(<<>>) /\ DOMAIN <<>> = {}
    <3> DEFINE x == <<>>
    <3>1. x = [i \in 1..0 |-> x[i]] /\ DOMAIN x = {}
      OBVIOUS
    <3> HIDE DEF x
    <3>2. IsList(x)
      BY <3>1, ListOf
    <3> QED BY <3>1, <3>2 DEF x
  <2>8. \E rank \in [all -> 0..MaxDepth] :
              \A g \in all : \A i \in DOMAIN g.subs :
                  g.subs[i] \in all /\ rank[g.subs[i]] < rank[g]
    <3>1. [g \in all |-> 0] \in [all -> 0..MaxDepth]
      BY BoundTypes
    <3>2. \A g \in all : DOMAIN g.subs = {}
      BY <2>5, <2>6, <2>7
    <3> QED BY <3>1, <3>2
  <2>9. IsFilter(f)
    <3>1. \A g \in all :
              /\ g = [op |-> g.op, field |-> g.field, values |-> g.values, subs |-> g.subs]
              /\ g.op \in DOMAIN FilterKind /\ IsValues(g.values) /\ IsList(g.subs)
              /\ FilterKind[g.op] \in NeedsValue => g.values # <<>>
      BY <2>4, <2>5, <2>6, <2>7
    <3> QED BY <2>8, <3>1 DEF IsFilter, all
  <2> QED BY <2>1, <2>2, <2>9, Given DEF IsOption
<1> QED BY <1>1, <1>2

LEMMA CommandVector ==
  ASSUME NEW raw \in Vectors, parse_vector(raw) # None
  PROVE  parse_vector(raw) = Some(raw) /\ ValidVector(raw)
BY DEF parse_vector, ValidVector

LEMMA CommandSpec ==
  ASSUME NEW args \in CliArgs.create, handle_create(args) # None
  PROVE  handle_create(args) = Some(handle_create(args)[1]) /\ IsSpec(handle_create(args)[1])
<1> DEFINE pick(option, default) == IF option = None THEN default ELSE option[1]
           config == [key \in DOMAIN DefaultConfig |-> pick(args.hnsw[key], DefaultConfig[key])]
           hnsw == IF args.index_type = "Hnsw" THEN build_hnsw(args.hnsw) ELSE None
           spec == [name |-> args.name, metric |-> args.metric, dimension |-> args.dimension,
                    index_type |-> args.index_type, hnsw |-> hnsw]
<1>1. handle_create(args) = Some(spec) /\ args.dimension # 0
  BY DEF handle_create
<1>2. build_hnsw(args.hnsw) = IF ValidConfig(config) THEN Some(config) ELSE None
  BY DEF build_hnsw
<1>3. /\ args.name \in Names \cup InvalidNames /\ args.dimension \in Nat
      /\ args.metric \in Metrics /\ args.index_type \in DOMAIN IndexTypeNumber
      /\ \A key \in DOMAIN DefaultConfig : args.hnsw[key] # None => args.hnsw[key][1] \in Nat
  BY CliTypes
<1>4. \A key \in DOMAIN DefaultConfig : DefaultConfig[key] \in Nat
  BY DEF DefaultConfig
<1>5. config \in [DOMAIN DefaultConfig -> Nat]
  BY <1>3, <1>4
<1> HIDE DEF config
<1>6. hnsw # None => hnsw = Some(config) /\ IsConfig(config)
  BY <1>2, <1>5 DEF IsConfig
<1> HIDE DEF hnsw
<1>7. /\ spec.name = args.name /\ spec.metric = args.metric /\ spec.dimension = args.dimension
      /\ spec.index_type = args.index_type /\ spec.hnsw = hnsw
      /\ spec = [name |-> spec.name, metric |-> spec.metric, dimension |-> spec.dimension,
                 index_type |-> spec.index_type, hnsw |-> spec.hnsw]
  OBVIOUS
<1> HIDE DEF spec
<1>8. IsSpec(spec)
  BY <1>1, <1>3, <1>6, <1>7, Given DEF IsSpec, IsOption
<1> QED BY <1>1, <1>8, Given

LEMMA CommandQuery ==
  ASSUME NEW args \in CliArgs.search, handle_search(args) # None
  PROVE  handle_search(args) = Some(handle_search(args)[1]) /\ IsQuery(handle_search(args)[1])
<1> DEFINE e == parse_vector(args.vector)
           o == Transpose(args.filter, parse_filter)
           q == [embedding |-> e[1], k |-> args.k, metric |-> args.metric, filter |-> o[1]]
<1>1. handle_search(args) = Some(q) /\ e # None /\ o # None
  BY AllGiven DEF handle_search
<1>2. /\ args.vector \in Vectors /\ args.k \in Nat
      /\ IsChoice(args.metric) /\ IsRawFilter(args.filter)
  BY CliTypes
<1>3. ValidVector(e[1])
  BY <1>1, <1>2, CommandVector, Given
<1>4. IsOption(o[1]) /\ (o[1] # None => IsFilter(o[1][1]))
  BY <1>1, <1>2, CommandFilter
<1> HIDE DEF e, o
<1>5. /\ q.embedding = e[1] /\ q.k = args.k /\ q.metric = args.metric /\ q.filter = o[1]
      /\ q = [embedding |-> q.embedding, k |-> q.k, metric |-> q.metric, filter |-> q.filter]
  OBVIOUS
<1> HIDE DEF q
<1>6. IsQuery(q)
  BY <1>2, <1>3, <1>4, <1>5 DEF IsQuery
<1> QED BY <1>1, <1>6, Given

LEMMA CommandHybrid ==
  ASSUME NEW args \in CliArgs.search_hybrid, handle_search_hybrid(args) # None
  PROVE  /\ handle_search_hybrid(args) = Some(handle_search_hybrid(args)[1])
         /\ IsHybrid(handle_search_hybrid(args)[1])
<1> DEFINE e == Transpose(args.vector, parse_vector)
           o == Transpose(args.filter, parse_filter)
           q == [vector |-> e[1], text |-> args.text, k |-> args.k,
                 filter |-> o[1], metric |-> None, rrf_k |-> DEFAULT_RRF_K,
                 overfetch_factor |-> DEFAULT_OVERFETCH_FACTOR]
<1>1. handle_search_hybrid(args) = Some(q) /\ e # None /\ o # None
  BY AllGiven DEF handle_search_hybrid
<1>2. /\ args.vector # None => args.vector[1] \in Vectors
      /\ IsOption(args.text) /\ args.k \in Nat /\ IsRawFilter(args.filter)
  BY CliTypes
<1>3. IsOption(e[1]) /\ (e[1] # None => ValidVector(e[1][1]))
  BY <1>1, <1>2, CommandVector, Given DEF Transpose, IsOption
<1>4. IsOption(o[1]) /\ (o[1] # None => IsFilter(o[1][1]))
  BY <1>1, <1>2, CommandFilter
<1> HIDE DEF e, o
<1>5. /\ q.vector = e[1] /\ q.text = args.text /\ q.k = args.k /\ q.filter = o[1]
      /\ q.metric = None /\ q.rrf_k = DEFAULT_RRF_K
      /\ q.overfetch_factor = DEFAULT_OVERFETCH_FACTOR
      /\ q = [vector |-> q.vector, text |-> q.text, k |-> q.k, filter |-> q.filter,
              metric |-> q.metric, rrf_k |-> q.rrf_k, overfetch_factor |-> q.overfetch_factor]
  OBVIOUS
<1> HIDE DEF q
<1>6. DEFAULT_RRF_K \in Int /\ DEFAULT_OVERFETCH_FACTOR \in Nat
  BY DEF DEFAULT_RRF_K, DEFAULT_OVERFETCH_FACTOR
<1>7. IsHybrid(q)
  BY <1>2, <1>3, <1>4, <1>5, <1>6 DEF IsHybrid, IsChoice, IsOption
<1> QED BY <1>1, <1>7, Given

-----------------------------------------------------------------------------
(* The inductive invariant *)

\* The payload of the typed call is what the command was given.
FromJson(arg, raw) ==
    IF raw.payload = None THEN arg.payload = None
    ELSE arg.payload # None /\ Shows(arg.payload[1], raw.payload[1])

\* A message under way is typed, and of a typed call it is the encoding.
SentOK ==
    phase = "sent" =>
        /\ IsMessage(wire.op, wire.body)
        /\ call.from # "other" =>
              /\ call.op \in Methods /\ wire.op = call.op
              /\ IsArgument(call.op, call.arg)
              /\ Request(call.op, call.name, call.arg) = Some(wire.body)
              /\ call.from = "cli" /\ call.op = "upsert" => FromJson(call.arg, call.raw)

\* An answer under way to a search shows points of the collection that was asked.
AnswerOK ==
    phase = "served" /\ call.from # "other" /\ answer.code = "OK"
                     /\ answer.op \in {"search", "search_hybrid"} =>
        /\ call.name \in DOMAIN cols
        /\ \E ids : answer.body = hits_to_pb(hydrate(cols[call.name], ids))

\* Points in the history are stored, with the payload that the command gave.
GivenOK(c, g) ==
    \A key \in DOMAIN g :
        /\ StoredAt(c, key) # None
        /\ IF g[key] = None THEN StoredAt(c, key)[1].payload = None
           ELSE /\ StoredAt(c, key)[1].payload # None
                /\ Shows(StoredAt(c, key)[1].payload[1], g[key][1])

Inv ==
    /\ phase \in {"idle", "sent", "served", "done"}
    /\ phase # "idle" => call.from \in {"client", "cli", "other"}
    /\ Registry(cols)
    /\ SentOK
    /\ AnswerOK
    /\ GivenOK(cols, given)
    /\ ShownIsGiven

LEMMA InitHolds == Init => Inv
<1> SUFFICES ASSUME Init PROVE Inv
  OBVIOUS
<1>1. DOMAIN <<>> = {} /\ <<>> = [x \in {} |-> <<>>[x]]
  OBVIOUS
<1>2. Registry(<<>>) /\ GivenOK(<<>>, <<>>)
  BY <1>1 DEF Registry, GivenOK
<1> QED BY <1>2 DEF Init, Inv, SentOK, AnswerOK, ShownIsGiven

LEMMA BeginKeeps ==
  ASSUME Inv, NEW from \in {"client", "cli"}, NEW op \in Methods, NEW name, NEW arg, NEW raw,
         IsArgument(op, arg), from = "cli" /\ op = "upsert" => FromJson(arg, raw),
         Begin(from, op, name, arg, raw)
  PROVE  Inv'
<1> DEFINE q == Request(op, name, arg)
           c == [from |-> from, op |-> op, name |-> name, arg |-> arg, raw |-> raw]
<1>1. /\ phase = "idle" /\ call' = c
      /\ cols' = cols /\ given' = given /\ answer' = answer
  BY DEF Begin
<1>2. /\ c.from = from /\ c.op = op /\ c.name = name /\ c.arg = arg /\ c.raw = raw
  OBVIOUS
<1> HIDE DEF c
<1>3. Registry(cols)' /\ GivenOK(cols, given)'
  BY <1>1 DEF Inv
<1>4. CASE q = None
  <2>1. phase' = "done" /\ result' = [op |-> op, code |-> "Conversion", value |-> None]
    BY <1>4 DEF Begin
  <2>2. result'.code # "OK"
    BY <2>1
  <2> QED BY <1>1, <1>2, <1>3, <2>1, <2>2 DEF Inv, SentOK, AnswerOK, ShownIsGiven
<1>5. CASE q # None
  <2>1. phase' = "sent" /\ wire' = [op |-> op, body |-> q[1]]
    BY <1>5 DEF Begin
  <2>2. q = Some(q[1])
    BY <1>5, RequestIsOption DEF IsOption
  <2>3. IsMessage(op, q[1])
    BY <1>5, RequestIsMessage
  <2>4. wire'.op = op /\ wire'.body = q[1]
    BY <2>1
  <2>5. SentOK'
    BY <1>1, <1>2, <2>1, <2>2, <2>3, <2>4 DEF SentOK
  <2> QED BY <1>1, <1>2, <1>3, <2>1, <2>5 DEF Inv, AnswerOK, ShownIsGiven
<1> QED BY <1>4, <1>5

LEMMA TypedKeeps ==
  ASSUME Inv, NEW op \in DOMAIN ClientArgs, Typed(op)
  PROVE  Inv'
<1>1. PICK name \in Names, arg \in ClientArgs[op] :
        Begin("client", op, IF op = "create" THEN arg.name ELSE name, arg, None)
  BY DEF Typed
<1>2. op \in Methods /\ IsArgument(op, arg)
  BY ClientTypes DEF Methods
<1> DEFINE n == IF op = "create" THEN arg.name ELSE name
<1>3. Begin("client", op, n, arg, None)
  BY <1>1
<1> HIDE DEF n
<1> QED BY <1>2, <1>3, BeginKeeps

LEMMA PlainKeeps ==
  ASSUME Inv, NEW from \in {"client", "cli"}, Plain(from)
  PROVE  Inv'
<1>1. PICK op \in {"drop", "describe", "compact", "list"}, name \in Names :
        Begin(from, op, name, None, None)
  BY DEF Plain
<1>2. op \in Methods /\ IsArgument(op, None) /\ op # "upsert"
  BY DEF Methods, IsArgument
<1> QED BY <1>1, <1>2, BeginKeeps

LEMMA CommandKeeps ==
  ASSUME Inv, NEW op \in Methods, NEW name, NEW handled, NEW raw, Command(op, name, handled, raw),
         handled # None => IsArgument(op, handled[1])
                           /\ (op = "upsert" => FromJson(handled[1], raw))
  PROVE  Inv'
<1>1. CASE handled # None
  <2> DEFINE arg == handled[1]
  <2>1. Begin("cli", op, name, arg, raw) /\ IsArgument(op, arg) /\ (op = "upsert" => FromJson(arg, raw))
    BY <1>1 DEF Command
  <2> HIDE DEF arg
  <2> QED BY <2>1, BeginKeeps
<1>2. CASE handled = None
  <2> DEFINE c == [from |-> "cli", op |-> op, name |-> name, arg |-> None, raw |-> raw]
             r == [op |-> op, code |-> "Usage", value |-> None]
  <2>1. /\ phase = "idle" /\ phase' = "done" /\ call' = c /\ result' = r
        /\ cols' = cols /\ given' = given
    BY <1>2 DEF Command
  <2>2. c.from = "cli" /\ r.code # "OK"
    OBVIOUS
  <2> HIDE DEF c, r
  <2> QED BY <2>1, <2>2 DEF Inv, SentOK, AnswerOK, ShownIsGiven
<1> QED BY <1>1, <1>2

LEMMA CommandsKeep ==
  ASSUME Inv,
         CreateCommand \/ UpsertCommand \/ DeleteCommand \/ SearchCommand \/ HybridCommand
  PROVE  Inv'
<1>1. CASE CreateCommand
  <2>1. PICK args \in CliArgs.create : Command("create", args.name, handle_create(args), args)
    BY <1>1 DEF CreateCommand
  <2> DEFINE h == handle_create(args)
             n == args.name
  <2>2. h # None => IsArgument("create", h[1])
    BY CommandSpec DEF IsArgument
  <2>3. Command("create", n, h, args)
    BY <2>1
  <2> HIDE DEF h, n
  <2> QED BY <2>2, <2>3, CommandKeeps DEF Methods
<1>2. CASE UpsertCommand
  <2>1. PICK name \in Names, args \in CliArgs.upsert :
          Command("upsert", name, handle_upsert(args), args)
    BY <1>2 DEF UpsertCommand
  <2> DEFINE h == handle_upsert(args)
  <2>2. h # None => IsArgument("upsert", h[1]) /\ FromJson(h[1], args)
    BY CommandPoint DEF IsArgument, FromJson
  <2>3. Command("upsert", name, h, args)
    BY <2>1
  <2> HIDE DEF h
  <2> QED BY <2>2, <2>3, CommandKeeps DEF Methods
<1>3. CASE DeleteCommand
  <2>1. PICK name \in Names, raw \in CliArgs.delete : Command("delete", name, parse_id(raw), raw)
    BY <1>3 DEF DeleteCommand
  <2> DEFINE h == parse_id(raw)
  <2>2. h # None => IsArgument("delete", h[1])
    BY CliTypes, Given DEF IsArgument, parse_id
  <2>3. Command("delete", name, h, raw)
    BY <2>1
  <2> HIDE DEF h
  <2> QED BY <2>2, <2>3, CommandKeeps DEF Methods
<1>4. CASE SearchCommand
  <2>1. PICK name \in Names, args \in CliArgs.search :
          Command("search", name, handle_search(args), args)
    BY <1>4 DEF SearchCommand
  <2> DEFINE h == handle_search(args)
  <2>2. h # None => IsArgument("search", h[1])
    BY CommandQuery DEF IsArgument
  <2>3. Command("search", name, h, args)
    BY <2>1
  <2> HIDE DEF h
  <2> QED BY <2>2, <2>3, CommandKeeps DEF Methods
<1>5. CASE HybridCommand
  <2>1. PICK name \in Names, args \in CliArgs.search_hybrid :
          Command("search_hybrid", name, handle_search_hybrid(args), args)
    BY <1>5 DEF HybridCommand
  <2> DEFINE h == handle_search_hybrid(args)
  <2>2. h # None => IsArgument("search_hybrid", h[1])
    BY CommandHybrid DEF IsArgument
  <2>3. Command("search_hybrid", name, h, args)
    BY <2>1
  <2> HIDE DEF h
  <2> QED BY <2>2, <2>3, CommandKeeps DEF Methods
<1> QED BY <1>1, <1>2, <1>3, <1>4, <1>5

LEMMA ForeignKeeps ==
  ASSUME Inv, NEW op \in DOMAIN OtherArgs, Foreign(op)
  PROVE  Inv'
<1>1. PICK body \in OtherArgs[op] :
        /\ phase' = "sent" /\ call' = [from |-> "other", op |-> op]
        /\ wire' = [op |-> op, body |-> body]
        /\ cols' = cols /\ given' = given
  BY DEF Foreign
<1>2. IsMessage(op, body)
  BY OtherTypes
<1>3. wire'.op = op /\ wire'.body = body /\ call'.from = "other"
  BY <1>1
<1>4. SentOK'
  BY <1>1, <1>2, <1>3 DEF SentOK
<1> QED BY <1>1, <1>3, <1>4 DEF Inv, AnswerOK, ShownIsGiven

-----------------------------------------------------------------------------
(* Serving *)

\* What a step of Serve does with the reply of the handler.
Takes(op, reply) ==
    /\ phase = "sent"
    /\ wire.op = op
    /\ cols' = reply.cols
    /\ answer' = [op |-> op, code |-> reply.code, body |-> reply.body]
    /\ given' = GivenAfter(reply)
    /\ phase' = "served"
    /\ wire' = Nothing
    /\ UNCHANGED <<call, result>>

LEMMA ServeTakes ==
  ASSUME ServeAny
  PROVE  \/ Takes("create", create_collection(wire.body))
         \/ Takes("drop", drop_collection(wire.body))
         \/ Takes("list", list_collections)
         \/ Takes("describe", describe_collection(wire.body))
         \/ Takes("upsert", Upsert(wire.body))
         \/ Takes("batch_upsert", batch_upsert(wire.body))
         \/ Takes("bulk_upsert", bulk_upsert(wire.body))
         \/ Takes("delete", Delete(wire.body))
         \/ Takes("delete_by_filter", DeleteByFilter(wire.body))
         \/ Takes("search", Search(wire.body))
         \/ Takes("search_hybrid", SearchHybrid(wire.body))
         \/ Takes("compact", Compact(wire.body))
<1>1. Serve("create", create_collection) => Takes("create", create_collection(wire.body))
  BY DEF Serve, Takes
<1>2. Serve("drop", drop_collection) => Takes("drop", drop_collection(wire.body))
  BY DEF Serve, Takes
<1>3. Serve("list", LAMBDA m : list_collections) => Takes("list", list_collections)
  BY DEF Serve, Takes
<1>4. Serve("describe", describe_collection) => Takes("describe", describe_collection(wire.body))
  BY DEF Serve, Takes
<1>5. Serve("upsert", Upsert) => Takes("upsert", Upsert(wire.body))
  BY DEF Serve, Takes
<1>6. Serve("batch_upsert", batch_upsert) => Takes("batch_upsert", batch_upsert(wire.body))
  BY DEF Serve, Takes
<1>7. Serve("bulk_upsert", bulk_upsert) => Takes("bulk_upsert", bulk_upsert(wire.body))
  BY DEF Serve, Takes
<1>8. Serve("delete", Delete) => Takes("delete", Delete(wire.body))
  BY DEF Serve, Takes
<1>9. Serve("delete_by_filter", DeleteByFilter) => Takes("delete_by_filter", DeleteByFilter(wire.body))
  BY DEF Serve, Takes
<1>10. Serve("search", Search) => Takes("search", Search(wire.body))
  BY DEF Serve, Takes
<1>11. Serve("search_hybrid", SearchHybrid) => Takes("search_hybrid", SearchHybrid(wire.body))
  BY DEF Serve, Takes
<1>12. Serve("compact", Compact) => Takes("compact", Compact(wire.body))
  BY DEF Serve, Takes
<1> QED BY <1>1, <1>2, <1>3, <1>4, <1>5, <1>6, <1>7, <1>8, <1>9, <1>10, <1>11, <1>12 DEF ServeAny

LEMMA TakesKeeps ==
  ASSUME Inv, NEW op, NEW reply, Takes(op, reply), Registry(reply.cols),
         reply.code = "OK" /\ call.from = "cli" /\ call.op = "upsert" =>
            LET at == StoredAt(reply.cols, <<call.name, call.arg.id>>) IN
            at # None /\ at[1].payload = call.arg.payload,
         reply.code = "OK" /\ call.from # "other" /\ op \in {"search", "search_hybrid"} =>
            reply.cols = cols /\ Found(reply, call.name)
  PROVE  Inv'
<1> DEFINE c == reply.cols
           kept == {key \in DOMAIN given : StoredAt(c, key) = StoredAt(cols, key)}
           g == Restrict(given, kept)
           new == <<call.name, call.arg.id>>
<1>1. /\ phase = "sent" /\ wire.op = op /\ cols' = c /\ given' = GivenAfter(reply)
      /\ phase' = "served" /\ call' = call
      /\ answer' = [op |-> op, code |-> reply.code, body |-> reply.body]
  BY DEF Takes
<1>2. answer'.op = op /\ answer'.code = reply.code /\ answer'.body = reply.body
  BY <1>1
<1>3. /\ DOMAIN g = kept /\ \A key \in kept : g[key] = given[key]
  BY DEF Restrict
<1>4. GivenOK(c, g)
  <2> HIDE DEF g, c
  <2> QED BY <1>3 DEF Inv, GivenOK
<1>5. GivenOK(cols, given)'
  <2>1. CASE reply.code = "OK" /\ call.from = "cli" /\ call.op = "upsert"
    <3> DEFINE h == With(g, new, call.raw.payload)
               at == StoredAt(c, new)
    <3>1. given' = h
      BY <1>1, <2>1 DEF GivenAfter
    <3>2. /\ DOMAIN h = DOMAIN g \cup {new} /\ h[new] = call.raw.payload
          /\ \A key \in DOMAIN g : key # new => h[key] = g[key]
      <4> HIDE DEF new, g
      <4> QED BY DEF With
    <3>3. at # None /\ at[1].payload = call.arg.payload
      BY <2>1
    <3>4. FromJson(call.arg, call.raw)
      <4>1. call.from # "other"
        BY <2>1
      <4> QED BY <1>1, <2>1, <4>1 DEF Inv, SentOK
    <3> HIDE DEF g, c, h, new
    <3>5. GivenOK(c, h)
      BY <1>4, <3>2, <3>3, <3>4 DEF GivenOK, FromJson, at
    <3> QED BY <1>1, <3>1, <3>5
  <2>2. CASE ~(reply.code = "OK" /\ call.from = "cli" /\ call.op = "upsert")
    <3>1. given' = g
      BY <1>1, <2>2 DEF GivenAfter
    <3> HIDE DEF g, c
    <3> QED BY <1>1, <1>4, <3>1
  <2> QED BY <2>1, <2>2
<1>6. AnswerOK'
  BY <1>1, <1>2 DEF AnswerOK, Found
<1>7. Registry(cols)'
  BY <1>1
<1> QED BY <1>1, <1>5, <1>6, <1>7 DEF Inv, SentOK, ShownIsGiven

\* The message of a typed call, by method.
LEMMA NamesCollection ==
  ASSUME NEW name, NEW arg, NEW m
  PROVE  /\ Request("search", name, arg) = Some(m) => m.collection = name
         /\ Request("search_hybrid", name, arg) = Some(m) => m.collection = name
         /\ Request("upsert", name, arg) = Some(m) =>
               m.collection = name /\ m.point = Some(point_to_pb(arg))
<1>1. Request("search", name, arg) = search_query_to_pb(name, arg)
  BY DEF Request
<1>2. Request("search_hybrid", name, arg) = hybrid_query_to_pb(name, arg)
  BY DEF Request
<1>3. Request("upsert", name, arg) = Some([collection |-> name, point |-> Some(point_to_pb(arg))])
  BY DEF Request
<1>4. search_query_to_pb(name, arg) = Some(m) => m.collection = name
  BY Given DEF search_query_to_pb
<1>5. hybrid_query_to_pb(name, arg) = Some(m) => m.collection = name
  BY Given DEF hybrid_query_to_pb
<1>6. Request("upsert", name, arg) = Some(m) =>
         m = [collection |-> name, point |-> Some(point_to_pb(arg))]
  BY <1>3, Given
<1>7. Request("upsert", name, arg) = Some(m) =>
         m.collection = name /\ m.point = Some(point_to_pb(arg))
  BY <1>6
<1> QED BY <1>1, <1>2, <1>4, <1>5, <1>7

\* An upsert that is answered OK has stored its point.
LEMMA UpsertStores ==
  ASSUME Registry(cols), NEW p, ValidPoint(p), NEW m, m.point = Some(point_to_pb(p)),
         Upsert(m).code = "OK"
  PROVE  LET at == StoredAt(Upsert(m).cols, <<m.collection, p.id>>) IN
         at # None /\ at[1].payload = p.payload
<1> DEFINE name == m.collection
           q == point_from_pb(m.point[1])[1]
           col == cols[name]
           u == upsert(col, q)
           c == Upsert(m).cols
           d == u.col
<1>1. m.point # None /\ m.point[1] = point_to_pb(p)
  BY Given
<1>2. IsPbPoint(m.point[1]) /\ q = p
  BY <1>1, PointRoundTrip, Given
<1>3. /\ name \in DOMAIN cols /\ ValidPoint(q) /\ q.embedding.len = col.meta.dimension
      /\ c = [cols EXCEPT ![name] = d]
  BY <1>2, UpsertAnswers
<1>4. Sane(col)
  BY <1>3 DEF Registry
<1>5. /\ d.vectors = With(col.vectors, p.id, p.embedding)
      /\ d.payloads = (IF p.payload = None THEN Without(col.payloads, {p.id})
                       ELSE With(col.payloads, p.id, p.payload[1]))
  <2>1. u = upsert(col, p) /\ p.embedding.len = col.meta.dimension
    BY <1>2, <1>3
  <2> HIDE DEF col, u
  <2> QED BY <1>4, <2>1, UpsertKeeps
<1> HIDE DEF d, c, q, u
<1>6. name \in DOMAIN c /\ c[name] = d
  BY <1>3 DEF Registry
<1>7. p.id \in DOMAIN d.vectors
  BY <1>5 DEF With
<1>8. (IF p.id \in DOMAIN d.payloads THEN Some(d.payloads[p.id]) ELSE None) = p.payload
  <2>1. CASE p.payload = None
    <3>1. p.id \notin DOMAIN d.payloads
      BY <1>5, <2>1 DEF Without, Restrict
    <3> QED BY <2>1, <3>1
  <2>2. CASE p.payload # None
    <3>1. p.id \in DOMAIN d.payloads /\ d.payloads[p.id] = p.payload[1]
      BY <1>5, <2>2 DEF With
    <3>2. p.payload = Some(p.payload[1])
      BY <2>2 DEF ValidPoint, IsOption
    <3> QED BY <3>1, <3>2
  <2> QED BY <2>1, <2>2
<1> DEFINE key == <<name, p.id>>
           r == [vector |-> d.vectors[p.id],
                 payload |-> IF p.id \in DOMAIN d.payloads THEN Some(d.payloads[p.id]) ELSE None]
<1>9. key[1] = name /\ key[2] = p.id
  OBVIOUS
<1> HIDE DEF key, name
<1>10. StoredAt(c, key) = Some(r)
  BY <1>6, <1>7, <1>9 DEF StoredAt
<1>11. r.payload = p.payload
  BY <1>8
<1> HIDE DEF r
<1>12. StoredAt(c, key) # None /\ StoredAt(c, key)[1].payload = p.payload
  BY <1>10, <1>11, Given
<1> QED BY <1>12 DEF c, key, name

LEMMA ServeKeeps ==
  ASSUME Inv, ServeAny
  PROVE  Inv'
<1> DEFINE m == wire.body
<1>0. Registry(cols)
  BY DEF Inv
<1>1. ASSUME NEW op, NEW reply, Takes(op, reply), Answers(reply),
             op \notin {"upsert", "search", "search_hybrid"}
      PROVE  Inv'
  <2>1. call.from # "other" => call.op = op
    BY <1>1 DEF Takes, Inv, SentOK
  <2>2. call.from = "cli" => call.from # "other"
    OBVIOUS
  <2> QED BY <1>1, <2>1, <2>2, TakesKeeps DEF Answers
<1>2. CASE Takes("create", create_collection(m))
  <2>1. m.name \in Names \cup InvalidNames /\ m.dimension \in Nat
    BY <1>2 DEF Takes, Inv, SentOK, IsMessage
  <2>2. Answers(create_collection(m))
    BY <1>0, <2>1, CreateAnswers
  <2> QED BY <1>1, <1>2, <2>2
<1>3. CASE Takes("drop", drop_collection(m))
  BY <1>0, <1>1, <1>3, DropAnswers
<1>4. CASE Takes("list", list_collections)
  BY <1>0, <1>1, <1>4, ReadsAnswer
<1>5. CASE Takes("describe", describe_collection(m))
  BY <1>0, <1>1, <1>5, ReadsAnswer
<1>6. CASE Takes("compact", Compact(m))
  BY <1>0, <1>1, <1>6, ReadsAnswer
<1>7. CASE Takes("delete", Delete(m))
  BY <1>0, <1>1, <1>7, DeleteAnswers
<1>8. CASE Takes("delete_by_filter", DeleteByFilter(m))
  BY <1>0, <1>1, <1>8, DeleteAnswers
<1>9. CASE Takes("batch_upsert", batch_upsert(m))
  <2>1. IsPbBatch(m)
    BY <1>9 DEF Takes, Inv, SentOK, IsMessage
  <2> QED BY <1>0, <1>1, <1>9, <2>1, BatchAnswers
<1>10. CASE Takes("bulk_upsert", bulk_upsert(m))
  <2> DEFINE reply == bulk_upsert(m)
  <2>1. IsList(m) /\ \A i \in DOMAIN m : IsPbBatch(m[i])
    BY <1>10 DEF Takes, Inv, SentOK, IsMessage
  <2>2. Registry(reply.cols)
    <3> HIDE DEF m
    <3> QED BY <1>0, <2>1, BulkAnswers
  <2>3. call.from # "other" => call.op = "bulk_upsert"
    BY <1>10 DEF Takes, Inv, SentOK
  <2>4. call.from = "cli" => call.from # "other"
    OBVIOUS
  <2> HIDE DEF reply
  <2>5. Takes("bulk_upsert", reply)
    BY <1>10 DEF reply
  <2> QED BY <2>2, <2>3, <2>4, <2>5, TakesKeeps
<1>11. CASE Takes("upsert", Upsert(m))
  <2> DEFINE reply == Upsert(m)
  <2>1. m.point # None => IsPbPoint(m.point[1])
    BY <1>11 DEF Takes, Inv, SentOK, IsMessage
  <2>2. Registry(reply.cols)
    <3> HIDE DEF m
    <3> QED BY <1>0, <2>1, UpsertAnswers DEF Answers
  <2>3. ASSUME reply.code = "OK", call.from = "cli", call.op = "upsert"
        PROVE  LET at == StoredAt(reply.cols, <<call.name, call.arg.id>>) IN
               at # None /\ at[1].payload = call.arg.payload
    <3>1. call.from # "other"
      BY <2>3
    <3> DEFINE p == call.arg
               n == call.name
    <3>2. ValidPoint(p) /\ Request("upsert", n, p) = Some(m)
      BY <1>11, <2>3, <3>1 DEF Takes, Inv, SentOK, IsArgument
    <3> HIDE DEF p, n, m
    <3>3. m.collection = n /\ m.point = Some(point_to_pb(p))
      BY <3>2, NamesCollection
    <3>4. LET at == StoredAt(Upsert(m).cols, <<m.collection, p.id>>) IN
          at # None /\ at[1].payload = p.payload
      BY <1>0, <2>3, <3>2, <3>3, UpsertStores
    <3> QED BY <3>3, <3>4 DEF p, n
  <2>4. Takes("upsert", reply)
    BY <1>11
  <2> HIDE DEF reply
  <2> QED BY <2>2, <2>3, <2>4, TakesKeeps
<1>12. ASSUME NEW op \in {"search", "search_hybrid"}, NEW reply, Takes(op, reply),
              Answers(reply), reply.cols = cols, Found(reply, m.collection)
       PROVE  Inv'
  <2>1. call.from # "other" => call.op = op /\ Request(op, call.name, call.arg) = Some(m)
    BY <1>12 DEF Takes, Inv, SentOK
  <2>2. call.from = "cli" => call.from # "other"
    OBVIOUS
  <2>3. call.from # "other" => m.collection = call.name
    BY <2>1, NamesCollection
  <2> QED BY <1>12, <2>1, <2>2, <2>3, TakesKeeps DEF Answers
<1>13. CASE Takes("search", Search(m))
  <2> DEFINE reply == Search(m)
  <2>1. Answers(reply) /\ reply.cols = cols /\ Found(reply, m.collection)
    <3> HIDE DEF m
    <3> QED BY <1>0, SearchAnswers
  <2> HIDE DEF reply, m
  <2> QED BY <1>12, <1>13, <2>1 DEF reply
<1>14. CASE Takes("search_hybrid", SearchHybrid(m))
  <2> DEFINE reply == SearchHybrid(m)
  <2>1. Answers(reply) /\ reply.cols = cols /\ Found(reply, m.collection)
    <3> HIDE DEF m
    <3> QED BY <1>0, SearchAnswers
  <2> HIDE DEF reply, m
  <2> QED BY <1>12, <1>14, <2>1 DEF reply
<1> QED BY <1>2, <1>3, <1>4, <1>5, <1>6, <1>7, <1>8, <1>9, <1>10, <1>11, <1>13, <1>14, ServeTakes

-----------------------------------------------------------------------------
(* Delivering *)

\* Hits come out of the message as they went in.
LEMMA HitsRoundTrip ==
  ASSUME NEW col, Sane(col), NEW ids
  PROVE  hits_from_pb(hits_to_pb(hydrate(col, ids))) = Some(hydrate(col, ids))
<1> DEFINE h == hydrate(col, ids)
           m == Map(h, hit_to_pb)
           u == Map(m, hit_from_pb)
           pay(i) == IF ids[i] \in DOMAIN col.payloads THEN Some(col.payloads[ids[i]]) ELSE None
<1>1. h = [i \in DOMAIN ids |-> [id |-> ids[i], payload |-> pay(i)]]
  BY DEF hydrate
<1>2. \A i \in DOMAIN ids : IsOption(pay(i)) /\ (pay(i) # None => ValidPayload(pay(i)[1]))
  BY Given DEF IsOption, Sane
<1> HIDE DEF pay
<1>3. /\ DOMAIN h = DOMAIN ids /\ h = [i \in DOMAIN ids |-> h[i]]
      /\ \A i \in DOMAIN ids : h[i] = [id |-> ids[i], payload |-> pay(i)]
  BY <1>1
<1> HIDE DEF h
<1>4. DOMAIN m = DOMAIN ids /\ \A i \in DOMAIN ids : m[i] = hit_to_pb(h[i])
  BY <1>3 DEF Map
<1>5. DOMAIN u = DOMAIN ids /\ \A i \in DOMAIN ids : u[i] = hit_from_pb(m[i])
  BY <1>4 DEF Map
<1>6. hits_from_pb(hits_to_pb(h)) = Collect(u)
  BY DEF hits_from_pb, hits_to_pb
<1> HIDE DEF m, u
<1>7. ASSUME NEW i \in DOMAIN ids PROVE u[i] = Some(h[i])
  <2> DEFINE id == ids[i]
             p == pay(i)
             o == MapOption(p, payload_to_pb)
             x == [id |-> [len |-> ID_LENGTH, n |-> id], payload |-> o]
  <2>1. h[i].id = id /\ h[i].payload = p
    BY <1>3
  <2>2. m[i] = x
    BY <1>4, <2>1 DEF hit_to_pb, vector_id_to_pb
  <2>3. Transpose(o, payload_from_pb) = Some(p)
    BY <1>2, OptionalPayloadRoundTrip
  <2> HIDE DEF id, p, o
  <2>4. x.id.len = ID_LENGTH /\ x.id.n = id /\ x.payload = o
    OBVIOUS
  <2> HIDE DEF x
  <2> DEFINE a == vector_id_from_pb(x.id)
             b == Transpose(x.payload, payload_from_pb)
  <2>5. a = Some(id) /\ b = Some(p)
    BY <2>3, <2>4 DEF vector_id_from_pb
  <2>6. hit_from_pb(x) = IF AnyNone(<<a, b>>) THEN None ELSE Some([id |-> a[1], payload |-> b[1]])
    BY DEF hit_from_pb
  <2> HIDE DEF a, b
  <2>7. a # None /\ b # None /\ a[1] = id /\ b[1] = p
    BY <2>5, Given
  <2>8. ~AnyNone(<<a, b>>)
    BY <2>7 DEF AnyNone
  <2>9. hit_from_pb(x) = Some([id |-> id, payload |-> p])
    BY <2>6, <2>7, <2>8
  <2> QED BY <1>3, <1>5, <2>2, <2>9 DEF id, p
<1>8. \A i \in DOMAIN u : u[i] # None /\ u[i][1] = h[i]
  BY <1>5, <1>7, Given
<1>9. [i \in DOMAIN u |-> u[i][1]] = h
  BY <1>3, <1>5, <1>8
<1>10. Collect(u) = Some(h)
  BY <1>8, <1>9 DEF Collect, AnyNone
<1> QED BY <1>6, <1>10 DEF h

LEMMA PrintedHits ==
  ASSUME NEW col, NEW ids
  PROVE  LET v == Map(hydrate(col, ids), hit_to_json) IN
         /\ DOMAIN v = DOMAIN ids
         /\ \A i \in DOMAIN ids :
               /\ v[i].id = ids[i]
               /\ v[i].payload = IF ids[i] \in DOMAIN col.payloads
                                 THEN Some(payload_to_json(col.payloads[ids[i]])) ELSE None
<1> DEFINE h == hydrate(col, ids)
           v == Map(h, hit_to_json)
           pay(i) == IF ids[i] \in DOMAIN col.payloads THEN Some(col.payloads[ids[i]]) ELSE None
<1>1. DOMAIN h = DOMAIN ids /\ \A i \in DOMAIN ids : h[i] = [id |-> ids[i], payload |-> pay(i)]
  BY DEF hydrate
<1> HIDE DEF h
<1>2. DOMAIN v = DOMAIN ids /\ \A i \in DOMAIN ids : v[i] = hit_to_json(h[i])
  BY <1>1 DEF Map
<1> HIDE DEF v
<1>3. ASSUME NEW i \in DOMAIN ids
      PROVE  v[i].id = ids[i] /\ v[i].payload = MapOption(pay(i), payload_to_json)
  <2> DEFINE o == MapOption(pay(i), payload_to_json)
  <2>1. h[i].id = ids[i] /\ h[i].payload = pay(i)
    BY <1>1
  <2>2. v[i] = [id |-> ids[i], payload |-> o]
    BY <1>2, <2>1 DEF hit_to_json
  <2> HIDE DEF o
  <2>3. v[i].id = ids[i] /\ v[i].payload = o
    BY <2>2
  <2> QED BY <2>3 DEF o
<1>4. \A i \in DOMAIN ids : MapOption(pay(i), payload_to_json) =
                               IF ids[i] \in DOMAIN col.payloads
                               THEN Some(payload_to_json(col.payloads[ids[i]])) ELSE None
  BY Given DEF MapOption
<1> QED BY <1>2, <1>3, <1>4 DEF v, h

\* What the command prints: the payloads as they are stored, hence as they were given.
LEMMA DeliverShows ==
  ASSUME Inv, Deliver, call.from = "cli", result'.op \in {"search", "search_hybrid"},
         result'.code = "OK"
  PROVE  ShownIsGiven'
<1> DEFINE d == Decoded(answer)
           value == CASE answer.op = "list" -> Collect(Map(answer.body, collection_info_to_view))
                      [] answer.op = "describe" -> collection_info_to_view(answer.body[1])
                      [] answer.op \in {"search", "search_hybrid"} -> hits_from_pb(answer.body)
                      [] OTHER -> Some(answer.body)
<1>1. /\ phase = "served" /\ result' = Printed(d) /\ cols' = cols /\ given' = given /\ call' = call
  BY DEF Deliver
<1>2. d = IF answer.code # "OK" THEN [op |-> answer.op, code |-> answer.code, value |-> None]
          ELSE IF value = None THEN [op |-> answer.op, code |-> "Conversion", value |-> None]
          ELSE [op |-> answer.op, code |-> "OK", value |-> value[1]]
  BY DEF Decoded
<1>3. answer.op \in {"search", "search_hybrid"} => value = hits_from_pb(answer.body)
  OBVIOUS
<1> HIDE DEF value, d
<1>4. Printed(d).op = d.op /\ Printed(d).code = d.code
  <2>1. d.op = answer.op
    BY <1>2
  <2>2. CASE answer.code # "OK"
    BY <1>2, <2>2 DEF Printed
  <2>3. CASE answer.code = "OK" /\ value = None
    BY <1>2, <2>3 DEF Printed
  <2>4. CASE answer.code = "OK" /\ value # None
    BY <1>2, <2>4 DEF Printed
  <2> QED BY <2>2, <2>3, <2>4
<1>5. d.op \in {"search", "search_hybrid"} /\ d.code = "OK"
  BY <1>1, <1>4
<1>6. answer.code = "OK" /\ value # None /\ d = [op |-> answer.op, code |-> "OK", value |-> value[1]]
  <2>1. CASE answer.code # "OK"
    <3>1. d.code = answer.code
      BY <1>2, <2>1
    <3> QED BY <1>5, <2>1, <3>1
  <2>2. CASE answer.code = "OK" /\ value = None
    <3>1. d.code = "Conversion"
      BY <1>2, <2>2
    <3> QED BY <1>5, <3>1
  <2>3. CASE answer.code = "OK" /\ value # None
    BY <1>2, <2>3
  <2> QED BY <2>1, <2>2, <2>3
<1>7. d.op = answer.op /\ d.value = value[1]
  BY <1>6
<1>8. result'.value = Map(value[1], hit_to_json)
  <2> DEFINE v == Map(value[1], hit_to_json)
  <2>1. Printed(d) = [d EXCEPT !.value = v]
    BY <1>5, <1>7 DEF Printed
  <2> HIDE DEF v
  <2>2. Printed(d).value = v
    BY <1>6, <2>1
  <2> QED BY <1>1, <2>2 DEF v
<1> DEFINE col == cols[call.name]
<1>9. call.from # "other"
  OBVIOUS
<1>10. PICK ids : call.name \in DOMAIN cols /\ answer.body = hits_to_pb(hydrate(col, ids))
  BY <1>1, <1>5, <1>6, <1>7, <1>9 DEF Inv, AnswerOK
<1>11. Sane(col)
  BY <1>10 DEF Inv, Registry
<1>12. value[1] = hydrate(col, ids)
  <2>1. value = hits_from_pb(hits_to_pb(hydrate(col, ids)))
    BY <1>3, <1>5, <1>7, <1>10
  <2> HIDE DEF col
  <2> QED BY <1>11, <2>1, HitsRoundTrip, Given
<1> DEFINE v == result'.value
<1>13. /\ DOMAIN v = DOMAIN ids
       /\ \A i \in DOMAIN ids :
               /\ v[i].id = ids[i]
               /\ v[i].payload = IF ids[i] \in DOMAIN col.payloads
                                 THEN Some(payload_to_json(col.payloads[ids[i]])) ELSE None
  <2>1. v = Map(hydrate(col, ids), hit_to_json)
    BY <1>8, <1>12
  <2> HIDE DEF col, v
  <2> QED BY <2>1, PrintedHits
<1> HIDE DEF v
<1>14. ASSUME NEW i \in DOMAIN v, <<call.name, v[i].id>> \in DOMAIN given
       PROVE  LET g == given[<<call.name, v[i].id>>] IN
              IF g = None THEN v[i].payload = None
              ELSE /\ v[i].payload # None
                   /\ DOMAIN v[i].payload[1] = Range(g[1].keys)
                   /\ \A k \in DOMAIN g[1].keys :
                         Representable(g[1].items[k]) =>
                            v[i].payload[1][g[1].keys[k]] = g[1].items[k]
  <2> DEFINE id == v[i].id
             key == <<call.name, id>>
             at == StoredAt(cols, key)
             stored == IF id \in DOMAIN col.payloads THEN Some(col.payloads[id]) ELSE None
  <2>1. /\ id = ids[i]
        /\ v[i].payload = IF id \in DOMAIN col.payloads
                          THEN Some(payload_to_json(col.payloads[id])) ELSE None
    BY <1>13, <1>14
  <2>2. key[1] = call.name /\ key[2] = id /\ key \in DOMAIN given
    BY <1>14
  <2> HIDE DEF id, key
  <2>3. /\ at # None
        /\ IF given[key] = None THEN at[1].payload = None
           ELSE at[1].payload # None /\ Shows(at[1].payload[1], given[key][1])
    BY <2>2 DEF Inv, GivenOK
  <2>4. at[1].payload = stored
    <3>1. at = Some([vector |-> col.vectors[id], payload |-> stored])
      BY <1>10, <2>2, <2>3 DEF StoredAt
    <3> HIDE DEF stored, at
    <3>2. at[1] = [vector |-> col.vectors[id], payload |-> stored]
      BY <3>1, Given
    <3> QED BY <3>2
  <2>5. CASE given[key] = None
    <3>1. id \notin DOMAIN col.payloads
      BY <2>3, <2>4, <2>5, Given
    <3> QED BY <2>1, <2>5, <3>1 DEF key, id
  <2>6. CASE given[key] # None
    <3> DEFINE p == col.payloads[id]
               j == given[key][1]
    <3>1. id \in DOMAIN col.payloads /\ Shows(p, j)
      BY <2>3, <2>4, <2>6, Given
    <3>2. v[i].payload # None /\ v[i].payload[1] = payload_to_json(p)
      BY <2>1, <3>1, Given
    <3>3. DOMAIN payload_to_json(p) = DOMAIN p
      BY DEF payload_to_json
    <3> HIDE DEF p, j
    <3>4. /\ DOMAIN v[i].payload[1] = Range(j.keys)
          /\ \A k \in DOMAIN j.keys :
                Representable(j.items[k]) => v[i].payload[1][j.keys[k]] = j.items[k]
      BY <3>1, <3>2, <3>3 DEF Shows
    <3> QED BY <2>6, <3>2, <3>4 DEF j, key, id
  <2> QED BY <2>5, <2>6
<1> QED BY <1>1, <1>14 DEF ShownIsGiven, v

LEMMA DeliverKeeps ==
  ASSUME Inv, Deliver
  PROVE  Inv'
<1>1. /\ phase = "served" /\ phase' = "done"
      /\ cols' = cols /\ given' = given /\ call' = call
  BY DEF Deliver
<1>2. ShownIsGiven'
  <2>1. CASE call.from = "cli" /\ result'.op \in {"search", "search_hybrid"} /\ result'.code = "OK"
    BY <2>1, DeliverShows
  <2>2. CASE ~(call.from = "cli" /\ result'.op \in {"search", "search_hybrid"}
               /\ result'.code = "OK")
    BY <1>1, <2>2 DEF ShownIsGiven
  <2> QED BY <2>1, <2>2
<1> QED BY <1>1, <1>2 DEF Inv, SentOK, AnswerOK

LEMMA NextKeeps ==
  ASSUME Inv, [Next]_vars
  PROVE  Inv'
<1>1. CASE \E op \in DOMAIN ClientArgs : Typed(op)
  BY <1>1, TypedKeeps
<1>2. CASE \E op \in DOMAIN OtherArgs : Foreign(op)
  BY <1>2, ForeignKeeps
<1>3. CASE \E from \in {"client", "cli"} : Plain(from)
  BY <1>3, PlainKeeps
<1>4. CASE CreateCommand \/ UpsertCommand \/ DeleteCommand \/ SearchCommand \/ HybridCommand
  BY <1>4, CommandsKeep
<1>5. CASE ServeAny
  BY <1>5, ServeKeeps
<1>6. CASE Deliver
  BY <1>6, DeliverKeeps
<1>7. CASE Return
  BY <1>7 DEF Return, Inv, SentOK, AnswerOK, ShownIsGiven
<1>8. CASE UNCHANGED vars
  BY <1>8 DEF vars, Inv, SentOK, AnswerOK, ShownIsGiven
<1> QED BY <1>1, <1>2, <1>3, <1>4, <1>5, <1>6, <1>7, <1>8 DEF Next

LEMMA InvHolds == Spec => []Inv
<1>1. Init => Inv
  BY InitHolds
<1>2. Inv /\ [Next]_vars => Inv'
  BY NextKeeps
<1> QED BY <1>1, <1>2, PTL DEF Spec

-----------------------------------------------------------------------------
(* Theorems *)

\* Whatever requests arrive, the registry holds collections that create_collection made,
\* and the points of the history are stored.
THEOREM RegistryIsTyped == Spec => []TypeOK
<1>1. Inv => TypeOK
  BY DEF Inv, Registry, MetaOK, GivenOK, TypeOK
<1> QED BY <1>1, InvHolds, PTL

\* Whatever requests arrive, from the typed client, from commands or from other
\* programs, only checked vectors, documents and payloads are stored.
THEOREM OnlyValidIsStored == Spec => []StoredAreValid
<1>1. Inv => StoredAreValid
  <2> SUFFICES ASSUME Inv, NEW name \in DOMAIN cols
               PROVE  LET col == cols[name]
                      IN  /\ \A id \in DOMAIN col.vectors :
                                /\ ValidEmbedding(col.vectors[id])
                                /\ col.vectors[id].len = col.meta.dimension
                          /\ \A id \in DOMAIN col.documents : ValidDocument(col.documents[id])
                          /\ \A id \in DOMAIN col.payloads : FinitePayload(col.payloads[id])
                          /\ DOMAIN col.documents \cup DOMAIN col.payloads \subseteq DOMAIN col.vectors
    BY DEF StoredAreValid
  <2>1. Sane(cols[name])
    BY DEF Inv, Registry
  <2> QED BY <2>1 DEF Sane, ValidVector, ValidPayload, IsDocument
<1> QED BY <1>1, InvHolds, PTL

\* The payload a command prints for a hit is the one the command that wrote the point
\* was given, through parsing, two messages, the store and printing.
THEOREM WhatIsGivenIsShown == Spec => []ShownIsGiven
<1>1. Inv => ShownIsGiven
  BY DEF Inv
<1> QED BY <1>1, InvHolds, PTL

\* Comparing two values of a payload or a filter, in either order.
LEMMA OrderedIsSound ==
  ASSUME NEW a, NEW b, IsValue(a), IsValue(b)
  PROVE  LET Opposite == [Less |-> "Greater", Equal |-> "Equal", Greater |-> "Less"]
         IN  /\ ordered(b, a) = MapOption(ordered(a, b), LAMBDA o : Opposite[o])
             /\ ordered(a, b) # None =>
                   /\ a.v < b.v => ordered(a, b)[1] # "Greater"
                   /\ a.v > b.v => ordered(a, b)[1] # "Less"
                   /\ a.v = b.v => ordered(a, b)[1] = "Equal"
                   /\ a.kind = b.kind => ordered(a, b)[1] = Compare(a.v, b.v)
<1> DEFINE Opposite == [Less |-> "Greater", Equal |-> "Equal", Greater |-> "Less"]
<1>1. /\ a.v \in Int /\ b.v \in Int
      /\ a.kind = "Float" => a.v \in Floats \cup {NaN, Inf}
      /\ b.kind = "Float" => b.v \in Floats \cup {NaN, Inf}
      /\ a.kind = "Integer" => a.v \in MinI64..MaxI64
      /\ b.kind = "Integer" => b.v \in MinI64..MaxI64
      /\ a.kind \in {"Text", "Integer", "Float", "Bool"}
      /\ b.kind \in {"Text", "Integer", "Float", "Bool"}
  BY DEF IsValue, ValueKind, IsFloat, IsInteger, NonFinite
<1>2. \A m, n \in Int : /\ Compare(m, n) \in {"Less", "Equal", "Greater"}
                        /\ Opposite[Compare(m, n)] = Compare(n, m)
                        /\ m < n => Compare(m, n) = "Less"
                        /\ m > n => Compare(m, n) = "Greater"
                        /\ m = n => Compare(m, n) = "Equal"
  BY DEF Compare
<1> HIDE DEF Opposite
<1>3. CASE a.kind = b.kind /\ a.kind \in {"Integer", "Text"}
  <2>1. ordered(a, b) = Some(Compare(a.v, b.v)) /\ ordered(b, a) = Some(Compare(b.v, a.v))
    BY <1>3 DEF ordered
  <2>2. MapOption(ordered(a, b), LAMBDA o : Opposite[o]) = Some(Opposite[Compare(a.v, b.v)])
    BY <2>1, Given DEF MapOption
  <2> QED BY <1>1, <1>2, <2>1, <2>2, Given DEF Opposite
<1>4. CASE /\ ~(a.kind = b.kind /\ a.kind \in {"Integer", "Text"})
           /\ is_numeric(a) /\ is_numeric(b) /\ NaN \notin {a.v, b.v}
  <2> DEFINE x == as_f64(a)
             y == as_f64(b)
  <2>1. ordered(a, b) = Some(Compare(x, y)) /\ ordered(b, a) = Some(Compare(y, x))
    BY <1>4 DEF ordered
  <2>2. MapOption(ordered(a, b), LAMBDA o : Opposite[o]) = Some(Opposite[Compare(x, y)])
    BY <2>1, Given DEF MapOption
  <2>3. ASSUME NEW v, v.kind = "Float" PROVE as_f64(v) = v.v
    BY <2>3 DEF as_f64
  <2>4. a.kind \in {"Integer", "Float"} /\ b.kind \in {"Integer", "Float"}
        /\ ~(a.kind = "Integer" /\ b.kind = "Integer")
    BY <1>4 DEF is_numeric
  <2>5. /\ x \in Int /\ y \in Int
        /\ a.v < b.v => x <= y
        /\ a.v > b.v => x >= y
        /\ a.v = b.v => x = y
        /\ a.kind = b.kind => x = a.v /\ y = b.v
    <3>1. CASE a.kind = "Float" /\ b.kind = "Float"
      BY <1>1, <2>3, <3>1
    <3>2. CASE a.kind = "Integer" /\ b.kind = "Float"
      <4>1. y = b.v /\ a.kind # b.kind /\ b.v \in Floats \cup {Inf} /\ a.v \in MinI64..MaxI64
        BY <1>1, <1>4, <2>3, <3>2
      <4>2. /\ x \in Floats /\ x \in Int /\ (a.v \in Floats => x = a.v)
            /\ \A f \in Floats : (a.v < f => x <= f) /\ (f < a.v => f <= x)
        BY <1>1, <3>2, Rounded
      <4> HIDE DEF x, y
      <4>3. CASE b.v \in Floats
        BY <1>1, <4>1, <4>2, <4>3
      <4>4. CASE b.v = Inf
        <5>1. a.v < Inf /\ x < Inf
          BY <1>1, <4>1, <4>2, BoundTypes, FloatTypes
        <5> QED BY <1>1, <4>1, <4>2, <4>4, <5>1
      <4> QED BY <4>1, <4>3, <4>4
    <3>3. CASE a.kind = "Float" /\ b.kind = "Integer"
      <4>1. x = a.v /\ a.kind # b.kind /\ a.v \in Floats \cup {Inf} /\ b.v \in MinI64..MaxI64
        BY <1>1, <1>4, <2>3, <3>3
      <4>2. /\ y \in Floats /\ y \in Int /\ (b.v \in Floats => y = b.v)
            /\ \A f \in Floats : (b.v < f => y <= f) /\ (f < b.v => f <= y)
        BY <1>1, <3>3, Rounded
      <4> HIDE DEF x, y
      <4>3. CASE a.v \in Floats
        BY <1>1, <4>1, <4>2, <4>3
      <4>4. CASE a.v = Inf
        <5>1. b.v < Inf /\ y < Inf
          BY <1>1, <4>1, <4>2, BoundTypes, FloatTypes
        <5> QED BY <1>1, <4>1, <4>2, <4>4, <5>1
      <4> QED BY <4>1, <4>3, <4>4
    <3> QED BY <2>4, <3>1, <3>2, <3>3
  <2> HIDE DEF x, y
  <2>6. x <= y => Compare(x, y) # "Greater"
    BY <2>5 DEF Compare
  <2>7. x >= y => Compare(x, y) # "Less"
    BY <2>5 DEF Compare
  <2>8. ordered(a, b)[1] = Compare(x, y)
    BY <2>1, Given
  <2>9. ordered(b, a) = MapOption(ordered(a, b), LAMBDA o : Opposite[o])
    BY <1>2, <2>1, <2>2, <2>5
  <2> QED BY <1>2, <2>5, <2>6, <2>7, <2>8, <2>9 DEF Opposite
<1>5. CASE /\ ~(a.kind = b.kind /\ a.kind \in {"Integer", "Text"})
           /\ ~(is_numeric(a) /\ is_numeric(b) /\ NaN \notin {a.v, b.v})
  <2>1. ordered(a, b) = None /\ ordered(b, a) = None
    BY <1>5 DEF ordered
  <2> QED BY <2>1 DEF MapOption
<1> QED BY <1>3, <1>4, <1>5

\* For every stored payload and every filter a client asks with, ordered comparisons
\* are exact within a kind and never invert across kinds.
THEOREM ComparisonsAreSound == Spec => []ComparisonsNeverInvert
<1>1. Inv => ComparisonsNeverInvert
  <2> SUFFICES ASSUME Inv PROVE ComparisonsNeverInvert
    OBVIOUS
  <2> DEFINE Stored == UNION {UNION {UNION {Range(p[f].values) : f \in DOMAIN p}
                                  : p \in Range(cols[name].payloads)} : name \in DOMAIN cols}
             Asked == UNION {Range(f.values) : f \in ClientArgs.delete_by_filter}
  <2>1. \A a \in Stored : IsValue(a)
    <3> SUFFICES ASSUME NEW name \in DOMAIN cols, NEW p \in Range(cols[name].payloads),
                        NEW f \in DOMAIN p, NEW a \in Range(p[f].values)
                 PROVE  IsValue(a)
      OBVIOUS
    <3>1. Sane(cols[name])
      BY DEF Inv, Registry
    <3>2. IsPayload(p)
      BY <3>1 DEF Sane, ValidPayload, Range
    <3>3. IsValues(p[f].values)
      BY <3>2 DEF IsPayload
    <3> QED BY <3>3 DEF IsValues, Range
  <2>2. \A b \in Asked : IsValue(b)
    <3> SUFFICES ASSUME NEW f \in ClientArgs.delete_by_filter, NEW b \in Range(f.values)
                 PROVE  IsValue(b)
      OBVIOUS
    <3>1. IsFilter(f)
      BY ClientTypes DEF IsArgument
    <3>2. f \in Nested(f, LAMBDA h : h.subs)
      BY NestedAround
    <3>3. IsValues(f.values)
      BY <3>1, <3>2 DEF IsFilter
    <3> QED BY <3>3 DEF IsValues, Range
  <2> HIDE DEF Stored, Asked
  <2> DEFINE Opposite == [Less |-> "Greater", Equal |-> "Equal", Greater |-> "Less"]
  <2>3. \A a \in Stored, b \in Asked :
            /\ ordered(b, a) = MapOption(ordered(a, b), LAMBDA o : Opposite[o])
            /\ ordered(a, b) # None =>
                   /\ a.v < b.v => ordered(a, b)[1] # "Greater"
                   /\ a.v > b.v => ordered(a, b)[1] # "Less"
                   /\ a.v = b.v => ordered(a, b)[1] = "Equal"
                   /\ a.kind = b.kind => ordered(a, b)[1] = Compare(a.v, b.v)
    BY <2>1, <2>2, OrderedIsSound
  <2> QED BY <2>3 DEF ComparisonsNeverInvert, Stored, Asked
<1> QED BY <1>1, InvHolds, PTL

\* Only a handler turns a message into an answer.
LEMMA OnlyHandlersServe ==
  ASSUME [Next]_vars, Serves
  PROVE  ServeAny
<1> USE DEF Serves
<1>1. ASSUME NEW from, NEW op, NEW name, NEW arg, NEW raw, Begin(from, op, name, arg, raw)
      PROVE  FALSE
  BY <1>1 DEF Begin
<1>2. ASSUME NEW op, NEW name, NEW handled, NEW raw, Command(op, name, handled, raw)
      PROVE  FALSE
  BY <1>1, <1>2 DEF Command
<1>3. CASE \E op \in DOMAIN ClientArgs : Typed(op)
  BY <1>1, <1>3 DEF Typed
<1>4. CASE \E op \in DOMAIN OtherArgs : Foreign(op)
  BY <1>4 DEF Foreign
<1>5. CASE \E from \in {"client", "cli"} : Plain(from)
  BY <1>1, <1>5 DEF Plain
<1>6. CASE CreateCommand \/ UpsertCommand \/ DeleteCommand \/ SearchCommand \/ HybridCommand
  BY <1>2, <1>6 DEF CreateCommand, UpsertCommand, DeleteCommand, SearchCommand, HybridCommand
<1>7. CASE Deliver \/ Return
  BY <1>7 DEF Deliver, Return
<1>8. CASE UNCHANGED vars
  BY <1>8 DEF vars
<1> QED BY <1>3, <1>4, <1>5, <1>6, <1>7, <1>8 DEF Next

Clean ==
    Serves /\ answer'.code # "OK" =>
          \/ cols' = cols
          \/ /\ wire.op = "bulk_upsert"
             /\ \E n \in 1..Len(wire.body) - 1 :
                    LET prefix == bulk_upsert(SubSeq(wire.body, 1, n))
                    IN  prefix.code = "OK" /\ cols' = prefix.cols

LEMMA NextIsClean ==
  ASSUME Inv, [Next]_vars
  PROVE  Clean
<1> SUFFICES ASSUME Serves, answer'.code # "OK"
             PROVE  \/ cols' = cols
                    \/ /\ wire.op = "bulk_upsert"
                       /\ \E n \in 1..Len(wire.body) - 1 :
                            LET prefix == bulk_upsert(SubSeq(wire.body, 1, n))
                            IN  prefix.code = "OK" /\ cols' = prefix.cols
  BY DEF Clean
<1> DEFINE m == wire.body
<1>0. Registry(cols) /\ ServeAny
  BY OnlyHandlersServe DEF Inv
<1>1. ASSUME NEW op, NEW reply, Takes(op, reply) PROVE cols' = reply.cols /\ reply.code # "OK"
  <2>1. cols' = reply.cols /\ answer' = [op |-> op, code |-> reply.code, body |-> reply.body]
    BY <1>1 DEF Takes
  <2>2. answer'.code = reply.code
    BY <2>1
  <2> QED BY <2>1, <2>2
<1>2. ASSUME NEW op, NEW reply, Takes(op, reply), Answers(reply) PROVE cols' = cols
  BY <1>1, <1>2 DEF Answers
<1>3. CASE Takes("create", create_collection(m))
  <2>1. m.name \in Names \cup InvalidNames /\ m.dimension \in Nat
    BY <1>3 DEF Takes, Inv, SentOK, IsMessage
  <2>2. Answers(create_collection(m))
    BY <1>0, <2>1, CreateAnswers
  <2> QED BY <1>2, <1>3, <2>2
<1>4. CASE Takes("drop", drop_collection(m))
  BY <1>0, <1>2, <1>4, DropAnswers
<1>5. CASE Takes("list", list_collections) \/ Takes("describe", describe_collection(m))
           \/ Takes("compact", Compact(m))
  BY <1>0, <1>2, <1>5, ReadsAnswer
<1>6. CASE Takes("delete", Delete(m)) \/ Takes("delete_by_filter", DeleteByFilter(m))
  BY <1>0, <1>2, <1>6, DeleteAnswers
<1>7. CASE Takes("search", Search(m)) \/ Takes("search_hybrid", SearchHybrid(m))
  <2>1. Answers(Search(m)) /\ Answers(SearchHybrid(m))
    <3> HIDE DEF m
    <3> QED BY <1>0, SearchAnswers
  <2> QED BY <1>2, <1>7, <2>1
<1>8. CASE Takes("batch_upsert", batch_upsert(m))
  <2>1. IsPbBatch(m)
    BY <1>8 DEF Takes, Inv, SentOK, IsMessage
  <2> QED BY <1>0, <1>2, <1>8, <2>1, BatchAnswers
<1>9. CASE Takes("upsert", Upsert(m))
  <2>1. m.point # None => IsPbPoint(m.point[1])
    BY <1>9 DEF Takes, Inv, SentOK, IsMessage
  <2>2. Answers(Upsert(m))
    <3> HIDE DEF m
    <3> QED BY <1>0, <2>1, UpsertAnswers
  <2> QED BY <1>2, <1>9, <2>2
<1>10. CASE Takes("bulk_upsert", bulk_upsert(m))
  <2> DEFINE reply == bulk_upsert(m)
  <2>1. IsList(m) /\ \A i \in DOMAIN m : IsPbBatch(m[i])
    BY <1>10 DEF Takes, Inv, SentOK, IsMessage
  <2>2. wire.op = "bulk_upsert"
    BY <1>10 DEF Takes
  <2>3. cols' = reply.cols /\ reply.code # "OK"
    BY <1>1, <1>10
  <2>4. \/ reply.cols = cols
        \/ \E n \in 1..Len(m) - 1 :
              LET prefix == bulk_upsert(SubSeq(m, 1, n))
              IN  prefix.code = "OK" /\ reply.cols = prefix.cols
    <3> HIDE DEF m
    <3> QED BY <1>0, <2>1, <2>3, BulkAnswers
  <2> HIDE DEF reply
  <2> QED BY <2>2, <2>3, <2>4
<1> QED BY <1>0, <1>3, <1>4, <1>5, <1>6, <1>7, <1>8, <1>9, <1>10, ServeTakes

\* A request that is answered with an error has changed nothing; a stream that is
\* refused half way has done what the stream ended before the refused chunk does.
THEOREM RejectionsAreClean == Spec => RejectionIsClean
<1>1. Inv /\ [Next]_vars => Clean
  BY NextIsClean
<1>2. Spec => [][Clean]_vars
  BY <1>1, InvHolds, PTL DEF Spec
<1> QED BY <1>2 DEF RejectionIsClean, Clean

-----------------------------------------------------------------------------
(* Ranking.  A strict total order B of a finite set S, as a set of pairs. *)

StrictOrder(S, B) ==
    /\ \A x \in S : <<x, x>> \notin B
    /\ \A x, y \in S : x # y => <<x, y>> \in B \/ <<y, x>> \in B
    /\ \A x, y, z \in S : <<x, y>> \in B /\ <<y, z>> \in B => <<x, z>> \in B

RankedBy(S, B) ==
    [k \in 1..Cardinality(S) |-> CHOOSE x \in S : Cardinality({y \in S : <<y, x>> \in B}) = k - 1]

\* Each place is taken, by one element, and the places are in the order.
LEMMA RankedFacts ==
  ASSUME NEW S, IsFiniteSet(S), NEW B, StrictOrder(S, B)
  PROVE  LET L == RankedBy(S, B)
             n == Cardinality(S)
         IN  /\ n \in Nat /\ L \in [1..n -> S]
             /\ \A x \in S : \E k \in 1..n : L[k] = x
             /\ \A i, j \in 1..n : i < j => <<L[i], L[j]>> \in B
             /\ \A i, j \in 1..n : L[i] = L[j] => i = j
<1> DEFINE n == Cardinality(S)
           Low(x) == {y \in S : <<y, x>> \in B}
           r == [x \in S |-> Cardinality(Low(x))]
           L == RankedBy(S, B)
<1>1. n \in Nat
  BY FS_CardinalityType
<1>2. \A x \in S : /\ IsFiniteSet(Low(x)) /\ Low(x) \subseteq S /\ x \notin Low(x)
                   /\ Cardinality(Low(x)) \in Nat
  <2> SUFFICES ASSUME NEW x \in S
               PROVE  /\ IsFiniteSet(Low(x)) /\ Low(x) \subseteq S /\ x \notin Low(x)
                      /\ Cardinality(Low(x)) \in Nat
    OBVIOUS
  <2>1. Low(x) \in SUBSET S /\ x \notin Low(x)
    BY DEF StrictOrder
  <2> HIDE DEF Low
  <2>2. IsFiniteSet(Low(x))
    BY <2>1, FS_Subset
  <2> QED BY <2>1, <2>2, FS_CardinalityType
<1>3. ASSUME NEW x \in S, NEW T, IsFiniteSet(T), Low(x) \subseteq T, x \in T
      PROVE  Cardinality(Low(x)) < Cardinality(T)
  <2> DEFINE A == Low(x)
  <2>1. IsFiniteSet(A) /\ A \in SUBSET T /\ x \notin A /\ x \in T
    BY <1>2, <1>3
  <2> HIDE DEF A
  <2>2. Cardinality(A) <= Cardinality(T) /\ (Cardinality(T) = Cardinality(A) => T = A)
    BY <1>3, <2>1, FS_Subset
  <2>3. Cardinality(A) \in Nat /\ Cardinality(T) \in Nat
    BY <1>3, <2>1, FS_CardinalityType
  <2> QED BY <2>1, <2>2, <2>3 DEF A
<1>4. ASSUME NEW x \in S, NEW y \in S, <<x, y>> \in B PROVE r[x] < r[y]
  <2>1. Low(x) \subseteq Low(y) /\ x \in Low(y)
    BY <1>4 DEF StrictOrder
  <2> HIDE DEF Low
  <2>2. Cardinality(Low(x)) < Cardinality(Low(y))
    BY <1>2, <1>3, <2>1
  <2> QED BY <2>2
<1>5. \A x \in S : r[x] \in 0..n - 1
  <2> SUFFICES ASSUME NEW x \in S PROVE r[x] \in 0..n - 1
    OBVIOUS
  <2> HIDE DEF Low
  <2>1. Cardinality(Low(x)) < n /\ Cardinality(Low(x)) \in Nat
    BY <1>2, <1>3
  <2> QED BY <1>1, <2>1
<1>6. \A x, y \in S : r[x] = r[y] => x = y
  <2> SUFFICES ASSUME NEW x \in S, NEW y \in S, x # y PROVE r[x] # r[y]
    OBVIOUS
  <2>1. r[x] \in Int /\ r[y] \in Int
    BY <1>1, <1>5
  <2>2. <<x, y>> \in B \/ <<y, x>> \in B
    BY DEF StrictOrder
  <2> HIDE DEF r
  <2> QED BY <1>4, <2>1, <2>2
<1>7. r \in Injection(S, 0..n - 1)
  <2>1. r \in [S -> 0..n - 1] /\ DOMAIN r = S
    BY <1>5
  <2> HIDE DEF r
  <2> QED BY <1>6, <2>1 DEF Injection, IsInjective
<1>8. IsFiniteSet(0..n - 1) /\ Cardinality(0..n - 1) = n
  <2>1. 0 \in Int /\ n - 1 \in Int
    BY <1>1
  <2>2. Cardinality(0..n - 1) = IF 0 > n - 1 THEN 0 ELSE (n - 1) - 0 + 1
    BY <2>1, FS_Interval
  <2> QED BY <1>1, <2>1, <2>2, FS_Interval
<1>9. r \in Surjection(S, 0..n - 1)
  <2> DEFINE T == 0..n - 1
  <2>1. r \in Injection(S, T) /\ IsFiniteSet(T) /\ Cardinality(S) = Cardinality(T)
    BY <1>7, <1>8
  <2> HIDE DEF T, r
  <2> QED BY <2>1, FS_Injection DEF T
<1>10. \A k \in 1..n : \E x \in S : r[x] = k - 1
  <2>1. \A k \in 1..n : k - 1 \in 0..n - 1
    BY <1>1
  <2> HIDE DEF r
  <2> QED BY <1>9, <2>1 DEF Surjection
<1>11. /\ DOMAIN L = 1..n /\ L = [k \in DOMAIN L |-> L[k]]
       /\ \A k \in 1..n : L[k] = CHOOSE x \in S : Cardinality(Low(x)) = k - 1
  <2> DEFINE pick(k) == CHOOSE x \in S : Cardinality(Low(x)) = k - 1
  <2>1. L = [k \in 1..n |-> pick(k)]
    BY DEF RankedBy
  <2> HIDE DEF pick, L, n
  <2>2. DOMAIN L = 1..n /\ L = [k \in DOMAIN L |-> L[k]] /\ \A k \in 1..n : L[k] = pick(k)
    BY <2>1
  <2> QED BY <2>2 DEF pick
<1> HIDE DEF L
<1>12. \A k \in 1..n : L[k] \in S /\ r[L[k]] = k - 1
  <2> SUFFICES ASSUME NEW k \in 1..n PROVE L[k] \in S /\ r[L[k]] = k - 1
    OBVIOUS
  <2> DEFINE P(x) == Cardinality(Low(x)) = k - 1
  <2> HIDE DEF Low
  <2>1. \E x \in S : P(x)
    BY <1>10
  <2>2. L[k] = CHOOSE x \in S : P(x)
    BY <1>11
  <2> HIDE DEF P
  <2>3. L[k] \in S /\ P(L[k])
    BY <2>1, <2>2
  <2> QED BY <2>3 DEF P
<1> HIDE DEF r
<1>13. L \in [1..n -> S]
  BY <1>11, <1>12
<1>14. \A x \in S : \E k \in 1..n : L[k] = x
  <2> SUFFICES ASSUME NEW x \in S PROVE \E k \in 1..n : L[k] = x
    OBVIOUS
  <2>1. r[x] \in 0..n - 1
    BY <1>5
  <2>2. r[x] + 1 \in 1..n /\ (r[x] + 1) - 1 = r[x]
    BY <1>1, <2>1
  <2> QED BY <1>6, <1>12, <2>2
<1>15. \A i, j \in 1..n : i < j => <<L[i], L[j]>> \in B
  <2> SUFFICES ASSUME NEW i \in 1..n, NEW j \in 1..n, i < j PROVE <<L[i], L[j]>> \in B
    OBVIOUS
  <2>1. L[i] \in S /\ L[j] \in S /\ r[L[i]] = i - 1 /\ r[L[j]] = j - 1
    BY <1>12
  <2>2. L[i] # L[j] /\ <<L[j], L[i]>> \notin B
    BY <1>1, <1>4, <2>1
  <2> QED BY <2>1, <2>2 DEF StrictOrder
<1>16. \A i, j \in 1..n : L[i] = L[j] => i = j
  <2> SUFFICES ASSUME NEW i \in 1..n, NEW j \in 1..n, L[i] = L[j] PROVE i = j
    OBVIOUS
  <2>1. r[L[i]] = i - 1 /\ r[L[j]] = j - 1
    BY <1>12
  <2> QED BY <1>1, <2>1
<1> QED BY <1>1, <1>13, <1>14, <1>15, <1>16 DEF L

\* The k best of S, best first, among them the set found.
IsBest(S, B, k, ids, found) ==
    LET n == Cardinality(S)
    IN  /\ n \in Nat /\ Len(ids) = (IF k < n THEN k ELSE n) /\ DOMAIN ids = 1..Len(ids)
        /\ found \subseteq S /\ Cardinality(found) = Len(ids)
        /\ \A i, j \in DOMAIN ids : i < j => <<ids[i], ids[j]>> \in B
        /\ \A a \in found, b \in S \ found : <<a, b>> \in B

\* The first k of a ranking are the k best.
LEMMA TruncatedFacts ==
  ASSUME NEW S, IsFiniteSet(S), NEW B, StrictOrder(S, B), NEW k \in Nat
  PROVE  LET ids == Truncate(RankedBy(S, B), k) IN IsBest(S, B, k, ids, Range(ids))
<1> DEFINE n == Cardinality(S)
           ids == Truncate(RankedBy(S, B), k)
           found == Range(ids)
<1> DEFINE L == RankedBy(S, B)
           t == IF k < n THEN k ELSE n
<1>1. /\ n \in Nat /\ L \in [1..n -> S]
      /\ \A x \in S : \E i \in 1..n : L[i] = x
      /\ \A i, j \in 1..n : i < j => <<L[i], L[j]>> \in B
      /\ \A i, j \in 1..n : L[i] = L[j] => i = j
  BY RankedFacts
<1> HIDE DEF L, n
<1>0. found = {ids[i] : i \in DOMAIN ids}
  BY DEF Range
<1>2. L \in Seq(S) /\ Len(L) = n
  BY <1>1
<1>3. t \in 0..n /\ t \in Nat
  BY <1>1
<1> HIDE DEF found
<1>4. Len(ids) = t /\ DOMAIN ids = 1..t /\ \A i \in 1..t : ids[i] = L[i]
  BY <1>1, <1>2, <1>3 DEF Truncate, L
<1> HIDE DEF ids
<1>5. \A i \in 1..t : i \in 1..n
  BY <1>1, <1>3
<1> HIDE DEF t
<1>6. found \subseteq S
  BY <1>0, <1>1, <1>4, <1>5
<1>7. Cardinality(found) = t
  <2> DEFINE f == [i \in 1..t |-> L[i]]
  <2>1. f \in Bijection(1..t, found)
    <3>1. f \in [1..t -> found] /\ DOMAIN f = 1..t
      BY <1>0, <1>4
    <3>2. \A i, j \in 1..t : f[i] = f[j] => i = j
      BY <1>1, <1>5
    <3>3. \A x \in found : \E i \in 1..t : f[i] = x
      BY <1>0, <1>4
    <3> HIDE DEF f
    <3> QED BY <3>1, <3>2, <3>3 DEF Bijection, Injection, Surjection, IsInjective
  <2>2. ExistsBijection(1..t, found)
    BY <2>1 DEF ExistsBijection
  <2> HIDE DEF f
  <2> QED BY <1>3, <2>2, FS_CountingElements
<1>8. \A i, j \in DOMAIN ids : i < j => <<ids[i], ids[j]>> \in B
  BY <1>1, <1>4, <1>5
<1>9. ASSUME NEW a \in found, NEW b \in S \ found PROVE <<a, b>> \in B
  <2>1. PICK i \in 1..t : a = L[i]
    BY <1>0, <1>4
  <2>2. PICK j \in 1..n : b = L[j]
    BY <1>1
  <2>3. j \notin 1..t
    BY <1>0, <1>4, <2>2
  <2>4. i < j /\ i \in 1..n
    BY <1>1, <1>3, <1>5, <2>3
  <2> QED BY <1>1, <2>1, <2>2, <2>4
<1>10. /\ n \in Nat /\ Len(ids) = (IF k < n THEN k ELSE n) /\ DOMAIN ids = 1..Len(ids)
       /\ found \subseteq S /\ Cardinality(found) = Len(ids)
       /\ \A i, j \in DOMAIN ids : i < j => <<ids[i], ids[j]>> \in B
       /\ \A a \in found, b \in S \ found : <<a, b>> \in B
  <2>1. t = IF k < n THEN k ELSE n
    BY DEF t
  <2> HIDE DEF found, ids, n
  <2> QED BY <1>1, <1>4, <1>6, <1>7, <1>8, <1>9, <2>1
<1> QED BY <1>10 DEF IsBest, found, ids, n, L

LEMMA ScoreIsNumber ==
  ASSUME NEW metric \in Metrics, NEW a, NEW b, a.x \in Int, b.x \in Int
  PROVE  score(metric, a, b) \in Int
<1>1. Sign(a.x) \in {-1, 0, 1} /\ Sign(b.x) \in {-1, 0, 1}
  BY DEF Sign
<1>2. Sign(a.x) * Sign(b.x) \in Int
  BY <1>1
<1>3. a.x * b.x \in Int
  OBVIOUS
<1>4. (IF a.x < b.x THEN a.x - b.x ELSE b.x - a.x) \in Int
  OBVIOUS
<1>5. metric \in {"Cosine", "DotProduct", "Euclidean"}
  BY DEF Metrics
<1> QED BY <1>2, <1>3, <1>4, <1>5 DEF score

\* Nearer first, equal ones by identifier: the order of a dense search.
Nearer(col, e, metric, S) ==
    {p \in S \X S :
        LET value(id) == score(metric, e, col.vectors[id])
        IN  \/ value(p[1]) > value(p[2])
            \/ value(p[1]) = value(p[2]) /\ p[1] < p[2]}

LEMMA NearerIsOrder ==
  ASSUME NEW col, Sane(col), NEW e, e.x \in Int, NEW metric \in Metrics,
         NEW S, S \subseteq DOMAIN col.vectors
  PROVE  StrictOrder(S, Nearer(col, e, metric, S))
<1> DEFINE value(id) == score(metric, e, col.vectors[id])
           B == Nearer(col, e, metric, S)
<1>1. \A id \in S : id \in Int /\ value(id) \in Int
  <2> SUFFICES ASSUME NEW id \in S PROVE id \in Int /\ value(id) \in Int
    OBVIOUS
  <2>1. id \in DOMAIN col.vectors /\ id \in Int /\ col.vectors[id].x \in Int
    BY DEF Sane, ValidVector, Vectors
  <2> QED BY <2>1, ScoreIsNumber
<1>2. \A a, b \in S : <<a, b>> \in B <=> value(a) > value(b) \/ (value(a) = value(b) /\ a < b)
  <2> SUFFICES ASSUME NEW a \in S, NEW b \in S
               PROVE  <<a, b>> \in B <=> value(a) > value(b) \/ (value(a) = value(b) /\ a < b)
    OBVIOUS
  <2>1. <<a, b>> \in S \X S /\ <<a, b>>[1] = a /\ <<a, b>>[2] = b
    OBVIOUS
  <2> QED BY <2>1 DEF Nearer
<1> HIDE DEF value, B
<1>3. StrictOrder(S, B)
  <2>1. \A x \in S : <<x, x>> \notin B
    BY <1>1, <1>2
  <2>2. \A x, y \in S : x # y => <<x, y>> \in B \/ <<y, x>> \in B
    BY <1>1, <1>2
  <2>3. \A x, y, z \in S : <<x, y>> \in B /\ <<y, z>> \in B => <<x, z>> \in B
    BY <1>1, <1>2
  <2> QED BY <2>1, <2>2, <2>3 DEF StrictOrder
<1> QED BY <1>3 DEF B

\* The order of a dense search as the pairs it relates.
LEMMA DenseIsRanked ==
  ASSUME NEW col, NEW e, NEW k, NEW metric, NEW A
  PROVE  LET S == A \cap DOMAIN col.vectors IN
         search_filtered(col, e, k, metric, A) = Truncate(RankedBy(S, Nearer(col, e, metric, S)), k)
<1> DEFINE S == A \cap DOMAIN col.vectors
           B == Nearer(col, e, metric, S)
           value(id) == score(metric, e, col.vectors[id])
           before(a, b) == value(a) > value(b) \/ (value(a) = value(b) /\ a < b)
           old(j) == CHOOSE x \in S : Cardinality({y \in S : before(y, x)}) = j - 1
           new(j) == CHOOSE x \in S : Cardinality({y \in S : <<y, x>> \in B}) = j - 1
<1>1. search_filtered(col, e, k, metric, A) = Truncate([j \in 1..Cardinality(S) |-> old(j)], k)
  BY DEF search_filtered, Ranked
<1>2. RankedBy(S, B) = [j \in 1..Cardinality(S) |-> new(j)]
  BY DEF RankedBy
<1>3. \A x \in S : {y \in S : before(y, x)} = {y \in S : <<y, x>> \in B}
  <2> SUFFICES ASSUME NEW x \in S, NEW y \in S PROVE before(y, x) <=> <<y, x>> \in B
    OBVIOUS
  <2>1. <<y, x>> \in S \X S /\ <<y, x>>[1] = y /\ <<y, x>>[2] = x
    OBVIOUS
  <2> QED BY <2>1 DEF Nearer
<1>4. \A j : old(j) = new(j)
  <2> SUFFICES ASSUME NEW j PROVE old(j) = new(j)
    OBVIOUS
  <2> DEFINE P(x) == Cardinality({y \in S : before(y, x)}) = j - 1
             Q(x) == Cardinality({y \in S : <<y, x>> \in B}) = j - 1
  <2>1. \A x \in S : P(x) <=> Q(x)
    BY <1>3
  <2> HIDE DEF P, Q, S
  <2>2. (CHOOSE x \in S : P(x)) = (CHOOSE x \in S : Q(x))
    BY <2>1
  <2> QED BY <2>2 DEF P, Q
<1> HIDE DEF old, new, S, B
<1>5. [j \in 1..Cardinality(S) |-> old(j)] = [j \in 1..Cardinality(S) |-> new(j)]
  BY <1>4
<1>6. search_filtered(col, e, k, metric, A) = Truncate(RankedBy(S, B), k)
  BY <1>1, <1>2, <1>5
<1> QED BY <1>6 DEF S, B

\* A decoded query has a finite embedding and, if any, a metric that exists.
LEMMA QueryDecodes ==
  ASSUME NEW m, m.vector \in Vectors, search_query_from_pb(m) # None
  PROVE  LET q == search_query_from_pb(m)[1] IN
         q.embedding.x \in Int /\ q.k = m.k /\ (q.metric # None => q.metric[1] \in Metrics)
<1> DEFINE embedding == embedding_from_pb(m.vector)
           metric == optional_metric_from_pb(m.metric)
           filter == Transpose(m.filter, filter_from_pb)
           q == search_query_from_pb(m)[1]
<1>1. /\ ~AnyNone(<<embedding, metric, filter>>)
      /\ search_query_from_pb(m) = Some([embedding |-> embedding[1], k |-> m.k,
                                         metric |-> metric[1], filter |-> filter[1]])
  BY DEF search_query_from_pb
<1> HIDE DEF embedding, metric, filter
<1>2. embedding # None /\ metric # None
  <2>1. /\ 1 \in DOMAIN <<embedding, metric, filter>> /\ 2 \in DOMAIN <<embedding, metric, filter>>
        /\ <<embedding, metric, filter>>[1] = embedding /\ <<embedding, metric, filter>>[2] = metric
    OBVIOUS
  <2> QED BY <1>1, <2>1 DEF AnyNone
<1>3. q = [embedding |-> embedding[1], k |-> m.k, metric |-> metric[1], filter |-> filter[1]]
  BY <1>1, Given
<1>4. embedding[1] = m.vector
  BY <1>2, Given DEF embedding, embedding_from_pb
<1>5. metric[1] # None => metric[1][1] \in Metrics
  BY <1>2, Given, MetricDecodes DEF metric, optional_metric_from_pb
<1> HIDE DEF q
<1>6. q.embedding = m.vector /\ q.k = m.k /\ q.metric = metric[1]
  BY <1>3, <1>4
<1> QED BY <1>5, <1>6 DEF q, Vectors

LEMMA SearchFindsExactly ==
  ASSUME Registry(cols), NEW m, m.vector \in Vectors, m.k \in Nat, Search(m).code = "OK"
  PROVE  ExactAnswer(m, Search(m).body)
<1> DEFINE name == m.collection
           col == cols[name]
           query == search_query_from_pb(m)
           q == query[1]
           metric == IF q.metric = None THEN col.meta.metric ELSE q.metric[1]
           A == Admissible(col, q.filter, DOMAIN col.vectors)
           S == A \cap DOMAIN col.vectors
           ids == search_filtered(col, q.embedding, q.k, metric, A)
           r == search(col, q)
           body == Search(m).body
           hits == hits_from_pb(body)[1]
           B == Nearer(col, q.embedding, metric, S)
           admitted == {id \in DOMAIN col.vectors :
                        q.filter # None => /\ id \in DOMAIN col.payloads
                                           /\ evaluate(q.filter[1], col.payloads[id])}
           value(id) == score(metric, q.embedding, col.vectors[id])
           found == {hits[i].id : i \in DOMAIN hits}
           before(a, b) == value(a) > value(b) \/ (value(a) = value(b) /\ a < b)
<1>1. /\ query # None /\ name \in DOMAIN cols
      /\ Search(m) = Update(name, r, hits_to_pb(r.value))
  BY DEF Search, Refuse
<1>2. r.code = "OK" /\ body = hits_to_pb(r.value)
  <2> HIDE DEF r, name, query
  <2> QED BY <1>1, UpdateFields
<1>3. Sane(col) /\ MetaOK(col.meta, name)
  BY <1>1 DEF Registry
<1>4. q.embedding.x \in Int /\ q.k \in Nat /\ metric \in Metrics
  <2>1. q.embedding.x \in Int /\ q.k = m.k /\ (q.metric # None => q.metric[1] \in Metrics)
    BY <1>1, QueryDecodes
  <2> HIDE DEF q
  <2> QED BY <1>3, <2>1 DEF MetaOK
<1>5. r.value = hydrate(col, ids)
  <2> DEFINE v == hydrate(col, ids)
  <2>1. r = Failed(col, "INVALID_ARGUMENT") \/ r = Done(col, v)
    BY DEF search, metric_of
  <2> HIDE DEF v, r
  <2>2. r.value = v
    BY <1>2, <2>1 DEF Failed, Done
  <2> QED BY <2>2 DEF v
<1> HIDE DEF r
<1>6. hits = hydrate(col, ids)
  <2>1. hits_from_pb(hits_to_pb(hydrate(col, ids))) = Some(hydrate(col, ids))
    <3> HIDE DEF ids, col
    <3> QED BY <1>3, HitsRoundTrip
  <2> HIDE DEF body, ids, col
  <2> QED BY <1>2, <1>5, <2>1, Given
<1>7. S = admitted
  <2> HIDE DEF q, col
  <2> QED BY DEF Admissible, matching_ids
<1>8. IsFiniteSet(S) /\ S \subseteq DOMAIN col.vectors
  <2>1. S \in SUBSET DOMAIN col.vectors /\ IsFiniteSet(DOMAIN col.vectors)
    BY <1>3 DEF Sane
  <2> HIDE DEF S, col
  <2> QED BY <2>1, FS_Subset
<1>9. StrictOrder(S, B)
  <2> HIDE DEF S, col, q, metric
  <2> QED BY <1>3, <1>4, <1>8, NearerIsOrder
<1>10. ids = Truncate(RankedBy(S, B), q.k)
  <2> HIDE DEF A, col, q, metric
  <2> QED BY DenseIsRanked
<1> DEFINE n == Cardinality(S)
           found2 == {ids[i] : i \in DOMAIN ids}
<1>11. /\ n \in Nat /\ Len(ids) = (IF q.k < n THEN q.k ELSE n) /\ DOMAIN ids = 1..Len(ids)
       /\ found2 \subseteq S /\ Cardinality(found2) = Len(ids)
       /\ \A i, j \in DOMAIN ids : i < j => <<ids[i], ids[j]>> \in B
       /\ \A a \in found2, b \in S \ found2 : <<a, b>> \in B
  <2> DEFINE k == q.k
  <2>1. k \in Nat /\ ids = Truncate(RankedBy(S, B), k)
    BY <1>4, <1>10
  <2> HIDE DEF S, B, ids, k
  <2>2. IsBest(S, B, k, ids, Range(ids))
    BY <1>8, <1>9, <2>1, TruncatedFacts
  <2>3. Range(ids) = found2
    BY DEF Range
  <2>4. k = q.k
    BY DEF k
  <2> HIDE DEF found2, q
  <2> QED BY <2>2, <2>3, <2>4 DEF IsBest
<1> HIDE DEF ids, S, B, body
<1>12. /\ DOMAIN hits = DOMAIN ids /\ Len(hits) = Len(ids)
       /\ \A i \in DOMAIN ids :
             /\ hits[i].id = ids[i]
             /\ hits[i].payload = IF ids[i] \in DOMAIN col.payloads
                                  THEN Some(col.payloads[ids[i]]) ELSE None
  <2> HIDE DEF col, hits
  <2>1. DOMAIN hits = DOMAIN ids
    BY <1>6 DEF hydrate
  <2>2. \A i \in DOMAIN ids : hits[i] =
            [id |-> ids[i], payload |-> IF ids[i] \in DOMAIN col.payloads
                                        THEN Some(col.payloads[ids[i]]) ELSE None]
    BY <1>6 DEF hydrate
  <2>3. Len(hits) = Len(ids)
    <3>1. Len(ids) \in Nat
      BY <1>4, <1>11
    <3> DEFINE R == {hits[i] : i \in DOMAIN ids}
               l == Len(ids)
    <3>2. hits \in [1..l -> R]
      <4>1. hits = [i \in DOMAIN ids |-> hits[i]]
        BY <1>6 DEF hydrate
      <4>2. \A i \in DOMAIN ids : hits[i] \in R
        OBVIOUS
      <4> HIDE DEF R
      <4> QED BY <1>11, <4>1, <4>2
    <3> HIDE DEF R, l
    <3>3. hits \in Seq(R) /\ Len(hits) = l
      BY <3>1, <3>2 DEF l
    <3> QED BY <3>3 DEF l
  <2> QED BY <2>1, <2>2, <2>3, Given
<1> HIDE DEF hits
<1>13. found = found2
  BY <1>12
<1>14. \A a, b : <<a, b>> \in B => before(a, b)
  <2> SUFFICES ASSUME NEW a, NEW b, <<a, b>> \in B PROVE before(a, b)
    OBVIOUS
  <2> HIDE DEF col, q, metric
  <2>1. <<a, b>>[1] = a /\ <<a, b>>[2] = b
    OBVIOUS
  <2> QED BY <2>1 DEF B, Nearer
<1> HIDE DEF found, found2, before, q, col
<1>15. Len(hits) = Min({q.k, n})
  <2>1. \E x \in {q.k, n} : \A y \in {q.k, n} : x <= y
    BY <1>4, <1>11
  <2>2. Min({q.k, n}) \in {q.k, n} /\ \A y \in {q.k, n} : Min({q.k, n}) <= y
    BY <2>1 DEF Min
  <2> QED BY <1>4, <1>11, <1>12, <2>2
<1>16. /\ found \subseteq admitted
       /\ Len(hits) = Cardinality(found)
       /\ Len(hits) = Min({q.k, Cardinality(admitted)})
       /\ \A i, j \in DOMAIN hits : i < j => before(hits[i].id, hits[j].id)
       /\ \A a \in found, b \in admitted \ found : before(a, b)
       /\ \A i \in DOMAIN hits :
               hits[i].payload = IF hits[i].id \in DOMAIN col.payloads
                                 THEN Some(col.payloads[hits[i].id]) ELSE None
  <2>1. found \subseteq S /\ Len(hits) = Cardinality(found)
    BY <1>11, <1>12, <1>13
  <2>2. Len(hits) = Min({q.k, Cardinality(S)})
    BY <1>15
  <2>3. \A i, j \in DOMAIN hits : i < j => before(hits[i].id, hits[j].id)
    <3>1. DOMAIN hits = DOMAIN ids /\ \A i \in DOMAIN ids : hits[i].id = ids[i]
      BY <1>12
    <3> QED BY <1>11, <1>14, <3>1
  <2>4. \A a \in found, b \in S \ found : before(a, b)
    BY <1>11, <1>13, <1>14
  <2>5. \A i \in DOMAIN hits :
            hits[i].payload = IF hits[i].id \in DOMAIN col.payloads
                              THEN Some(col.payloads[hits[i].id]) ELSE None
    BY <1>12
  <2> HIDE DEF admitted
  <2> QED BY <1>7, <2>1, <2>2, <2>3, <2>4, <2>5
<1> QED BY <1>16 DEF ExactAnswer, found, before, q, col, hits, body

\* A dense search of a flat collection finds the k best that its filter admits, each
\* once, nearer ones first, with their payloads: Metric::score, the sort and the
\* truncation of FlatIndex, the filter and the hydration of Collection, and both
\* conversions.
THEOREM FlatSearchIsExact == Spec => SearchIsExact
<1> DEFINE Step == SearchesFlat("search") => ExactAnswer(wire.body, answer'.body)
<1>1. Inv /\ [Next]_vars => Step
  <2> SUFFICES ASSUME Inv, [Next]_vars, Serves, wire.op = "search", answer'.code = "OK"
               PROVE  ExactAnswer(wire.body, answer'.body)
    BY DEF SearchesFlat
  <2>1. ServeAny
    BY OnlyHandlersServe
  <2>2. Takes("search", Search(wire.body))
    BY <2>1, ServeTakes DEF Takes
  <2>3. phase = "sent" /\ answer' = [op |-> "search", code |-> Search(wire.body).code,
                                     body |-> Search(wire.body).body]
    BY <2>2 DEF Takes
  <2>4. Search(wire.body).code = "OK" /\ answer'.body = Search(wire.body).body
    BY <2>3
  <2>5. wire.body.vector \in Vectors /\ wire.body.k \in Nat /\ Registry(cols)
    BY <2>3 DEF Inv, SentOK, IsMessage
  <2> DEFINE m == wire.body
  <2> HIDE DEF m
  <2>6. ExactAnswer(m, Search(m).body)
    BY <2>4, <2>5, SearchFindsExactly DEF m
  <2> QED BY <2>4, <2>6 DEF m
<1>2. Spec => [][Step]_vars
  BY <1>1, InvHolds, PTL DEF Spec
<1> QED BY <1>2 DEF SearchIsExact

-----------------------------------------------------------------------------
(* Filters.  Both conversions of a filter are recursive functions on what is *)
(* nested in it; that there are such functions is shown along its rank.      *)

FilterMessage(g, M) ==
    [kind |-> FilterKind[g.op], field |-> g.field, values |-> Map(g.values, value_to_pb),
     filters |-> [i \in DOMAIN g.subs |-> M[g.subs[i]]]]

Encodes(N, M) == M = [g \in N |-> FilterMessage(g, M)]

FilterIn(n, D) == DecodedFilter(n, Collect([i \in DOMAIN n.filters |-> D[n.filters[i]]]))

Decodes(N, D) == D = [n \in N |-> FilterIn(n, D)]

\* What is in a set of filters is in the set, with a smaller rank.
RanksIn(N, rank) ==
    /\ rank \in [N -> 0..MaxDepth]
    /\ \A g \in N : \A i \in DOMAIN g.subs : g.subs[i] \in N /\ rank[g.subs[i]] < rank[g]

LEMMA EncodingExists ==
  ASSUME NEW N, NEW rank, RanksIn(N, rank)
  PROVE  \E M : Encodes(N, M)
<1> DEFINE Up(n) == {g \in N : rank[g] < n}
           A == {n \in Nat : \E w : w = [g \in Up(n) |-> FilterMessage(g, w)]}
<1>0. MaxDepth \in Nat
  BY BoundTypes
<1>1. 0 \in A
  <2>1. Up(0) = {}
    BY DEF RanksIn
  <2> DEFINE w == [g \in {} |-> 0]
  <2>2. w = [g \in Up(0) |-> FilterMessage(g, w)]
    BY <2>1
  <2> QED BY <2>2
<1>2. ASSUME NEW n \in Nat, n \in A PROVE n + 1 \in A
  <2>1. PICK w : w = [g \in Up(n) |-> FilterMessage(g, w)]
    BY <1>2
  <2> DEFINE h == [g \in Up(n + 1) |-> FilterMessage(g, w)]
  <2>2. \A g \in Up(n) : g \in Up(n + 1) /\ w[g] = FilterMessage(g, w)
    <3>1. \A g \in Up(n) : g \in Up(n + 1)
      BY DEF RanksIn
    <3> HIDE DEF Up
    <3> QED BY <2>1, <3>1
  <2>3. \A g \in Up(n) : h[g] = w[g]
    <3> HIDE DEF Up
    <3> QED BY <2>2
  <2>4. \A g \in Up(n + 1) : \A i \in DOMAIN g.subs : g.subs[i] \in Up(n)
    BY DEF RanksIn
  <2> HIDE DEF h, Up
  <2>5. \A g \in Up(n + 1) : FilterMessage(g, w) = FilterMessage(g, h)
    <3> SUFFICES ASSUME NEW g \in Up(n + 1) PROVE FilterMessage(g, w) = FilterMessage(g, h)
      OBVIOUS
    <3>1. [i \in DOMAIN g.subs |-> w[g.subs[i]]] = [i \in DOMAIN g.subs |-> h[g.subs[i]]]
      BY <2>3, <2>4
    <3> QED BY <3>1 DEF FilterMessage
  <2>6. h = [g \in Up(n + 1) |-> FilterMessage(g, h)]
    BY <2>5 DEF h
  <2> QED BY <2>6
<1>3. MaxDepth + 1 \in Nat
  BY <1>0
<1>4. MaxDepth + 1 \in A
  <2> DEFINE D == MaxDepth + 1
  <2> HIDE DEF A, D
  <2>1. \A n \in 0..D : n \in A
    BY <1>1, <1>2, <1>3, StepByStep DEF D
  <2> QED BY <1>3, <2>1 DEF D
<1>5. Up(MaxDepth + 1) = N
  BY <1>0 DEF RanksIn
<1> QED BY <1>4, <1>5 DEF Encodes

\* A filter that is well typed is encoded, and so is everything in it.
LEMMA FilterEncodes ==
  ASSUME NEW f, IsFilter(f)
  PROVE  LET N == Nested(f, LAMBDA h : h.subs) IN
         \E M, rank : Encodes(N, M) /\ RanksIn(N, rank) /\ filter_to_pb(f) = M[f]
<1> DEFINE N == Nested(f, LAMBDA h : h.subs)
<1>1. PICK rank : RanksIn(N, rank)
  BY DEF IsFilter, RanksIn
<1>2. filter_to_pb(f) = (CHOOSE M : Encodes(N, M))[f]
  BY DEF filter_to_pb, Encodes, FilterMessage
<1> HIDE DEF N
<1>3. \E M : Encodes(N, M)
  BY <1>1, EncodingExists
<1>4. Encodes(N, CHOOSE M : Encodes(N, M))
  BY <1>3
<1> QED BY <1>1, <1>2, <1>4 DEF N

LEMMA FilterKinds ==
  \A name \in DOMAIN FilterKind : Named(FilterKind, FilterKind[name]) = name /\ FilterKind[name] # "none"
<1> SUFFICES ASSUME NEW name \in DOMAIN FilterKind
             PROVE  Named(FilterKind, FilterKind[name]) = name /\ FilterKind[name] # "none"
  OBVIOUS
<1>1. \A x \in DOMAIN FilterKind : FilterKind[x] = FilterKind[name] => x = name
  BY DEF FilterKind
<1>2. FilterKind[name] # "none"
  BY DEF FilterKind
<1> QED BY <1>1, <1>2 DEF Named

ProperFilters(N) ==
    \A g \in N :
        /\ g = [op |-> g.op, field |-> g.field, values |-> g.values, subs |-> g.subs]
        /\ g.op \in DOMAIN FilterKind /\ IsValues(g.values) /\ IsList(g.subs)
        /\ FilterKind[g.op] \in NeedsValue => g.values # <<>>

LEMMA ListIsFunction ==
  ASSUME NEW s, IsList(s)
  PROVE  s = [i \in DOMAIN s |-> s[i]] /\ DOMAIN s = 1..Len(s) /\ Len(s) \in Nat
<1>1. s \in Seq(Range(s))
  BY DEF IsList
<1> DEFINE R == Range(s)
<1> HIDE DEF R
<1>2. s \in Seq(R)
  BY <1>1 DEF R
<1> QED BY <1>2

\* What a message of a filter says: kind, field, values and the messages in it.
LEMMA MessageFields ==
  ASSUME NEW N, NEW M, Encodes(N, M), NEW g \in N
  PROVE  /\ M[g] = FilterMessage(g, M)
         /\ M[g].kind = FilterKind[g.op] /\ M[g].field = g.field
         /\ M[g].values = Map(g.values, value_to_pb)
         /\ M[g].filters = [i \in DOMAIN g.subs |-> M[g.subs[i]]]
         /\ DOMAIN M[g].filters = DOMAIN g.subs
<1>1. M[g] = FilterMessage(g, M)
  BY DEF Encodes
<1> DEFINE F == [i \in DOMAIN g.subs |-> M[g.subs[i]]]
           V == Map(g.values, value_to_pb)
<1>2. FilterMessage(g, M) = [kind |-> FilterKind[g.op], field |-> g.field, values |-> V, filters |-> F]
  BY DEF FilterMessage
<1>3. DOMAIN F = DOMAIN g.subs
  OBVIOUS
<1> HIDE DEF F, V
<1>4. M[g].kind = FilterKind[g.op] /\ M[g].field = g.field /\ M[g].values = V /\ M[g].filters = F
  BY <1>1, <1>2
<1> QED BY <1>1, <1>3, <1>4 DEF F, V

\* Decoding the message of a filter gives the filter, if it does so for what is in it.
LEMMA FilterInverts ==
  ASSUME NEW N, NEW M, Encodes(N, M), ProperFilters(N), NEW g \in N, NEW D,
         \A i \in DOMAIN g.subs : D[M[g.subs[i]]] = Some(g.subs[i])
  PROVE  FilterIn(M[g], D) = Some(g)
<1> DEFINE m == M[g]
           V == Map(g.values, value_to_pb)
           s == [i \in DOMAIN m.filters |-> D[m.filters[i]]]
           values == Collect(Map(m.values, value_from_pb))
<1>1. /\ m.kind = FilterKind[g.op] /\ m.field = g.field /\ m.values = V
      /\ m.filters = [i \in DOMAIN g.subs |-> M[g.subs[i]]] /\ DOMAIN m.filters = DOMAIN g.subs
  BY MessageFields
<1>2. /\ g = [op |-> g.op, field |-> g.field, values |-> g.values, subs |-> g.subs]
      /\ g.op \in DOMAIN FilterKind /\ IsValues(g.values) /\ IsList(g.subs)
      /\ FilterKind[g.op] \in NeedsValue => g.values # <<>>
  BY DEF ProperFilters
<1> HIDE DEF m
<1>3. DOMAIN s = DOMAIN g.subs /\ \A i \in DOMAIN g.subs : s[i] = Some(g.subs[i])
  BY <1>1
<1>4. values = Some(g.values) /\ Len(V) = Len(g.values) /\ IsList(V)
  BY <1>1, <1>2, ValuesRoundTrip
<1>5. g.values # <<>> => V # <<>>
  <2>1. g.values # <<>> => Len(g.values) # 0
    <3>1. g.values = [i \in DOMAIN g.values |-> g.values[i]] /\ DOMAIN g.values = 1..Len(g.values)
      BY <1>2, ListIsFunction DEF IsValues
    <3> DEFINE x == g.values
    <3> HIDE DEF x
    <3>2. x = [i \in DOMAIN x |-> x[i]] /\ DOMAIN x = 1..Len(x)
      BY <3>1 DEF x
    <3>3. Len(x) = 0 => x = <<>>
      BY <3>2
    <3> QED BY <3>3 DEF x
  <2> HIDE DEF V
  <2> QED BY <1>4, <2>1
<1> HIDE DEF s, values, V
<1>6. Collect(s) = Some(g.subs)
  <2>1. \A i \in DOMAIN s : s[i] # None /\ s[i][1] = g.subs[i]
    BY <1>3, Given
  <2>2. Collect(s) = Some([i \in DOMAIN s |-> s[i][1]])
    BY <2>1 DEF Collect, AnyNone
  <2>3. [i \in DOMAIN s |-> s[i][1]] = g.subs
    BY <1>2, <1>3, <2>1, ListIsFunction
  <2> QED BY <2>2, <2>3
<1>7. FilterIn(m, D) = DecodedFilter(m, Collect(s))
  BY DEF FilterIn, s
<1>8. Named(FilterKind, m.kind) = g.op /\ m.kind # "none"
  BY <1>1, <1>2, FilterKinds
<1> DEFINE subs == Collect(s)
<1> HIDE DEF subs
<1>9. DecodedFilter(m, subs) =
        IF \/ m.kind = "none"
           \/ m.kind \in NeedsValue /\ m.values = <<>>
           \/ values = None \/ subs = None
        THEN None
        ELSE Some([op |-> Named(FilterKind, m.kind), field |-> m.field,
                   values |-> values[1], subs |-> subs[1]])
  BY Zenon DEF DecodedFilter, values
<1>10. subs = Some(g.subs)
  BY <1>6 DEF subs
<1>11. values # None /\ values[1] = g.values /\ subs # None /\ subs[1] = g.subs
  BY <1>4, <1>10, Given
<1>12. ~(m.kind \in NeedsValue /\ m.values = <<>>)
  BY <1>1, <1>2, <1>5
<1>13. DecodedFilter(m, subs) = Some([op |-> g.op, field |-> g.field, values |-> g.values, subs |-> g.subs])
  BY <1>1, <1>8, <1>9, <1>11, <1>12
<1>14. DecodedFilter(m, subs) = Some(g)
  BY <1>2, <1>13
<1> QED BY <1>7, <1>14 DEF m, subs

\* Different filters have different messages.
LEMMA MessagesDiffer ==
  ASSUME NEW N, NEW M, NEW rank, Encodes(N, M), RanksIn(N, rank), ProperFilters(N)
  PROVE  \A g, h \in N : M[g] = M[h] => g = h
<1> DEFINE A == {n \in Nat : \A g, h \in N : rank[g] = n /\ M[g] = M[h] => g = h}
<1>1. ASSUME NEW n \in Nat, \A m \in Nat : m < n => m \in A PROVE n \in A
  <2> SUFFICES ASSUME NEW g \in N, NEW h \in N, rank[g] = n, M[g] = M[h] PROVE g = h
    OBVIOUS
  <2>1. /\ g = [op |-> g.op, field |-> g.field, values |-> g.values, subs |-> g.subs]
        /\ h = [op |-> h.op, field |-> h.field, values |-> h.values, subs |-> h.subs]
        /\ g.op \in DOMAIN FilterKind /\ h.op \in DOMAIN FilterKind
        /\ IsValues(g.values) /\ IsValues(h.values) /\ IsList(g.subs) /\ IsList(h.subs)
    BY DEF ProperFilters
  <2>2. /\ FilterKind[g.op] = FilterKind[h.op] /\ g.field = h.field
        /\ Map(g.values, value_to_pb) = Map(h.values, value_to_pb)
        /\ DOMAIN g.subs = DOMAIN h.subs /\ M[g].filters = M[h].filters
        /\ M[g].filters = [i \in DOMAIN g.subs |-> M[g.subs[i]]]
        /\ M[h].filters = [i \in DOMAIN h.subs |-> M[h.subs[i]]]
    BY MessageFields
  <2>3. g.op = h.op
    BY <2>1, <2>2, FilterKinds
  <2>4. g.values = h.values
    <3>1. Some(g.values) = Some(h.values)
      <4> DEFINE V == Map(g.values, value_to_pb)
                 W == Map(h.values, value_to_pb)
      <4>1. Collect(Map(V, value_from_pb)) = Some(g.values) /\ Collect(Map(W, value_from_pb)) = Some(h.values)
        BY <2>1, ValuesRoundTrip
      <4> HIDE DEF V, W
      <4>2. V = W
        BY <2>2 DEF V, W
      <4> QED BY <4>1, <4>2
    <3> QED BY <3>1, Given
  <2>5. \A i \in DOMAIN g.subs : M[g.subs[i]] = M[h.subs[i]]
    <3> DEFINE F == M[g].filters
               G == M[h].filters
    <3> HIDE DEF F, G
    <3>1. F = G /\ F = [i \in DOMAIN g.subs |-> M[g.subs[i]]] /\ G = [i \in DOMAIN h.subs |-> M[h.subs[i]]]
      BY <2>2 DEF F, G
    <3>2. \A i \in DOMAIN g.subs : F[i] = M[g.subs[i]] /\ G[i] = M[h.subs[i]]
      BY <2>2, <3>1
    <3> QED BY <3>1, <3>2
  <2>6. \A i \in DOMAIN g.subs : g.subs[i] = h.subs[i]
    <3> SUFFICES ASSUME NEW i \in DOMAIN g.subs PROVE g.subs[i] = h.subs[i]
      OBVIOUS
    <3>1. g.subs[i] \in N /\ h.subs[i] \in N /\ rank[g.subs[i]] \in Nat /\ rank[g.subs[i]] < n
      <4>1. g.subs[i] \in N /\ h.subs[i] \in N /\ rank[g.subs[i]] < n
        BY <2>2 DEF RanksIn
      <4>2. rank[g.subs[i]] \in 0..MaxDepth
        BY <4>1 DEF RanksIn
      <4> QED BY <4>1, <4>2, BoundTypes
    <3>2. rank[g.subs[i]] \in A
      BY <1>1, <3>1
    <3> QED BY <2>5, <3>1, <3>2
  <2>7. g.subs = h.subs
    <3> DEFINE x == g.subs
               y == h.subs
    <3> HIDE DEF x, y
    <3>1. x = [i \in DOMAIN x |-> x[i]] /\ y = [i \in DOMAIN y |-> y[i]]
      BY <2>1, ListIsFunction DEF x, y
    <3>2. DOMAIN x = DOMAIN y /\ \A i \in DOMAIN x : x[i] = y[i]
      BY <2>2, <2>6 DEF x, y
    <3>3. x = y
      BY <3>1, <3>2
    <3> QED BY <3>3 DEF x, y
  <2> QED BY <2>1, <2>2, <2>3, <2>4, <2>7
<1>2. \A n \in Nat : n \in A
  <2> HIDE DEF A
  <2> QED BY <1>1, Induction
<1>3. \A g \in N : rank[g] \in Nat
  BY BoundTypes DEF RanksIn
<1> QED BY <1>2, <1>3

\* The messages in the message of a filter are those of the filters in it.
LEMMA MessagesInside ==
  ASSUME NEW f, NEW M, Encodes(Nested(f, LAMBDA h : h.subs), M),
         \A g \in Nested(f, LAMBDA h : h.subs) : \A i \in DOMAIN g.subs :
             g.subs[i] \in Nested(f, LAMBDA h : h.subs)
  PROVE  Nested(M[f], LAMBDA h : h.filters) = {M[g] : g \in Nested(f, LAMBDA h : h.subs)}
<1> DEFINE N == Nested(f, LAMBDA h : h.subs)
           m == M[f]
           Img(S) == {M[g] : g \in S}
           More(S) == S \cup UNION {Range(g.subs) : g \in S}
           MoreIn(S) == S \cup UNION {Range(n.filters) : n \in S}
           Body(v, k) == IF k = 0 THEN {m} ELSE MoreIn(v[k - 1])
           Layer(v) == v = [k \in 0..MaxDepth |-> Body(v, k)]
<1>0. MaxDepth \in Nat
  BY BoundTypes
<1>l. PICK w : /\ Nested(f, LAMBDA h : h.subs) = w[MaxDepth]
               /\ w[0] = {f}
               /\ \A k \in Nat : k < MaxDepth =>
                      w[k + 1] = w[k] \cup UNION {Range(g.subs) : g \in w[k]}
  BY NestedLoop
<1>1. /\ N = w[MaxDepth] /\ w[0] = {f}
      /\ \A k \in Nat : k < MaxDepth => w[k + 1] = More(w[k])
  BY <1>l
<1>2. Nested(m, LAMBDA h : h.filters) = (CHOOSE v : Layer(v))[MaxDepth]
  BY DEF Nested
<1>3. f \in N
  BY NestedAround
<1>4. Encodes(N, M) /\ \A g \in N : \A i \in DOMAIN g.subs : g.subs[i] \in N
  OBVIOUS
<1> HIDE DEF N
<1>5. \A k \in 0..MaxDepth : w[k] \subseteq N
  <2> DEFINE A == {k \in Nat : w[k] \subseteq N}
  <2>1. 0 \in A
    BY <1>1, <1>3
  <2>2. ASSUME NEW k \in Nat, k < MaxDepth, k \in A PROVE k + 1 \in A
    <3>1. w[k + 1] = More(w[k]) /\ w[k] \subseteq N
      BY <1>1, <2>2
    <3> QED BY <1>4, <3>1 DEF Range
  <2> HIDE DEF A
  <2>3. \A k \in 0..MaxDepth : k \in A
    BY <1>0, <2>1, <2>2, StepByStep
  <2> QED BY <2>3 DEF A
<1>6. ASSUME NEW S, S \subseteq N PROVE Img(More(S)) = MoreIn(Img(S))
  <2>1. \A g \in S : {M[x] : x \in Range(g.subs)} = Range(M[g].filters)
    <3> SUFFICES ASSUME NEW g \in S PROVE {M[x] : x \in Range(g.subs)} = Range(M[g].filters)
      OBVIOUS
    <3> DEFINE F == M[g].filters
    <3>1. F = [i \in DOMAIN g.subs |-> M[g.subs[i]]] /\ DOMAIN F = DOMAIN g.subs
      BY <1>4, <1>6, MessageFields
    <3> HIDE DEF F
    <3>2. \A i \in DOMAIN g.subs : F[i] = M[g.subs[i]]
      BY <3>1
    <3>3. Range(F) = {M[x] : x \in Range(g.subs)}
      BY <3>1, <3>2 DEF Range
    <3> QED BY <3>3 DEF F
  <2>2. Img(More(S)) \subseteq MoreIn(Img(S))
    <3> SUFFICES ASSUME NEW x \in More(S) PROVE M[x] \in MoreIn(Img(S))
      OBVIOUS
    <3>1. CASE x \in S
      BY <3>1
    <3>2. CASE \E g \in S : x \in Range(g.subs)
      <4>1. PICK g \in S : x \in Range(g.subs)
        BY <3>2
      <4>2. M[x] \in Range(M[g].filters)
        BY <2>1, <4>1
      <4> QED BY <4>1, <4>2
    <3> QED BY <3>1, <3>2
  <2>3. MoreIn(Img(S)) \subseteq Img(More(S))
    <3> SUFFICES ASSUME NEW y \in MoreIn(Img(S)) PROVE y \in Img(More(S))
      OBVIOUS
    <3>1. CASE y \in Img(S)
      BY <3>1
    <3>2. CASE \E n \in Img(S) : y \in Range(n.filters)
      <4>1. PICK g \in S : y \in Range(M[g].filters)
        BY <3>2
      <4>2. PICK x \in Range(g.subs) : y = M[x]
        BY <2>1, <4>1
      <4> QED BY <4>1, <4>2
    <3> QED BY <3>1, <3>2
  <2> QED BY <2>2, <2>3
<1> HIDE DEF More, MoreIn, Img, m
<1>7. Img({f}) = {m}
  BY DEF Img, m
<1> DEFINE v0 == [k \in 0..MaxDepth |-> Img(w[k])]
<1>8. Layer(v0)
  <2>1. ASSUME NEW k \in 0..MaxDepth PROVE v0[k] = Body(v0, k)
    <3>1. CASE k = 0
      BY <1>0, <1>1, <1>7, <3>1
    <3>2. CASE k # 0
      <4>1. k - 1 \in 0..MaxDepth /\ k - 1 \in Nat /\ k - 1 < MaxDepth /\ (k - 1) + 1 = k
        BY <1>0, <3>2
      <4>2. w[k] = More(w[k - 1])
        BY <1>1, <4>1
      <4>3. Img(w[k]) = MoreIn(Img(w[k - 1]))
        BY <1>5, <1>6, <4>1, <4>2
      <4> QED BY <3>2, <4>1, <4>3
    <3> QED BY <3>1, <3>2
  <2>2. DOMAIN v0 = 0..MaxDepth /\ v0 = [k \in 0..MaxDepth |-> v0[k]]
    OBVIOUS
  <2> HIDE DEF v0, Body
  <2> QED BY <2>1, <2>2
<1>9. PICK v : Layer(v) /\ Nested(m, LAMBDA h : h.filters) = v[MaxDepth]
  <2> HIDE DEF Layer, v0
  <2> QED BY <1>2, <1>8
<1>10. \A k \in 0..MaxDepth : v[k] = Body(v, k)
  <2> HIDE DEF Body
  <2> QED BY <1>9
<1>11. \A k \in 0..MaxDepth : v[k] = Img(w[k])
  <2> DEFINE A == {k \in Nat : v[k] = Img(w[k])}
  <2>1. 0 \in A
    <3>1. 0 \in 0..MaxDepth
      BY <1>0
    <3>2. v[0] = {m}
      BY <1>10, <3>1
    <3>3. Img(w[0]) = {m}
      BY <1>1, <1>7
    <3> QED BY <3>2, <3>3
  <2>2. ASSUME NEW k \in Nat, k < MaxDepth, k \in A PROVE k + 1 \in A
    <3>1. k + 1 \in 0..MaxDepth /\ k + 1 # 0 /\ (k + 1) - 1 = k /\ k \in 0..MaxDepth
      BY <1>0, <2>2
    <3>2. v[k + 1] = MoreIn(v[k])
      BY <1>10, <3>1
    <3>3. Img(w[k + 1]) = MoreIn(Img(w[k]))
      BY <1>1, <1>5, <1>6, <2>2, <3>1
    <3> QED BY <2>2, <3>2, <3>3
  <2> HIDE DEF A
  <2>3. \A k \in 0..MaxDepth : k \in A
    BY <1>0, <2>1, <2>2, StepByStep
  <2> QED BY <2>3 DEF A
<1>12. Nested(m, LAMBDA h : h.filters) = Img(N)
  <2>1. v[MaxDepth] = Img(w[MaxDepth])
    BY <1>0, <1>11
  <2>2. Img(w[MaxDepth]) = Img(N)
    BY <1>1
  <2> HIDE DEF Layer
  <2> QED BY <1>9, <2>1, <2>2, Zenon
<1> QED BY <1>12 DEF Img, m, N

LEMMA FilterRoundTrip ==
  ASSUME NEW f, IsFilter(f)
  PROVE  filter_from_pb(filter_to_pb(f)) = Some(f)
<1> DEFINE N == Nested(f, LAMBDA h : h.subs)
<1>1. PICK M, rank : Encodes(N, M) /\ RanksIn(N, rank) /\ filter_to_pb(f) = M[f]
  BY FilterEncodes
<1>2. ProperFilters(N)
  BY DEF IsFilter, ProperFilters
<1>3. f \in N
  BY NestedAround
<1> DEFINE m == M[f]
           I == Nested(m, LAMBDA h : h.filters)
<1>4. I = {M[g] : g \in N}
  <2>1. \A g \in N : \A i \in DOMAIN g.subs : g.subs[i] \in N
    BY <1>1 DEF RanksIn
  <2> QED BY <1>1, <2>1, MessagesInside
<1>5. filter_from_pb(m) = (CHOOSE D : Decodes(I, D))[m]
  BY DEF filter_from_pb, Decodes, FilterIn
<1> HIDE DEF N, I
<1>6. \E D : Decodes(I, D)
  <2> DEFINE pick(n) == CHOOSE g \in N : M[g] = n
             D == [n \in I |-> Some(pick(n))]
  <2>1. \A g \in N : pick(M[g]) = g
    BY <1>1, <1>2, MessagesDiffer
  <2> HIDE DEF pick
  <2>2. \A g \in N : M[g] \in I /\ D[M[g]] = Some(g)
    BY <1>4, <2>1
  <2>3. DOMAIN D = I /\ D = [n \in I |-> D[n]]
    OBVIOUS
  <2> HIDE DEF D
  <2>4. ASSUME NEW n \in I PROVE D[n] = FilterIn(n, D)
    <3>1. PICK g \in N : n = M[g]
      BY <1>4
    <3>2. \A i \in DOMAIN g.subs : D[M[g.subs[i]]] = Some(g.subs[i])
      BY <1>1, <2>2 DEF RanksIn
    <3>3. FilterIn(M[g], D) = Some(g)
      BY <1>1, <1>2, <3>2, FilterInverts
    <3> QED BY <2>2, <3>1, <3>3
  <2>5. D = [n \in I |-> FilterIn(n, D)]
    BY <2>3, <2>4
  <2> QED BY <2>5 DEF Decodes
<1>7. PICK D : Decodes(I, D) /\ filter_from_pb(m) = D[m]
  BY <1>5, <1>6
<1>8. \A g \in N : D[M[g]] = Some(g)
  <2> DEFINE A == {n \in Nat : \A g \in N : rank[g] = n => D[M[g]] = Some(g)}
  <2>1. ASSUME NEW n \in Nat, \A k \in Nat : k < n => k \in A PROVE n \in A
    <3> SUFFICES ASSUME NEW g \in N, rank[g] = n PROVE D[M[g]] = Some(g)
      OBVIOUS
    <3>1. ASSUME NEW i \in DOMAIN g.subs PROVE D[M[g.subs[i]]] = Some(g.subs[i])
      <4>1. g.subs[i] \in N /\ rank[g.subs[i]] < n
        BY <1>1 DEF RanksIn
      <4>2. rank[g.subs[i]] \in Nat
        BY <1>1, <4>1, BoundTypes DEF RanksIn
      <4>3. rank[g.subs[i]] \in A
        BY <2>1, <4>1, <4>2
      <4> QED BY <4>1, <4>3
    <3>2. FilterIn(M[g], D) = Some(g)
      BY <1>1, <1>2, <3>1, FilterInverts
    <3>3. M[g] \in I
      BY <1>4
    <3>4. D[M[g]] = FilterIn(M[g], D)
      BY <1>7, <3>3 DEF Decodes
    <3> QED BY <3>2, <3>4
  <2>2. \A n \in Nat : n \in A
    <3> HIDE DEF A
    <3> QED BY <2>1, Induction
  <2>3. \A g \in N : rank[g] \in Nat
    BY <1>1, BoundTypes DEF RanksIn
  <2> QED BY <2>2, <2>3
<1> QED BY <1>1, <1>3, <1>7, <1>8

-----------------------------------------------------------------------------
(* Every method, through the messages and in the process *)

Sent(op, reply) == [op |-> op, code |-> reply.code, body |-> reply.body]

\* For most methods the client hands on the body that it gets.
LEMMA AgreesPlainly ==
  ASSUME NEW op, op \notin {"list", "describe", "search", "search_hybrid"}, NEW reply,
         Embedded.code = reply.code,
         reply.code = "OK" => reply.cols = Embedded.cols /\ reply.body = Embedded.body
  PROVE  AsEmbedded(Sent(op, reply), reply.cols)
<1> DEFINE a == Sent(op, reply)
<1>1. a.op = op /\ a.code = reply.code /\ a.body = reply.body
  BY DEF Sent
<1> HIDE DEF a
<1>2. CASE reply.code # "OK"
  BY <1>1, <1>2 DEF AsEmbedded, a
<1>3. CASE reply.code = "OK"
  <2>1. Decoded(a) = [op |-> op, code |-> "OK", value |-> reply.body]
    BY <1>1, <1>3, Given DEF Decoded
  <2>2. Decoded(a).code = "OK" /\ Decoded(a).value = reply.body
    BY <2>1
  <2> QED BY <1>1, <1>3, <2>2 DEF AsEmbedded, a
<1> QED BY <1>2, <1>3

\* The other methods decode the body.
LEMMA AgreesDecoded ==
  ASSUME NEW op, NEW reply, reply.code = "OK", Embedded.code = "OK", reply.cols = Embedded.cols,
         \/ op \in {"search", "search_hybrid"} /\ hits_from_pb(reply.body) = Some(Embedded.body)
         \/ op = "describe" /\ collection_info_to_view(reply.body[1]) = Some(Embedded.body)
         \/ op = "list" /\ Collect(Map(reply.body, collection_info_to_view)) = Some(Embedded.body)
  PROVE  AsEmbedded(Sent(op, reply), reply.cols)
<1> DEFINE a == Sent(op, reply)
           b == Embedded.body
<1>1. a.op = op /\ a.code = "OK" /\ a.body = reply.body
  BY DEF Sent
<1> HIDE DEF a, b
<1>2. Decoded(a) = [op |-> op, code |-> "OK", value |-> b]
  <2>1. CASE op \in {"search", "search_hybrid"} /\ hits_from_pb(reply.body) = Some(b)
    BY <1>1, <2>1, Given DEF Decoded
  <2>2. CASE op = "describe" /\ collection_info_to_view(reply.body[1]) = Some(b)
    BY <1>1, <2>2, Given DEF Decoded
  <2>3. CASE op = "list" /\ Collect(Map(reply.body, collection_info_to_view)) = Some(b)
    BY <1>1, <2>3, Given DEF Decoded
  <2> QED BY <2>1, <2>2, <2>3 DEF b
<1>3. Decoded(a).code = "OK" /\ Decoded(a).value = b
  BY <1>2
<1> QED BY <1>1, <1>3 DEF AsEmbedded, a, b

LEMMA AgreesRefused ==
  ASSUME NEW op, NEW reply, reply.code # "OK", NotOnTheWire \/ Embedded.code = reply.code
  PROVE  AsEmbedded(Sent(op, reply), reply.cols)
<1>1. Sent(op, reply).code = reply.code
  BY DEF Sent
<1> QED BY <1>1 DEF AsEmbedded

LEMMA EnumsRoundTrip ==
  /\ \A metric \in Metrics : metric_from_pb(metric_to_pb(metric)) = Some(metric)
  /\ \A t \in DOMAIN IndexTypeNumber : index_type_from_pb(index_type_to_pb(t)) = Some(t)
<1>1. ASSUME NEW metric \in Metrics PROVE metric_from_pb(metric_to_pb(metric)) = Some(metric)
  <2>1. \A x \in Metrics : MetricNumber[x] = MetricNumber[metric] => x = metric
    BY DEF Metrics, MetricNumber
  <2>2. (CHOOSE x \in Metrics : MetricNumber[x] = MetricNumber[metric]) = metric
    BY <2>1
  <2>3. MetricNumber[metric] \in Range(MetricNumber)
    BY DEF Range, Metrics, MetricNumber
  <2> QED BY <2>2, <2>3 DEF metric_from_pb, metric_to_pb
<1>2. ASSUME NEW t \in DOMAIN IndexTypeNumber
      PROVE  index_type_from_pb(index_type_to_pb(t)) = Some(t)
  <2>1. \A x \in DOMAIN IndexTypeNumber : IndexTypeNumber[x] = IndexTypeNumber[t] => x = t
    BY DEF IndexTypeNumber
  <2>2. (CHOOSE x \in DOMAIN IndexTypeNumber : IndexTypeNumber[x] = IndexTypeNumber[t]) = t
    BY <2>1
  <2>3. IndexTypeNumber[t] \in Range(IndexTypeNumber)
    BY DEF Range
  <2> QED BY <2>2, <2>3 DEF index_type_from_pb, index_type_to_pb
<1> QED BY <1>1, <1>2

LEMMA ConfigRoundTrip ==
  /\ hnsw_config_from_pb(None) = Some(DefaultConfig)
  /\ \A c : IsConfig(c) => hnsw_config_from_pb(Some([key \in DOMAIN c |-> Some(c[key])])) = Some(c)
<1>1. hnsw_config_from_pb(None) = Some(DefaultConfig)
  <2> DEFINE a == positive_or_default(Unset.m, DefaultConfig.m)
             b == positive_or_default(Unset.ef_construction, DefaultConfig.ef_construction)
             d == positive_or_default(Unset.ef_search, DefaultConfig.ef_search)
             s == IF Unset.seed = None THEN DefaultConfig.seed ELSE Unset.seed[1]
             config == [m |-> a[1], ef_construction |-> b[1], ef_search |-> d[1], seed |-> s]
  <2>1. hnsw_config_from_pb(None) = IF AnyNone(<<a, b, d>>) THEN None
                                    ELSE IF ValidConfig(config) THEN Some(config) ELSE None
    BY DEF hnsw_config_from_pb
  <2>2. a = Some(16) /\ b = Some(200) /\ d = Some(64) /\ s = 42
    BY DEF Unset, DefaultConfig, positive_or_default
  <2> HIDE DEF a, b, d, s
  <2>3. ~AnyNone(<<a, b, d>>) /\ a[1] = 16 /\ b[1] = 200 /\ d[1] = 64
    <3>1. a # None /\ b # None /\ d # None
      BY <2>2, Given
    <3>2. ~AnyNone(<<a, b, d>>)
      BY <3>1 DEF AnyNone
    <3> QED BY <2>2, <3>2, Given
  <2>4. config = DefaultConfig
    BY <2>2, <2>3 DEF DefaultConfig
  <2>5. ValidConfig(DefaultConfig)
    BY DEF ValidConfig, DefaultConfig
  <2> HIDE DEF config
  <2> QED BY <2>1, <2>3, <2>4, <2>5
<1>2. ASSUME NEW c, IsConfig(c)
      PROVE  hnsw_config_from_pb(Some([key \in DOMAIN c |-> Some(c[key])])) = Some(c)
  <2> DEFINE p == [key \in DOMAIN c |-> Some(c[key])]
             a == positive_or_default(p.m, DefaultConfig.m)
             b == positive_or_default(p.ef_construction, DefaultConfig.ef_construction)
             d == positive_or_default(p.ef_search, DefaultConfig.ef_search)
             s == IF p.seed = None THEN DefaultConfig.seed ELSE p.seed[1]
             config == [m |-> a[1], ef_construction |-> b[1], ef_search |-> d[1], seed |-> s]
  <2>0. Some(p) # None /\ Some(p)[1] = p
    BY Given
  <2>1. hnsw_config_from_pb(Some(p)) = IF AnyNone(<<a, b, d>>) THEN None
                                       ELSE IF ValidConfig(config) THEN Some(config) ELSE None
    <3> HIDE DEF p
    <3> QED BY <2>0 DEF hnsw_config_from_pb
  <2>2. /\ DOMAIN c = {"m", "ef_construction", "ef_search", "seed"} /\ c = [key \in DOMAIN c |-> c[key]]
        /\ c.m \in Nat /\ c.ef_construction \in Nat /\ c.ef_search \in Nat /\ ValidConfig(c)
    BY <1>2 DEF IsConfig, DefaultConfig
  <2>3. /\ p.m = Some(c.m) /\ p.ef_construction = Some(c.ef_construction)
        /\ p.ef_search = Some(c.ef_search) /\ p.seed = Some(c.seed)
    BY <2>2
  <2> HIDE DEF p
  <2>4. a = Some(c.m) /\ b = Some(c.ef_construction) /\ d = Some(c.ef_search) /\ s = c.seed
    BY <2>2, <2>3, Given DEF positive_or_default, ValidConfig
  <2> HIDE DEF a, b, d, s
  <2>5. /\ ~AnyNone(<<a, b, d>>)
        /\ a[1] = c.m /\ b[1] = c.ef_construction /\ d[1] = c.ef_search
    <3>1. a # None /\ b # None /\ d # None
      BY <2>4, Given
    <3>2. ~AnyNone(<<a, b, d>>)
      BY <3>1 DEF AnyNone
    <3> QED BY <2>4, <3>2, Given
  <2>6. config = c
    <3>1. config = [m |-> c.m, ef_construction |-> c.ef_construction, ef_search |-> c.ef_search,
                    seed |-> c.seed]
      BY <2>4, <2>5
    <3>2. [m |-> c.m, ef_construction |-> c.ef_construction, ef_search |-> c.ef_search,
                    seed |-> c.seed] = c
      BY <2>2
    <3> QED BY <3>1, <3>2
  <2> HIDE DEF config
  <2> QED BY <2>1, <2>2, <2>5, <2>6 DEF p
<1> QED BY <1>1, <1>2

\* Parameters count only for an HNSW index, and are the defaults when there are none.
LEMMA CreateAgrees ==
  ASSUME call.op = "create", IsSpec(call.arg), NEW m, create_request(call.arg) = Some(m)
  PROVE  AsEmbedded(Sent("create", create_collection(m)), create_collection(m).cols)
<1> DEFINE spec == call.arg
           params(c) == [key \in DOMAIN c |-> Some(c[key])]
           metric == metric_from_pb(m.metric)
           index_type == index_type_from_pb(m.index_type)
           hnsw == params_of(index_type, m.hnsw_params)
           meta == [name |-> m.name, metric |-> metric[1], dimension |-> m.dimension,
                    index_type |-> index_type[1], hnsw |-> hnsw[1]]
           resolved == IF spec.index_type = "Flat" THEN None
                       ELSE IF spec.hnsw = None THEN Some(DefaultConfig) ELSE spec.hnsw
           o == MapOption(spec.hnsw, params)
<1>1. /\ spec = [name |-> spec.name, metric |-> spec.metric, dimension |-> spec.dimension,
                 index_type |-> spec.index_type, hnsw |-> spec.hnsw]
      /\ spec.metric \in Metrics /\ spec.index_type \in DOMAIN IndexTypeNumber
      /\ spec.dimension \in Nat \ {0}
      /\ IsOption(spec.hnsw) /\ (spec.hnsw # None => IsConfig(spec.hnsw[1]))
  BY DEF IsSpec
<1>2. m = [name |-> spec.name, metric |-> metric_to_pb(spec.metric), dimension |-> spec.dimension,
           index_type |-> index_type_to_pb(spec.index_type), hnsw_params |-> o]
  BY Given DEF create_request
<1>3. o = IF spec.hnsw = None THEN None ELSE Some(params(spec.hnsw[1]))
  BY DEF MapOption
<1> HIDE DEF o, params
<1>4. /\ m.name = spec.name /\ m.metric = metric_to_pb(spec.metric)
      /\ m.dimension = spec.dimension /\ m.index_type = index_type_to_pb(spec.index_type)
      /\ m.hnsw_params = o
  BY <1>2
<1>5. metric = Some(spec.metric) /\ index_type = Some(spec.index_type)
  BY <1>1, <1>4, EnumsRoundTrip
<1>6. hnsw = Some(resolved)
  <2>1. (index_type = Some("Hnsw")) <=> (spec.index_type = "Hnsw")
    BY <1>5, Given
  <2>2. spec.index_type \in {"Flat", "Hnsw"}
    BY <1>1 DEF IndexTypeNumber
  <2>3. CASE spec.index_type = "Flat"
    BY <2>1, <2>3 DEF params_of
  <2>4. CASE spec.index_type = "Hnsw" /\ spec.hnsw = None
    BY <1>3, <1>4, <2>1, <2>4, Given, ConfigRoundTrip DEF params_of
  <2>5. CASE spec.index_type = "Hnsw" /\ spec.hnsw # None
    <3>1. hnsw_config_from_pb(m.hnsw_params) = Some(spec.hnsw[1])
      BY <1>1, <1>3, <1>4, <2>5, ConfigRoundTrip DEF params
    <3>2. spec.hnsw = Some(spec.hnsw[1])
      BY <1>1, <2>5 DEF IsOption
    <3> QED BY <2>1, <2>5, <3>1, <3>2, Given DEF params_of
  <2> QED BY <2>2, <2>3, <2>4, <2>5
<1>7. create_collection(m) = IF AnyNone(<<metric, index_type, hnsw>>) \/ m.dimension = 0
                             THEN Refuse("INVALID_ARGUMENT") ELSE registry_create(meta)
  BY DEF create_collection
<1>8. MetaOf(spec) = [name |-> spec.name, metric |-> spec.metric, dimension |-> spec.dimension,
                      index_type |-> spec.index_type, hnsw |-> resolved]
  <2> HIDE DEF spec
  <2> QED BY <1>1 DEF MetaOf
<1> HIDE DEF metric, index_type, hnsw
<1>9. ~AnyNone(<<metric, index_type, hnsw>>) /\ m.dimension # 0
  <2>1. metric # None /\ index_type # None /\ hnsw # None
    BY <1>5, <1>6, Given
  <2> QED BY <1>1, <1>4, <2>1 DEF AnyNone
<1>10. meta = MetaOf(spec)
  BY <1>4, <1>5, <1>6, <1>8, Given
<1>11. create_collection(m) = Embedded
  <2> HIDE DEF meta
  <2> QED BY <1>7, <1>9, <1>10 DEF Embedded
<1> DEFINE reply == create_collection(m)
<1>12. "create" \notin {"list", "describe", "search", "search_hybrid"}
  OBVIOUS
<1> HIDE DEF reply
<1>13. reply = Embedded
  BY <1>11 DEF reply
<1>14. AsEmbedded(Sent("create", reply), reply.cols)
  BY <1>12, <1>13, AgreesPlainly
<1> QED BY <1>14 DEF reply

LEMMA DropAgrees ==
  ASSUME call.op = "drop"
  PROVE  AsEmbedded(Sent("drop", drop_collection(call.name)), drop_collection(call.name).cols)
<1> DEFINE reply == drop_collection(call.name)
<1>1. Embedded = reply
  BY DEF Embedded
<1> HIDE DEF reply
<1>2. AsEmbedded(Sent("drop", reply), reply.cols)
  BY <1>1, AgreesPlainly
<1> QED BY <1>2 DEF reply

\* The description of a collection decodes to its view.
LEMMA InfoRoundTrip ==
  ASSUME NEW col, NEW name, MetaOK(col.meta, name)
  PROVE  collection_info_to_view(info(col)) = Some(View(col))
<1> DEFINE m == info(col)
           n == Cardinality(DOMAIN col.vectors)
           a == metric_from_pb(m.metric)
           b == index_type_from_pb(m.index_type)
<1>1. m = [name |-> col.meta.name, metric |-> metric_to_pb(col.meta.metric),
           dimension |-> col.meta.dimension,
           index_type |-> index_type_to_pb(col.meta.index_type), count |-> n]
  BY DEF info
<1> HIDE DEF n, m
<1>2. /\ m.name = col.meta.name /\ m.metric = metric_to_pb(col.meta.metric)
      /\ m.dimension = col.meta.dimension
      /\ m.index_type = index_type_to_pb(col.meta.index_type) /\ m.count = n
  BY <1>1
<1>3. a = Some(col.meta.metric) /\ b = Some(col.meta.index_type) /\ m.dimension # 0
  BY <1>2, EnumsRoundTrip DEF MetaOK
<1>4. collection_info_to_view(m) =
         IF AnyNone(<<a, b>>) \/ m.dimension = 0 THEN None
         ELSE Some([name |-> m.name, metric |-> a[1], dimension |-> m.dimension,
                    index_type |-> b[1], count |-> m.count])
  BY DEF collection_info_to_view
<1> HIDE DEF a, b
<1>5. a # None /\ b # None /\ a[1] = col.meta.metric /\ b[1] = col.meta.index_type
  BY <1>3, Given
<1>6. ~AnyNone(<<a, b>>)
  BY <1>5 DEF AnyNone
<1>7. View(col) = [name |-> col.meta.name, metric |-> col.meta.metric,
                   dimension |-> col.meta.dimension, index_type |-> col.meta.index_type,
                   count |-> n]
  BY DEF View, n
<1> QED BY <1>2, <1>3, <1>4, <1>5, <1>6, <1>7 DEF m

LEMMA ListAgrees ==
  ASSUME Registry(cols), call.op = "list"
  PROVE  AsEmbedded(Sent("list", list_collections), list_collections.cols)
<1> DEFINE reply == list_collections
           b == Map(cols, info)
           v == Map(cols, View)
           u == Map(b, collection_info_to_view)
<1>1. reply = Reply(cols, b) /\ Embedded = Reply(cols, v)
  BY DEF list_collections, Embedded
<1>2. /\ DOMAIN b = DOMAIN cols /\ DOMAIN v = DOMAIN cols /\ v = [n \in DOMAIN cols |-> v[n]]
      /\ \A n \in DOMAIN cols : b[n] = info(cols[n]) /\ v[n] = View(cols[n])
  BY DEF Map
<1> HIDE DEF b, v
<1>3. DOMAIN u = DOMAIN cols /\ \A n \in DOMAIN cols : u[n] = collection_info_to_view(b[n])
  BY <1>2 DEF Map
<1> HIDE DEF reply
<1>4. /\ reply.code = "OK" /\ Embedded.code = "OK" /\ reply.cols = Embedded.cols
      /\ reply.body = b /\ Embedded.body = v
  BY <1>1 DEF Reply
<1> HIDE DEF u
<1>5. \A n \in DOMAIN cols : u[n] = Some(v[n])
  BY ZenonT(40), <1>2, <1>3, InfoRoundTrip DEF Registry
<1>6. Collect(u) = Some(v)
  <2>1. \A n \in DOMAIN u : u[n] # None /\ u[n][1] = v[n]
    BY <1>3, <1>5, Given
  <2>2. [n \in DOMAIN u |-> u[n][1]] = v
    BY <1>2, <1>3, <2>1
  <2> QED BY <2>1, <2>2 DEF Collect, AnyNone
<1>7. Collect(Map(reply.body, collection_info_to_view)) = Some(Embedded.body)
  BY <1>4, <1>6 DEF u
<1>8. AsEmbedded(Sent("list", reply), reply.cols)
  BY <1>4, <1>7, AgreesDecoded
<1> QED BY <1>8 DEF reply

\* A call on one collection, in the process.
LEMMA EmbeddedOn ==
  ASSUME call.op \notin {"create", "drop", "list"}
  PROVE  LET r == OnCollection(call.op, cols[call.name], call.arg) IN
         Embedded = IF call.name \notin DOMAIN cols THEN Refuse("NOT_FOUND")
                    ELSE Update(call.name, r, r.value)
BY DEF Embedded

\* Without the collection both sides refuse.
LEMMA AgreesNotFound ==
  ASSUME call.op \notin {"create", "drop", "list"}, call.name \notin DOMAIN cols,
         NEW reply, reply = Refuse("NOT_FOUND")
  PROVE  AsEmbedded(Sent(call.op, reply), reply.cols)
<1>1. Embedded = reply
  BY EmbeddedOn
<1>2. reply.code = "NOT_FOUND"
  BY DEF Refuse
<1> QED BY <1>1, <1>2, AgreesRefused

LEMMA DescribeAgrees ==
  ASSUME Registry(cols), call.op = "describe"
  PROVE  LET reply == describe_collection(call.name) IN
         AsEmbedded(Sent("describe", reply), reply.cols)
<1> DEFINE reply == describe_collection(call.name)
           name == call.name
<1>1. CASE name \notin DOMAIN cols
  <2>1. reply = Refuse("NOT_FOUND")
    BY <1>1 DEF describe_collection
  <2> HIDE DEF reply
  <2> QED BY <1>1, <2>1, AgreesNotFound DEF reply
<1>2. CASE name \in DOMAIN cols
  <2> DEFINE col == cols[name]
             v == View(col)
             x == info(col)
  <2>1. reply = Reply(cols, Some(x))
    BY <1>2 DEF describe_collection
  <2>2. Embedded = Update(name, Done(col, v), v)
    <3>1. OnCollection("describe", col, call.arg) = Done(col, v)
      BY DEF OnCollection
    <3>2. Done(col, v).value = v
      BY DEF Done
    <3> HIDE DEF v
    <3> QED BY <1>2, <3>1, <3>2, EmbeddedOn
  <2>3. collection_info_to_view(x) = Some(v)
    BY <1>2, InfoRoundTrip DEF Registry
  <2>4. [cols EXCEPT ![name] = col] = cols
    BY <1>2 DEF Registry
  <2> HIDE DEF reply, v, x
  <2>5. reply.code = "OK" /\ reply.cols = cols /\ reply.body[1] = x
    BY <2>1, Given DEF Reply
  <2>6. Embedded.code = "OK" /\ Embedded.cols = cols /\ Embedded.body = v
    BY <2>2, <2>4 DEF Update, Done
  <2>7. AsEmbedded(Sent("describe", reply), reply.cols)
    BY <2>3, <2>5, <2>6, AgreesDecoded
  <2> QED BY <2>7 DEF reply
<1> QED BY <1>1, <1>2

LEMMA CompactAgrees ==
  ASSUME Registry(cols), call.op = "compact"
  PROVE  LET reply == Compact(call.name) IN AsEmbedded(Sent("compact", reply), reply.cols)
<1> DEFINE reply == Compact(call.name)
           name == call.name
           col == cols[name]
<1>1. CASE name \notin DOMAIN cols
  <2>1. reply = Refuse("NOT_FOUND")
    BY <1>1 DEF Compact
  <2> HIDE DEF reply
  <2> QED BY <1>1, <2>1, AgreesNotFound DEF reply
<1>2. CASE name \in DOMAIN cols
  <2>1. reply = Reply(cols, None)
    BY <1>2 DEF Compact
  <2>2. Embedded = Update(name, Done(col, None), None)
    <3>1. OnCollection("compact", col, call.arg) = Done(col, None)
      BY DEF OnCollection
    <3>2. Done(col, None).value = None
      BY DEF Done
    <3> QED BY <1>2, <3>1, <3>2, EmbeddedOn
  <2>3. [cols EXCEPT ![name] = col] = cols
    BY <1>2 DEF Registry
  <2> HIDE DEF reply
  <2>4. reply.code = "OK" /\ reply.cols = cols /\ reply.body = None
    BY <2>1 DEF Reply
  <2>5. Embedded.code = "OK" /\ Embedded.cols = cols /\ Embedded.body = None
    BY <2>2, <2>3 DEF Update, Done
  <2>6. AsEmbedded(Sent("compact", reply), reply.cols)
    BY <2>4, <2>5, AgreesPlainly
  <2> QED BY <2>6 DEF reply
<1> QED BY <1>1, <1>2

\* A handler that passes on what the operation gives, with the body that it returns.
LEMMA AgreesUpdated ==
  ASSUME call.op \notin {"create", "drop", "list", "describe", "search", "search_hybrid"},
         call.name \in DOMAIN cols,
         NEW r, r = OnCollection(call.op, cols[call.name], call.arg),
         NEW reply, reply.code = r.code,
         r.code = "OK" => reply.cols = [cols EXCEPT ![call.name] = r.col] /\ reply.body = r.value
  PROVE  AsEmbedded(Sent(call.op, reply), reply.cols)
<1> DEFINE value == r.value
<1>1. Embedded = Update(call.name, r, value)
  BY EmbeddedOn
<1>2. /\ Embedded.code = r.code /\ Embedded.cols = [cols EXCEPT ![call.name] = r.col]
      /\ r.code = "OK" => Embedded.body = value
  <2> HIDE DEF value
  <2> QED BY <1>1 DEF Update
<1> QED BY <1>2, AgreesPlainly

LEMMA DeleteAgrees ==
  ASSUME call.op = "delete", NEW m, m = [collection |-> call.name, id |-> vector_id_to_pb(call.arg)]
  PROVE  AsEmbedded(Sent("delete", Delete(m)), Delete(m).cols)
<1> DEFINE reply == Delete(m)
           name == call.name
           id == vector_id_from_pb(m.id)
           r == delete(cols[name], call.arg)
<1>1. m.collection = name /\ id = Some(call.arg)
  <2>1. m.collection = name /\ m.id = [len |-> ID_LENGTH, n |-> call.arg]
    BY DEF vector_id_to_pb
  <2>2. m.id.len = ID_LENGTH /\ m.id.n = call.arg
    BY <2>1
  <2> QED BY <2>1, <2>2 DEF vector_id_from_pb
<1>2. reply = IF name \notin DOMAIN cols THEN Refuse("NOT_FOUND") ELSE Update(name, r, r.value)
  <2> HIDE DEF id
  <2>1. id # None /\ id[1] = call.arg
    BY <1>1, Given
  <2> QED BY <1>1, <2>1 DEF Delete, id
<1>3. r = OnCollection("delete", cols[name], call.arg)
  BY DEF OnCollection
<1> HIDE DEF reply, r
<1>4. CASE name \notin DOMAIN cols
  BY <1>2, <1>4, AgreesNotFound DEF reply
<1>5. CASE name \in DOMAIN cols
  <2> DEFINE value == r.value
  <2>1. reply = Update(name, r, value)
    BY <1>2, <1>5
  <2> HIDE DEF value
  <2>2. /\ reply.code = r.code /\ reply.cols = [cols EXCEPT ![name] = r.col]
        /\ r.code = "OK" => reply.body = value
    BY <2>1 DEF Update
  <2>3. AsEmbedded(Sent("delete", reply), reply.cols)
    BY <1>3, <1>5, <2>2, AgreesUpdated DEF value
  <2> QED BY <2>3 DEF reply
<1> QED BY <1>4, <1>5

LEMMA DeleteByFilterAgrees ==
  ASSUME call.op = "delete_by_filter", IsFilter(call.arg),
         NEW m, m = delete_by_filter_to_pb(call.name, call.arg)
  PROVE  AsEmbedded(Sent("delete_by_filter", DeleteByFilter(m)), DeleteByFilter(m).cols)
<1> DEFINE reply == DeleteByFilter(m)
           name == call.name
           f == call.arg
           filter == delete_by_filter_from_pb(m)
           r == delete_by_filter(cols[name], f)
<1>1. m.collection = name /\ filter = Some(f)
  <2> DEFINE x == filter_to_pb(f)
  <2>1. filter_from_pb(x) = Some(f)
    BY FilterRoundTrip
  <2>2. m = [collection |-> name, filter |-> Some(x)]
    BY DEF delete_by_filter_to_pb
  <2> HIDE DEF x
  <2>3. m.collection = name /\ m.filter # None /\ m.filter[1] = x
    BY <2>2, Given
  <2> QED BY <2>1, <2>3 DEF delete_by_filter_from_pb
<1>2. reply = IF name \notin DOMAIN cols THEN Refuse("NOT_FOUND") ELSE Update(name, r, r.value)
  <2> HIDE DEF filter, f
  <2>1. filter # None /\ filter[1] = f
    BY <1>1, Given
  <2> QED BY <1>1, <2>1 DEF DeleteByFilter, filter
<1>3. r = OnCollection("delete_by_filter", cols[name], f)
  BY DEF OnCollection
<1> HIDE DEF reply, r
<1>4. CASE name \notin DOMAIN cols
  BY <1>2, <1>4, AgreesNotFound DEF reply
<1>5. CASE name \in DOMAIN cols
  <2> DEFINE value == r.value
  <2>1. reply = Update(name, r, value)
    BY <1>2, <1>5
  <2> HIDE DEF value
  <2>2. /\ reply.code = r.code /\ reply.cols = [cols EXCEPT ![name] = r.col]
        /\ r.code = "OK" => reply.body = value
    BY <2>1 DEF Update
  <2>3. AsEmbedded(Sent("delete_by_filter", reply), reply.cols)
    BY <1>3, <1>5, <2>2, AgreesUpdated DEF value
  <2> QED BY <2>3 DEF reply
<1> QED BY <1>4, <1>5

\* Both refuse a vector of another length, the handler before it takes the write guard.
LEMMA UpsertAgrees ==
  ASSUME call.op = "upsert", ValidPoint(call.arg),
         NEW m, m = [collection |-> call.name, point |-> Some(point_to_pb(call.arg))]
  PROVE  AsEmbedded(Sent("upsert", Upsert(m)), Upsert(m).cols)
<1> DEFINE reply == Upsert(m)
           name == call.name
           p == call.arg
           x == point_to_pb(p)
           col == cols[name]
           r == upsert(col, p)
<1>1. point_from_pb(x) = Some(p) /\ x.vector = p.embedding
  BY PointRoundTrip
<1>2. m.collection = name /\ m.point # None /\ m.point[1] = x
  <2> HIDE DEF x
  <2> QED BY Given DEF x
<1> HIDE DEF x
<1>3. reply = IF name \notin DOMAIN cols THEN Refuse("NOT_FOUND")
              ELSE IF p.embedding.len # col.meta.dimension THEN Refuse("INVALID_ARGUMENT")
              ELSE Update(name, r, None)
  <2> HIDE DEF p
  <2>1. point_from_pb(m.point[1]) # None /\ point_from_pb(m.point[1])[1] = p
    BY <1>1, <1>2, Given
  <2>2. m.point[1].vector.len = p.embedding.len
    BY <1>1, <1>2
  <2> QED BY <1>2, <2>1, <2>2 DEF Upsert
<1>4. r = OnCollection("upsert", col, p)
  BY DEF OnCollection
<1>5. CASE name \notin DOMAIN cols
  <2> HIDE DEF reply
  <2> QED BY <1>3, <1>5, AgreesNotFound DEF reply
<1>6. CASE name \in DOMAIN cols /\ p.embedding.len # col.meta.dimension
  <2>1. r.code = "INVALID_ARGUMENT"
    BY <1>6 DEF upsert, Failed
  <2>2. reply.code = "INVALID_ARGUMENT"
    BY <1>3, <1>6 DEF Refuse
  <2> HIDE DEF r, reply
  <2>3. AsEmbedded(Sent("upsert", reply), reply.cols)
    BY <1>4, <1>6, <2>1, <2>2, AgreesUpdated
  <2> QED BY <2>3 DEF reply
<1>7. CASE name \in DOMAIN cols /\ p.embedding.len = col.meta.dimension
  <2>1. r.code = "OK" /\ r.value = None
    BY <1>7 DEF upsert, Done
  <2>0. reply = Update(name, r, None)
    BY <1>3, <1>7
  <2> HIDE DEF r, reply
  <2>2. reply.code = "OK" /\ reply.cols = [cols EXCEPT ![name] = r.col] /\ reply.body = None
    BY <2>0, <2>1 DEF Update
  <2>3. AsEmbedded(Sent("upsert", reply), reply.cols)
    BY <1>4, <1>7, <2>1, <2>2, AgreesUpdated
  <2> QED BY <2>3 DEF reply
<1> QED BY <1>5, <1>6, <1>7

\* A batch with a point of another dimension is refused, at the first of them.
LEMMA UpsertAllRefuses ==
  ASSUME NEW col, Sane(col), NEW points, IsList(points),
         \A i \in DOMAIN points : ValidPoint(points[i]),
         ~ensure_dimension(points, col.meta.dimension)
  PROVE  \E c : UpsertAll(col, points) = Failed(c, "INVALID_ARGUMENT")
<1> DEFINE N == Len(points)
           fits(i) == points[i].embedding.len = col.meta.dimension
<1>1. N \in Nat /\ DOMAIN points = 1..N
  BY ListFacts
<1>2. PICK w : /\ UpsertAll(col, points) = w[N]
               /\ w[0] = Done(col, None)
               /\ \A k \in Nat : k < N => w[k + 1] = UpsertNext(w[k], points[k + 1])
  BY <1>1, UpsertAllLoop
<1> DEFINE Good(k) == /\ w[k].code = "OK" /\ Sane(w[k].col) /\ w[k].col.meta = col.meta
                      /\ \A i \in 1..k : fits(i)
           Bad(k) == \E c : w[k] = Failed(c, "INVALID_ARGUMENT")
           A == {k \in Nat : Good(k) \/ Bad(k)}
<1>3. 0 \in A
  BY <1>2 DEF Done
<1>4. ASSUME NEW k \in Nat, k < N, k \in A PROVE k + 1 \in A
  <2> DEFINE p == points[k + 1]
             c == w[k].col
  <2>1. k + 1 \in DOMAIN points /\ ValidPoint(p)
    BY <1>1, <1>4
  <2>2. CASE Bad(k)
    <3>1. w[k].code # "OK"
      BY <2>2 DEF Failed
    <3>2. w[k + 1] = w[k]
      BY <1>2, <1>4, <3>1 DEF UpsertNext
    <3> QED BY <2>2, <3>2
  <2>3. CASE Good(k)
    <3>1. w[k + 1] = upsert(c, p)
      BY <1>2, <1>4, <2>3 DEF UpsertNext
    <3>2. Sane(c) /\ c.meta = col.meta
      BY <2>3
    <3>3. CASE ~fits(k + 1)
      <4>1. \E d : upsert(c, p) = Failed(d, "INVALID_ARGUMENT")
        BY <3>2, <3>3 DEF upsert
      <4> QED BY <3>1, <4>1
    <3>4. CASE fits(k + 1)
      <4>1. p.embedding.len = c.meta.dimension
        BY <3>2, <3>4
      <4> HIDE DEF p, c
      <4>2. upsert(c, p).code = "OK" /\ Sane(upsert(c, p).col) /\ upsert(c, p).col.meta = c.meta
        BY <2>1, <3>2, <4>1, UpsertKeeps
      <4>3. \A i \in 1..k + 1 : i \in 1..k \/ i = k + 1
        OBVIOUS
      <4>4. Good(k + 1)
        <5> HIDE DEF fits
        <5> QED BY <2>3, <3>1, <3>2, <3>4, <4>2, <4>3
      <4> QED BY <4>4
    <3> QED BY <3>3, <3>4
  <2> QED BY <1>4, <2>2, <2>3
<1>5. Good(N) \/ Bad(N)
  <2> HIDE DEF A
  <2>1. \A k \in Nat : k < N /\ k \in A => k + 1 \in A
    BY <1>4
  <2> HIDE DEF N
  <2>2. \A k \in 0..N : k \in A
    BY <1>1, <1>3, <2>1, StepByStep
  <2>3. N \in A
    BY <1>1, <2>2
  <2> QED BY <2>3 DEF A
<1>6. ~Good(N)
  BY <1>1 DEF ensure_dimension
<1> QED BY <1>2, <1>5, <1>6

LEMMA BatchAgrees ==
  ASSUME Registry(cols), call.op = "batch_upsert", IsList(call.arg),
         \A i \in DOMAIN call.arg : ValidPoint(call.arg[i]),
         NEW m, m = BatchMessage(call.name, call.arg)
  PROVE  AsEmbedded(Sent("batch_upsert", batch_upsert(m)), batch_upsert(m).cols)
<1> DEFINE reply == batch_upsert(m)
           name == call.name
           points == call.arg
           col == cols[name]
           batch == point_batch_from_pb(m.batch)
           u == UpsertAll(col, points)
           r == [u EXCEPT !.value = Some(Len(points))]
           fit == ensure_dimension(points, col.meta.dimension)
<1>1. batch = Some([collection |-> name, points |-> points])
  BY BatchRoundTrip
<1>2. batch # None /\ batch[1].collection = name /\ batch[1].points = points
  <2> HIDE DEF batch
  <2>1. batch # None /\ batch[1] = [collection |-> name, points |-> points]
    BY <1>1, Given
  <2> QED BY <2>1
<1>3. reply = IF name \notin DOMAIN cols THEN Refuse("NOT_FOUND")
              ELSE IF ~fit THEN Refuse("INVALID_ARGUMENT")
              ELSE Update(name, u, Some(Len(points)))
  <2> HIDE DEF points
  <2> QED BY <1>2 DEF batch_upsert
<1>4. r = OnCollection("batch_upsert", col, points)
  BY DEF OnCollection
<1> HIDE DEF batch
<1>5. CASE name \notin DOMAIN cols
  <2> HIDE DEF reply
  <2> QED BY <1>3, <1>5, AgreesNotFound DEF reply
<1>6. CASE name \in DOMAIN cols /\ ~fit
  <2>1. PICK c : u = Failed(c, "INVALID_ARGUMENT")
    <3> DEFINE d == col
    <3>1. Sane(d) /\ ~ensure_dimension(points, d.meta.dimension)
      BY <1>6 DEF Registry
    <3> HIDE DEF d
    <3>2. \E c : UpsertAll(d, points) = Failed(c, "INVALID_ARGUMENT")
      BY <3>1, UpsertAllRefuses
    <3> QED BY <3>2 DEF d
  <2> HIDE DEF u
  <2>2. r.code = "INVALID_ARGUMENT"
    BY <2>1 DEF Failed
  <2>3. reply.code = "INVALID_ARGUMENT"
    BY <1>3, <1>6 DEF Refuse
  <2> HIDE DEF r, reply
  <2>4. AsEmbedded(Sent("batch_upsert", reply), reply.cols)
    BY <1>4, <1>6, <2>2, <2>3, AgreesUpdated
  <2> QED BY <2>4 DEF reply
<1>7. CASE name \in DOMAIN cols /\ fit
  <2>1. u = [code |-> "OK", col |-> u.col, value |-> None]
    <3> DEFINE d == col
    <3>1. /\ Sane(d)
          /\ \A i \in DOMAIN points : ValidPoint(points[i]) /\ points[i].embedding.len = d.meta.dimension
      BY <1>7 DEF Registry, ensure_dimension
    <3> HIDE DEF d
    <3>2. UpsertAll(d, points) = [code |-> "OK", col |-> UpsertAll(d, points).col, value |-> None]
      BY <3>1, UpsertAllKeeps
    <3> QED BY <3>2 DEF d
  <2> DEFINE value == Some(Len(points))
  <2>2. reply = Update(name, u, value)
    BY <1>3, <1>7
  <2> HIDE DEF u, reply
  <2>3. r.code = "OK" /\ r.col = u.col /\ r.value = value
    BY <2>1
  <2> HIDE DEF r, value
  <2>4. u.code = "OK"
    BY <2>1
  <2>5. reply.code = "OK" /\ reply.cols = [cols EXCEPT ![name] = u.col] /\ reply.body = value
    BY <2>2, <2>4 DEF Update
  <2>6. AsEmbedded(Sent("batch_upsert", reply), reply.cols)
    BY <1>4, <1>7, <2>3, <2>5, AgreesUpdated
  <2> QED BY <2>6 DEF reply
<1> QED BY <1>5, <1>6, <1>7

Batches(col, batches, n, w) ==
    w = [k \in 0..n |-> IF k = 0 THEN Done(col, Some(0)) ELSE UpsertBatch(w[k - 1], batches[k])]

LEMMA BatchesExist ==
  ASSUME NEW col, NEW batches
  PROVE  \A n \in Nat : \E w : Batches(col, batches, n, w)
<1> DEFINE A == {n \in Nat : \E w : Batches(col, batches, n, w)}
<1>1. \A n \in Nat : (\A m \in Nat : m < n => m \in A) => n \in A
  <2> SUFFICES ASSUME NEW n \in Nat, \A m \in Nat : m < n => m \in A
               PROVE  \E w : Batches(col, batches, n, w)
    OBVIOUS
  <2>1. CASE n = 0
    <3>1. Batches(col, batches, 0, [k \in 0..0 |-> Done(col, Some(0))])
      BY DEF Batches
    <3> QED BY <2>1, <3>1
  <2>2. CASE n # 0
    <3>1. n - 1 \in Nat /\ n - 1 < n
      BY <2>2
    <3>2. PICK w : Batches(col, batches, n - 1, w)
      BY <3>1
    <3> DEFINE Body(f, k) == IF k = 0 THEN Done(col, Some(0)) ELSE UpsertBatch(f[k - 1], batches[k])
               h == [k \in 0..n |-> Body(w, k)]
    <3>3. \A k \in 0..n - 1 : w[k] = Body(w, k)
      BY <3>1, <3>2 DEF Batches
    <3> HIDE DEF Body
    <3>4. \A k \in 0..n - 1 : h[k] = w[k]
      BY <3>1, <3>3
    <3>5. \A k \in 0..n : k # 0 => k - 1 \in 0..n - 1
      OBVIOUS
    <3> HIDE DEF h
    <3>6. \A k \in 0..n : Body(w, k) = Body(h, k)
      BY <3>4, <3>5 DEF Body
    <3>7. h = [k \in 0..n |-> Body(h, k)]
      BY <3>6 DEF h
    <3>8. Batches(col, batches, n, h)
      BY <3>7 DEF Batches, Body
    <3> QED BY <3>8
  <2> QED BY <2>1, <2>2
<1>2. \A n \in Nat : n \in A
  <2> HIDE DEF A
  <2> QED BY <1>1, Induction
<1> QED BY <1>2

LEMMA BatchesLoop ==
  ASSUME NEW col, NEW batches, Len(batches) \in Nat
  PROVE  \E w : /\ UpsertBatches(col, batches) = w[Len(batches)]
                /\ w[0] = Done(col, Some(0))
                /\ \A k \in Nat : k < Len(batches) => w[k + 1] = UpsertBatch(w[k], batches[k + 1])
<1> DEFINE N == Len(batches)
<1>1. UpsertBatches(col, batches) = (CHOOSE w : Batches(col, batches, N, w))[N]
  BY DEF UpsertBatches, Batches
<1>2. PICK w : Batches(col, batches, N, w) /\ UpsertBatches(col, batches) = w[N]
  BY <1>1, BatchesExist
<1> DEFINE Body(k) == IF k = 0 THEN Done(col, Some(0)) ELSE UpsertBatch(w[k - 1], batches[k])
<1>3. w = [k \in 0..N |-> Body(k)]
  BY <1>2 DEF Batches
<1> HIDE DEF Body
<1>4. \A k \in 0..N : w[k] = Body(k)
  BY <1>3
<1>5. w[0] = Done(col, Some(0))
  BY <1>4 DEF Body
<1>6. ASSUME NEW k \in Nat, k < N PROVE w[k + 1] = UpsertBatch(w[k], batches[k + 1])
  <2>1. k + 1 \in 0..N /\ k + 1 # 0 /\ (k + 1) - 1 = k
    BY <1>6
  <2>2. w[k + 1] = Body(k + 1)
    BY <1>4, <2>1
  <2> QED BY <2>1, <2>2 DEF Body
<1> QED BY <1>2, <1>5, <1>6

\* The chunks of a stream, decoded, are the batches of the argument.
LEMMA StreamAgrees ==
  ASSUME NEW col, Sane(col), NEW name, NEW batches, IsList(batches),
         \A k \in DOMAIN batches :
            IsList(batches[k]) /\ \A i \in DOMAIN batches[k] : ValidPoint(batches[k][i]),
         NEW stream, stream = [i \in DOMAIN batches |-> BatchMessage(name, batches[i])]
  PROVE  LET r == UpsertStream(col, name, stream)
             e == UpsertBatches(col, batches)
         IN  \/ r = e
             \/ r.code = "INVALID_ARGUMENT" /\ e.code = "INVALID_ARGUMENT"
<1> DEFINE N == Len(batches)
<1>1. N \in Nat /\ DOMAIN batches = 1..N
  BY ListFacts
<1>2. Len(stream) = N /\ DOMAIN stream = 1..N
  <2>1. stream = [i \in 1..N |-> stream[i]]
    BY <1>1
  <2> QED BY <1>1, <2>1, ListOf
<1>3. \A k \in 1..N : stream[k] = BatchMessage(name, batches[k])
  BY <1>1
<1>4. PICK w : /\ UpsertStream(col, name, stream) = w[N]
               /\ w[0] = Done(col, Some(0))
               /\ \A k \in Nat : k < N => w[k + 1] = Chunk(w[k], name, stream[k + 1])
  <2>1. Len(stream) \in Nat
    BY <1>1, <1>2
  <2> HIDE DEF N
  <2>2. \E w : StreamRun(col, name, stream, Len(stream), w)
    BY <2>1, StreamLoop
  <2>3. \E w : StreamRun(col, name, stream, N, w)
    BY <1>2, <2>2
  <2> QED BY <2>3 DEF StreamRun
<1>5. PICK v : /\ UpsertBatches(col, batches) = v[N]
               /\ v[0] = Done(col, Some(0))
               /\ \A k \in Nat : k < N => v[k + 1] = UpsertBatch(v[k], batches[k + 1])
  BY <1>1, BatchesLoop
<1> DEFINE Same(k) == /\ w[k] = v[k] /\ Sane(w[k].col) /\ w[k].col.meta = col.meta
                      /\ \E n \in Nat : w[k] = [code |-> "OK", col |-> w[k].col, value |-> Some(n)]
           Bad(k) == w[k].code = "INVALID_ARGUMENT" /\ v[k].code = "INVALID_ARGUMENT"
           A == {k \in Nat : Same(k) \/ Bad(k)}
<1>6. 0 \in A
  <2>1. w[0] = [code |-> "OK", col |-> col, value |-> Some(0)] /\ v[0] = w[0]
    BY <1>4, <1>5 DEF Done
  <2>2. w[0].col = col
    BY <2>1
  <2> QED BY <2>1, <2>2
<1>7. ASSUME NEW k \in Nat, k < N, k \in A PROVE k + 1 \in A
  <2>1. k + 1 \in 1..N
    BY <1>1, <1>7
  <2>2. w[k + 1] = Chunk(w[k], name, stream[k + 1]) /\ v[k + 1] = UpsertBatch(v[k], batches[k + 1])
    BY <1>4, <1>5, <1>7
  <2>3. CASE Bad(k)
    BY <2>2, <2>3 DEF Chunk, UpsertBatch
  <2>4. CASE Same(k)
    <3> DEFINE r == w[k]
               points == batches[k + 1]
               m == stream[k + 1]
               batch == point_batch_from_pb(m.batch)
               u == UpsertAll(r.col, points)
               c == r.col
               fit == ensure_dimension(points, c.meta.dimension)
    <3>1. IsList(points) /\ \A i \in DOMAIN points : ValidPoint(points[i])
      BY <1>1, <2>1
    <3>2. PICK n \in Nat : r = [code |-> "OK", col |-> r.col, value |-> Some(n)]
      BY <2>4
    <3>3. Sane(c) /\ c.meta = col.meta /\ r.code = "OK" /\ v[k] = r
      BY <2>4, <3>2
    <3>4. IsPbBatch(m) /\ batch = Some([collection |-> name, points |-> points])
      <4> DEFINE x == BatchMessage(name, points)
      <4>1. IsPbBatch(x) /\ point_batch_from_pb(x.batch) = Some([collection |-> name, points |-> points])
        <5> HIDE DEF points
        <5> QED BY <3>1, BatchRoundTrip
      <4>2. m = x
        BY <1>3, <2>1
      <4> HIDE DEF x, m
      <4> QED BY <4>1, <4>2
    <3>5. batch # None /\ batch[1].collection = name /\ batch[1].points = points
      <4> HIDE DEF batch
      <4>1. batch # None /\ batch[1] = [collection |-> name, points |-> points]
        BY <3>4, Given
      <4> QED BY <4>1
    <3> DEFINE full == [u EXCEPT !.value = Some(r.value[1] + Len(points))]
    <3>6. Chunk(r, name, m) = IF ~fit THEN Failed(r.col, "INVALID_ARGUMENT") ELSE full
      <4> DEFINE G(ps) == IF ~ensure_dimension(ps, r.col.meta.dimension)
                          THEN Failed(r.col, "INVALID_ARGUMENT")
                          ELSE [UpsertAll(r.col, ps) EXCEPT !.value = Some(r.value[1] + Len(ps))]
      <4>1. Chunk(r, name, m) = G(batch[1].points)
        <5> HIDE DEF r, m
        <5> QED BY <3>3, <3>5 DEF Chunk
      <4>2. G(points) = IF ~fit THEN Failed(r.col, "INVALID_ARGUMENT") ELSE full
        OBVIOUS
      <4> HIDE DEF G, batch
      <4> QED BY <3>5, <4>1, <4>2
    <3>7. UpsertBatch(r, points) = full
      <4> HIDE DEF points
      <4> QED BY <3>3 DEF UpsertBatch
    <3> HIDE DEF batch
    <3>8. CASE ~fit
      <4>1. w[k + 1].code = "INVALID_ARGUMENT"
        BY <2>2, <3>6, <3>8 DEF Failed
      <4>2. PICK d : u = Failed(d, "INVALID_ARGUMENT")
        <5> HIDE DEF c, points
        <5>1. \E d : UpsertAll(c, points) = Failed(d, "INVALID_ARGUMENT")
          BY <3>1, <3>3, <3>8, UpsertAllRefuses
        <5> QED BY <5>1 DEF c
      <4> HIDE DEF u
      <4>3. full.code = "INVALID_ARGUMENT"
        BY <4>2 DEF Failed
      <4> HIDE DEF full
      <4>4. v[k + 1].code = "INVALID_ARGUMENT"
        BY <2>2, <3>3, <3>7, <4>3
      <4> QED BY <4>1, <4>4
    <3>9. CASE fit
      <4>1. Chunk(r, name, m) = UpsertBatch(r, points)
        BY <3>6, <3>7, <3>9
      <4>2. Chunk(r, name, m).code = "OK"
        <5> DEFINE ps == points
        <5>1. /\ Sane(c) /\ IsList(ps)
              /\ \A i \in DOMAIN ps : ValidPoint(ps[i]) /\ ps[i].embedding.len = c.meta.dimension
          BY <3>1, <3>3, <3>9 DEF ensure_dimension
        <5> HIDE DEF ps, c
        <5>2. UpsertAll(c, ps) = [code |-> "OK", col |-> UpsertAll(c, ps).col, value |-> None]
          BY <5>1, UpsertAllKeeps
        <5>3. u = [code |-> "OK", col |-> u.col, value |-> None]
          BY <5>2 DEF c, ps
        <5> HIDE DEF u
        <5>4. full.code = "OK"
          BY <5>3
        <5> HIDE DEF full
        <5> QED BY <3>6, <3>9, <5>4
      <4>3. /\ Sane(Chunk(r, name, m).col) /\ Chunk(r, name, m).col.meta = r.col.meta
            /\ \/ Chunk(r, name, m) = [code |-> "INVALID_ARGUMENT", col |-> r.col, value |-> None]
               \/ \E j \in Nat : Chunk(r, name, m) =
                                   [code |-> "OK", col |-> Chunk(r, name, m).col, value |-> Some(j)]
        <5> HIDE DEF r, m
        <5> QED BY <3>2, <3>3, <3>4, ChunkKeeps DEF c
      <4> DEFINE s == Chunk(r, name, m)
      <4> HIDE DEF s
      <4>4. s # [code |-> "INVALID_ARGUMENT", col |-> r.col, value |-> None]
        BY <4>2 DEF s
      <4>5. /\ Sane(s.col) /\ s.col.meta = col.meta
            /\ \E j \in Nat : s = [code |-> "OK", col |-> s.col, value |-> Some(j)]
        BY <3>3, <4>3, <4>4 DEF s
      <4>6. w[k + 1] = s /\ v[k + 1] = s
        BY <2>2, <3>3, <4>1 DEF s
      <4>7. Same(k + 1)
        BY <4>5, <4>6
      <4> QED BY <4>7
    <3> QED BY <3>8, <3>9
  <2> QED BY <1>7, <2>3, <2>4
<1>8. Same(N) \/ Bad(N)
  <2> HIDE DEF A
  <2>1. \A k \in Nat : k < N /\ k \in A => k + 1 \in A
    BY <1>7
  <2> HIDE DEF N
  <2>2. \A k \in 0..N : k \in A
    BY <1>1, <1>6, <2>1, StepByStep
  <2>3. N \in A
    BY <1>1, <2>2
  <2> QED BY <2>3 DEF A
<1> QED BY <1>4, <1>5, <1>8

LEMMA BulkAgrees ==
  ASSUME Registry(cols), call.op = "bulk_upsert", IsList(call.arg),
         \A k \in DOMAIN call.arg :
            IsList(call.arg[k]) /\ \A i \in DOMAIN call.arg[k] : ValidPoint(call.arg[k][i]),
         NEW m, m = [i \in DOMAIN call.arg |-> BatchMessage(call.name, call.arg[i])]
  PROVE  AsEmbedded(Sent("bulk_upsert", bulk_upsert(m)), bulk_upsert(m).cols)
<1> DEFINE reply == bulk_upsert(m)
           name == call.name
           col == cols[name]
           batches == call.arg
           first == point_batch_from_pb(m[1].batch)
           r == UpsertStream(col, name, m)
           e == UpsertBatches(col, batches)
<1>1. CASE batches = <<>>
  <2>1. m = <<>>
    BY <1>1
  <2>2. reply = Refuse("INVALID_ARGUMENT")
    BY <2>1 DEF bulk_upsert
  <2>3. reply.code # "OK" /\ NotOnTheWire
    BY <1>1, <2>2 DEF Refuse, NotOnTheWire
  <2> HIDE DEF reply
  <2>4. AsEmbedded(Sent("bulk_upsert", reply), reply.cols)
    BY <2>3, AgreesRefused
  <2> QED BY <2>4 DEF reply
<1>2. CASE batches # <<>>
  <2>1. 1 \in DOMAIN batches /\ m # <<>>
    <3> DEFINE R == Range(batches)
    <3>1. batches \in Seq(R)
      BY DEF IsList
    <3> HIDE DEF R, batches
    <3>2. 1 \in DOMAIN batches
      BY <1>2, <3>1
    <3>3. DOMAIN m = DOMAIN batches /\ DOMAIN <<>> = {}
      BY DEF batches
    <3> QED BY <3>2, <3>3
  <2>2. first # None /\ first[1].collection = name
    <3> DEFINE ps == batches[1]
    <3>1. m[1] = BatchMessage(name, ps) /\ IsList(ps) /\ \A i \in DOMAIN ps : ValidPoint(ps[i])
      BY <2>1
    <3> HIDE DEF ps
    <3>2. first = Some([collection |-> name, points |-> ps])
      BY <3>1, BatchRoundTrip
    <3> HIDE DEF first
    <3>3. first # None /\ first[1] = [collection |-> name, points |-> ps]
      BY <3>2, Given
    <3> QED BY <3>3
  <2>3. reply = IF name \notin DOMAIN cols THEN Refuse("NOT_FOUND") ELSE Update(name, r, r.value)
    BY <2>1, <2>2 DEF bulk_upsert
  <2>4. e = OnCollection("bulk_upsert", col, batches)
    BY DEF OnCollection
  <2>5. CASE name \notin DOMAIN cols
    <3> HIDE DEF reply
    <3> QED BY <2>3, <2>5, AgreesNotFound DEF reply
  <2>6. CASE name \in DOMAIN cols
    <3>1. r = e \/ (r.code = "INVALID_ARGUMENT" /\ e.code = "INVALID_ARGUMENT")
      <4> DEFINE c == col
      <4>1. Sane(c)
        BY <2>6 DEF Registry
      <4> HIDE DEF c
      <4>2. \/ UpsertStream(c, name, m) = UpsertBatches(c, batches)
            \/ /\ UpsertStream(c, name, m).code = "INVALID_ARGUMENT"
               /\ UpsertBatches(c, batches).code = "INVALID_ARGUMENT"
        BY <4>1, StreamAgrees
      <4> QED BY <4>2 DEF c
    <3> DEFINE value == r.value
    <3>2. reply = Update(name, r, value)
      BY <2>3, <2>6
    <3> HIDE DEF reply, r, e, value
    <3>3. /\ reply.code = r.code /\ reply.cols = [cols EXCEPT ![name] = r.col]
          /\ r.code = "OK" => reply.body = value
      BY <3>2 DEF Update
    <3>4. reply.code = e.code
      BY <3>1, <3>3
    <3>5. e.code = "OK" => reply.cols = [cols EXCEPT ![name] = e.col] /\ reply.body = e.value
      BY <3>1, <3>3 DEF value
    <3>6. AsEmbedded(Sent("bulk_upsert", reply), reply.cols)
      BY <2>4, <2>6, <3>4, <3>5, AgreesUpdated
    <3> QED BY <3>6 DEF reply
  <2> QED BY <2>5, <2>6
<1> QED BY <1>1, <1>2

LEMMA ChoiceRoundTrip ==
  ASSUME NEW metric, IsChoice(metric)
  PROVE  optional_metric_from_pb(MapOption(metric, metric_to_pb)) = Some(metric)
<1>1. CASE metric = None
  BY <1>1 DEF MapOption, optional_metric_from_pb
<1>2. CASE metric # None
  <2> DEFINE x == metric[1]
             n == metric_to_pb(x)
             o == MapOption(metric, metric_to_pb)
  <2>1. metric = Some(x) /\ x \in Metrics
    BY <1>2 DEF IsChoice, IsOption
  <2>2. o = Some(n)
    BY <1>2 DEF MapOption
  <2>3. n # 0
    BY <2>1 DEF metric_to_pb, MetricNumber, Metrics
  <2>4. metric_from_pb(n) = Some(x)
    BY <2>1, EnumsRoundTrip
  <2> HIDE DEF x, n, o
  <2>5. o \notin {None, Some(0)} /\ o[1] = n
    BY <2>2, <2>3, Given
  <2>6. optional_metric_from_pb(o) = Some(Some(x))
    BY <2>4, <2>5, Given DEF optional_metric_from_pb
  <2> QED BY <2>1, <2>6 DEF o
<1> QED BY <1>1, <1>2

LEMMA OptionalFilterRoundTrip ==
  ASSUME NEW filter, IsOption(filter), filter # None => IsFilter(filter[1])
  PROVE  Transpose(MapOption(filter, filter_to_pb), filter_from_pb) = Some(filter)
<1>1. CASE filter = None
  BY <1>1 DEF MapOption, Transpose
<1>2. CASE filter # None
  <2> DEFINE f == filter[1]
             x == filter_to_pb(f)
             o == MapOption(filter, filter_to_pb)
  <2>1. filter = Some(f) /\ filter_from_pb(x) = Some(f)
    BY <1>2, FilterRoundTrip DEF IsOption
  <2>2. o = Some(x)
    BY <1>2 DEF MapOption
  <2> HIDE DEF f, x, o
  <2>3. o # None /\ o[1] = x
    BY <2>2, Given
  <2>4. Transpose(o, filter_from_pb) = Some(Some(f))
    BY <2>1, <2>3, Given DEF Transpose
  <2> QED BY <2>1, <2>4 DEF o
<1> QED BY <1>1, <1>2

LEMMA QueryRoundTrip ==
  ASSUME NEW q, IsQuery(q), NEW name, NEW m, search_query_to_pb(name, q) = Some(m)
  PROVE  search_query_from_pb(m) = Some(q) /\ m.collection = name
<1> DEFINE c == MapOption(q.metric, metric_to_pb)
           g == MapOption(q.filter, filter_to_pb)
<1>1. /\ optional_metric_from_pb(c) = Some(q.metric)
      /\ Transpose(g, filter_from_pb) = Some(q.filter)
  BY ChoiceRoundTrip, OptionalFilterRoundTrip DEF IsQuery
<1>2. m = [collection |-> name, vector |-> q.embedding, k |-> q.k, metric |-> c, filter |-> g]
  BY Given DEF search_query_to_pb, embedding_to_pb
<1> HIDE DEF c, g
<1>3. /\ m.collection = name /\ m.vector = q.embedding /\ m.k = q.k
      /\ m.metric = c /\ m.filter = g
  BY <1>2
<1> DEFINE embedding == embedding_from_pb(m.vector)
           metric == optional_metric_from_pb(m.metric)
           filter == Transpose(m.filter, filter_from_pb)
<1>4. embedding = Some(q.embedding) /\ metric = Some(q.metric) /\ filter = Some(q.filter)
  BY <1>1, <1>3 DEF embedding_from_pb, IsQuery, ValidVector
<1>5. search_query_from_pb(m) = IF AnyNone(<<embedding, metric, filter>>) THEN None
                                ELSE Some([embedding |-> embedding[1], k |-> m.k,
                                           metric |-> metric[1], filter |-> filter[1]])
  BY DEF search_query_from_pb
<1> HIDE DEF embedding, metric, filter
<1>6. /\ embedding # None /\ metric # None /\ filter # None
      /\ embedding[1] = q.embedding /\ metric[1] = q.metric /\ filter[1] = q.filter
  BY <1>4, Given
<1>7. ~AnyNone(<<embedding, metric, filter>>)
  BY <1>6 DEF AnyNone
<1>8. q = [embedding |-> q.embedding, k |-> q.k, metric |-> q.metric, filter |-> q.filter]
  BY DEF IsQuery
<1> QED BY <1>3, <1>5, <1>6, <1>7, <1>8

\* What a search finds in the process, the client decodes.
LEMMA AgreesFound ==
  ASSUME Registry(cols), call.op \in {"search", "search_hybrid"}, call.name \in DOMAIN cols,
         NEW r, r = OnCollection(call.op, cols[call.name], call.arg), r.col = cols[call.name],
         r.code = "OK" => \E ids : r.value = hydrate(cols[call.name], ids),
         NEW reply, reply = Update(call.name, r, hits_to_pb(r.value))
  PROVE  AsEmbedded(Sent(call.op, reply), reply.cols)
<1> DEFINE value == r.value
           b == hits_to_pb(value)
<1>1. Embedded = Update(call.name, r, value) /\ reply = Update(call.name, r, b)
  BY EmbeddedOn
<1>2. r.code = "OK" => hits_from_pb(b) = Some(value)
  <2> SUFFICES ASSUME r.code = "OK" PROVE hits_from_pb(b) = Some(value)
    OBVIOUS
  <2>1. PICK ids : value = hydrate(cols[call.name], ids)
    OBVIOUS
  <2> DEFINE col == cols[call.name]
  <2>2. Sane(col)
    BY DEF Registry
  <2> HIDE DEF col
  <2>3. hits_from_pb(hits_to_pb(hydrate(col, ids))) = Some(hydrate(col, ids))
    BY <2>2, HitsRoundTrip
  <2> QED BY <2>1, <2>3 DEF col
<1> HIDE DEF value, b
<1>3. /\ Embedded.code = r.code /\ reply.code = r.code /\ Embedded.cols = reply.cols
      /\ r.code = "OK" => Embedded.body = value /\ reply.body = b
  BY <1>1 DEF Update
<1>4. CASE r.code # "OK"
  BY <1>3, <1>4, AgreesRefused
<1>5. CASE r.code = "OK"
  BY <1>2, <1>3, <1>5, AgreesDecoded
<1> QED BY <1>4, <1>5

LEMMA SearchAgrees ==
  ASSUME Registry(cols), call.op = "search", IsQuery(call.arg),
         NEW m, search_query_to_pb(call.name, call.arg) = Some(m)
  PROVE  AsEmbedded(Sent("search", Search(m)), Search(m).cols)
<1> DEFINE reply == Search(m)
           name == call.name
           col == cols[name]
           q == call.arg
           query == search_query_from_pb(m)
           r == search(col, q)
<1>1. query = Some(q) /\ m.collection = name
  BY QueryRoundTrip
<1>2. reply = IF name \notin DOMAIN cols THEN Refuse("NOT_FOUND")
              ELSE IF q.embedding.len # col.meta.dimension THEN Refuse("INVALID_ARGUMENT")
              ELSE Update(name, r, hits_to_pb(r.value))
  <2> HIDE DEF query, q
  <2>1. query # None /\ query[1] = q
    BY <1>1, Given
  <2> QED BY <1>1, <2>1 DEF Search, query
<1>3. r = OnCollection("search", col, q)
  BY DEF OnCollection
<1>4. CASE name \notin DOMAIN cols
  <2> HIDE DEF reply
  <2> QED BY <1>2, <1>4, AgreesNotFound DEF reply
<1>5. CASE name \in DOMAIN cols /\ q.embedding.len # col.meta.dimension
  <2>1. r = Failed(col, "INVALID_ARGUMENT")
    BY <1>5 DEF search
  <2>2. reply = Refuse("INVALID_ARGUMENT")
    BY <1>2, <1>5
  <2> HIDE DEF r, reply
  <2>3. r.code = "INVALID_ARGUMENT" /\ reply.code = "INVALID_ARGUMENT"
    BY <2>1, <2>2 DEF Failed, Refuse
  <2> DEFINE value == r.value
  <2>4. Embedded = Update(name, r, value)
    BY <1>3, <1>5, EmbeddedOn
  <2> HIDE DEF value
  <2>5. Embedded.code = "INVALID_ARGUMENT"
    BY <2>3, <2>4 DEF Update
  <2>6. AsEmbedded(Sent("search", reply), reply.cols)
    BY <2>3, <2>5, AgreesRefused
  <2> QED BY <2>6 DEF reply
<1>6. CASE name \in DOMAIN cols /\ q.embedding.len = col.meta.dimension
  <2>1. reply = Update(name, r, hits_to_pb(r.value))
    BY <1>2, <1>6
  <2>2. r.col = col /\ (r.code = "OK" => \E ids : r.value = hydrate(col, ids))
    BY SearchKeeps
  <2> HIDE DEF r, reply
  <2>3. AsEmbedded(Sent("search", reply), reply.cols)
    BY <1>3, <1>6, <2>1, <2>2, AgreesFound
  <2> QED BY <2>3 DEF reply
<1> QED BY <1>4, <1>5, <1>6

\* A text without a token finds nothing.
LEMMA EmptyTextFindsNothing ==
  ASSUME NEW col, NEW k \in Nat, NEW A
  PROVE  search_text_filtered(col, <<>>, k, A) = <<>>
<1> DEFINE terms == {<<>>[i] : i \in tokenize(<<>>)}
           corpus == DOMAIN col.documents
           tokens(id) == tokenize(col.documents[id])
           total == Cardinality(UNION {{id} \X tokens(id) : id \in corpus})
           frequency(id) == Cardinality({i \in tokens(id) : col.documents[id][i] \in terms})
           length(id) == total + 3 * Cardinality(tokens(id)) * Cardinality(corpus)
           better(a, b) == frequency(a) * length(b) > frequency(b) * length(a)
           before(a, b) == better(a, b) \/ (~better(b, a) /\ a < b)
           hits == {id \in corpus \cap A : frequency(id) > 0}
           place(j) == CHOOSE x \in hits : Cardinality({y \in hits : before(y, x)}) = j - 1
<1>1. search_text_filtered(col, <<>>, k, A) = Truncate([j \in 1..Cardinality(hits) |-> place(j)], k)
  BY DEF search_text_filtered, Ranked
<1>2. terms = {}
  BY DEF tokenize
<1>3. \A id : frequency(id) = 0
  <2> HIDE DEF terms, tokens
  <2>1. \A id : {i \in tokens(id) : col.documents[id][i] \in terms} = {}
    BY <1>2
  <2> QED BY <2>1, FS_EmptySet
<1> HIDE DEF frequency, place
<1>4. hits = {}
  BY <1>3
<1> HIDE DEF hits
<1>5. Cardinality(hits) = 0
  BY <1>4, FS_EmptySet
<1>6. [j \in 1..Cardinality(hits) |-> place(j)] = <<>>
  BY <1>5
<1>7. Truncate(<<>>, k) = <<>>
  BY DEF Truncate
<1> QED BY <1>1, <1>6, <1>7

\* Fusing one ranking with an empty one leaves it as it is.
LEMMA FusionOfOne ==
  ASSUME NEW n \in Nat, NEW s, s = [i \in 1..n |-> s[i]], \A i \in 1..n : s[i] \in Int,
         \A i, j \in 1..n : s[i] = s[j] => i = j, NEW rrf_k \in Int
  PROVE  fuse_rrf(<<s, <<>>>>, rrf_k) = s
<1> DEFINE S == Range(s)
           one(id) == Share(s, rrf_k, id)
           two(id) == Share(<<>>, rrf_k, id)
           num(id) == one(id).num * two(id).den + two(id).num * one(id).den
           den(id) == one(id).den * two(id).den
           better(a, b) == num(a) * den(b) > num(b) * den(a)
           before(a, b) == better(a, b) \/ (~better(b, a) /\ a < b)
           pos(id) == PositionIn(s, id)
           place(j) == CHOOSE x \in S : Cardinality({y \in S : before(y, x)}) = j - 1
<1>1. fuse_rrf(<<s, <<>>>>, rrf_k) = [j \in 1..Cardinality(S) |-> place(j)]
  <2>1. Range(<<>>) = {}
    BY DEF Range
  <2>2. S \cup Range(<<>>) = S
    BY <2>1
  <2> DEFINE e == <<>>
             rs == <<s, e>>
             top(r, q, id) == Share(r, rrf_k, id).num * Share(q, rrf_k, id).den
                              + Share(q, rrf_k, id).num * Share(r, rrf_k, id).den
             bottom(r, q, id) == Share(r, rrf_k, id).den * Share(q, rrf_k, id).den
             above(r, q, a, b) == top(r, q, a) * bottom(r, q, b) > top(r, q, b) * bottom(r, q, a)
             first(r, q, a, b) == above(r, q, a, b) \/ (~above(r, q, b, a) /\ a < b)
             G(r, q, U) == [j \in 1..Cardinality(U) |->
                              CHOOSE x \in U : Cardinality({y \in U : first(r, q, y, x)}) = j - 1]
  <2>3. rs[1] = s /\ rs[2] = e
    OBVIOUS
  <2>4. \A r : fuse_rrf(r, rrf_k) = G(r[1], r[2], Range(r[1]) \cup Range(r[2]))
    BY DEF fuse_rrf, Ranked
  <2>5. G(s, e, S) = [j \in 1..Cardinality(S) |-> place(j)]
    OBVIOUS
  <2> HIDE DEF G, rs, place
  <2>6. fuse_rrf(rs, rrf_k) = G(s, e, S)
    <3>1. fuse_rrf(rs, rrf_k) = G(rs[1], rs[2], Range(rs[1]) \cup Range(rs[2]))
      BY <2>4
    <3>2. Range(rs[1]) \cup Range(rs[2]) = S
      BY <2>2, <2>3
    <3> HIDE DEF e, S
    <3> QED BY <2>3, <3>1, <3>2
  <2> QED BY <2>5, <2>6 DEF rs
<1>2. S = {s[i] : i \in 1..n} /\ DOMAIN s = 1..n
  BY DEF Range
<1>3. \A i \in 1..n : pos(s[i]) = i /\ s[i] \in S
  BY <1>2 DEF PositionIn
<1>4. \A i \in 1..n : num(s[i]) = 1 /\ den(s[i]) = rrf_k + i
  <2> SUFFICES ASSUME NEW i \in 1..n PROVE num(s[i]) = 1 /\ den(s[i]) = rrf_k + i
    OBVIOUS
  <2> DEFINE x == s[i]
             p == pos(x)
  <2>0. x \in Range(s) /\ p = i /\ x \notin Range(<<>>)
    BY <1>3 DEF Range
  <2>1. one(x) = [num |-> 1, den |-> rrf_k + p] /\ two(x) = [num |-> 0, den |-> 1]
    BY <2>0 DEF Share
  <2> HIDE DEF x, p, one, two
  <2>2. one(x).num = 1 /\ one(x).den = rrf_k + i /\ two(x).num = 0 /\ two(x).den = 1
    BY <2>0, <2>1
  <2>3. num(x) = 1 /\ den(x) = rrf_k + i
    BY <2>2
  <2> QED BY <2>3 DEF x
<1> HIDE DEF num, den, S
<1>5. \A i, j \in 1..n : before(s[i], s[j]) <=> i < j
  <2> SUFFICES ASSUME NEW i \in 1..n, NEW j \in 1..n PROVE before(s[i], s[j]) <=> i < j
    OBVIOUS
  <2>1. (better(s[i], s[j]) <=> i < j) /\ (better(s[j], s[i]) <=> j < i)
    BY <1>4
  <2> HIDE DEF better
  <2>2. i = j => ~(s[i] < s[j])
    OBVIOUS
  <2>3. i < j \/ i = j \/ j < i
    OBVIOUS
  <2> QED BY <2>1, <2>2, <2>3
<1> HIDE DEF before
<1>6. \A j \in 1..n : Cardinality({y \in S : before(y, s[j])}) = j - 1
  <2> SUFFICES ASSUME NEW j \in 1..n PROVE Cardinality({y \in S : before(y, s[j])}) = j - 1
    OBVIOUS
  <2> DEFINE T == {y \in S : before(y, s[j])}
             t == j - 1
             f == [i \in 1..t |-> s[i]]
  <2>1. t \in Nat /\ \A i \in 1..t : i \in 1..n /\ i < j
    OBVIOUS
  <2>2. \A i \in 1..n : i < j => i \in 1..t
    OBVIOUS
  <2> HIDE DEF t
  <2>3. \A i \in 1..t : s[i] \in T
    BY <1>3, <1>5, <2>1
  <2>4. \A y \in T : \E i \in 1..t : s[i] = y
    BY <1>2, <1>5, <2>2
  <2> HIDE DEF T
  <2>5. f \in Bijection(1..t, T)
    <3>1. f \in [1..t -> T] /\ DOMAIN f = 1..t
      BY <2>3
    <3>2. \A i, k \in 1..t : f[i] = f[k] => i = k
      BY <2>1
    <3>3. \A x \in T : \E i \in 1..t : f[i] = x
      BY <2>4
    <3> HIDE DEF f
    <3> QED BY <3>1, <3>2, <3>3 DEF Bijection, Injection, Surjection, IsInjective
  <2>6. ExistsBijection(1..t, T)
    BY <2>5 DEF ExistsBijection
  <2>7. Cardinality(T) = t
    BY <2>1, <2>6, FS_CountingElements
  <2> QED BY <2>7 DEF T, t
<1>7. Cardinality(S) = n
  <2>1. s \in Bijection(1..n, S)
    <3>1. s \in [1..n -> S]
      BY <1>3
    <3> QED BY <1>2, <3>1 DEF Bijection, Injection, Surjection, IsInjective
  <2>2. ExistsBijection(1..n, S)
    BY <2>1 DEF ExistsBijection
  <2> QED BY <2>2, FS_CountingElements
<1>8. \A j \in 1..n : place(j) = s[j]
  <2> SUFFICES ASSUME NEW j \in 1..n PROVE place(j) = s[j]
    OBVIOUS
  <2>1. \A x \in S : Cardinality({y \in S : before(y, x)}) = j - 1 => x = s[j]
    <3> SUFFICES ASSUME NEW x \in S, Cardinality({y \in S : before(y, x)}) = j - 1 PROVE x = s[j]
      OBVIOUS
    <3>1. PICK i \in 1..n : x = s[i]
      BY <1>2
    <3>2. Cardinality({y \in S : before(y, x)}) = i - 1
      BY <1>6, <3>1
    <3>3. i = j
      BY <3>2
    <3> QED BY <3>1, <3>3
  <2> QED BY <1>3, <1>6, <2>1
<1> HIDE DEF place
<1>9. [j \in 1..Cardinality(S) |-> place(j)] = s
  BY <1>7, <1>8
<1> QED BY <1>1, <1>9

\* The number of candidates that each channel is asked for.
LEMMA DepthIsNumber ==
  ASSUME NEW k \in Nat, NEW factor \in Nat
  PROVE  saturating_mul(k, factor) \in Nat
<1>1. k * factor \in Nat
  OBVIOUS
<1> QED BY <1>1, WireAssumption DEF saturating_mul

\* A dense ranking has each id once.
LEMMA DenseRanking ==
  ASSUME NEW col, Sane(col), NEW e, e.x \in Int, NEW k \in Nat, NEW metric \in Metrics, NEW A
  PROVE  LET s == search_filtered(col, e, k, metric, A) IN
         \E n \in Nat : /\ s = [i \in 1..n |-> s[i]]
                        /\ \A i \in 1..n : s[i] \in Int
                        /\ \A i, j \in 1..n : s[i] = s[j] => i = j
<1> DEFINE S == A \cap DOMAIN col.vectors
           B == Nearer(col, e, metric, S)
           s == search_filtered(col, e, k, metric, A)
           L == RankedBy(S, B)
           N == Cardinality(S)
           n == IF k < N THEN k ELSE N
<1>1. s = Truncate(L, k)
  BY DenseIsRanked
<1>2. S \subseteq DOMAIN col.vectors /\ IsFiniteSet(S) /\ S \subseteq Int
  <2>1. S \subseteq DOMAIN col.vectors /\ IsFiniteSet(DOMAIN col.vectors) /\ DOMAIN col.vectors \subseteq Int
    BY DEF Sane
  <2> HIDE DEF S
  <2> QED BY <2>1, FS_Subset
<1> HIDE DEF S, s
<1>3. StrictOrder(S, B)
  BY <1>2, NearerIsOrder
<1> HIDE DEF B
<1>4. N \in Nat /\ L \in [1..N -> S] /\ \A i, j \in 1..N : L[i] = L[j] => i = j
  BY <1>2, <1>3, RankedFacts
<1> HIDE DEF L, N
<1>5. L \in Seq(S) /\ Len(L) = N
  BY <1>4
<1>6. n \in Nat /\ \A i \in 1..n : i \in 1..N
  BY <1>4
<1>7. s \in Seq(S) /\ DOMAIN s = 1..n /\ \A i \in 1..n : s[i] = L[i]
  BY <1>1, <1>4, <1>5, <1>6 DEF Truncate
<1> HIDE DEF n
<1>8. s = [i \in 1..n |-> s[i]]
  BY <1>7
<1>9. \A i \in 1..n : s[i] \in Int
  BY <1>2, <1>4, <1>6, <1>7
<1>10. \A i, j \in 1..n : s[i] = s[j] => i = j
  BY <1>4, <1>6, <1>7
<1> QED BY <1>6, <1>8, <1>9, <1>10 DEF s

\* The query as the service decodes it: an empty text is no text.
Asked(q) ==
    [vector |-> q.vector, text |-> IF q.text \in {None, Some(<<>>)} THEN None ELSE q.text,
     k |-> q.k, filter |-> q.filter, metric |-> q.metric, rrf_k |-> q.rrf_k,
     overfetch_factor |-> q.overfetch_factor]

LEMMA HybridRoundTrip ==
  ASSUME NEW q, IsHybrid(q), NEW name, NEW m, hybrid_query_to_pb(name, q) = Some(m)
  PROVE  /\ m.collection = name
         /\ \/ /\ hybrid_query_from_pb(m) = None
               /\ q.rrf_k \in NonFinite \/ q.rrf_k <= 0 \/ q.overfetch_factor = 0
            \/ hybrid_query_from_pb(m) = Some(Asked(q))
<1> DEFINE c == MapOption(q.metric, metric_to_pb)
           g == MapOption(q.filter, filter_to_pb)
           v == IF q.vector = None THEN NoVector ELSE q.vector[1]
           t == IF q.text \in {None, Some(<<>>)} THEN None ELSE q.text
<1>1. /\ optional_metric_from_pb(c) = Some(q.metric)
      /\ Transpose(g, filter_from_pb) = Some(q.filter)
  BY ChoiceRoundTrip, OptionalFilterRoundTrip DEF IsHybrid
<1>2. m = [collection |-> name, vector |-> v, text |-> q.text, k |-> q.k, filter |-> g,
           metric |-> c, rrf_k |-> Some(q.rrf_k), overfetch_factor |-> Some(q.overfetch_factor)]
  BY Given DEF hybrid_query_to_pb, embedding_to_pb
<1> HIDE DEF c, g
<1>3. /\ m.collection = name /\ m.vector = v /\ m.text = q.text /\ m.k = q.k
      /\ m.filter = g /\ m.metric = c /\ m.rrf_k = Some(q.rrf_k)
      /\ m.overfetch_factor = Some(q.overfetch_factor)
  <2> HIDE DEF v
  <2> QED BY <1>2
<1> DEFINE vector == IF m.vector.len = 0 THEN Some(None)
                     ELSE IF ValidEmbedding(m.vector) THEN Some(Some(m.vector)) ELSE None
           text == IF m.text \in {None, Some(<<>>)} THEN None ELSE m.text
           filter == Transpose(m.filter, filter_from_pb)
           metric == optional_metric_from_pb(m.metric)
           rrf_k == rrf_k_from_pb(m.rrf_k)
           overfetch == overfetch_factor_from_pb(m.overfetch_factor)
<1>4. vector = Some(q.vector)
  <2>1. CASE q.vector = None
    <3>1. m.vector.len = 0
      BY <1>3, <2>1 DEF NoVector
    <3> QED BY <2>1, <3>1
  <2>2. CASE q.vector # None
    <3>1. q.vector = Some(q.vector[1]) /\ ValidVector(q.vector[1]) /\ m.vector = q.vector[1]
      BY <1>3, <2>2 DEF IsHybrid, IsOption
    <3>2. m.vector.len # 0 /\ ValidEmbedding(m.vector)
      BY <3>1 DEF ValidVector, ValidEmbedding, Vectors
    <3> QED BY <3>1, <3>2
  <2> QED BY <2>1, <2>2
<1>5. text = t /\ filter = Some(q.filter) /\ metric = Some(q.metric)
  BY <1>1, <1>3
<1>6. /\ rrf_k = IF q.rrf_k \notin NonFinite /\ q.rrf_k > 0 THEN Some(q.rrf_k) ELSE None
      /\ overfetch = IF q.overfetch_factor = 0 THEN None ELSE Some(q.overfetch_factor)
  BY <1>3, Given DEF rrf_k_from_pb, overfetch_factor_from_pb
<1>7. hybrid_query_from_pb(m) =
        IF AnyNone(<<vector, filter, metric, rrf_k, overfetch>>) THEN None
        ELSE Some([vector |-> vector[1], text |-> text, k |-> m.k, filter |-> filter[1],
                   metric |-> metric[1], rrf_k |-> rrf_k[1], overfetch_factor |-> overfetch[1]])
  BY DEF hybrid_query_from_pb
<1> HIDE DEF vector, text, filter, metric, rrf_k, overfetch
<1>8. q.rrf_k \in Int /\ q.overfetch_factor \in Nat
  BY DEF IsHybrid
<1>9. CASE q.rrf_k \notin NonFinite /\ q.rrf_k > 0 /\ q.overfetch_factor # 0
  <2>1. /\ vector # None /\ filter # None /\ metric # None /\ rrf_k # None /\ overfetch # None
        /\ vector[1] = q.vector /\ filter[1] = q.filter /\ metric[1] = q.metric
        /\ rrf_k[1] = q.rrf_k /\ overfetch[1] = q.overfetch_factor
    BY <1>4, <1>5, <1>6, <1>9, Given
  <2>2. ~AnyNone(<<vector, filter, metric, rrf_k, overfetch>>)
    BY <2>1 DEF AnyNone
  <2>3. [vector |-> vector[1], text |-> text, k |-> m.k, filter |-> filter[1],
         metric |-> metric[1], rrf_k |-> rrf_k[1], overfetch_factor |-> overfetch[1]] = Asked(q)
    BY <1>3, <1>5, <2>1 DEF Asked
  <2> QED BY <1>3, <1>7, <2>2, <2>3
<1>10. CASE ~(q.rrf_k \notin NonFinite /\ q.rrf_k > 0 /\ q.overfetch_factor # 0)
  <2>1. rrf_k = None \/ overfetch = None
    BY <1>6, <1>10
  <2>2. AnyNone(<<vector, filter, metric, rrf_k, overfetch>>)
    <3> DEFINE all == <<vector, filter, metric, rrf_k, overfetch>>
    <3>1. 4 \in DOMAIN all /\ 5 \in DOMAIN all /\ all[4] = rrf_k /\ all[5] = overfetch
      OBVIOUS
    <3> HIDE DEF all
    <3>2. AnyNone(all)
      BY <2>1, <3>1 DEF AnyNone
    <3> QED BY <3>2 DEF all
  <2>3. hybrid_query_from_pb(m) = None
    BY <1>7, <2>2
  <2>4. q.rrf_k \in NonFinite \/ q.rrf_k <= 0 \/ q.overfetch_factor = 0
    BY <1>8, <1>10
  <2> QED BY <1>3, <2>3, <2>4
<1> QED BY <1>9, <1>10

\* An empty text beside a vector changes nothing: its ranking is empty.
LEMMA EmptyTextIsNoText ==
  ASSUME NEW col, NEW name, Sane(col), MetaOK(col.meta, name), NEW q, IsHybrid(q),
         q.text # Some(<<>>) \/ q.vector # None
  PROVE  search_hybrid(col, Asked(q)) = search_hybrid(col, q)
<1> DEFINE a == Asked(q)
<1>1. /\ a.vector = q.vector /\ a.k = q.k /\ a.filter = q.filter /\ a.metric = q.metric
      /\ a.rrf_k = q.rrf_k /\ a.overfetch_factor = q.overfetch_factor
      /\ a.text = IF q.text \in {None, Some(<<>>)} THEN None ELSE q.text
  BY DEF Asked
<1>2. CASE q.text # Some(<<>>)
  <2>1. a.text = q.text
    BY <1>1, <1>2
  <2>2. q = [vector |-> q.vector, text |-> q.text, k |-> q.k, filter |-> q.filter,
             metric |-> q.metric, rrf_k |-> q.rrf_k, overfetch_factor |-> q.overfetch_factor]
    BY DEF IsHybrid
  <2>3. a = [vector |-> a.vector, text |-> a.text, k |-> a.k, filter |-> a.filter,
             metric |-> a.metric, rrf_k |-> a.rrf_k, overfetch_factor |-> a.overfetch_factor]
    BY DEF Asked
  <2> HIDE DEF a
  <2>4. a = q
    BY <1>1, <2>1, <2>2, <2>3
  <2> QED BY <2>4 DEF a
<1>3. CASE q.text = Some(<<>>)
  <2> DEFINE metric == metric_of(col, q.metric)
             depth == saturating_mul(q.k, q.overfetch_factor)
             known == DOMAIN col.vectors \cup DOMAIN col.documents
             admissible == Admissible(col, q.filter, known)
             dense == search_filtered(col, q.vector[1], depth, metric, admissible)
             lexical == search_text_filtered(col, q.text[1], depth, admissible)
             fused == fuse_rrf(<<dense, lexical>>, q.rrf_k)
             refused == \/ metric \notin supported_metrics(col)
                        \/ q.vector[1].len # col.meta.dimension
             bad == Failed(col, "INVALID_ARGUMENT")
  <2>0. a.text = None /\ q.text # None /\ q.vector # None /\ q.text[1] = <<>>
    BY <1>1, <1>3, Given
  <2> HIDE DEF a
  <2>1. search_hybrid(col, a) = IF refused THEN bad ELSE Done(col, hydrate(col, Truncate(dense, q.k)))
    BY <1>1, <2>0 DEF search_hybrid
  <2>2. search_hybrid(col, q) = IF refused THEN bad ELSE Done(col, hydrate(col, Truncate(fused, q.k)))
    BY <2>0 DEF search_hybrid
  <2>3. depth \in Nat
    BY DepthIsNumber DEF IsHybrid
  <2>4. metric \in Metrics
    BY DEF metric_of, MetaOK, IsHybrid, IsChoice
  <2>5. q.vector[1].x \in Int /\ q.rrf_k \in Int
    BY <2>0 DEF IsHybrid, ValidVector, Vectors
  <2> HIDE DEF depth, metric, admissible
  <2>6. lexical = <<>>
    BY <2>0, <2>3, EmptyTextFindsNothing
  <2>7. PICK n \in Nat : /\ dense = [i \in 1..n |-> dense[i]]
                         /\ \A i \in 1..n : dense[i] \in Int
                         /\ \A i, j \in 1..n : dense[i] = dense[j] => i = j
    <3> DEFINE e == q.vector[1]
    <3>1. e.x \in Int
      BY <2>5
    <3> HIDE DEF e
    <3>2. LET s == search_filtered(col, e, depth, metric, admissible) IN
          \E n \in Nat : /\ s = [i \in 1..n |-> s[i]]
                         /\ \A i \in 1..n : s[i] \in Int
                         /\ \A i, j \in 1..n : s[i] = s[j] => i = j
      BY <2>3, <2>4, <3>1, DenseRanking
    <3> QED BY <3>2 DEF e
  <2> HIDE DEF dense
  <2>8. fuse_rrf(<<dense, <<>>>>, q.rrf_k) = dense
    BY <2>5, <2>7, FusionOfOne
  <2> HIDE DEF lexical
  <2>9. fused = dense
    BY <2>6, <2>8
  <2> HIDE DEF fused, refused, bad
  <2> QED BY <2>1, <2>2, <2>9 DEF a
<1> QED BY <1>2, <1>3

LEMMA HybridAgrees ==
  ASSUME Registry(cols), call.op = "search_hybrid", IsHybrid(call.arg),
         NEW m, hybrid_query_to_pb(call.name, call.arg) = Some(m)
  PROVE  AsEmbedded(Sent("search_hybrid", SearchHybrid(m)), SearchHybrid(m).cols)
<1> DEFINE reply == SearchHybrid(m)
           name == call.name
           col == cols[name]
           q == call.arg
           a == Asked(q)
           query == hybrid_query_from_pb(m)
           r == search_hybrid(col, q)
           s == search_hybrid(col, a)
           wrong == q.vector # None /\ q.vector[1].len # col.meta.dimension
<1>0. /\ m.collection = name
      /\ \/ query = None /\ (q.rrf_k \in NonFinite \/ q.rrf_k <= 0 \/ q.overfetch_factor = 0)
         \/ query = Some(a)
  BY HybridRoundTrip
<1>1. a.vector = q.vector /\ (q.text = Some(<<>>) => a.text = None)
  BY DEF Asked
<1> HIDE DEF a, query
<1>2. CASE query = None
  <2>1. reply = Refuse("INVALID_ARGUMENT")
    BY <1>2 DEF SearchHybrid, query
  <2>2. reply.code # "OK" /\ NotOnTheWire
    BY <1>0, <1>2, <2>1, Given DEF Refuse, NotOnTheWire
  <2> HIDE DEF reply
  <2>3. AsEmbedded(Sent("search_hybrid", reply), reply.cols)
    BY <2>2, AgreesRefused
  <2> QED BY <2>3 DEF reply
<1>3. CASE query = Some(a)
  <2>1. reply = IF name \notin DOMAIN cols THEN Refuse("NOT_FOUND")
                ELSE IF wrong THEN Refuse("INVALID_ARGUMENT")
                ELSE Update(name, s, hits_to_pb(s.value))
    <3>1. query # None /\ query[1] = a
      BY <1>3, Given
    <3> QED BY <1>0, <1>1, <3>1 DEF SearchHybrid, query
  <2>2. r = OnCollection("search_hybrid", col, q)
    BY DEF OnCollection
  <2>3. CASE name \notin DOMAIN cols
    <3> HIDE DEF reply
    <3> QED BY <2>1, <2>3, AgreesNotFound DEF reply
  <2>4. CASE name \in DOMAIN cols /\ wrong
    <3>1. r = Failed(col, "INVALID_ARGUMENT")
      BY <2>4 DEF search_hybrid
    <3>2. reply = Refuse("INVALID_ARGUMENT")
      BY <2>1, <2>4
    <3> HIDE DEF r, reply
    <3>3. r.code = "INVALID_ARGUMENT" /\ reply.code = "INVALID_ARGUMENT"
      BY <3>1, <3>2 DEF Failed, Refuse
    <3> DEFINE value == r.value
    <3>4. Embedded = Update(name, r, value)
      BY <2>2, <2>4, EmbeddedOn
    <3> HIDE DEF value
    <3>5. Embedded.code = "INVALID_ARGUMENT"
      BY <3>3, <3>4 DEF Update
    <3>6. AsEmbedded(Sent("search_hybrid", reply), reply.cols)
      BY <3>3, <3>5, AgreesRefused
    <3> QED BY <3>6 DEF reply
  <2>5. CASE name \in DOMAIN cols /\ ~wrong /\ q.text = Some(<<>>) /\ q.vector = None
    <3>1. s = Failed(col, "INVALID_ARGUMENT")
      BY <1>1, <2>5 DEF search_hybrid
    <3> DEFINE b == hits_to_pb(s.value)
    <3>2. reply = Update(name, s, b)
      BY <2>1, <2>5
    <3> HIDE DEF s, reply, b
    <3>3. s.code = "INVALID_ARGUMENT"
      BY <3>1 DEF Failed
    <3>4. reply.code # "OK"
      BY <3>2, <3>3 DEF Update
    <3>5. NotOnTheWire
      BY <2>5 DEF NotOnTheWire
    <3>6. AsEmbedded(Sent("search_hybrid", reply), reply.cols)
      BY <3>4, <3>5, AgreesRefused
    <3> QED BY <3>6 DEF reply
  <2>6. CASE name \in DOMAIN cols /\ ~wrong /\ (q.text # Some(<<>>) \/ q.vector # None)
    <3>1. s = r
      <4> DEFINE c == col
      <4>1. Sane(c) /\ MetaOK(c.meta, name)
        BY <2>6 DEF Registry
      <4> HIDE DEF c
      <4>2. search_hybrid(c, Asked(q)) = search_hybrid(c, q)
        BY <2>6, <4>1, EmptyTextIsNoText
      <4> QED BY <4>2 DEF c, a
    <3>2. reply = Update(name, s, hits_to_pb(s.value))
      BY <2>1, <2>6
    <3>3. r.col = col /\ (r.code = "OK" => \E ids : r.value = hydrate(col, ids))
      BY HybridKeeps
    <3> HIDE DEF r, s, reply
    <3>4. AsEmbedded(Sent("search_hybrid", reply), reply.cols)
      BY <2>2, <2>6, <3>1, <3>2, <3>3, AgreesFound
    <3> QED BY <3>4 DEF reply
  <2> QED BY <2>3, <2>4, <2>5, <2>6
<1> QED BY <1>0, <1>2, <1>3

\* Every method, from its message.
LEMMA HandlersAgree ==
  ASSUME Registry(cols), call.op \in Methods, IsArgument(call.op, call.arg),
         NEW m, Request(call.op, call.name, call.arg) = Some(m)
  PROVE  /\ call.op = "create" =>
               AsEmbedded(Sent("create", create_collection(m)), create_collection(m).cols)
         /\ call.op = "drop" =>
               AsEmbedded(Sent("drop", drop_collection(m)), drop_collection(m).cols)
         /\ call.op = "list" => AsEmbedded(Sent("list", list_collections), list_collections.cols)
         /\ call.op = "describe" =>
               AsEmbedded(Sent("describe", describe_collection(m)), describe_collection(m).cols)
         /\ call.op = "compact" => AsEmbedded(Sent("compact", Compact(m)), Compact(m).cols)
         /\ call.op = "upsert" => AsEmbedded(Sent("upsert", Upsert(m)), Upsert(m).cols)
         /\ call.op = "batch_upsert" =>
               AsEmbedded(Sent("batch_upsert", batch_upsert(m)), batch_upsert(m).cols)
         /\ call.op = "bulk_upsert" =>
               AsEmbedded(Sent("bulk_upsert", bulk_upsert(m)), bulk_upsert(m).cols)
         /\ call.op = "delete" => AsEmbedded(Sent("delete", Delete(m)), Delete(m).cols)
         /\ call.op = "delete_by_filter" =>
               AsEmbedded(Sent("delete_by_filter", DeleteByFilter(m)), DeleteByFilter(m).cols)
         /\ call.op = "search" => AsEmbedded(Sent("search", Search(m)), Search(m).cols)
         /\ call.op = "search_hybrid" =>
               AsEmbedded(Sent("search_hybrid", SearchHybrid(m)), SearchHybrid(m).cols)
<1>0. \A x, y : Some(x) = Some(y) => x = y
  BY Given
<1>1. call.op \in {"drop", "describe", "compact"} => m = call.name
  BY <1>0 DEF Request
<1>2. CASE call.op = "create"
  <2>1. IsSpec(call.arg) /\ create_request(call.arg) = Some(m)
    BY <1>2 DEF IsArgument, Request
  <2> QED BY <1>2, <2>1, CreateAgrees
<1>3. CASE call.op = "drop"
  BY <1>1, <1>3, DropAgrees
<1>4. CASE call.op = "list"
  BY <1>4, ListAgrees
<1>5. CASE call.op = "describe"
  BY <1>1, <1>5, DescribeAgrees
<1>6. CASE call.op = "compact"
  BY <1>1, <1>6, CompactAgrees
<1>7. CASE call.op = "upsert"
  <2>1. ValidPoint(call.arg)
    BY <1>7 DEF IsArgument
  <2>2. m = [collection |-> call.name, point |-> Some(point_to_pb(call.arg))]
    BY <1>0, <1>7 DEF Request
  <2> QED BY <1>7, <2>1, <2>2, UpsertAgrees
<1>8. CASE call.op = "batch_upsert"
  <2>1. IsList(call.arg) /\ \A i \in DOMAIN call.arg : ValidPoint(call.arg[i])
    BY <1>8 DEF IsArgument
  <2>2. m = BatchMessage(call.name, call.arg)
    BY <1>0, <1>8 DEF Request
  <2> QED BY <1>8, <2>1, <2>2, BatchAgrees
<1>9. CASE call.op = "bulk_upsert"
  <2>1. IsList(call.arg) /\ \A k \in DOMAIN call.arg :
            IsList(call.arg[k]) /\ \A i \in DOMAIN call.arg[k] : ValidPoint(call.arg[k][i])
    BY <1>9 DEF IsArgument
  <2>2. m = [i \in DOMAIN call.arg |-> BatchMessage(call.name, call.arg[i])]
    BY <1>0, <1>9 DEF Request
  <2> QED BY <1>9, <2>1, <2>2, BulkAgrees
<1>10. CASE call.op = "delete"
  <2>1. m = [collection |-> call.name, id |-> vector_id_to_pb(call.arg)]
    BY <1>0, <1>10 DEF Request
  <2> QED BY <1>10, <2>1, DeleteAgrees
<1>11. CASE call.op = "delete_by_filter"
  <2>1. IsFilter(call.arg)
    BY <1>11 DEF IsArgument
  <2>2. m = delete_by_filter_to_pb(call.name, call.arg)
    BY <1>0, <1>11 DEF Request
  <2> QED BY <1>11, <2>1, <2>2, DeleteByFilterAgrees
<1>12. CASE call.op = "search"
  <2>1. IsQuery(call.arg) /\ search_query_to_pb(call.name, call.arg) = Some(m)
    BY <1>12 DEF IsArgument, Request
  <2> QED BY <1>12, <2>1, SearchAgrees
<1>13. CASE call.op = "search_hybrid"
  <2>1. IsHybrid(call.arg) /\ hybrid_query_to_pb(call.name, call.arg) = Some(m)
    BY <1>13 DEF IsArgument, Request
  <2> QED BY <1>13, <2>1, HybridAgrees
<1> QED BY <1>2, <1>3, <1>4, <1>5, <1>6, <1>7, <1>8, <1>9, <1>10, <1>11, <1>12, <1>13 DEF Methods

\* A call of the client or of a command does what the same call in the process does,
\* with the same result: no conversion of an argument, and none of a result, loses or
\* changes anything, and the service refuses what the process refuses, except for the
\* calls that the messages cannot carry (NotOnTheWire).
THEOREM RemoteCallsAreEmbedded == Spec => RemoteIsEmbedded
<1> DEFINE Step == Serves /\ call.from # "other" => AsEmbedded(answer', cols')
<1>1. Inv /\ [Next]_vars => Step
  <2> SUFFICES ASSUME Inv, [Next]_vars, Serves, call.from # "other"
               PROVE  AsEmbedded(answer', cols')
    OBVIOUS
  <2> DEFINE m == wire.body
  <2>1. ServeAny
    BY OnlyHandlersServe
  <2>2. /\ phase = "sent" /\ Registry(cols) /\ call.op \in Methods /\ wire.op = call.op
        /\ IsArgument(call.op, call.arg) /\ Request(call.op, call.name, call.arg) = Some(m)
    BY DEF Serves, Inv, SentOK
  <2>3. ASSUME NEW op, NEW reply, Takes(op, reply),
               call.op = op => AsEmbedded(Sent(op, reply), reply.cols)
        PROVE  AsEmbedded(answer', cols')
    <3>1. call.op = op /\ cols' = reply.cols /\ answer' = Sent(op, reply)
      BY <2>2, <2>3 DEF Takes, Sent
    <3> QED BY <2>3, <3>1
  <2> HIDE DEF m
  <2>4. /\ call.op = "create" =>
              AsEmbedded(Sent("create", create_collection(m)), create_collection(m).cols)
        /\ call.op = "drop" =>
              AsEmbedded(Sent("drop", drop_collection(m)), drop_collection(m).cols)
        /\ call.op = "list" => AsEmbedded(Sent("list", list_collections), list_collections.cols)
        /\ call.op = "describe" =>
              AsEmbedded(Sent("describe", describe_collection(m)), describe_collection(m).cols)
        /\ call.op = "compact" => AsEmbedded(Sent("compact", Compact(m)), Compact(m).cols)
        /\ call.op = "upsert" => AsEmbedded(Sent("upsert", Upsert(m)), Upsert(m).cols)
        /\ call.op = "batch_upsert" =>
              AsEmbedded(Sent("batch_upsert", batch_upsert(m)), batch_upsert(m).cols)
        /\ call.op = "bulk_upsert" =>
              AsEmbedded(Sent("bulk_upsert", bulk_upsert(m)), bulk_upsert(m).cols)
        /\ call.op = "delete" => AsEmbedded(Sent("delete", Delete(m)), Delete(m).cols)
        /\ call.op = "delete_by_filter" =>
              AsEmbedded(Sent("delete_by_filter", DeleteByFilter(m)), DeleteByFilter(m).cols)
        /\ call.op = "search" => AsEmbedded(Sent("search", Search(m)), Search(m).cols)
        /\ call.op = "search_hybrid" =>
              AsEmbedded(Sent("search_hybrid", SearchHybrid(m)), SearchHybrid(m).cols)
    BY <2>2, HandlersAgree
  <2>5. CASE Takes("create", create_collection(m))
    BY <2>3, <2>4, <2>5
  <2>6. CASE Takes("drop", drop_collection(m))
    BY <2>3, <2>4, <2>6
  <2>7. CASE Takes("list", list_collections)
    BY <2>3, <2>4, <2>7
  <2>8. CASE Takes("describe", describe_collection(m))
    BY <2>3, <2>4, <2>8
  <2>9. CASE Takes("upsert", Upsert(m))
    BY <2>3, <2>4, <2>9
  <2>10. CASE Takes("batch_upsert", batch_upsert(m))
    BY <2>3, <2>4, <2>10
  <2>11. CASE Takes("bulk_upsert", bulk_upsert(m))
    BY <2>3, <2>4, <2>11
  <2>12. CASE Takes("delete", Delete(m))
    BY <2>3, <2>4, <2>12
  <2>13. CASE Takes("delete_by_filter", DeleteByFilter(m))
    BY <2>3, <2>4, <2>13
  <2>14. CASE Takes("search", Search(m))
    BY <2>3, <2>4, <2>14
  <2>15. CASE Takes("search_hybrid", SearchHybrid(m))
    BY <2>3, <2>4, <2>15
  <2>16. CASE Takes("compact", Compact(m))
    BY <2>3, <2>4, <2>16
  <2> QED BY <2>1, <2>5, <2>6, <2>7, <2>8, <2>9, <2>10, <2>11, <2>12, <2>13, <2>14, <2>15, <2>16,
             ServeTakes DEF m
<1>2. Spec => [][Step]_vars
  BY <1>1, InvHolds, PTL DEF Spec
<1> QED BY <1>2 DEF RemoteIsEmbedded


-----------------------------------------------------------------------------
(* Fusion.  Both the BM25 scores and the fused scores are fractions, with    *)
(* numerators n and denominators d, compared by cross-multiplication.        *)

LEMMA Scaling ==
  ASSUME NEW a \in Int, NEW b \in Int, NEW c \in Nat \ {0}
  PROVE  a > b <=> a * c > b * c
<1>1. a > b => a * c > b * c
  <2> SUFFICES ASSUME a > b PROVE a * c > b * c
    OBVIOUS
  <2> DEFINE e == a - b
  <2>1. e \in Nat \ {0} /\ a = b + e
    OBVIOUS
  <2> HIDE DEF e
  <2>2. (b + e) * c = b * c + e * c
    BY <2>1
  <2>3. e * c > 0
    BY <2>1
  <2>4. b * c \in Int /\ e * c \in Int
    BY <2>1
  <2> QED BY <2>1, <2>2, <2>3, <2>4
<1>2. a <= b => a * c <= b * c
  <2> SUFFICES ASSUME a <= b PROVE a * c <= b * c
    OBVIOUS
  <2> DEFINE e == b - a
  <2>1. e \in Nat /\ b = a + e
    OBVIOUS
  <2> HIDE DEF e
  <2>2. (a + e) * c = a * c + e * c
    BY <2>1
  <2>3. e * c >= 0
    BY <2>1
  <2>4. a * c \in Int /\ e * c \in Int
    BY <2>1
  <2> QED BY <2>1, <2>2, <2>3, <2>4
<1>3. a * c \in Int /\ b * c \in Int
  OBVIOUS
<1> QED BY <1>1, <1>2, <1>3

\* Cross-multiplied comparisons chain, through a fraction that both share.
LEMMA Chain ==
  ASSUME NEW n1 \in Nat, NEW n2 \in Nat, NEW n3 \in Nat,
         NEW d1 \in Nat \ {0}, NEW d2 \in Nat \ {0}, NEW d3 \in Nat \ {0},
         n1 * d2 >= n2 * d1, n2 * d3 >= n3 * d2
  PROVE  /\ n1 * d3 >= n3 * d1
         /\ n1 * d2 > n2 * d1 \/ n2 * d3 > n3 * d2 => n1 * d3 > n3 * d1
<1> DEFINE p == n1 * d2
           q == n2 * d1
           r == n2 * d3
           s == n3 * d2
           u == n1 * d3
           v == n3 * d1
<1>1. p \in Int /\ q \in Int /\ r \in Int /\ s \in Int /\ u \in Int /\ v \in Int
  OBVIOUS
<1>2. p * d3 = u * d2 /\ q * d3 = r * d1 /\ s * d1 = v * d2
  OBVIOUS
<1>3. p >= q /\ r >= s
  OBVIOUS
<1> HIDE DEF p, q, r, s, u, v
<1>4. p * d3 >= q * d3 /\ (p > q => p * d3 > q * d3)
  <2>1. q > p <=> q * d3 > p * d3
    BY <1>1, Scaling
  <2>2. p > q <=> p * d3 > q * d3
    BY <1>1, Scaling
  <2>3. p * d3 \in Int /\ q * d3 \in Int
    BY <1>1
  <2> QED BY <1>1, <1>3, <2>1, <2>2, <2>3
<1>5. r * d1 >= s * d1 /\ (r > s => r * d1 > s * d1)
  <2>1. s > r <=> s * d1 > r * d1
    BY <1>1, Scaling
  <2>2. r > s <=> r * d1 > s * d1
    BY <1>1, Scaling
  <2>3. r * d1 \in Int /\ s * d1 \in Int
    BY <1>1
  <2> QED BY <1>1, <1>3, <2>1, <2>2, <2>3
<1>6. /\ p * d3 \in Int /\ q * d3 \in Int /\ r * d1 \in Int /\ s * d1 \in Int
      /\ u * d2 \in Int /\ v * d2 \in Int
  BY <1>1
<1>7. u * d2 >= v * d2 /\ (p > q \/ r > s => u * d2 > v * d2)
  BY <1>2, <1>4, <1>5, <1>6
<1>8. (u > v <=> u * d2 > v * d2) /\ (v > u <=> v * d2 > u * d2)
  BY <1>1, Scaling
<1>9. u >= v /\ (p > q \/ r > s => u > v)
  BY <1>1, <1>6, <1>7, <1>8
<1> QED BY <1>9 DEF p, q, r, s, u, v

\* The larger fraction first, equal ones by identifier.
Fractions(S, n, d) ==
    {p \in S \X S :
        LET better(a, b) == n[a] * d[b] > n[b] * d[a]
        IN  better(p[1], p[2]) \/ (~better(p[2], p[1]) /\ p[1] < p[2])}

LEMMA FractionsAreOrder ==
  ASSUME NEW S, S \subseteq Int, NEW n \in [S -> Nat], NEW d \in [S -> Nat \ {0}]
  PROVE  StrictOrder(S, Fractions(S, n, d))
<1> DEFINE B == Fractions(S, n, d)
           up(a, b) == n[a] * d[b] > n[b] * d[a]
<1>1. \A a, b \in S : <<a, b>> \in B <=> up(a, b) \/ (~up(b, a) /\ a < b)
  <2> SUFFICES ASSUME NEW a \in S, NEW b \in S
               PROVE  <<a, b>> \in B <=> up(a, b) \/ (~up(b, a) /\ a < b)
    OBVIOUS
  <2>1. <<a, b>> \in S \X S /\ <<a, b>>[1] = a /\ <<a, b>>[2] = b
    OBVIOUS
  <2> QED BY <2>1 DEF Fractions
<1>2. ASSUME NEW a \in S, NEW b \in S PROVE up(a, b) => ~up(b, a)
  <2>1. n[a] * d[b] \in Int /\ n[b] * d[a] \in Int
    OBVIOUS
  <2> QED BY <2>1
<1>3. ASSUME NEW a \in S, NEW b \in S, NEW c \in S, ~up(b, a), ~up(c, b)
      PROVE  ~up(c, a) /\ (up(a, b) \/ up(b, c) => up(a, c))
  <2>1. /\ n[a] * d[b] \in Int /\ n[b] * d[a] \in Int /\ n[b] * d[c] \in Int
        /\ n[c] * d[b] \in Int /\ n[a] * d[c] \in Int /\ n[c] * d[a] \in Int
    OBVIOUS
  <2>2. n[a] * d[b] >= n[b] * d[a] /\ n[b] * d[c] >= n[c] * d[b]
    BY <1>3, <2>1
  <2> DEFINE n1 == n[a]
             n2 == n[b]
             n3 == n[c]
             d1 == d[a]
             d2 == d[b]
             d3 == d[c]
  <2>3. /\ n1 \in Nat /\ n2 \in Nat /\ n3 \in Nat
        /\ d1 \in Nat \ {0} /\ d2 \in Nat \ {0} /\ d3 \in Nat \ {0}
    OBVIOUS
  <2>4. n1 * d2 >= n2 * d1 /\ n2 * d3 >= n3 * d2
    BY <2>2
  <2> HIDE DEF n1, n2, n3, d1, d2, d3
  <2>5. /\ n1 * d3 >= n3 * d1
        /\ n1 * d2 > n2 * d1 \/ n2 * d3 > n3 * d2 => n1 * d3 > n3 * d1
    BY <2>3, <2>4, Chain
  <2> QED BY <2>1, <2>5 DEF n1, n2, n3, d1, d2, d3
<1> HIDE DEF up, B
<1>4. StrictOrder(S, B)
  <2>1. \A x \in S : <<x, x>> \notin B
    BY <1>1, <1>2
  <2>2. \A x, y \in S : x # y => <<x, y>> \in B \/ <<y, x>> \in B
    BY <1>1, <1>2
  <2>3. ASSUME NEW x \in S, NEW y \in S, NEW z \in S, <<x, y>> \in B, <<y, z>> \in B
        PROVE  <<x, z>> \in B
    <3>1. ~up(y, x) /\ ~up(z, y)
      BY <1>1, <1>2, <2>3
    <3>2. ~up(z, x) /\ (up(x, y) \/ up(y, z) => up(x, z))
      BY <1>3, <3>1
    <3>3. up(x, y) \/ up(y, z) \/ x < z
      BY <1>1, <2>3
    <3> QED BY <1>1, <3>2, <3>3
  <2> QED BY <2>1, <2>2, <2>3 DEF StrictOrder
<1> QED BY <1>4 DEF B

\* A list of n different identifiers.
IsRanking(s, n) ==
    /\ n \in Nat /\ s = [i \in 1..n |-> s[i]]
    /\ \A i \in 1..n : s[i] \in Int
    /\ \A i, j \in 1..n : s[i] = s[j] => i = j

LEMMA RankingOf ==
  ASSUME NEW S, S \subseteq Int, IsFiniteSet(S), NEW B, StrictOrder(S, B)
  PROVE  IsRanking(RankedBy(S, B), Cardinality(S))
<1> DEFINE L == RankedBy(S, B)
           n == Cardinality(S)
<1>1. n \in Nat /\ L \in [1..n -> S] /\ \A i, j \in 1..n : L[i] = L[j] => i = j
  BY RankedFacts
<1> HIDE DEF L, n
<1>2. L = [i \in 1..n |-> L[i]] /\ \A i \in 1..n : L[i] \in Int
  BY <1>1
<1> QED BY <1>1, <1>2 DEF IsRanking, L, n

\* Cutting a ranking keeps its front.
LEMMA CutRanking ==
  ASSUME NEW L, NEW n, IsRanking(L, n), NEW k \in Nat
  PROVE  LET s == Truncate(L, k)
             m == IF k < n THEN k ELSE n
         IN  IsRanking(s, m) /\ m <= n /\ \A i \in 1..m : s[i] = L[i]
<1> DEFINE s == Truncate(L, k)
           m == IF k < n THEN k ELSE n
<1>1. /\ n \in Nat /\ L = [i \in 1..n |-> L[i]] /\ \A i \in 1..n : L[i] \in Int
      /\ \A i, j \in 1..n : L[i] = L[j] => i = j
  BY DEF IsRanking
<1>2. L \in Seq(Int) /\ Len(L) = n
  BY <1>1
<1>3. m \in Nat /\ m <= n /\ \A i \in 1..m : i \in 1..n
  BY <1>1
<1>4. s \in Seq(Int) /\ DOMAIN s = 1..m /\ \A i \in 1..m : s[i] = L[i]
  <2>1. n \in Nat
    BY <1>1
  <2> QED BY <1>2, <1>3, <2>1 DEF Truncate
<1> HIDE DEF s, m
<1>5. s = [i \in 1..m |-> s[i]]
  BY <1>4
<1>6. \A i \in 1..m : s[i] \in Int
  BY <1>1, <1>3, <1>4
<1>7. \A i, j \in 1..m : s[i] = s[j] => i = j
  BY <1>1, <1>3, <1>4
<1> QED BY <1>3, <1>4, <1>5, <1>6, <1>7 DEF IsRanking, s, m


\* The tokens of a document can be counted.
LEMMA TokensAreFinite ==
  ASSUME NEW text, IsList(text)
  PROVE  IsFiniteSet(tokenize(text))
<1> DEFINE R == Range(text)
<1>1. text \in Seq(R)
  BY DEF IsList
<1> HIDE DEF R
<1>2. Len(text) \in Nat /\ DOMAIN text = 1..Len(text)
  BY <1>1
<1>3. IsFiniteSet(1..Len(text))
  BY <1>2, FS_Interval
<1>4. tokenize(text) \in SUBSET (1..Len(text))
  BY <1>2 DEF tokenize
<1> DEFINE U == 1..Len(text)
           T == tokenize(text)
<1> HIDE DEF U, T
<1>5. IsFiniteSet(U) /\ T \in SUBSET U
  BY <1>3, <1>4 DEF U, T
<1>6. IsFiniteSet(T)
  BY <1>5, FS_Subset
<1> QED BY <1>6 DEF T

LEMMA ImageIsFinite ==
  ASSUME NEW S, IsFiniteSet(S), NEW f
  PROVE  IsFiniteSet({f[x] : x \in S})
<1> DEFINE T == {f[x] : x \in S}
           g == [x \in S |-> f[x]]
<1>1. g \in Surjection(S, T)
  <2>1. g \in [S -> T] /\ \A t \in T : \E x \in S : g[x] = t
    OBVIOUS
  <2> HIDE DEF g, T
  <2> QED BY <2>1 DEF Surjection
<1> HIDE DEF g, T
<1>2. IsFiniteSet(T)
  BY <1>1, FS_Surjection
<1> QED BY <1>2 DEF T

\* What a search gives is the front of one list, whatever the number asked for.
Fronts(s, L, k) == s = Truncate(L, k)

LEMMA DenseList ==
  ASSUME NEW col, Sane(col), NEW e, e.x \in Int, NEW metric \in Metrics, NEW A
  PROVE  \E L, n : IsRanking(L, n)
                   /\ \A k \in Nat : Fronts(search_filtered(col, e, k, metric, A), L, k)
<1> DEFINE S == A \cap DOMAIN col.vectors
           B == Nearer(col, e, metric, S)
           L == RankedBy(S, B)
<1>1. \A k \in Nat : Fronts(search_filtered(col, e, k, metric, A), L, k)
  BY DenseIsRanked DEF Fronts
<1>2. S \subseteq DOMAIN col.vectors /\ IsFiniteSet(S) /\ S \subseteq Int
  <2>1. S \in SUBSET DOMAIN col.vectors /\ IsFiniteSet(DOMAIN col.vectors) /\ DOMAIN col.vectors \subseteq Int
    BY DEF Sane
  <2> HIDE DEF S
  <2> QED BY <2>1, FS_Subset
<1> HIDE DEF S
<1>3. StrictOrder(S, B)
  BY <1>2, NearerIsOrder
<1> HIDE DEF B
<1>4. IsRanking(L, Cardinality(S))
  BY <1>2, <1>3, RankingOf
<1> HIDE DEF L
<1> QED BY <1>1, <1>4

LEMMA LexicalList ==
  ASSUME NEW col, Sane(col), NEW text, NEW A
  PROVE  \E L, n : IsRanking(L, n)
                   /\ \A k \in Nat : Fronts(search_text_filtered(col, text, k, A), L, k)
<1> DEFINE terms == {text[i] : i \in tokenize(text)}
           corpus == DOMAIN col.documents
           tokens(id) == tokenize(col.documents[id])
           total == Cardinality(UNION {{id} \X tokens(id) : id \in corpus})
           frequency(id) == Cardinality({i \in tokens(id) : col.documents[id][i] \in terms})
           length(id) == total + 3 * Cardinality(tokens(id)) * Cardinality(corpus)
           better(a, b) == frequency(a) * length(b) > frequency(b) * length(a)
           before(a, b) == better(a, b) \/ (~better(b, a) /\ a < b)
           hits == {id \in corpus \cap A : frequency(id) > 0}
           old(j) == CHOOSE x \in hits : Cardinality({y \in hits : before(y, x)}) = j - 1
           num == [id \in hits |-> frequency(id)]
           den == [id \in hits |-> length(id)]
           B == Fractions(hits, num, den)
           new(j) == CHOOSE x \in hits : Cardinality({y \in hits : <<y, x>> \in B}) = j - 1
           L == RankedBy(hits, B)
<1>1. \A k : search_text_filtered(col, text, k, A) = Truncate([j \in 1..Cardinality(hits) |-> old(j)], k)
  BY DEF search_text_filtered, Ranked
<1>2. L = [j \in 1..Cardinality(hits) |-> new(j)]
  BY DEF RankedBy
<1>3. corpus \in SUBSET DOMAIN col.vectors /\ IsFiniteSet(corpus) /\ corpus \subseteq Int
  <2>1. /\ corpus \in SUBSET DOMAIN col.vectors /\ IsFiniteSet(DOMAIN col.vectors)
        /\ DOMAIN col.vectors \subseteq Int
    BY DEF Sane
  <2> HIDE DEF corpus
  <2> QED BY <2>1, FS_Subset
<1>4. \A id \in corpus : IsFiniteSet(tokens(id)) /\ Cardinality(tokens(id)) \in Nat
  <2> SUFFICES ASSUME NEW id \in corpus
               PROVE  IsFiniteSet(tokens(id)) /\ Cardinality(tokens(id)) \in Nat
    OBVIOUS
  <2>1. IsList(col.documents[id])
    BY DEF Sane, IsDocument
  <2>2. IsFiniteSet(tokens(id))
    BY <2>1, TokensAreFinite
  <2> QED BY <2>2, FS_CardinalityType
<1> HIDE DEF terms, tokens
<1>5. \A id \in corpus : /\ frequency(id) \in Nat
                         /\ frequency(id) > 0 => Cardinality(tokens(id)) > 0
  <2> SUFFICES ASSUME NEW id \in corpus
               PROVE  /\ frequency(id) \in Nat
                      /\ frequency(id) > 0 => Cardinality(tokens(id)) > 0
    OBVIOUS
  <2> DEFINE F == {i \in tokens(id) : col.documents[id][i] \in terms}
             T == tokens(id)
  <2>1. F \in SUBSET T /\ IsFiniteSet(T) /\ Cardinality(T) \in Nat
    BY <1>4
  <2> HIDE DEF F, T
  <2>2. IsFiniteSet(F) /\ Cardinality(F) <= Cardinality(T)
    BY <2>1, FS_Subset
  <2>3. Cardinality(F) \in Nat
    BY <2>2, FS_CardinalityType
  <2>4. Cardinality(F) > 0 => Cardinality(T) > 0
    BY <2>1, <2>2, <2>3
  <2> QED BY <2>3, <2>4 DEF F, T
<1>6. total \in Nat
  <2> DEFINE f == [id \in corpus |-> {id} \X tokens(id)]
             U == {f[id] : id \in corpus}
  <2>1. \A t \in U : IsFiniteSet(t)
    <3> SUFFICES ASSUME NEW id \in corpus PROVE IsFiniteSet({id} \X tokens(id))
      OBVIOUS
    <3> DEFINE one == {id}
               T == tokens(id)
    <3>1. IsFiniteSet(one) /\ IsFiniteSet(T)
      BY <1>4, FS_Singleton
    <3> HIDE DEF one, T
    <3>2. IsFiniteSet(one \X T)
      BY <3>1, FS_Product
    <3> QED BY <3>2 DEF one, T
  <2>2. U = {{id} \X tokens(id) : id \in corpus}
    OBVIOUS
  <2>3. IsFiniteSet(U)
    <3> HIDE DEF f, corpus
    <3> QED BY <1>3, ImageIsFinite
  <2> HIDE DEF U
  <2>4. IsFiniteSet(UNION U)
    BY <2>1, <2>3, FS_UNION
  <2>5. Cardinality(UNION U) \in Nat
    BY <2>4, FS_CardinalityType
  <2> QED BY <2>2, <2>5
<1>7. Cardinality(corpus) \in Nat /\ \A id \in corpus : Cardinality(corpus) > 0
  <2> HIDE DEF corpus
  <2>1. Cardinality(corpus) \in Nat /\ (Cardinality(corpus) = 0 => corpus = {})
    BY <1>3, FS_CardinalityType, FS_EmptySet
  <2> QED BY <2>1
<1> HIDE DEF total, frequency
<1>8. \A id \in hits : frequency(id) \in Nat /\ length(id) \in Nat \ {0}
  <2> SUFFICES ASSUME NEW id \in hits PROVE frequency(id) \in Nat /\ length(id) \in Nat \ {0}
    OBVIOUS
  <2> DEFINE t == Cardinality(tokens(id))
             c == Cardinality(corpus)
  <2>1. t \in Nat /\ t > 0 /\ c \in Nat /\ c > 0 /\ total \in Nat /\ frequency(id) \in Nat
    BY <1>4, <1>5, <1>6, <1>7
  <2> HIDE DEF t, c
  <2>2. 3 * t \in Nat \ {0}
    BY <2>1
  <2>3. 3 * t * c \in Nat \ {0}
    BY <2>1, <2>2
  <2>4. total + 3 * t * c \in Nat \ {0}
    BY <2>1, <2>3
  <2> QED BY <2>1, <2>4 DEF t, c
<1>9. IsFiniteSet(hits) /\ hits \subseteq Int
  <2>1. hits \in SUBSET corpus
    OBVIOUS
  <2> HIDE DEF hits, corpus
  <2> QED BY <1>3, <2>1, FS_Subset
<1> HIDE DEF length
<1>10. num \in [hits -> Nat] /\ den \in [hits -> Nat \ {0}]
  BY <1>8
<1>11. \A x \in hits : {y \in hits : before(y, x)} = {y \in hits : <<y, x>> \in B}
  <2> SUFFICES ASSUME NEW x \in hits, NEW y \in hits PROVE before(y, x) <=> <<y, x>> \in B
    OBVIOUS
  <2>1. <<y, x>> \in hits \X hits /\ <<y, x>>[1] = y /\ <<y, x>>[2] = x
    OBVIOUS
  <2>2. /\ num[x] = frequency(x) /\ num[y] = frequency(y)
        /\ den[x] = length(x) /\ den[y] = length(y)
    OBVIOUS
  <2> HIDE DEF num, den, hits
  <2> QED BY <2>1, <2>2 DEF Fractions
<1> HIDE DEF hits, num, den
<1>12. StrictOrder(hits, B)
  BY <1>9, <1>10, FractionsAreOrder
<1>13. \A j : old(j) = new(j)
  <2> SUFFICES ASSUME NEW j PROVE old(j) = new(j)
    OBVIOUS
  <2> DEFINE P(x) == Cardinality({y \in hits : before(y, x)}) = j - 1
             Q(x) == Cardinality({y \in hits : <<y, x>> \in B}) = j - 1
  <2>1. \A x \in hits : P(x) <=> Q(x)
    BY <1>11
  <2> HIDE DEF P, Q
  <2>2. (CHOOSE x \in hits : P(x)) = (CHOOSE x \in hits : Q(x))
    BY <2>1
  <2> QED BY <2>2 DEF P, Q
<1> HIDE DEF old, new, B
<1>14. [j \in 1..Cardinality(hits) |-> old(j)] = L
  BY <1>2, <1>13
<1>15. IsRanking(L, Cardinality(hits))
  BY <1>9, <1>12, RankingOf
<1> HIDE DEF L
<1>16. \A k \in Nat : Fronts(search_text_filtered(col, text, k, A), L, k)
  BY <1>1, <1>14 DEF Fronts
<1> QED BY <1>15, <1>16


\* Adding fractions keeps comparisons.
LEMMA SumOfFractions ==
  ASSUME NEW n1 \in Nat, NEW d1 \in Nat \ {0}, NEW n2 \in Nat, NEW d2 \in Nat \ {0},
         NEW m1 \in Nat, NEW e1 \in Nat \ {0}, NEW m2 \in Nat, NEW e2 \in Nat \ {0},
         n1 * e1 >= m1 * d1, n2 * e2 >= m2 * d2,
         n1 * e1 > m1 * d1 \/ n2 * e2 > m2 * d2
  PROVE  (n1 * d2 + n2 * d1) * (e1 * e2) > (m1 * e2 + m2 * e1) * (d1 * d2)
<1> DEFINE p == n1 * e1
           q == m1 * d1
           r == n2 * e2
           s == m2 * d2
           f == d2 * e2
           g == d1 * e1
<1>1. p \in Int /\ q \in Int /\ r \in Int /\ s \in Int /\ f \in Int /\ g \in Int
  OBVIOUS
<1>2. f > 0 /\ g > 0
  OBVIOUS
<1>3. /\ (n1 * d2 + n2 * d1) * (e1 * e2) = p * f + r * g
      /\ (m1 * e2 + m2 * e1) * (d1 * d2) = q * f + s * g
  OBVIOUS
<1>4. p >= q /\ r >= s /\ (p > q \/ r > s)
  OBVIOUS
<1> HIDE DEF p, q, r, s, f, g
<1>5. f \in Nat \ {0} /\ g \in Nat \ {0}
  BY <1>1, <1>2
<1>6. (p > q <=> p * f > q * f) /\ (q > p <=> q * f > p * f)
  BY <1>1, <1>5, Scaling
<1>7. (r > s <=> r * g > s * g) /\ (s > r <=> s * g > r * g)
  BY <1>1, <1>5, Scaling
<1>8. p * f \in Int /\ q * f \in Int /\ r * g \in Int /\ s * g \in Int
  BY <1>1
<1>9. p * f + r * g > q * f + s * g
  BY <1>1, <1>4, <1>6, <1>7, <1>8
<1> QED BY <1>3, <1>9

\* When b is in the list, a is in it before b.
Ahead(s, n, a, b) ==
    b \in Range(s) => \E i, j \in 1..n : i < j /\ s[i] = a /\ s[j] = b

LEMMA RankingFacts ==
  ASSUME NEW s, NEW n, IsRanking(s, n)
  PROVE  /\ n \in Nat /\ DOMAIN s = 1..n /\ Range(s) = {s[i] : i \in 1..n}
         /\ Range(s) \subseteq Int /\ IsFiniteSet(Range(s))
         /\ \A i \in 1..n : PositionIn(s, s[i]) = i
<1>1. /\ n \in Nat /\ s = [i \in 1..n |-> s[i]] /\ \A i \in 1..n : s[i] \in Int
      /\ \A i, j \in 1..n : s[i] = s[j] => i = j
  BY DEF IsRanking
<1>2. DOMAIN s = 1..n
  BY <1>1
<1>3. Range(s) = {s[i] : i \in 1..n}
  BY <1>2 DEF Range
<1>4. IsFiniteSet(1..n)
  BY <1>1, FS_Interval
<1> DEFINE I == 1..n
<1>5. IsFiniteSet({s[i] : i \in I})
  <2> HIDE DEF I
  <2> QED BY <1>4, ImageIsFinite DEF I
<1>6. ASSUME NEW i \in 1..n PROVE PositionIn(s, s[i]) = i
  <2>1. \A j \in DOMAIN s : s[j] = s[i] <=> j = i
    BY <1>1, <1>2
  <2>2. i \in DOMAIN s
    BY <1>2
  <2> QED BY <2>1, <2>2 DEF PositionIn
<1> QED BY ZenonT(40), <1>1, <1>2, <1>3, <1>5, <1>6

LEMMA ShareFacts ==
  ASSUME NEW s, NEW n, IsRanking(s, n), NEW k \in Nat \ {0}, NEW id
  PROVE  /\ Share(s, k, id).num \in Nat /\ Share(s, k, id).den \in Nat \ {0}
         /\ \A i \in 1..n : id = s[i] => Share(s, k, id).num = 1 /\ Share(s, k, id).den = k + i
         /\ id \notin Range(s) => Share(s, k, id).num = 0 /\ Share(s, k, id).den = 1
<1>1. /\ n \in Nat /\ Range(s) = {s[i] : i \in 1..n}
      /\ \A i \in 1..n : PositionIn(s, s[i]) = i
  BY RankingFacts
<1>2. ASSUME NEW i \in 1..n, id = s[i]
      PROVE  Share(s, k, id) = [num |-> 1, den |-> k + i]
  BY <1>1, <1>2 DEF Share
<1>3. id \notin Range(s) => Share(s, k, id) = [num |-> 0, den |-> 1]
  BY DEF Share
<1>4. \A i \in 1..n : k + i \in Nat \ {0}
  BY <1>1
<1> DEFINE x == Share(s, k, id)
<1> HIDE DEF x
<1>5. CASE id \in Range(s)
  <2>1. PICK i \in 1..n : id = s[i]
    BY <1>1, <1>5
  <2>2. x = [num |-> 1, den |-> k + i]
    BY <1>2, <2>1 DEF x
  <2>3. \A j \in 1..n : id = s[j] => j = i
    BY <1>1, <2>1
  <2>4. x.num = 1 /\ x.den = k + i /\ k + i \in Nat \ {0}
    BY <1>4, <2>2
  <2> QED BY <1>5, <2>3, <2>4 DEF x
<1>6. CASE id \notin Range(s)
  <2>1. x = [num |-> 0, den |-> 1]
    BY <1>3, <1>6 DEF x
  <2>2. x.num = 0 /\ x.den = 1
    BY <2>1
  <2>3. \A j \in 1..n : id # s[j]
    BY <1>1, <1>6
  <2> QED BY <2>2, <2>3 DEF x
<1> QED BY <1>5, <1>6

LEMMA ShareAhead ==
  ASSUME NEW s, NEW n, IsRanking(s, n), NEW k \in Nat \ {0}, NEW a, NEW b, Ahead(s, n, a, b)
  PROVE  LET x == Share(s, k, a)
             y == Share(s, k, b)
         IN  /\ x.num * y.den >= y.num * x.den
             /\ b \in Range(s) => x.num * y.den > y.num * x.den
<1> DEFINE x == Share(s, k, a)
           y == Share(s, k, b)
<1>0. n \in Nat
  BY RankingFacts
<1>1. /\ x.num \in Nat /\ x.den \in Nat \ {0} /\ y.num \in Nat /\ y.den \in Nat \ {0}
      /\ \A i \in 1..n : a = s[i] => x.num = 1 /\ x.den = k + i
      /\ \A i \in 1..n : b = s[i] => y.num = 1 /\ y.den = k + i
      /\ b \notin Range(s) => y.num = 0 /\ y.den = 1
  BY ShareFacts
<1> HIDE DEF x, y
<1>2. CASE b \in Range(s)
  <2>1. PICK i \in 1..n, j \in 1..n : i < j /\ s[i] = a /\ s[j] = b
    BY <1>2 DEF Ahead
  <2>2. x.num = 1 /\ x.den = k + i /\ y.num = 1 /\ y.den = k + j
    BY <1>1, <2>1
  <2>3. 1 * (k + j) > 1 * (k + i)
    BY <1>0, <2>1
  <2>4. x.num * y.den > y.num * x.den
    BY <2>2, <2>3
  <2>5. x.num * y.den \in Int /\ y.num * x.den \in Int
    BY <1>1
  <2> QED BY <2>4, <2>5 DEF x, y
<1>3. CASE b \notin Range(s)
  <2>1. y.num * x.den = 0 /\ x.num * y.den = x.num
    BY <1>1, <1>3
  <2> QED BY <1>1, <1>3, <2>1 DEF x, y
<1> QED BY <1>2, <1>3

\* An id that both lists have in front of another is in front of it in the fused list.
LEMMA FusedList ==
  ASSUME NEW s, NEW n, IsRanking(s, n), NEW t, NEW m, IsRanking(t, m), NEW k \in Nat \ {0}
  PROVE  LET f == fuse_rrf(<<s, t>>, k) IN
         \E N : /\ IsRanking(f, N)
                /\ \A a, b : Ahead(s, n, a, b) /\ Ahead(t, m, a, b) => Ahead(f, N, a, b)
<1> DEFINE S == Range(s) \cup Range(t)
           one(id) == Share(s, k, id)
           two(id) == Share(t, k, id)
           num(id) == one(id).num * two(id).den + two(id).num * one(id).den
           den(id) == one(id).den * two(id).den
           better(a, b) == num(a) * den(b) > num(b) * den(a)
           before(a, b) == better(a, b) \/ (~better(b, a) /\ a < b)
           old(j) == CHOOSE x \in S : Cardinality({y \in S : before(y, x)}) = j - 1
           nums == [id \in S |-> num(id)]
           dens == [id \in S |-> den(id)]
           B == Fractions(S, nums, dens)
           new(j) == CHOOSE x \in S : Cardinality({y \in S : <<y, x>> \in B}) = j - 1
           L == RankedBy(S, B)
           N == Cardinality(S)
           f == fuse_rrf(<<s, t>>, k)
<1>1. f = [j \in 1..N |-> old(j)]
  <2> DEFINE rs == <<s, t>>
             top(r, q, id) == Share(r, k, id).num * Share(q, k, id).den
                              + Share(q, k, id).num * Share(r, k, id).den
             bottom(r, q, id) == Share(r, k, id).den * Share(q, k, id).den
             above(r, q, a, b) == top(r, q, a) * bottom(r, q, b) > top(r, q, b) * bottom(r, q, a)
             first(r, q, a, b) == above(r, q, a, b) \/ (~above(r, q, b, a) /\ a < b)
             G(r, q, U) == [j \in 1..Cardinality(U) |->
                              CHOOSE x \in U : Cardinality({y \in U : first(r, q, y, x)}) = j - 1]
  <2>1. rs[1] = s /\ rs[2] = t
    OBVIOUS
  <2>2. \A r : fuse_rrf(r, k) = G(r[1], r[2], Range(r[1]) \cup Range(r[2]))
    BY DEF fuse_rrf, Ranked
  <2>3. G(s, t, S) = [j \in 1..N |-> old(j)]
    OBVIOUS
  <2> HIDE DEF G, rs, old
  <2>4. fuse_rrf(rs, k) = G(rs[1], rs[2], Range(rs[1]) \cup Range(rs[2]))
    BY <2>2
  <2>5. fuse_rrf(rs, k) = G(s, t, S)
    BY <2>1, <2>4
  <2> QED BY <2>3, <2>5 DEF rs
<1>2. L = [j \in 1..N |-> new(j)]
  BY DEF RankedBy
<1>3. IsFiniteSet(S) /\ S \subseteq Int
  <2> DEFINE P == Range(s)
             Q == Range(t)
  <2>1. IsFiniteSet(P) /\ IsFiniteSet(Q) /\ P \subseteq Int /\ Q \subseteq Int
    BY RankingFacts
  <2> HIDE DEF P, Q
  <2>2. IsFiniteSet(P \cup Q) /\ P \cup Q \subseteq Int
    BY <2>1, FS_Union
  <2> QED BY <2>2 DEF P, Q
<1>4. \A id : /\ one(id).num \in Nat /\ one(id).den \in Nat \ {0}
              /\ two(id).num \in Nat /\ two(id).den \in Nat \ {0}
  BY ShareFacts
<1>5. ASSUME NEW a, NEW b \in S, Ahead(s, n, a, b), Ahead(t, m, a, b) PROVE better(a, b)
  <2> DEFINE n1 == one(a).num
             d1 == one(a).den
             n2 == two(a).num
             d2 == two(a).den
             m1 == one(b).num
             e1 == one(b).den
             m2 == two(b).num
             e2 == two(b).den
  <2>1. /\ n1 \in Nat /\ d1 \in Nat \ {0} /\ n2 \in Nat /\ d2 \in Nat \ {0}
        /\ m1 \in Nat /\ e1 \in Nat \ {0} /\ m2 \in Nat /\ e2 \in Nat \ {0}
    BY <1>4
  <2>2. n1 * e1 >= m1 * d1 /\ (b \in Range(s) => n1 * e1 > m1 * d1)
    BY <1>5, ShareAhead
  <2>3. n2 * e2 >= m2 * d2 /\ (b \in Range(t) => n2 * e2 > m2 * d2)
    BY <1>5, ShareAhead
  <2>4. better(a, b) <=> (n1 * d2 + n2 * d1) * (e1 * e2) > (m1 * e2 + m2 * e1) * (d1 * d2)
    OBVIOUS
  <2> HIDE DEF n1, d1, n2, d2, m1, e1, m2, e2, better
  <2>5. n1 * e1 > m1 * d1 \/ n2 * e2 > m2 * d2
    BY <2>2, <2>3
  <2>6. (n1 * d2 + n2 * d1) * (e1 * e2) > (m1 * e2 + m2 * e1) * (d1 * d2)
    BY <2>1, <2>2, <2>3, <2>5, SumOfFractions
  <2> QED BY <2>4, <2>6
<1>6. \A id \in S : num(id) \in Nat /\ den(id) \in Nat \ {0}
  <2> SUFFICES ASSUME NEW id \in S PROVE num(id) \in Nat /\ den(id) \in Nat \ {0}
    OBVIOUS
  <2> DEFINE n1 == one(id).num
             d1 == one(id).den
             n2 == two(id).num
             d2 == two(id).den
  <2>1. n1 \in Nat /\ d1 \in Nat \ {0} /\ n2 \in Nat /\ d2 \in Nat \ {0}
    BY <1>4
  <2> HIDE DEF n1, d1, n2, d2
  <2>2. n1 * d2 \in Nat /\ n2 * d1 \in Nat /\ d1 * d2 \in Nat /\ d1 * d2 > 0
    BY <2>1
  <2>3. n1 * d2 + n2 * d1 \in Nat /\ d1 * d2 \in Nat \ {0}
    BY <2>2
  <2> QED BY <2>3 DEF n1, d1, n2, d2
<1> HIDE DEF num, den
<1>7. nums \in [S -> Nat] /\ dens \in [S -> Nat \ {0}]
  BY <1>6
<1>8. \A x, y \in S : before(y, x) <=> <<y, x>> \in B
  <2> SUFFICES ASSUME NEW x \in S, NEW y \in S PROVE before(y, x) <=> <<y, x>> \in B
    OBVIOUS
  <2>1. <<y, x>> \in S \X S /\ <<y, x>>[1] = y /\ <<y, x>>[2] = x
    OBVIOUS
  <2>2. nums[x] = num(x) /\ nums[y] = num(y) /\ dens[x] = den(x) /\ dens[y] = den(y)
    OBVIOUS
  <2> HIDE DEF nums, dens, S
  <2> QED BY <2>1, <2>2 DEF Fractions
<1>9. \A a, b \in S : better(a, b) => <<a, b>> \in B
  BY <1>8
<1> HIDE DEF S, nums, dens
<1>10. StrictOrder(S, B)
  BY <1>3, <1>7, FractionsAreOrder
<1> HIDE DEF B, better, before
<1>11. \A j : old(j) = new(j)
  <2> SUFFICES ASSUME NEW j PROVE old(j) = new(j)
    OBVIOUS
  <2> DEFINE P(x) == Cardinality({y \in S : before(y, x)}) = j - 1
             Q(x) == Cardinality({y \in S : <<y, x>> \in B}) = j - 1
  <2>0. \A x \in S : {y \in S : before(y, x)} = {y \in S : <<y, x>> \in B}
    BY <1>8
  <2>1. \A x \in S : P(x) <=> Q(x)
    BY <2>0
  <2> HIDE DEF P, Q
  <2>2. (CHOOSE x \in S : P(x)) = (CHOOSE x \in S : Q(x))
    BY <2>1
  <2> QED BY <2>2 DEF P, Q
<1> HIDE DEF old, new, f
<1>12. f = L
  BY <1>1, <1>2, <1>11
<1>13. IsRanking(L, N)
  BY <1>3, <1>10, RankingOf
<1>14. /\ N \in Nat /\ L \in [1..N -> S] /\ \A x \in S : \E i \in 1..N : L[i] = x
       /\ \A i, j \in 1..N : i < j => <<L[i], L[j]>> \in B
  BY <1>3, <1>10, RankedFacts
<1> HIDE DEF L, N
<1>15. ASSUME NEW a, NEW b, Ahead(s, n, a, b), Ahead(t, m, a, b) PROVE Ahead(L, N, a, b)
  <2> SUFFICES ASSUME b \in Range(L)
               PROVE  \E i, j \in 1..N : i < j /\ L[i] = a /\ L[j] = b
    BY DEF Ahead
  <2>1. PICK j \in 1..N : b = L[j]
    BY <1>14 DEF Range
  <2>2. b \in S
    BY <1>14, <2>1
  <2>3. a \in S
    <3>1. \A i \in 1..n : s[i] \in Range(s)
      BY RankingFacts
    <3>2. \A i \in 1..m : t[i] \in Range(t)
      BY RankingFacts
    <3> QED BY <1>15, <2>2, <3>1, <3>2 DEF Ahead, S
  <2>4. <<a, b>> \in B
    BY <1>5, <1>9, <1>15, <2>2, <2>3
  <2>5. PICK i \in 1..N : a = L[i]
    BY <1>14, <2>3
  <2>6. ~(j < i) /\ i # j
    BY <1>10, <1>14, <2>1, <2>2, <2>3, <2>4, <2>5 DEF StrictOrder
  <2>7. i < j
    BY <1>14, <2>6
  <2> QED BY <2>1, <2>5, <2>7
<1> QED BY <1>12, <1>13, <1>15 DEF f


\* Where an id is in a list; behind the end when it is not there.
PlaceOf(s, id) == IF id \in Range(s) THEN CHOOSE i \in DOMAIN s : s[i] = id ELSE Len(s) + 1

LEMMA PlaceFacts ==
  ASSUME NEW s, NEW n, IsRanking(s, n)
  PROVE  /\ \A i \in 1..n : PlaceOf(s, s[i]) = i
         /\ \A id : id \notin Range(s) => PlaceOf(s, id) = n + 1
<1>1. /\ n \in Nat /\ DOMAIN s = 1..n /\ Range(s) = {s[i] : i \in 1..n}
      /\ \A i \in 1..n : PositionIn(s, s[i]) = i
  BY RankingFacts
<1>2. Len(s) = n
  <2>1. s = [i \in 1..n |-> s[i]] /\ \A i \in 1..n : s[i] \in Int
    BY DEF IsRanking
  <2>2. s \in [1..n -> Int]
    BY <2>1
  <2>3. s \in Seq(Int)
    BY <1>1, <2>2
  <2>4. Len(s) \in Nat /\ DOMAIN s = 1..Len(s)
    BY <2>3
  <2> QED BY <1>1, <2>4
<1>3. ASSUME NEW i \in 1..n PROVE PlaceOf(s, s[i]) = i
  <2>1. s[i] \in Range(s)
    BY <1>1
  <2>2. PlaceOf(s, s[i]) = PositionIn(s, s[i])
    BY <2>1 DEF PlaceOf, PositionIn
  <2> QED BY <1>1, <2>2
<1>4. \A id : id \notin Range(s) => PlaceOf(s, id) = n + 1
  BY <1>2 DEF PlaceOf
<1> QED BY <1>3, <1>4

\* Who is not behind in the whole list is ahead in every front of it.
LEMMA PlaceAhead ==
  ASSUME NEW L, NEW n, IsRanking(L, n), NEW k \in Nat, NEW max \in Nat, k <= max,
         NEW a, NEW b, a # b, PlaceOf(Truncate(L, max), a) <= PlaceOf(Truncate(L, max), b)
  PROVE  Ahead(Truncate(L, k), IF k < n THEN k ELSE n, a, b)
<1> DEFINE cut == Truncate(L, k)
           c == IF k < n THEN k ELSE n
           full == Truncate(L, max)
           m == IF max < n THEN max ELSE n
<1>0. n \in Nat
  BY DEF IsRanking
<1>1. IsRanking(cut, c) /\ \A i \in 1..c : cut[i] = L[i]
  BY CutRanking
<1>2. IsRanking(full, m) /\ \A i \in 1..m : full[i] = L[i]
  BY CutRanking
<1>3. c \in Nat /\ m \in Nat /\ c <= m
  BY <1>0
<1>4. PlaceOf(full, a) <= PlaceOf(full, b)
  OBVIOUS
<1> HIDE DEF cut, full, c, m
<1>5. ASSUME b \in Range(cut)
      PROVE  \E i, j \in 1..c : i < j /\ cut[i] = a /\ cut[j] = b
  <2>1. PICK j \in 1..c : b = cut[j]
    BY <1>1, <1>5, RankingFacts
  <2>2. j \in 1..m /\ b = full[j]
    BY <1>1, <1>2, <1>3, <2>1
  <2>3. PlaceOf(full, b) = j
    BY <1>2, <2>2, PlaceFacts
  <2>4. a \in Range(full)
    <3>1. a \notin Range(full) => PlaceOf(full, a) = m + 1
      BY <1>2, PlaceFacts
    <3> QED BY <1>3, <1>4, <2>2, <2>3, <3>1
  <2>5. PICK i \in 1..m : a = full[i]
    BY <1>2, <2>4, RankingFacts
  <2>6. PlaceOf(full, a) = i
    BY <1>2, <2>5, PlaceFacts
  <2>7. i <= j /\ i # j
    BY <1>4, <2>2, <2>3, <2>5, <2>6
  <2>8. i < j /\ i \in 1..c
    BY <1>3, <2>1, <2>5, <2>7
  <2>9. cut[i] = a
    BY <1>1, <1>2, <2>5, <2>8
  <2> QED BY <2>1, <2>8, <2>9
<1>6. Ahead(cut, c, a, b)
  BY <1>5 DEF Ahead
<1> QED BY <1>6 DEF cut, c

\* What is ahead in a list is ahead in every front of it.
LEMMA CutAhead ==
  ASSUME NEW f, NEW N, IsRanking(f, N), NEW k \in Nat, NEW a, NEW b, Ahead(f, N, a, b),
         b \in Range(Truncate(f, k))
  PROVE  PlaceOf(Truncate(f, k), a) < PlaceOf(Truncate(f, k), b)
<1> DEFINE s == Truncate(f, k)
           c == IF k < N THEN k ELSE N
<1>0. N \in Nat
  BY DEF IsRanking
<1>1. IsRanking(s, c) /\ c <= N /\ \A i \in 1..c : s[i] = f[i]
  BY CutRanking
<1>2. c \in Nat
  BY <1>0
<1> HIDE DEF c
<1>3. b \in Range(s)
  OBVIOUS
<1> HIDE DEF s
<1>4. PICK l \in 1..c : b = s[l]
  BY <1>1, <1>3, RankingFacts
<1>5. b = f[l] /\ l \in 1..N
  BY <1>0, <1>1, <1>2, <1>4
<1>6. b \in Range(f)
  BY <1>5, RankingFacts
<1>7. PICK i \in 1..N, j \in 1..N : i < j /\ f[i] = a /\ f[j] = b
  BY <1>6 DEF Ahead
<1>8. j = l
  BY <1>5, <1>7 DEF IsRanking
<1>9. i \in 1..c /\ a = s[i]
  <2>1. i \in 1..c
    BY <1>0, <1>2, <1>4, <1>7, <1>8
  <2> QED BY <1>1, <1>7, <2>1
<1>10. PlaceOf(s, a) = i /\ PlaceOf(s, b) = l
  BY <1>1, <1>4, <1>9, PlaceFacts
<1>11. PlaceOf(s, a) < PlaceOf(s, b)
  BY <1>7, <1>8, <1>10
<1> QED BY <1>11 DEF s

\* A decoded hybrid query.
LEMMA HybridDecodes ==
  ASSUME NEW m, IsMessage("search_hybrid", m), hybrid_query_from_pb(m) # None
  PROVE  LET q == hybrid_query_from_pb(m)[1] IN
         /\ q.vector # None => q.vector[1].x \in Int
         /\ q.k \in Nat /\ (q.metric # None => q.metric[1] \in Metrics)
         /\ q.rrf_k \in Nat \ {0} /\ q.overfetch_factor \in Nat
<1> DEFINE vector == IF m.vector.len = 0 THEN Some(None)
                     ELSE IF ValidEmbedding(m.vector) THEN Some(Some(m.vector)) ELSE None
           text == IF m.text \in {None, Some(<<>>)} THEN None ELSE m.text
           filter == Transpose(m.filter, filter_from_pb)
           metric == optional_metric_from_pb(m.metric)
           rrf_k == rrf_k_from_pb(m.rrf_k)
           overfetch == overfetch_factor_from_pb(m.overfetch_factor)
           q == hybrid_query_from_pb(m)[1]
<1>0. /\ m.vector \in Vectors /\ m.k \in Nat
      /\ m.rrf_k # None => m.rrf_k[1] \in Int
      /\ m.overfetch_factor # None => m.overfetch_factor[1] \in Nat
  BY DEF IsMessage
<1>1. /\ ~AnyNone(<<vector, filter, metric, rrf_k, overfetch>>)
      /\ hybrid_query_from_pb(m) =
            Some([vector |-> vector[1], text |-> text, k |-> m.k, filter |-> filter[1],
                  metric |-> metric[1], rrf_k |-> rrf_k[1], overfetch_factor |-> overfetch[1]])
  BY DEF hybrid_query_from_pb
<1> HIDE DEF vector, text, filter, metric, rrf_k, overfetch
<1>2. vector # None /\ metric # None /\ rrf_k # None /\ overfetch # None
  <2> DEFINE all == <<vector, filter, metric, rrf_k, overfetch>>
  <2>1. /\ 1 \in DOMAIN all /\ 3 \in DOMAIN all /\ 4 \in DOMAIN all /\ 5 \in DOMAIN all
        /\ all[1] = vector /\ all[3] = metric /\ all[4] = rrf_k /\ all[5] = overfetch
    OBVIOUS
  <2>2. ~AnyNone(all)
    BY <1>1
  <2> HIDE DEF all
  <2> QED BY <2>1, <2>2 DEF AnyNone
<1>3. q = [vector |-> vector[1], text |-> text, k |-> m.k, filter |-> filter[1],
           metric |-> metric[1], rrf_k |-> rrf_k[1], overfetch_factor |-> overfetch[1]]
  BY <1>1, Given
<1>4. vector[1] # None => vector[1][1].x \in Int
  <2>1. vector[1] = None \/ vector[1] = Some(m.vector)
    BY <1>2, Given DEF vector
  <2>2. m.vector.x \in Int
    BY <1>0 DEF Vectors
  <2> QED BY <2>1, <2>2, Given
<1>5. metric[1] # None => metric[1][1] \in Metrics
  BY <1>2, Given, MetricDecodes DEF metric, optional_metric_from_pb
<1>6. rrf_k[1] \in Nat \ {0}
  <2>1. CASE m.rrf_k = None
    <3>1. rrf_k[1] = 60
      BY <2>1, Given DEF rrf_k, rrf_k_from_pb, DEFAULT_RRF_K
    <3> QED BY <3>1
  <2>2. CASE m.rrf_k # None
    <3>1. rrf_k = m.rrf_k /\ m.rrf_k[1] > 0
      BY <1>2, <2>2 DEF rrf_k, rrf_k_from_pb
    <3> QED BY <1>0, <2>2, <3>1
  <2> QED BY <2>1, <2>2
<1>7. overfetch[1] \in Nat
  BY <1>0, <1>2, Given DEF overfetch, overfetch_factor_from_pb, DEFAULT_OVERFETCH_FACTOR
<1> HIDE DEF q
<1>8. /\ q.vector = vector[1] /\ q.k = m.k /\ q.metric = metric[1] /\ q.rrf_k = rrf_k[1]
      /\ q.overfetch_factor = overfetch[1]
  BY <1>3
<1> QED BY <1>0, <1>4, <1>5, <1>6, <1>7, <1>8 DEF q


\* The ids of a body are those of the hits.
LEMMA IdsOfBody ==
  ASSUME NEW col, NEW ids, NEW n, IsRanking(ids, n)
  PROVE  LET body == hits_to_pb(hydrate(col, ids)) IN [i \in DOMAIN body |-> body[i].id.n] = ids
<1> DEFINE hits == hydrate(col, ids)
           body == hits_to_pb(hits)
<1>1. DOMAIN hits = DOMAIN ids /\ \A i \in DOMAIN ids : hits[i].id = ids[i]
  BY DEF hydrate
<1> HIDE DEF hits
<1>2. /\ DOMAIN body = DOMAIN hits
      /\ \A i \in DOMAIN hits : body[i] = hit_to_pb(hits[i])
  BY DEF hits_to_pb, Map
<1> HIDE DEF body
<1>3. \A i \in DOMAIN hits : body[i].id.n = hits[i].id
  BY <1>2 DEF hit_to_pb, vector_id_to_pb
<1>4. ids = [i \in DOMAIN ids |-> ids[i]]
  BY DEF IsRanking
<1>5. [i \in DOMAIN body |-> body[i].id.n] = ids
  BY <1>1, <1>2, <1>3, <1>4
<1> QED BY <1>5 DEF body, hits

\* Ids in the order of the two complete lists stay in that order through the cut to the
\* over-fetch depth, the fusion and the cut to k.
LEMMA FusedInOrder ==
  ASSUME NEW D, NEW nd, IsRanking(D, nd), NEW T, NEW nt, IsRanking(T, nt),
         NEW depth \in Nat, NEW max \in Nat, depth <= max, NEW k \in Nat, NEW rrf_k \in Nat \ {0}
  PROVE  LET ids == Truncate(fuse_rrf(<<Truncate(D, depth), Truncate(T, depth)>>, rrf_k), k)
         IN  /\ \E n : IsRanking(ids, n)
             /\ \A a : \A b \in Range(ids) :
                   /\ a # b
                   /\ PlaceOf(Truncate(D, max), a) <= PlaceOf(Truncate(D, max), b)
                   /\ PlaceOf(Truncate(T, max), a) <= PlaceOf(Truncate(T, max), b)
                   => PlaceOf(ids, a) < PlaceOf(ids, b)
<1> DEFINE s == Truncate(D, depth)
           t == Truncate(T, depth)
           n == IF depth < nd THEN depth ELSE nd
           m == IF depth < nt THEN depth ELSE nt
           f == fuse_rrf(<<s, t>>, rrf_k)
           ids == Truncate(f, k)
<1>1. IsRanking(s, n) /\ IsRanking(t, m)
  BY CutRanking
<1>2. ASSUME NEW a, NEW b, a # b, PlaceOf(Truncate(D, max), a) <= PlaceOf(Truncate(D, max), b)
      PROVE  Ahead(s, n, a, b)
  BY <1>2, PlaceAhead
<1>3. ASSUME NEW a, NEW b, a # b, PlaceOf(Truncate(T, max), a) <= PlaceOf(Truncate(T, max), b)
      PROVE  Ahead(t, m, a, b)
  BY <1>3, PlaceAhead
<1> HIDE DEF s, t, n, m
<1>4. \E N : /\ IsRanking(f, N)
             /\ \A a, b : Ahead(s, n, a, b) /\ Ahead(t, m, a, b) => Ahead(f, N, a, b)
  BY <1>1, FusedList
<1>5. PICK N : /\ IsRanking(f, N)
               /\ \A a, b : Ahead(s, n, a, b) /\ Ahead(t, m, a, b) => Ahead(f, N, a, b)
  BY <1>4
<1> HIDE DEF f
<1>6. \E c : IsRanking(ids, c)
  BY <1>5, CutRanking
<1>7. ASSUME NEW a, NEW b \in Range(ids), a # b,
             PlaceOf(Truncate(D, max), a) <= PlaceOf(Truncate(D, max), b),
             PlaceOf(Truncate(T, max), a) <= PlaceOf(Truncate(T, max), b)
      PROVE  PlaceOf(ids, a) < PlaceOf(ids, b)
  <2>1. Ahead(f, N, a, b)
    BY <1>2, <1>3, <1>5, <1>7
  <2> QED BY <1>5, <2>1, CutAhead
<1> HIDE DEF ids
<1>8. /\ \E c : IsRanking(ids, c)
      /\ \A a : \A b \in Range(ids) :
            /\ a # b
            /\ PlaceOf(Truncate(D, max), a) <= PlaceOf(Truncate(D, max), b)
            /\ PlaceOf(Truncate(T, max), a) <= PlaceOf(Truncate(T, max), b)
            => PlaceOf(ids, a) < PlaceOf(ids, b)
  BY <1>6, <1>7
<1> QED BY <1>8 DEF ids, f, s, t

LEMMA HybridInOrder ==
  ASSUME Registry(cols), NEW m, IsMessage("search_hybrid", m), SearchHybrid(m).code = "OK"
  PROVE  InOrder(m, SearchHybrid(m).body)
<1> DEFINE name == m.collection
           col == cols[name]
           query == hybrid_query_from_pb(m)
           q == query[1]
           metric == IF q.metric = None THEN col.meta.metric ELSE q.metric[1]
           all == Admissible(col, q.filter, DOMAIN col.vectors)
           e == q.vector[1]
           text == q.text[1]
           depth == saturating_mul(q.k, q.overfetch_factor)
           dense(k) == search_filtered(col, e, k, metric, all)
           lexical(k) == search_text_filtered(col, text, k, all)
           ids == Truncate(fuse_rrf(<<dense(depth), lexical(depth)>>, q.rrf_k), q.k)
           r == search_hybrid(col, q)
           body == SearchHybrid(m).body
<1> SUFFICES ASSUME q.vector # None, q.text # None PROVE InOrder(m, SearchHybrid(m).body)
  BY DEF InOrder
<1>1. /\ query # None /\ name \in DOMAIN cols
      /\ SearchHybrid(m) = Update(name, r, hits_to_pb(r.value))
  BY DEF SearchHybrid, Refuse
<1>2. r.code = "OK" /\ body = hits_to_pb(r.value)
  <2> HIDE DEF r, name, query
  <2> QED BY <1>1, UpdateFields
<1>3. Sane(col) /\ MetaOK(col.meta, name)
  BY <1>1 DEF Registry
<1>4. /\ e.x \in Int /\ q.k \in Nat /\ metric \in Metrics
      /\ q.rrf_k \in Nat \ {0} /\ q.overfetch_factor \in Nat
  <2>1. /\ q.vector # None => q.vector[1].x \in Int
        /\ q.k \in Nat /\ (q.metric # None => q.metric[1] \in Metrics)
        /\ q.rrf_k \in Nat \ {0} /\ q.overfetch_factor \in Nat
    BY <1>1, HybridDecodes
  <2> HIDE DEF q
  <2> QED BY <1>3, <2>1 DEF MetaOK
<1>5. depth \in Nat /\ MaxUsize \in Nat /\ depth <= MaxUsize
  <2>1. q.k * q.overfetch_factor \in Nat
    BY <1>4
  <2> QED BY <2>1, WireAssumption DEF saturating_mul
<1>6. r.value = hydrate(col, ids)
  <2>0. DOMAIN col.vectors \cup DOMAIN col.documents = DOMAIN col.vectors
    BY <1>3 DEF Sane
  <2> DEFINE v(known) ==
               LET A == Admissible(col, q.filter, known)
               IN  hydrate(col, Truncate(fuse_rrf(<<search_filtered(col, e, depth, metric, A),
                       search_text_filtered(col, text, depth, A)>>, q.rrf_k), q.k))
             both == DOMAIN col.vectors \cup DOMAIN col.documents
  <2>1. r = Failed(col, "INVALID_ARGUMENT") \/ r = Done(col, v(both))
    BY DEF search_hybrid, metric_of
  <2>2. v(DOMAIN col.vectors) = hydrate(col, ids)
    OBVIOUS
  <2> HIDE DEF v, r
  <2>3. r.value = v(both)
    BY <1>2, <2>1 DEF Failed, Done
  <2> HIDE DEF ids
  <2> QED BY <2>0, <2>2, <2>3
<1> HIDE DEF r, metric, depth, e, text
<1>7. PICK D, nd : IsRanking(D, nd) /\ \A k \in Nat : Fronts(dense(k), D, k)
  <2> HIDE DEF col, all
  <2> QED BY <1>3, <1>4, DenseList
<1>8. PICK T, nt : IsRanking(T, nt) /\ \A k \in Nat : Fronts(lexical(k), T, k)
  <2> HIDE DEF col, all
  <2> QED BY <1>3, LexicalList
<1> HIDE DEF dense, lexical
<1>9. /\ dense(depth) = Truncate(D, depth) /\ lexical(depth) = Truncate(T, depth)
      /\ dense(MaxUsize) = Truncate(D, MaxUsize) /\ lexical(MaxUsize) = Truncate(T, MaxUsize)
  BY <1>5, <1>7, <1>8 DEF Fronts
<1>10. /\ \E n : IsRanking(ids, n)
       /\ \A a : \A b \in Range(ids) :
            /\ a # b
            /\ PlaceOf(dense(MaxUsize), a) <= PlaceOf(dense(MaxUsize), b)
            /\ PlaceOf(lexical(MaxUsize), a) <= PlaceOf(lexical(MaxUsize), b)
            => PlaceOf(ids, a) < PlaceOf(ids, b)
  <2> DEFINE k == q.k
             c == q.rrf_k
             z == MaxUsize
             out == Truncate(fuse_rrf(<<Truncate(D, depth), Truncate(T, depth)>>, c), k)
  <2>1. k \in Nat /\ c \in Nat \ {0} /\ z \in Nat /\ depth <= z
    BY <1>4, <1>5
  <2>2. ids = out
    BY <1>9
  <2> HIDE DEF k, c, z
  <2>3. /\ \E n : IsRanking(out, n)
        /\ \A a : \A b \in Range(out) :
              /\ a # b
              /\ PlaceOf(Truncate(D, z), a) <= PlaceOf(Truncate(D, z), b)
              /\ PlaceOf(Truncate(T, z), a) <= PlaceOf(Truncate(T, z), b)
              => PlaceOf(out, a) < PlaceOf(out, b)
    BY <1>5, <1>7, <1>8, <2>1, FusedInOrder
  <2> HIDE DEF ids, out
  <2> QED BY <1>9, <2>2, <2>3 DEF z
<1> HIDE DEF ids
<1>11. [i \in DOMAIN body |-> body[i].id.n] = ids
  <2> HIDE DEF col, body
  <2>1. PICK n : IsRanking(ids, n)
    BY <1>10
  <2>2. body = hits_to_pb(hydrate(col, ids))
    BY <1>2, <1>6
  <2> QED BY <2>1, <2>2, IdsOfBody
<1> HIDE DEF body
<1>12. \A a \in all, b \in Range(ids) :
          (/\ a # b
           /\ PlaceOf(dense(MaxUsize), a) <= PlaceOf(dense(MaxUsize), b)
           /\ PlaceOf(lexical(MaxUsize), a) <= PlaceOf(lexical(MaxUsize), b))
          => PlaceOf(ids, a) < PlaceOf(ids, b)
  BY <1>10
<1>13. InOrder(m, body)
  <2> DEFINE list == [i \in DOMAIN body |-> body[i].id.n]
             u == dense(MaxUsize)
             w == lexical(MaxUsize)
             kept(l) == q.vector # None /\ q.text # None =>
                \A a \in all, b \in Range(l) :
                   (/\ a # b /\ PlaceOf(u, a) <= PlaceOf(u, b) /\ PlaceOf(w, a) <= PlaceOf(w, b))
                   => PlaceOf(l, a) < PlaceOf(l, b)
  <2>1. kept(list) <=> InOrder(m, body)
    BY DEF InOrder, PlaceOf, dense, lexical, metric, e, text
  <2>2. kept(ids)
    BY <1>12
  <2>3. list = ids
    BY <1>11
  <2> HIDE DEF kept, list
  <2> QED BY <2>1, <2>2, <2>3
<1> QED BY <1>13 DEF body

\* Fusion respects dominance: of two ids that the complete dense ranking and the complete
\* lexical ranking have in the same order, the answer of a hybrid search has them in that
\* order, for every k, rrf_k and over-fetch factor, and for every filter.
THEOREM FusionKeepsOrder == Spec => FusionRespectsDominance
<1> DEFINE Step == SearchesFlat("search_hybrid") => InOrder(wire.body, answer'.body)
<1>1. Inv /\ [Next]_vars => Step
  <2> SUFFICES ASSUME Inv, [Next]_vars, Serves, wire.op = "search_hybrid", answer'.code = "OK"
               PROVE  InOrder(wire.body, answer'.body)
    BY DEF SearchesFlat
  <2>1. ServeAny
    BY OnlyHandlersServe
  <2>2. Takes("search_hybrid", SearchHybrid(wire.body))
    BY <2>1, ServeTakes DEF Takes
  <2>3. phase = "sent" /\ answer' = [op |-> "search_hybrid", code |-> SearchHybrid(wire.body).code,
                                     body |-> SearchHybrid(wire.body).body]
    BY <2>2 DEF Takes
  <2>4. SearchHybrid(wire.body).code = "OK" /\ answer'.body = SearchHybrid(wire.body).body
    BY <2>3
  <2>5. IsMessage("search_hybrid", wire.body) /\ Registry(cols)
    BY <2>3 DEF Inv, SentOK
  <2> DEFINE m == wire.body
  <2> HIDE DEF m
  <2>6. InOrder(m, SearchHybrid(m).body)
    BY <2>4, <2>5, HybridInOrder DEF m
  <2> QED BY <2>4, <2>6 DEF m
<1>2. Spec => [][Step]_vars
  BY <1>1, InvHolds, PTL DEF Spec
<1> QED BY <1>2 DEF FusionRespectsDominance
=============================================================================
