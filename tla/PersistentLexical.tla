-------------------------- MODULE PersistentLexical --------------------------
(***************************************************************************)
(* The redb-backed BM25 index of eidosdb-storage and the in-memory index of *)
(* eidosdb-lexical that it is meant to agree with, as operators on values.  *)
(*                                                                          *)
(* A document is what tokenize makes of it: a function that gives each term *)
(* its frequency (all zero for a document of punctuation).  `db` holds the  *)
(* three tables; `stats` the two numbers kept in RAM beside them.  A BM25   *)
(* score is represented by the list of its inputs: equal inputs are equal   *)
(* scores, whatever the formula.                                            *)
(***************************************************************************)
EXTENDS Integers, Sequences, FiniteSets, FiniteSetsExt, Functions, TLC

CONSTANT Terms

\* length: the number of tokens of a document.
Tokens(doc) == FoldFunction(+, 0, doc)
Used(doc) == {t \in Terms : doc[t] > 0}
With(f, x, value) == [y \in DOMAIN f \cup {x} |-> IF y = x THEN value ELSE f[y]]
Without(f, S) == Restrict(f, DOMAIN f \ S)
Get(f, x, default) == IF x \in DOMAIN f THEN f[x] ELSE default

-----------------------------------------------------------------------------
(* PersistentLexicalIndex *)

EmptyTables == [postings |-> <<>>, doc_lengths |-> <<>>, doc_terms |-> <<>>]

\* open creates missing tables and recounts the statistics from doc_lengths.
open(db) == [corpus_size  |-> Cardinality(DOMAIN db.doc_lengths),
             total_tokens |-> FoldFunction(+, 0, db.doc_lengths)]

\* Mutant: the lists of the replaced document are left as they are.
Unretained(db, id) == db.postings

\* postings.retain(|p| p.id != id), in the order of the list.
retain(list, id) ==
    LET kept[n \in 0 .. Len(list)] ==
            IF n = 0 THEN <<>>
            ELSE IF list[n][1] = id THEN kept[n - 1] ELSE Append(kept[n - 1], list[n])
    IN  kept[Len(list)]

\* Both insert and remove take the id out of the list of each of its old terms
\* and delete a list that becomes empty.  An id without a doc_terms row has none.
Retained(db, id) ==
    LET prior == Get(db.doc_terms, id, {})
        lists == [t \in DOMAIN db.postings |->
                      IF t \in prior THEN retain(db.postings[t], id) ELSE db.postings[t]]
    IN  Without(lists, {t \in prior \cap DOMAIN lists : lists[t] = <<>>})

insert(db, id, doc) ==
    LET kept == Retained(db, id)
        pushed == [t \in Used(doc) \cup DOMAIN kept |->
                      IF t \in Used(doc) THEN Append(Get(kept, t, <<>>), <<id, doc[t]>>)
                                        ELSE kept[t]]
    IN  [postings    |-> pushed,
         doc_lengths |-> With(db.doc_lengths, id, Tokens(doc)),
         doc_terms   |-> With(db.doc_terms, id, Used(doc))]

\* Mutant: the doc_lengths row stays.
remove_keeps_length(db, id) ==
    IF id \in DOMAIN db.doc_terms
    THEN [db EXCEPT !.postings = Retained(db, id), !.doc_terms = Without(@, {id})]
    ELSE db

remove(db, id) ==
    IF id \in DOMAIN db.doc_terms
    THEN [postings    |-> Retained(db, id),
          doc_lengths |-> Without(db.doc_lengths, {id}),
          doc_terms   |-> Without(db.doc_terms, {id})]
    ELSE db

\* apply_delta, apply_token_delta: a decrement stops at zero.
apply_delta(value, delta) == IF value + delta < 0 THEN 0 ELSE value + delta

\* What insert and remove do to the statistics after their commit.
PriorSize(db, id) == IF id \in DOMAIN db.doc_terms THEN 1 ELSE 0
PriorTokens(db, id) ==
    IF id \in DOMAIN db.doc_terms THEN Get(db.doc_lengths, id, 0) ELSE 0

\* Mutant: a replaced document still counts.
insert_stats_adds(stats, db, id, doc) ==
    [corpus_size  |-> apply_delta(stats.corpus_size, 1),
     total_tokens |-> apply_delta(stats.total_tokens, Tokens(doc))]

insert_stats(stats, db, id, doc) ==
    [corpus_size  |-> apply_delta(stats.corpus_size, 1 - PriorSize(db, id)),
     total_tokens |-> apply_delta(stats.total_tokens, Tokens(doc) - PriorTokens(db, id))]

remove_stats(stats, db, id) ==
    [corpus_size  |-> apply_delta(stats.corpus_size, -PriorSize(db, id)),
     total_tokens |-> apply_delta(stats.total_tokens, -PriorTokens(db, id))]

\* scored: the postings of each query term, for admissible ids with a length.
\* The result maps each hit to what its score is computed from.
scored(db, stats, query, admissible) ==
    LET list(t) == Get(db.postings, t, <<>>)
        inputs(t, p) == [frequency |-> p[2], length |-> db.doc_lengths[p[1]],
                         doc_freq |-> Len(list(t)), stats |-> stats]
        rows(i) == {p \in Range(list(query[i])) :
                        p[1] \in admissible \cap DOMAIN db.doc_lengths}
        hits == {p[1] : p \in UNION {rows(i) : i \in DOMAIN query}}
    IN  IF stats.corpus_size = 0 THEN <<>>
        ELSE [id \in hits |->
                 [i \in DOMAIN query |->
                     {inputs(query[i], p) : p \in {q \in rows(i) : q[1] = id}}]]

-----------------------------------------------------------------------------
(* InMemoryLexicalIndex *)

EmptyOracle == [docs |-> <<>>, doc_frequencies |-> <<>>, total_tokens |-> 0]

forget(oracle, id) ==
    IF id \notin DOMAIN oracle.docs THEN oracle
    ELSE LET doc == oracle.docs[id]
             less == [t \in DOMAIN oracle.doc_frequencies |->
                         oracle.doc_frequencies[t] - (IF t \in Used(doc) THEN 1 ELSE 0)]
         IN  [docs |-> Without(oracle.docs, {id}),
              doc_frequencies |-> Without(less, {t \in DOMAIN less : less[t] = 0}),
              total_tokens |-> oracle.total_tokens - Tokens(doc)]

oracle_insert(oracle, id, doc) ==
    LET o == forget(oracle, id)
    IN  [docs |-> With(o.docs, id, doc),
         doc_frequencies |->
             [t \in Used(doc) \cup DOMAIN o.doc_frequencies |->
                 Get(o.doc_frequencies, t, 0) + (IF t \in Used(doc) THEN 1 ELSE 0)],
         total_tokens |-> o.total_tokens + Tokens(doc)]

oracle_search(oracle, query, admissible) ==
    LET N == Cardinality(DOMAIN oracle.docs)
        inputs(id, t) == [frequency |-> oracle.docs[id][t],
                          length |-> Tokens(oracle.docs[id]),
                          doc_freq |-> Get(oracle.doc_frequencies, t, 0),
                          stats |-> [corpus_size |-> N, total_tokens |-> oracle.total_tokens]]
        hits == {id \in DOMAIN oracle.docs \cap admissible :
                     \E i \in DOMAIN query : oracle.docs[id][query[i]] > 0}
    IN  IF N = 0 THEN <<>>
        ELSE [id \in hits |->
                 [i \in DOMAIN query |->
                     IF oracle.docs[id][query[i]] > 0 THEN {inputs(id, query[i])} ELSE {}]]
=============================================================================
