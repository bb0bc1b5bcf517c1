-------------------------- MODULE Collection_proofs --------------------------
(***************************************************************************)
(* What a collection keeps to between its stores, for any number of ids,    *)
(* points, filters, failures and crashes.                                   *)
(*                                                                          *)
(* First the lexical store by itself: tables as functions, the sum over a   *)
(* table, the statistics kept beside doc_lengths, and what a search scores. *)
(* A sum is a fold over a finite set, defined by recursion on its subsets;  *)
(* what it computes is shown by induction on cardinality, in the form that  *)
(* no number is the least counterexample.  Then the collection.             *)
(***************************************************************************)
EXTENDS Collection, FiniteSetTheorems, WellFoundedInduction, TLAPS

-----------------------------------------------------------------------------
(* Tables *)

\* The keys after writing and after removing a row.
LEMMA Keys ==
  ASSUME NEW f, NEW k, NEW v
  PROVE  /\ DOMAIN With(f, k, v) = DOMAIN f \cup {k}
         /\ DOMAIN Without(f, {k}) = DOMAIN f \ {k}
BY DEF With, Without, Restrict

-----------------------------------------------------------------------------
(* Sums *)

\* Induction over the naturals: a set that holds n whenever it holds all below n.
LEMMA Induction ==
  ASSUME NEW S, \A n \in Nat : (\A m \in Nat : m < n => m \in S) => n \in S
  PROVE  \A n \in Nat : n \in S
<1> SUFFICES ASSUME Nat \ S # {} PROVE FALSE
  OBVIOUS
<1>1. PICK x \in Nat \ S : \A y \in Nat \ S : ~ (<<y, x>> \in OpToRel(<, Nat))
  BY NatLessThanWellFounded, WFMin
<1> QED BY <1>1 DEF OpToRel

\* The recursion behind FoldFunction(+, 0, f).
Pick(s) == CHOOSE x \in s : TRUE
Unfolds(f, S, g) ==
    g = [s \in SUBSET S |-> IF s = {} THEN 0 ELSE f[Pick(s)] + g[s \ {Pick(s)}]]

\* Any element of a set may be taken as the last one added.
Additive(f, S, g) ==
    \A s \in SUBSET S : g[s] \in Nat /\ \A x \in s : g[s] = f[x] + g[s \ {x}]
\* Two sums agree on the sets on which their tables agree.
Agree(f, S, g, e, T, h) ==
    \A R \in SUBSET S : R \in SUBSET T /\ (\A x \in R : f[x] = e[x]) => g[R] = h[R]

\* Taking an element from a finite set.
LEMMA OneLess ==
  ASSUME NEW s, IsFiniteSet(s), NEW x \in s
  PROVE  /\ IsFiniteSet(s \ {x}) /\ Cardinality(s) \in Nat /\ Cardinality(s \ {x}) \in Nat
         /\ Cardinality(s \ {x}) = Cardinality(s) - 1
         /\ Cardinality(s \ {x}) < Cardinality(s)
<1>1. IsFiniteSet(s \ {x}) /\ Cardinality(s \ {x}) = Cardinality(s) - 1
  BY FS_RemoveElement
<1>2. Cardinality(s) \in Nat /\ Cardinality(s \ {x}) \in Nat
  BY <1>1, FS_CardinalityType
<1> QED BY <1>1, <1>2

\* The recursion has a solution.
LEMMA FoldExists ==
  ASSUME NEW S, IsFiniteSet(S), NEW f
  PROVE  \E g : Unfolds(f, S, g)
<1> DEFINE Level(n) == {s \in SUBSET S : Cardinality(s) <= n}
           Solves(n, g) == g = [s \in Level(n) |->
                                  IF s = {} THEN 0 ELSE f[Pick(s)] + g[s \ {Pick(s)}]]
           A == {n \in Nat : \E g : Solves(n, g)}
<1>1. \A s \in SUBSET S : IsFiniteSet(s) /\ Cardinality(s) \in Nat
                          /\ Cardinality(s) <= Cardinality(S)
  BY FS_Subset, FS_CardinalityType
<1>2. \A s \in SUBSET S : s # {} => Pick(s) \in s
  BY DEF Pick
<1>3. \A n \in Nat : (\A m \in Nat : m < n => m \in A) => n \in A
  <2> SUFFICES ASSUME NEW n \in Nat, \A m \in Nat : m < n => m \in A
               PROVE  \E g : Solves(n, g)
    OBVIOUS
  <2>1. CASE n = 0
    <3>1. \A s \in Level(0) : s = {}
      BY <1>1, <2>1, FS_EmptySet
    <3>2. Solves(0, [s \in Level(0) |-> 0])
      BY <3>1
    <3> QED BY <2>1, <3>2
  <2>2. CASE n # 0
    <3>1. n - 1 \in Nat /\ n - 1 < n
      BY <2>2
    <3>2. PICK g : Solves(n - 1, g)
      BY <3>1
    <3> DEFINE h == [s \in Level(n) |->
                        IF s = {} THEN 0 ELSE f[Pick(s)] + g[s \ {Pick(s)}]]
    <3>3. \A s \in Level(n) : s # {} => s \ {Pick(s)} \in Level(n - 1)
      <4> SUFFICES ASSUME NEW s \in Level(n), s # {} PROVE s \ {Pick(s)} \in Level(n - 1)
        OBVIOUS
      <4>1. Cardinality(s \ {Pick(s)}) = Cardinality(s) - 1 /\ Cardinality(s) \in Nat
        BY <1>1, <1>2, OneLess
      <4> QED BY <4>1
    <3>4. Level(n - 1) \subseteq Level(n)
      BY <1>1, <3>1
    <3> HIDE DEF Level
    <3>5. \A s \in Level(n - 1) : h[s] = g[s]
      BY <3>2, <3>4
    <3>6. \A s \in Level(n) : h[s] = IF s = {} THEN 0 ELSE f[Pick(s)] + h[s \ {Pick(s)}]
      BY <3>3, <3>5
    <3>7. h = [s \in Level(n) |-> IF s = {} THEN 0 ELSE f[Pick(s)] + h[s \ {Pick(s)}]]
      BY <3>6
    <3> QED BY <3>7
  <2> QED BY <2>1, <2>2
<1>4. \A n \in Nat : n \in A
  <2> HIDE DEF A
  <2> QED BY <1>3, Induction
<1>5. Cardinality(S) \in Nat /\ Level(Cardinality(S)) = SUBSET S
  BY <1>1
<1>6. PICK g : Solves(Cardinality(S), g)
  BY <1>4, <1>5
<1>7. Unfolds(f, S, g)
  <2> HIDE DEF Level
  <2> QED BY <1>5, <1>6 DEF Unfolds
<1> QED BY <1>7

\* A sum depends on the rows it is taken over, and on nothing else.
LEMMA FoldsAgree ==
  ASSUME NEW S, NEW T, IsFiniteSet(S), NEW f, NEW e, NEW g, NEW h,
         Unfolds(f, S, g), Unfolds(e, T, h)
  PROVE  Agree(f, S, g, e, T, h)
<1> SUFFICES ASSUME NEW R \in SUBSET S, R \in SUBSET T, \A x \in R : f[x] = e[x]
             PROVE  g[R] = h[R]
  BY DEF Agree
<1> DEFINE A == {n \in Nat : \A s \in SUBSET R : Cardinality(s) = n => g[s] = h[s]}
<1>1. \A n \in Nat : (\A m \in Nat : m < n => m \in A) => n \in A
  <2> SUFFICES ASSUME NEW n \in Nat, \A m \in Nat : m < n => m \in A,
                      NEW s \in SUBSET R, Cardinality(s) = n
               PROVE  g[s] = h[s]
    OBVIOUS
  <2>1. s \in SUBSET S /\ s \in SUBSET T /\ IsFiniteSet(s)
    BY FS_Subset
  <2>2. CASE s = {}
    BY <2>1, <2>2 DEF Unfolds
  <2>3. CASE s # {}
    <3>1. Pick(s) \in s
      BY <2>3 DEF Pick
    <3>2. g[s \ {Pick(s)}] = h[s \ {Pick(s)}]
      BY <2>1, <3>1, OneLess
    <3>3. /\ g[s] = f[Pick(s)] + g[s \ {Pick(s)}]
          /\ h[s] = e[Pick(s)] + h[s \ {Pick(s)}]
      BY <2>1, <2>3 DEF Unfolds
    <3> QED BY <3>1, <3>2, <3>3
  <2> QED BY <2>2, <2>3
<1>2. \A n \in Nat : n \in A
  <2> HIDE DEF A
  <2> QED BY <1>1, Induction
<1>3. Cardinality(R) \in Nat
  BY FS_Subset, FS_CardinalityType
<1> QED BY <1>2, <1>3

\* A sum of naturals is one, and does not depend on the order it is taken in.
LEMMA FoldAnyOrder ==
  ASSUME NEW S, IsFiniteSet(S), NEW f \in [S -> Nat], NEW g, Unfolds(f, S, g)
  PROVE  Additive(f, S, g)
<1> DEFINE Good(s) == g[s] \in Nat /\ \A x \in s : g[s] = f[x] + g[s \ {x}]
           A == {n \in Nat : \A s \in SUBSET S : Cardinality(s) = n => Good(s)}
<1>1. \A n \in Nat : (\A m \in Nat : m < n => m \in A) => n \in A
  <2> SUFFICES ASSUME NEW n \in Nat, \A m \in Nat : m < n => m \in A,
                      NEW s \in SUBSET S, Cardinality(s) = n
               PROVE  Good(s)
    OBVIOUS
  <2>1. IsFiniteSet(s)
    BY FS_Subset
  <2>2. \A x \in s : Good(s \ {x})
    BY <2>1, OneLess
  <2>3. CASE s = {}
    BY <2>3 DEF Unfolds
  <2>4. CASE s # {}
    <3> DEFINE y == Pick(s)
    <3>1. y \in s
      BY <2>4 DEF Pick
    <3>2. g[s] = f[y] + g[s \ {y}]
      BY <2>4 DEF Unfolds
    <3> HIDE DEF y
    <3>3. g[s] \in Nat
      BY <2>2, <3>1, <3>2
    <3>4. ASSUME NEW x \in s PROVE g[s] = f[x] + g[s \ {x}]
      <4>1. CASE x = y
        BY <3>2, <4>1
      <4>2. CASE x # y
        <5>1. /\ g[s \ {y}] = f[x] + g[(s \ {y}) \ {x}]
              /\ g[s \ {x}] = f[y] + g[(s \ {x}) \ {y}]
          BY <2>2, <3>1, <4>2
        <5>2. (s \ {y}) \ {x} = (s \ {x}) \ {y}
          OBVIOUS
        <5>3. g[(s \ {x}) \ {y}] \in Nat
          <6>1. IsFiniteSet(s \ {x}) /\ Cardinality(s \ {x}) < n /\ Cardinality(s \ {x}) \in Nat
            BY <2>1, OneLess
          <6>2. y \in s \ {x}
            BY <3>1, <4>2
          <6> DEFINE r == s \ {x}
          <6>3. Cardinality(r \ {y}) < Cardinality(r) /\ Cardinality(r \ {y}) \in Nat
            <7> HIDE DEF r
            <7>1. IsFiniteSet(r) /\ y \in r
              BY <6>1, <6>2 DEF r
            <7> QED BY <7>1, OneLess
          <6>4. Cardinality(r \ {y}) < n
            BY <6>1, <6>3
          <6>5. Cardinality(r \ {y}) \in A
            <7> HIDE DEF A
            <7> QED BY <6>3, <6>4
          <6>6. r \ {y} \in SUBSET S
            OBVIOUS
          <6> QED BY <6>5, <6>6
        <5>4. f[x] \in Nat /\ f[y] \in Nat
          BY <3>1
        <5>5. \A a, b, c \in Nat : a + (b + c) = b + (a + c)
          OBVIOUS
        <5>6. g[s] = f[y] + (f[x] + g[(s \ {x}) \ {y}])
          BY <3>2, <5>1, <5>2
        <5> QED BY <5>1, <5>3, <5>4, <5>5, <5>6
      <4> QED BY <4>1, <4>2
    <3> QED BY <3>3, <3>4
  <2> QED BY <2>3, <2>4
<1>2. \A n \in Nat : n \in A
  <2> HIDE DEF A
  <2> QED BY <1>1, Induction
<1>3. \A s \in SUBSET S : Cardinality(s) \in Nat
  BY FS_Subset, FS_CardinalityType
<1> QED BY <1>2, <1>3 DEF Additive

\* FoldFunction(+, 0, f) is a solution of the recursion, at the whole domain.
LEMMA SumIsFold ==
  ASSUME NEW S, IsFiniteSet(S), NEW f \in [S -> Nat]
  PROVE  \E g : Unfolds(f, S, g) /\ FoldFunction(+, 0, f) = g[S]
<1>1. FoldFunction(+, 0, f) = (CHOOSE g : Unfolds(f, DOMAIN f, g))[DOMAIN f]
  BY DEF FoldFunction, FoldFunctionOnSet, MapThenFoldSet, Unfolds, Pick
<1>2. Unfolds(f, S, CHOOSE g : Unfolds(f, S, g))
  BY FoldExists
<1> QED BY <1>1, <1>2

\* SumOfTable: the sum over a table of naturals is a natural, and changes by exactly the
\* row that is written or removed (what apply_token_delta relies on).
LEMMA SumOfTable ==
  ASSUME NEW S, IsFiniteSet(S), NEW f \in [S -> Nat], NEW k, NEW v \in Nat
  PROVE  /\ FoldFunction(+, 0, f) \in Nat
         /\ FoldFunction(+, 0, Without(f, {k})) \in Nat
         /\ FoldFunction(+, 0, f) = FoldFunction(+, 0, Without(f, {k})) + Get(f, k, 0)
         /\ FoldFunction(+, 0, With(f, k, v)) = FoldFunction(+, 0, Without(f, {k})) + v
<1> DEFINE rest == S \ {k}
           more == S \cup {k}
           less == Without(f, {k})
           new == With(f, k, v)
<1>1. /\ IsFiniteSet(rest) /\ IsFiniteSet(more)
      /\ less \in [rest -> Nat] /\ new \in [more -> Nat]
      /\ \A x \in rest : less[x] = f[x] /\ new[x] = f[x]
      /\ new[k] = v
  BY FS_Subset, FS_AddElement DEF Without, Restrict, With
<1>2. PICK g : Unfolds(f, S, g) /\ FoldFunction(+, 0, f) = g[S]
  BY SumIsFold
<1> HIDE DEF rest, more, less, new
<1>3. PICK g1 : Unfolds(less, rest, g1) /\ FoldFunction(+, 0, less) = g1[rest]
  BY <1>1, SumIsFold
<1>4. PICK g2 : Unfolds(new, more, g2) /\ FoldFunction(+, 0, new) = g2[more]
  BY <1>1, SumIsFold
<1>5. g[rest] = g1[rest]
  <2>1. rest \subseteq S /\ rest \subseteq rest /\ \A x \in rest : f[x] = less[x]
    BY <1>1 DEF rest
  <2>2. Agree(f, S, g, less, rest, g1)
    BY <1>2, <1>3, FoldsAgree
  <2> QED BY <2>1, <2>2 DEF Agree
<1>6. g2[rest] = g1[rest]
  <2>1. rest \subseteq more /\ rest \subseteq rest /\ \A x \in rest : new[x] = less[x]
    BY <1>1 DEF rest, more
  <2>2. Agree(new, more, g2, less, rest, g1)
    BY <1>1, <1>3, <1>4, FoldsAgree
  <2> QED BY <2>1, <2>2 DEF Agree
<1>7. g[S] \in Nat /\ g1[rest] \in Nat /\ (k \in S => g[S] = f[k] + g[S \ {k}])
  <2>1. S \in SUBSET S /\ rest \in SUBSET rest
    OBVIOUS
  <2>2. Additive(f, S, g) /\ Additive(less, rest, g1)
    BY <1>1, <1>2, <1>3, FoldAnyOrder
  <2> QED BY <2>1, <2>2 DEF Additive
<1>8. g2[more] = v + g2[rest]
  <2>1. k \in more /\ more \ {k} = rest
    BY DEF more, rest
  <2>2. more \in SUBSET more
    OBVIOUS
  <2>3. Additive(new, more, g2)
    BY <1>1, <1>4, FoldAnyOrder
  <2> QED BY <1>1, <2>1, <2>2, <2>3 DEF Additive
<1>9. g[S] = g1[rest] + Get(f, k, 0)
  <2>1. CASE k \in S
    BY <1>5, <1>7, <2>1 DEF Get, rest
  <2>2. CASE k \notin S
    BY <1>5, <1>7, <2>2 DEF Get, rest
  <2> QED BY <2>1, <2>2
<1>10. \A a, b \in Nat : a + b = b + a
  OBVIOUS
<1>11. g2[more] = g1[rest] + v
  BY <1>6, <1>7, <1>8, <1>10
<1> QED BY <1>2, <1>3, <1>4, <1>7, <1>9, <1>11 DEF less, new


-----------------------------------------------------------------------------
(* Posting lists *)

\* An id occurs at most once in a list.
Distinct(q) == \A i, j \in 1 .. Len(q) : q[i][1] = q[j][1] => i = j

\* q holds what the first m entries of a list hold of other ids.
Kept(q, list, m, id) ==
    /\ \A i \in 1 .. Len(q) : q[i][1] # id /\ \E j \in 1 .. m : q[i] = list[j]
    /\ \A j \in 1 .. m : list[j][1] # id => \E i \in 1 .. Len(q) : q[i] = list[j]
    /\ Distinct(q)

\* The recursion behind retain.
Retains(list, id, m, g) ==
    g = [n \in 0 .. m |->
            IF n = 0 THEN <<>>
            ELSE IF list[n][1] = id THEN g[n - 1] ELSE Append(g[n - 1], list[n])]

\* What Append does.
LEMMA Appended ==
  ASSUME NEW E, NEW q \in Seq(E), NEW e \in E
  PROVE  /\ Append(q, e) \in Seq(E) /\ Len(q) \in Nat /\ Len(Append(q, e)) = Len(q) + 1
         /\ \A i \in 1 .. Len(q) : Append(q, e)[i] = q[i]
         /\ Append(q, e)[Len(q) + 1] = e
OBVIOUS

\* It has a solution.
LEMMA RetainExists ==
  ASSUME NEW list, NEW id
  PROVE  \A m \in Nat : \E g : Retains(list, id, m, g)
<1> DEFINE A == {m \in Nat : \E g : Retains(list, id, m, g)}
<1>1. \A n \in Nat : (\A m \in Nat : m < n => m \in A) => n \in A
  <2> SUFFICES ASSUME NEW n \in Nat, \A m \in Nat : m < n => m \in A
               PROVE  \E g : Retains(list, id, n, g)
    OBVIOUS
  <2>1. CASE n = 0
    <3>1. Retains(list, id, 0, [i \in 0 .. 0 |-> <<>>])
      BY DEF Retains
    <3> QED BY <2>1, <3>1
  <2>2. CASE n # 0
    <3>1. n - 1 \in Nat /\ n - 1 < n
      BY <2>2
    <3>2. PICK g : Retains(list, id, n - 1, g)
      BY <3>1
    <3> DEFINE Body(f, i) == IF i = 0 THEN <<>>
                             ELSE IF list[i][1] = id THEN f[i - 1] ELSE Append(f[i - 1], list[i])
               h == [i \in 0 .. n |-> Body(g, i)]
    <3>3. \A i \in 0 .. n - 1 : g[i] = Body(g, i)
      BY <3>1, <3>2 DEF Retains
    <3> HIDE DEF Body
    <3>4. \A i \in 0 .. n - 1 : h[i] = g[i]
      BY <3>1, <3>3
    <3>5. \A i \in 0 .. n : i # 0 => i - 1 \in 0 .. n - 1
      OBVIOUS
    <3> HIDE DEF h
    <3>6. \A i \in 0 .. n : Body(g, i) = Body(h, i)
      BY <3>4, <3>5 DEF Body
    <3>7. h = [i \in 0 .. n |-> Body(h, i)]
      BY <3>6 DEF h
    <3>8. Retains(list, id, n, h)
      BY <3>7 DEF Retains, Body
    <3> QED BY <3>8
  <2> QED BY <2>1, <2>2
<1>2. \A n \in Nat : n \in A
  <2> HIDE DEF A
  <2> QED BY <1>1, Induction
<1> QED BY <1>2

\* retain drops the entries of the id and nothing else.
LEMMA RetainKeeps ==
  ASSUME NEW E, NEW list \in Seq(E), NEW id, Distinct(list)
  PROVE  retain(list, id) \in Seq(E) /\ Kept(retain(list, id), list, Len(list), id)
<1>1. Len(list) \in Nat /\ \A i \in 1 .. Len(list) : list[i] \in E
  OBVIOUS
<1>2. PICK g : Retains(list, id, Len(list), g) /\ retain(list, id) = g[Len(list)]
  <2>1. retain(list, id) = (CHOOSE g : Retains(list, id, Len(list), g))[Len(list)]
    BY DEF retain, Retains
  <2>2. \E g : Retains(list, id, Len(list), g)
    BY <1>1, RetainExists
  <2>3. Retains(list, id, Len(list), CHOOSE g : Retains(list, id, Len(list), g))
    BY <2>2
  <2> QED BY <2>1, <2>3
<1> DEFINE N == Len(list)
           A == {m \in Nat : m <= N => g[m] \in Seq(E) /\ Kept(g[m], list, m, id)}
<1>3. \A n \in Nat : (\A m \in Nat : m < n => m \in A) => n \in A
  <2> SUFFICES ASSUME NEW n \in Nat, \A m \in Nat : m < n => m \in A, n <= N
               PROVE  g[n] \in Seq(E) /\ Kept(g[n], list, n, id)
    OBVIOUS
  <2>1. CASE n = 0
    <3>1. g[n] = <<>>
      BY <1>1, <1>2, <2>1 DEF Retains
    <3>2. g[n] \in Seq(E) /\ Len(g[n]) = 0
      BY <3>1
    <3> QED BY <2>1, <3>2 DEF Kept, Distinct
  <2>2. CASE n # 0
    <3> DEFINE q == g[n - 1]
               e == list[n]
    <3>1. n - 1 \in Nat /\ n - 1 < n /\ n - 1 <= N /\ n \in 1 .. N /\ 1 .. n - 1 \subseteq 1 .. n
      BY <1>1, <2>2
    <3>2. q \in Seq(E) /\ Kept(q, list, n - 1, id)
      BY <3>1
    <3>3. e \in E
      BY <1>1, <3>1
    <3>4. g[n] = IF e[1] = id THEN q ELSE Append(q, e)
      <4> DEFINE Body(i) == IF i = 0 THEN <<>>
                            ELSE IF list[i][1] = id THEN g[i - 1] ELSE Append(g[i - 1], list[i])
      <4>1. g = [i \in 0 .. N |-> Body(i)]
        BY <1>2 DEF Retains
      <4> HIDE DEF Body
      <4>2. g[n] = Body(n)
        BY <1>1, <3>1, <4>1
      <4> QED BY <2>2, <4>2 DEF Body
    <3>5. \A j \in 1 .. n : j \in 1 .. n - 1 \/ j = n
      OBVIOUS
    <3> HIDE DEF q
    <3>6. CASE e[1] = id
      <4>1. g[n] = q
        BY <3>4, <3>6
      <4> QED BY <3>1, <3>2, <3>5, <3>6, <4>1 DEF Kept
    <3>7. CASE e[1] # id
      <4> DEFINE r == Append(q, e)
      <4>1. /\ r \in Seq(E) /\ Len(q) \in Nat /\ Len(r) = Len(q) + 1
            /\ \A i \in 1 .. Len(q) : r[i] = q[i]
            /\ r[Len(q) + 1] = e
        BY <3>2, <3>3, Appended
      <4>2. g[n] = r
        BY <3>4, <3>7
      <4> HIDE DEF r
      <4>3. \A i \in 1 .. Len(r) : i \in 1 .. Len(q) \/ i = Len(q) + 1
        BY <4>1
      <4>4. \A i \in 1 .. Len(q) : i \in 1 .. Len(r) /\ q[i][1] # e[1]
        <5> SUFFICES ASSUME NEW i \in 1 .. Len(q) PROVE i \in 1 .. Len(r) /\ q[i][1] # e[1]
          OBVIOUS
        <5>1. i \in 1 .. Len(r)
          BY <4>1
        <5>2. PICK j \in 1 .. n - 1 : q[i] = list[j]
          BY <3>2 DEF Kept
        <5>3. j # n /\ j \in 1 .. N
          BY <1>1, <3>1
        <5>4. list[j][1] # list[n][1]
          BY <3>1, <5>3 DEF Distinct
        <5> QED BY <5>1, <5>2, <5>4
      <4>5. Len(q) + 1 \in 1 .. Len(r)
        BY <4>1
      <4>6. \A i \in 1 .. Len(r) : r[i][1] # id /\ \E j \in 1 .. n : r[i] = list[j]
        <5> SUFFICES ASSUME NEW i \in 1 .. Len(r)
                     PROVE  r[i][1] # id /\ \E j \in 1 .. n : r[i] = list[j]
          OBVIOUS
        <5>1. CASE i \in 1 .. Len(q)
          <6>1. r[i] = q[i] /\ q[i][1] # id
            BY <3>2, <4>1, <5>1 DEF Kept
          <6>2. PICK j \in 1 .. n - 1 : q[i] = list[j]
            BY <3>2, <5>1 DEF Kept
          <6>3. j \in 1 .. n
            BY <3>1
          <6> QED BY <6>1, <6>2, <6>3
        <5>2. CASE i = Len(q) + 1
          <6>1. n \in 1 .. n
            BY <3>1
          <6> QED BY <3>7, <4>1, <5>2, <6>1
        <5> QED BY <4>3, <5>1, <5>2
      <4>7. \A j \in 1 .. n : list[j][1] # id => \E i \in 1 .. Len(r) : r[i] = list[j]
        <5> SUFFICES ASSUME NEW j \in 1 .. n, list[j][1] # id
                     PROVE  \E i \in 1 .. Len(r) : r[i] = list[j]
          OBVIOUS
        <5>1. CASE j \in 1 .. n - 1
          <6>1. PICK i \in 1 .. Len(q) : q[i] = list[j]
            BY <3>2, <5>1 DEF Kept
          <6> QED BY <4>1, <4>4, <6>1
        <5>2. CASE j = n
          BY <4>1, <4>5, <5>2
        <5> QED BY <3>5, <5>1, <5>2
      <4>8. Distinct(r)
        <5> SUFFICES ASSUME NEW i \in 1 .. Len(r), NEW j \in 1 .. Len(r), r[i][1] = r[j][1]
                     PROVE  i = j
          BY DEF Distinct
        <5>1. CASE i \in 1 .. Len(q) /\ j \in 1 .. Len(q)
          BY <3>2, <4>1, <5>1 DEF Kept, Distinct
        <5>2. CASE i = Len(q) + 1 /\ j \in 1 .. Len(q)
          BY <4>1, <4>4, <5>2
        <5>3. CASE j = Len(q) + 1 /\ i \in 1 .. Len(q)
          BY <4>1, <4>4, <5>3
        <5> QED BY <4>3, <5>1, <5>2, <5>3
      <4> QED BY <4>1, <4>2, <4>6, <4>7, <4>8 DEF Kept
    <3> QED BY <3>6, <3>7
  <2> QED BY <2>1, <2>2
<1>4. \A n \in Nat : n \in A
  <2> HIDE DEF A
  <2> QED BY <1>3, Induction
<1>5. g[N] \in Seq(E) /\ Kept(g[N], list, N, id)
  BY <1>1, <1>4
<1> QED BY <1>2, <1>5


-----------------------------------------------------------------------------
(* The persistent index against the in-memory one *)

\* The ids whose document holds a term.
Has(docs, t) == {id \in DOMAIN docs : docs[id][t] > 0}

\* q is the posting list of t for the documents of docs, in some order.
Lists(U, q, docs, t) ==
    /\ q \in Seq(U \X Nat) /\ Distinct(q)
    /\ \A i \in 1 .. Len(q) : q[i][1] \in Has(docs, t) /\ q[i][2] = docs[q[i][1]][t]
    /\ \A id \in Has(docs, t) : \E i \in 1 .. Len(q) : q[i][1] = id

PostingsOf(U, p, docs) ==
    /\ DOMAIN p = {t \in Terms : Has(docs, t) # {}}
    /\ \A t \in DOMAIN p : Lists(U, p[t], docs, t)
FrequenciesOf(df, docs) ==
    /\ DOMAIN df = {t \in Terms : Has(docs, t) # {}}
    /\ \A t \in DOMAIN df : df[t] = Cardinality(Has(docs, t))
DocsOf(U, docs) ==
    /\ IsFiniteSet(DOMAIN docs) /\ DOMAIN docs \subseteq U
    /\ docs \in [DOMAIN docs -> [Terms -> Nat]]

\* The two indexes hold the same documents.
Parity(U, db, o) ==
    /\ DocsOf(U, o.docs)
    /\ db.doc_lengths \in [DOMAIN o.docs -> Nat] /\ DOMAIN db.doc_terms = DOMAIN o.docs
    /\ \A id \in DOMAIN o.docs :
          db.doc_lengths[id] = Tokens(o.docs[id]) /\ db.doc_terms[id] = Used(o.docs[id])
    /\ PostingsOf(U, db.postings, o.docs)
    /\ FrequenciesOf(o.doc_frequencies, o.docs)
    /\ o.total_tokens = FoldFunction(+, 0, db.doc_lengths)

TakenOut(U, docs, k, rest) ==
    /\ DocsOf(U, rest) /\ DOMAIN rest = DOMAIN docs \ {k}
    /\ \A id \in DOMAIN docs \ {k} : rest[id] = docs[id]
    /\ \A t \in Terms : Has(rest, t) = Has(docs, t) \ {k}
    /\ \A t \in Terms : IsFiniteSet(Has(docs, t))
    /\ k \notin DOMAIN docs => rest = docs
PutIn(U, docs, k, doc, new) ==
    /\ DocsOf(U, new) /\ DOMAIN new = DOMAIN docs \cup {k}
    /\ \A id \in DOMAIN docs : new[id] = docs[id]
    /\ new[k] = doc
    /\ \A t \in Terms :
          Has(new, t) = IF t \in Used(doc) THEN Has(docs, t) \cup {k} ELSE Has(docs, t)

\* The documents after one is taken out.
LEMMA DocsWithout ==
  ASSUME NEW U, NEW docs, DocsOf(U, docs), NEW k
  PROVE  TakenOut(U, docs, k, Without(docs, {k}))
<1> DEFINE rest == Without(docs, {k})
<1>1. DOMAIN rest = DOMAIN docs \ {k} /\ \A id \in DOMAIN docs \ {k} : rest[id] = docs[id]
  BY DEF Without, Restrict
<1>2. IsFiniteSet(DOMAIN docs \ {k})
  BY FS_Subset DEF DocsOf
<1>3. rest \in [DOMAIN rest -> [Terms -> Nat]]
  BY DEF DocsOf, Without, Restrict
<1>4. \A t \in Terms : IsFiniteSet(Has(docs, t))
  BY FS_Subset DEF DocsOf, Has
<1>5. k \notin DOMAIN docs => rest = docs
  BY DEF DocsOf, Without, Restrict
<1> HIDE DEF rest
<1>6. DocsOf(U, rest)
  BY <1>1, <1>2, <1>3 DEF DocsOf
<1>7. \A t \in Terms : Has(rest, t) = Has(docs, t) \ {k}
  BY <1>1 DEF Has
<1>8. TakenOut(U, docs, k, rest)
  BY <1>1, <1>4, <1>5, <1>6, <1>7 DEF TakenOut
<1> QED BY <1>8 DEF rest

\* The documents after one is put in.
LEMMA DocsWith ==
  ASSUME NEW U, NEW docs, DocsOf(U, docs), NEW k \in U, NEW doc \in [Terms -> Nat],
         k \notin DOMAIN docs
  PROVE  PutIn(U, docs, k, doc, With(docs, k, doc))
<1> DEFINE new == With(docs, k, doc)
<1>1. /\ DOMAIN new = DOMAIN docs \cup {k} /\ new[k] = doc
      /\ \A id \in DOMAIN docs : new[id] = docs[id]
  BY DEF With
<1>2. IsFiniteSet(DOMAIN docs \cup {k})
  BY FS_AddElement DEF DocsOf
<1>3. new \in [DOMAIN new -> [Terms -> Nat]]
  BY DEF DocsOf, With
<1> HIDE DEF new
<1>4. DocsOf(U, new)
  BY <1>1, <1>2, <1>3 DEF DocsOf
<1>5. \A t \in Terms : Has(new, t) = IF t \in Used(doc) THEN Has(docs, t) \cup {k} ELSE Has(docs, t)
  BY <1>1 DEF Has, Used
<1>6. PutIn(U, docs, k, doc, new)
  BY <1>1, <1>4, <1>5 DEF PutIn
<1> QED BY <1>6 DEF new

\* A list is empty exactly when no document holds its term.
LEMMA EmptyList ==
  ASSUME NEW U, NEW q, NEW docs, NEW t, Lists(U, q, docs, t)
  PROVE  q = <<>> <=> Has(docs, t) = {}
<1>1. q \in Seq(U \X Nat)
  BY DEF Lists
<1>2. Len(q) \in Nat /\ (Len(q) = 0 <=> q = <<>>)
  BY <1>1
<1>3. Has(docs, t) = {} => Len(q) = 0
  <2> SUFFICES ASSUME Has(docs, t) = {}, Len(q) # 0 PROVE FALSE
    OBVIOUS
  <2>1. 1 \in 1 .. Len(q)
    BY <1>2
  <2> QED BY <2>1 DEF Lists
<1>4. Len(q) = 0 => Has(docs, t) = {}
  BY DEF Lists
<1> QED BY <1>2, <1>3, <1>4

\* What insert and remove take out of the lists is what the document had in them.
LEMMA OutOfPostings ==
  ASSUME NEW U, NEW docs, DocsOf(U, docs), NEW db, NEW k,
         PostingsOf(U, db.postings, docs), DOMAIN db.doc_terms = DOMAIN docs,
         \A id \in DOMAIN docs : db.doc_terms[id] = Used(docs[id])
  PROVE  PostingsOf(U, Retained(db, k), Without(docs, {k}))
<1> DEFINE p == db.postings
           rest == Without(docs, {k})
           prior == Get(db.doc_terms, k, {})
           lists == [t \in DOMAIN p |-> IF t \in prior THEN retain(p[t], k) ELSE p[t]]
           gone == {t \in prior \cap DOMAIN lists : lists[t] = <<>>}
<1>1. /\ DocsOf(U, rest) /\ DOMAIN rest = DOMAIN docs \ {k}
      /\ \A id \in DOMAIN docs \ {k} : rest[id] = docs[id]
      /\ \A t \in Terms : Has(rest, t) = Has(docs, t) \ {k}
  <2>1. TakenOut(U, docs, k, rest)
    BY DocsWithout
  <2> QED BY <2>1 DEF TakenOut
<1>2. DOMAIN p = {t \in Terms : Has(docs, t) # {}} /\ \A t \in DOMAIN p : Lists(U, p[t], docs, t)
  BY DEF PostingsOf
<1>3. \A t \in Terms : t \in prior <=> k \in Has(docs, t)
  BY DEF Get, Has, Used
<1>4. Retained(db, k) = Without(lists, gone)
  BY DEF Retained
<1>5. DOMAIN lists = DOMAIN p
  OBVIOUS
<1>6. \A t \in DOMAIN p : lists[t] = IF t \in prior THEN retain(p[t], k) ELSE p[t]
  OBVIOUS
<1> HIDE DEF rest, prior, lists
<1>7. ASSUME NEW t \in DOMAIN p PROVE Lists(U, lists[t], rest, t)
  <2>0. t \in Terms /\ Lists(U, p[t], docs, t)
    BY <1>2
  <2>1. CASE t \notin prior
    <3>1. Has(rest, t) = Has(docs, t) /\ k \notin Has(docs, t)
      BY <1>1, <1>3, <2>0, <2>1
    <3>2. lists[t] = p[t]
      BY <1>6, <2>1
    <3>3. \A id \in Has(docs, t) : rest[id] = docs[id]
      BY <1>1, <3>1 DEF Has
    <3> QED BY SMTT(30), <2>0, <3>1, <3>2, <3>3 DEF Lists
  <2>2. CASE t \in prior
    <3> DEFINE list == p[t]
               q == retain(list, k)
    <3>1. list \in Seq(U \X Nat) /\ Distinct(list)
      BY <2>0 DEF Lists
    <3>2. q \in Seq(U \X Nat) /\ Kept(q, list, Len(list), k)
      BY <3>1, RetainKeeps
    <3>3. lists[t] = q
      BY <1>6, <2>2
    <3>4. Has(rest, t) = Has(docs, t) \ {k} /\ \A id \in Has(rest, t) : rest[id] = docs[id]
      BY <1>1, <2>0 DEF Has
    <3>5. /\ \A i \in 1 .. Len(list) : list[i][1] \in Has(docs, t) /\ list[i][2] = docs[list[i][1]][t]
          /\ \A id \in Has(docs, t) : \E i \in 1 .. Len(list) : list[i][1] = id
      BY <2>0 DEF Lists
    <3> HIDE DEF list, q
    <3>6. ASSUME NEW i \in 1 .. Len(q)
          PROVE  q[i][1] \in Has(rest, t) /\ q[i][2] = rest[q[i][1]][t]
      <4>1. q[i][1] # k
        BY <3>2 DEF Kept
      <4>2. PICK j \in 1 .. Len(list) : q[i] = list[j]
        BY <3>2 DEF Kept
      <4>3. q[i][1] \in Has(docs, t) /\ q[i][2] = docs[q[i][1]][t]
        BY <3>5, <4>2
      <4> QED BY <3>4, <4>1, <4>3
    <3>7. ASSUME NEW id \in Has(rest, t)
          PROVE  \E i \in 1 .. Len(q) : q[i][1] = id
      <4>1. id # k /\ id \in Has(docs, t)
        BY <3>4
      <4>2. PICK j \in 1 .. Len(list) : list[j][1] = id
        BY <3>5, <4>1
      <4>3. PICK i \in 1 .. Len(q) : q[i] = list[j]
        BY <3>2, <4>1, <4>2 DEF Kept
      <4> QED BY <4>2, <4>3
    <3>8. Distinct(q)
      BY <3>2 DEF Kept
    <3> QED BY <3>2, <3>3, <3>6, <3>7, <3>8 DEF Lists
  <2> QED BY <2>1, <2>2
<1>8. \A t \in DOMAIN p : lists[t] = <<>> <=> Has(rest, t) = {}
  BY <1>7, EmptyList
<1>9. \A t \in DOMAIN p : t \notin gone <=> Has(rest, t) # {}
  <2> SUFFICES ASSUME NEW t \in DOMAIN p PROVE t \notin gone <=> Has(rest, t) # {}
    OBVIOUS
  <2>1. t \in Terms /\ Has(docs, t) # {}
    BY <1>2
  <2>2. t \notin prior => Has(rest, t) # {}
    BY <1>1, <1>3, <2>1
  <2> QED BY <1>5, <1>8, <2>2
<1>10. \A t \in Terms : Has(rest, t) # {} => t \in DOMAIN p
  BY <1>1, <1>2
<1> HIDE DEF gone
<1>11. /\ DOMAIN Without(lists, gone) = DOMAIN p \ gone
       /\ \A t \in DOMAIN p \ gone : Without(lists, gone)[t] = lists[t]
  BY <1>5 DEF Without, Restrict
<1>12. DOMAIN p \ gone = {t \in Terms : Has(rest, t) # {}}
  BY <1>2, <1>9, <1>10
<1>13. PostingsOf(U, Without(lists, gone), rest)
  BY <1>7, <1>11, <1>12 DEF PostingsOf
<1> QED BY <1>4, <1>13 DEF rest

\* What insert pushes is what the new document has.
LEMMA IntoPostings ==
  ASSUME NEW U, NEW docs, DocsOf(U, docs), NEW p, PostingsOf(U, p, docs),
         NEW k \in U, NEW doc \in [Terms -> Nat], k \notin DOMAIN docs
  PROVE  PostingsOf(U, [t \in Used(doc) \cup DOMAIN p |->
                           IF t \in Used(doc) THEN Append(Get(p, t, <<>>), <<k, doc[t]>>)
                                              ELSE p[t]],
                    With(docs, k, doc))
<1> DEFINE new == With(docs, k, doc)
           pushed == [t \in Used(doc) \cup DOMAIN p |->
                           IF t \in Used(doc) THEN Append(Get(p, t, <<>>), <<k, doc[t]>>)
                                              ELSE p[t]]
<1>1. /\ DocsOf(U, new) /\ DOMAIN new = DOMAIN docs \cup {k}
      /\ \A id \in DOMAIN docs : new[id] = docs[id]
      /\ new[k] = doc
      /\ \A t \in Terms : Has(new, t) = IF t \in Used(doc) THEN Has(docs, t) \cup {k} ELSE Has(docs, t)
  <2>1. PutIn(U, docs, k, doc, new)
    BY DocsWith
  <2> HIDE DEF new
  <2> QED BY <2>1 DEF PutIn
<1>2. DOMAIN p = {t \in Terms : Has(docs, t) # {}} /\ \A t \in DOMAIN p : Lists(U, p[t], docs, t)
  BY DEF PostingsOf
<1>3. Used(doc) \subseteq Terms /\ \A t \in Used(doc) : doc[t] \in Nat
  BY DEF Used
<1>4. DOMAIN pushed = Used(doc) \cup DOMAIN p
  OBVIOUS
<1>5. \A t \in DOMAIN pushed : pushed[t] = IF t \in Used(doc)
                                           THEN Append(Get(p, t, <<>>), <<k, doc[t]>>) ELSE p[t]
  OBVIOUS
<1> HIDE DEF new, pushed
<1>6. DOMAIN pushed = {t \in Terms : Has(new, t) # {}}
  BY <1>1, <1>2, <1>3, <1>4
<1>7. ASSUME NEW t \in DOMAIN pushed PROVE Lists(U, pushed[t], new, t)
  <2>0. t \in Terms
    BY <1>6
  <2>1. \A id \in Has(docs, t) : id # k /\ new[id] = docs[id]
    BY <1>1 DEF Has
  <2>2. CASE t \notin Used(doc)
    <3>1. t \in DOMAIN p /\ pushed[t] = p[t] /\ Has(new, t) = Has(docs, t)
      BY <1>1, <1>4, <1>5, <2>0, <2>2
    <3>2. Lists(U, p[t], docs, t)
      BY <1>2, <3>1
    <3> QED BY <2>1, <3>1, <3>2 DEF Lists
  <2>3. CASE t \in Used(doc)
    <3> DEFINE q == Get(p, t, <<>>)
               e == <<k, doc[t]>>
               r == Append(q, e)
    <3>1. Lists(U, q, docs, t)
      <4>1. CASE t \in DOMAIN p
        BY <1>2, <4>1 DEF Get
      <4>2. CASE t \notin DOMAIN p
        <5>1. q = <<>> /\ Has(docs, t) = {}
          BY <1>2, <2>0, <4>2 DEF Get
        <5> HIDE DEF q
        <5>2. q \in Seq(U \X Nat) /\ Len(q) = 0
          BY <5>1
        <5> QED BY <5>1, <5>2 DEF Lists, Distinct
      <4> QED BY <4>1, <4>2
    <3>2. e \in U \X Nat /\ e[1] = k /\ e[2] = doc[t]
      BY <1>3, <2>3
    <3>3. pushed[t] = r
      BY <1>5, <2>3
    <3>4. Has(new, t) = Has(docs, t) \cup {k}
      BY <1>1, <2>0, <2>3
    <3> HIDE DEF q, e
    <3>5. /\ q \in Seq(U \X Nat) /\ Distinct(q)
          /\ \A i \in 1 .. Len(q) : q[i][1] \in Has(docs, t) /\ q[i][2] = docs[q[i][1]][t]
          /\ \A id \in Has(docs, t) : \E i \in 1 .. Len(q) : q[i][1] = id
      BY <3>1 DEF Lists
    <3>6. /\ r \in Seq(U \X Nat) /\ Len(q) \in Nat /\ Len(r) = Len(q) + 1
          /\ \A i \in 1 .. Len(q) : r[i] = q[i]
          /\ r[Len(q) + 1] = e
      BY <3>2, <3>5, Appended
    <3> HIDE DEF r
    <3>7. \A i \in 1 .. Len(r) : i \in 1 .. Len(q) \/ i = Len(q) + 1
      BY <3>6
    <3>8. Len(q) + 1 \in 1 .. Len(r) /\ \A i \in 1 .. Len(q) : i \in 1 .. Len(r)
      BY <3>6
    <3>9. ASSUME NEW i \in 1 .. Len(r)
          PROVE  r[i][1] \in Has(new, t) /\ r[i][2] = new[r[i][1]][t]
      <4>1. CASE i \in 1 .. Len(q)
        <5>1. r[i] = q[i] /\ q[i][1] \in Has(docs, t) /\ q[i][2] = docs[q[i][1]][t]
          BY <3>5, <3>6, <4>1
        <5> QED BY <2>1, <3>4, <5>1
      <4>2. CASE i = Len(q) + 1
        BY <1>1, <3>2, <3>4, <3>6, <4>2
      <4> QED BY <3>7, <4>1, <4>2
    <3>10. ASSUME NEW id \in Has(new, t)
           PROVE  \E i \in 1 .. Len(r) : r[i][1] = id
      <4>1. CASE id = k
        BY <3>2, <3>6, <3>8, <4>1
      <4>2. CASE id \in Has(docs, t)
        <5>1. PICK i \in 1 .. Len(q) : q[i][1] = id
          BY <3>5, <4>2
        <5> QED BY <3>6, <3>8, <5>1
      <4> QED BY <3>4, <4>1, <4>2
    <3>11. Distinct(r)
      <4> SUFFICES ASSUME NEW i \in 1 .. Len(r), NEW j \in 1 .. Len(r), r[i][1] = r[j][1]
                   PROVE  i = j
        BY DEF Distinct
      <4>1. \A n \in 1 .. Len(q) : r[n] = q[n] /\ r[n][1] # k
        BY <2>1, <3>5, <3>6
      <4>2. CASE i \in 1 .. Len(q) /\ j \in 1 .. Len(q)
        BY <3>5, <4>1, <4>2 DEF Distinct
      <4>3. CASE i = Len(q) + 1 /\ j \in 1 .. Len(q)
        BY <3>2, <3>6, <4>1, <4>3
      <4>4. CASE j = Len(q) + 1 /\ i \in 1 .. Len(q)
        BY <3>2, <3>6, <4>1, <4>4
      <4> QED BY <3>7, <4>2, <4>3, <4>4
    <3> QED BY <3>3, <3>6, <3>9, <3>10, <3>11 DEF Lists
  <2> QED BY <2>2, <2>3
<1>8. PostingsOf(U, pushed, new)
  BY <1>6, <1>7 DEF PostingsOf
<1> QED BY <1>8 DEF pushed, new


\* The frequencies after a document is taken out and after one is put in.
LEMMA OutOfFrequencies ==
  ASSUME NEW U, NEW docs, DocsOf(U, docs), NEW df, FrequenciesOf(df, docs), NEW k \in DOMAIN docs,
         NEW less, DOMAIN less = DOMAIN df,
         \A t \in DOMAIN df : less[t] = df[t] - (IF t \in Used(docs[k]) THEN 1 ELSE 0),
         NEW gone, gone = {t \in DOMAIN less : less[t] = 0}
  PROVE  FrequenciesOf(Without(less, gone), Without(docs, {k}))
<1> DEFINE rest == Without(docs, {k})
<1>1. TakenOut(U, docs, k, rest)
  BY DocsWithout
<1>2. DOMAIN df = {t \in Terms : Has(docs, t) # {}} /\ \A t \in DOMAIN df : df[t] = Cardinality(Has(docs, t))
  BY DEF FrequenciesOf
<1>3. \A t \in Terms : t \in Used(docs[k]) <=> k \in Has(docs, t)
  BY DEF Used, Has
<1> HIDE DEF rest
<1>4. ASSUME NEW t \in DOMAIN df
      PROVE  less[t] = Cardinality(Has(rest, t)) /\ (less[t] = 0 <=> Has(rest, t) = {})
  <2>1. t \in Terms /\ IsFiniteSet(Has(docs, t)) /\ Has(rest, t) = Has(docs, t) \ {k}
        /\ less[t] = Cardinality(Has(docs, t)) - (IF k \in Has(docs, t) THEN 1 ELSE 0)
    BY <1>1, <1>2, <1>3 DEF TakenOut
  <2> DEFINE H == Has(docs, t)
             R == Has(rest, t)
  <2>2. IsFiniteSet(R) /\ Cardinality(R) = IF k \in H THEN Cardinality(H) - 1 ELSE Cardinality(H)
    BY <2>1, FS_RemoveElement
  <2>3. Cardinality(H) \in Nat
    BY <2>1, FS_CardinalityType
  <2>4. Cardinality(R) = 0 <=> R = {}
    BY <2>2, FS_EmptySet
  <2> HIDE DEF H, R
  <2>5. less[t] = Cardinality(R)
    BY <2>1, <2>2, <2>3 DEF H
  <2> QED BY <2>4, <2>5 DEF R
<1>5. DOMAIN less = DOMAIN df
  OBVIOUS
<1>6. \A t \in Terms : Has(rest, t) # {} => t \in DOMAIN df
  BY <1>1, <1>2 DEF TakenOut
<1> DEFINE kept == Without(less, gone)
<1>7. DOMAIN kept = DOMAIN df \ gone /\ \A t \in DOMAIN df \ gone : kept[t] = less[t]
  BY <1>5 DEF Without, Restrict
<1>8. DOMAIN df \ gone = {t \in Terms : Has(rest, t) # {}}
  BY <1>2, <1>4, <1>5, <1>6
<1> HIDE DEF kept
<1>9. FrequenciesOf(kept, rest)
  BY <1>4, <1>7, <1>8 DEF FrequenciesOf
<1> QED BY <1>9 DEF kept, rest

LEMMA IntoFrequencies ==
  ASSUME NEW U, NEW docs, DocsOf(U, docs), NEW df, FrequenciesOf(df, docs),
         NEW k \in U, NEW doc \in [Terms -> Nat], k \notin DOMAIN docs
  PROVE  FrequenciesOf([t \in Used(doc) \cup DOMAIN df |->
                           Get(df, t, 0) + (IF t \in Used(doc) THEN 1 ELSE 0)],
                       With(docs, k, doc))
<1> DEFINE new == With(docs, k, doc)
           more == [t \in Used(doc) \cup DOMAIN df |->
                           Get(df, t, 0) + (IF t \in Used(doc) THEN 1 ELSE 0)]
<1>1. PutIn(U, docs, k, doc, new)
  BY DocsWith
<1>2. DOMAIN df = {t \in Terms : Has(docs, t) # {}} /\ \A t \in DOMAIN df : df[t] = Cardinality(Has(docs, t))
  BY DEF FrequenciesOf
<1>3. Used(doc) \subseteq Terms
  BY DEF Used
<1>4. DOMAIN more = Used(doc) \cup DOMAIN df
      /\ \A t \in DOMAIN more : more[t] = Get(df, t, 0) + (IF t \in Used(doc) THEN 1 ELSE 0)
  OBVIOUS
<1> HIDE DEF new, more
<1>5. DOMAIN more = {t \in Terms : Has(new, t) # {}}
  BY <1>1, <1>2, <1>3, <1>4 DEF PutIn
<1>6. ASSUME NEW t \in DOMAIN more PROVE more[t] = Cardinality(Has(new, t))
  <2>1. t \in Terms
    BY <1>5
  <2>2. IsFiniteSet(Has(docs, t)) /\ k \notin Has(docs, t)
    BY FS_Subset DEF DocsOf, Has
  <2>3. Cardinality(Has(docs, t)) \in Nat
        /\ Cardinality(Has(docs, t) \cup {k}) = Cardinality(Has(docs, t)) + 1
    BY <2>2, FS_AddElement, FS_CardinalityType
  <2>4. Get(df, t, 0) = Cardinality(Has(docs, t))
    <3>1. CASE t \in DOMAIN df
      BY <1>2, <3>1 DEF Get
    <3>2. CASE t \notin DOMAIN df
      BY <1>2, <2>1, <3>2, FS_EmptySet DEF Get
    <3> QED BY <3>1, <3>2
  <2>5. Has(new, t) = IF t \in Used(doc) THEN Has(docs, t) \cup {k} ELSE Has(docs, t)
    BY <1>1, <2>1 DEF PutIn
  <2>6. more[t] = Cardinality(Has(docs, t)) + (IF t \in Used(doc) THEN 1 ELSE 0)
    BY <1>4, <2>4
  <2> QED BY <2>3, <2>5, <2>6
<1>7. FrequenciesOf(more, new)
  BY <1>5, <1>6 DEF FrequenciesOf
<1> QED BY <1>7 DEF more, new

\* What both indexes hold of the other ids.
Forgotten(U, db, o, k, f) ==
    /\ f.docs = Without(o.docs, {k})
    /\ FrequenciesOf(f.doc_frequencies, f.docs)
    /\ PostingsOf(U, Retained(db, k), f.docs)
    /\ f.total_tokens = FoldFunction(+, 0, Without(db.doc_lengths, {k}))

LEMMA ForgetParity ==
  ASSUME NEW U, NEW db, NEW o, Parity(U, db, o), NEW k
  PROVE  Forgotten(U, db, o, k, forget(o, k))
<1> DEFINE docs == o.docs
           f == forget(o, k)
<1>1. /\ DocsOf(U, docs) /\ DOMAIN db.doc_terms = DOMAIN docs
      /\ db.doc_lengths \in [DOMAIN docs -> Nat] /\ IsFiniteSet(DOMAIN docs)
      /\ PostingsOf(U, db.postings, docs) /\ FrequenciesOf(o.doc_frequencies, docs)
      /\ \A id \in DOMAIN docs : db.doc_terms[id] = Used(docs[id])
      /\ \A id \in DOMAIN docs : db.doc_lengths[id] = Tokens(docs[id])
      /\ o.total_tokens = FoldFunction(+, 0, db.doc_lengths)
  BY DEF Parity, DocsOf
<1>2. TakenOut(U, docs, k, Without(docs, {k}))
  BY <1>1, DocsWithout
<1>3. PostingsOf(U, Retained(db, k), Without(docs, {k}))
  BY <1>1, OutOfPostings
<1> DEFINE all == FoldFunction(+, 0, db.doc_lengths)
           kept == FoldFunction(+, 0, Without(db.doc_lengths, {k}))
<1>4. all \in Nat /\ kept \in Nat /\ all = kept + Get(db.doc_lengths, k, 0)
  <2>1. 0 \in Nat
    OBVIOUS
  <2> QED BY <1>1, <2>1, SumOfTable
<1>5. CASE k \notin DOMAIN docs
  <2>1. f = o
    BY <1>5 DEF forget
  <2>2. Without(docs, {k}) = docs
    BY <1>2, <1>5 DEF TakenOut
  <2>3. Get(db.doc_lengths, k, 0) = 0
    BY <1>1, <1>5 DEF Get
  <2>4. all = kept
    <3> HIDE DEF all, kept
    <3> QED BY <1>4, <2>3
  <2> QED BY <1>1, <1>3, <2>1, <2>2, <2>4 DEF Forgotten
<1>6. CASE k \in DOMAIN docs
  <2> DEFINE less == [t \in DOMAIN o.doc_frequencies |->
                         o.doc_frequencies[t] - (IF t \in Used(docs[k]) THEN 1 ELSE 0)]
             gone == {t \in DOMAIN less : less[t] = 0}
  <2>1. f = [docs |-> Without(docs, {k}),
             doc_frequencies |-> Without(less, gone),
             total_tokens |-> o.total_tokens - Tokens(docs[k])]
    BY <1>6 DEF forget
  <2>2. FrequenciesOf(Without(less, gone), Without(docs, {k}))
    <3> DEFINE df == o.doc_frequencies
    <3>1. /\ DOMAIN less = DOMAIN df /\ gone = {t \in DOMAIN less : less[t] = 0}
          /\ \A t \in DOMAIN df : less[t] = df[t] - (IF t \in Used(docs[k]) THEN 1 ELSE 0)
      OBVIOUS
    <3>2. DocsOf(U, docs) /\ FrequenciesOf(df, docs)
      BY <1>1
    <3> HIDE DEF less, gone, df, docs
    <3> QED BY <1>6, <3>1, <3>2, OutOfFrequencies
  <2>3. Get(db.doc_lengths, k, 0) = Tokens(docs[k])
    BY <1>1, <1>6 DEF Get
  <2>4. Tokens(docs[k]) \in Nat
    BY <1>1, <1>6
  <2>5. all - Tokens(docs[k]) = kept
    <3> HIDE DEF all, kept
    <3> QED BY <1>4, <2>3, <2>4
  <2> HIDE DEF less, gone
  <2>6. /\ f.docs = Without(docs, {k})
        /\ f.doc_frequencies = Without(less, gone)
        /\ f.total_tokens = o.total_tokens - Tokens(docs[k])
    BY <2>1
  <2>7. f.total_tokens = kept
    BY <1>1, <2>5, <2>6
  <2> HIDE DEF f, kept
  <2>8. FrequenciesOf(f.doc_frequencies, f.docs)
    BY <2>2, <2>6
  <2>9. Forgotten(U, db, o, k, f)
    BY <1>3, <2>6, <2>7, <2>8 DEF Forgotten, kept
  <2> QED BY <2>9 DEF f
<1> QED BY <1>5, <1>6


\* remove keeps the two indexes together.
LEMMA RemoveParity ==
  ASSUME NEW U, NEW db, NEW o, Parity(U, db, o), NEW k
  PROVE  Parity(U, remove(db, k), forget(o, k))
<1> DEFINE docs == o.docs
           f == forget(o, k)
<1>1. /\ DocsOf(U, docs) /\ DOMAIN db.doc_terms = DOMAIN docs
      /\ db.doc_lengths \in [DOMAIN docs -> Nat]
      /\ \A id \in DOMAIN docs : db.doc_lengths[id] = Tokens(docs[id])
                                 /\ db.doc_terms[id] = Used(docs[id])
  BY DEF Parity
<1>2. CASE k \notin DOMAIN docs
  <2>1. remove(db, k) = db /\ f = o
    BY <1>1, <1>2 DEF remove, forget
  <2> QED BY <2>1
<1>3. CASE k \in DOMAIN docs
  <2> DEFINE rest == Without(docs, {k})
             db2 == remove(db, k)
  <2>1. Forgotten(U, db, o, k, f)
    BY ForgetParity
  <2>2. TakenOut(U, docs, k, rest)
    BY <1>1, DocsWithout
  <2>3. /\ db2.postings = Retained(db, k)
        /\ db2.doc_lengths = Without(db.doc_lengths, {k})
        /\ db2.doc_terms = Without(db.doc_terms, {k})
    BY <1>1, <1>3 DEF remove
  <2> HIDE DEF rest, db2, f
  <2>4. f.docs = rest
    BY <2>1 DEF Forgotten, rest
  <2>5. /\ DocsOf(U, rest) /\ DOMAIN rest = DOMAIN docs \ {k}
        /\ \A id \in DOMAIN rest : rest[id] = docs[id]
    BY <2>2 DEF TakenOut
  <2>6. /\ db2.doc_lengths \in [DOMAIN rest -> Nat] /\ DOMAIN db2.doc_terms = DOMAIN rest
        /\ \A id \in DOMAIN rest : db2.doc_lengths[id] = db.doc_lengths[id]
                                   /\ db2.doc_terms[id] = db.doc_terms[id]
    BY <1>1, <2>3, <2>5 DEF Without, Restrict
  <2>7. \A id \in DOMAIN rest : db2.doc_lengths[id] = Tokens(rest[id])
                                /\ db2.doc_terms[id] = Used(rest[id])
    BY <1>1, <2>5, <2>6
  <2>8. /\ FrequenciesOf(f.doc_frequencies, f.docs) /\ PostingsOf(U, db2.postings, f.docs)
        /\ f.total_tokens = FoldFunction(+, 0, db2.doc_lengths)
    BY <2>1, <2>3 DEF Forgotten
  <2>9. Parity(U, db2, f)
    BY <2>4, <2>5, <2>6, <2>7, <2>8 DEF Parity
  <2> QED BY <2>9 DEF db2, f
<1> QED BY <1>2, <1>3

\* insert keeps the two indexes together, whether or not the id had a document.
LEMMA InsertParity ==
  ASSUME NEW U, NEW db, NEW o, Parity(U, db, o), NEW k \in U, NEW doc \in [Terms -> Nat],
         Tokens(doc) \in Nat
  PROVE  Parity(U, insert(db, k, doc), oracle_insert(o, k, doc))
<1> DEFINE docs == o.docs
           f == forget(o, k)
           rest == Without(docs, {k})
           new == With(rest, k, doc)
           n == Tokens(doc)
           db2 == insert(db, k, doc)
           o2 == oracle_insert(o, k, doc)
           p == Retained(db, k)
           pushed == [t \in Used(doc) \cup DOMAIN p |->
                           IF t \in Used(doc) THEN Append(Get(p, t, <<>>), <<k, doc[t]>>)
                                              ELSE p[t]]
           df == f.doc_frequencies
           more == [t \in Used(doc) \cup DOMAIN df |->
                           Get(df, t, 0) + (IF t \in Used(doc) THEN 1 ELSE 0)]
<1>1. /\ DocsOf(U, docs) /\ DOMAIN db.doc_terms = DOMAIN docs /\ IsFiniteSet(DOMAIN docs)
      /\ db.doc_lengths \in [DOMAIN docs -> Nat]
      /\ \A id \in DOMAIN docs : db.doc_lengths[id] = Tokens(docs[id])
                                 /\ db.doc_terms[id] = Used(docs[id])
  BY DEF Parity, DocsOf
<1>2. Forgotten(U, db, o, k, f)
  BY ForgetParity
<1>3. TakenOut(U, docs, k, rest)
  BY <1>1, DocsWithout
<1>4. f.docs = rest /\ FrequenciesOf(df, rest) /\ PostingsOf(U, p, rest)
      /\ f.total_tokens = FoldFunction(+, 0, Without(db.doc_lengths, {k}))
  <2> HIDE DEF f, p
  <2>1. f.docs = rest
    BY <1>2 DEF Forgotten
  <2> HIDE DEF rest
  <2> QED BY <1>2, <2>1 DEF Forgotten, p
<1>5. /\ db2.postings = pushed /\ db2.doc_lengths = With(db.doc_lengths, k, n)
      /\ db2.doc_terms = With(db.doc_terms, k, Used(doc))
  BY DEF insert
<1>6. /\ o2.docs = With(f.docs, k, doc) /\ o2.doc_frequencies = more
      /\ o2.total_tokens = f.total_tokens + n
  BY DEF oracle_insert
<1>7. DocsOf(U, rest) /\ DOMAIN rest = DOMAIN docs \ {k}
      /\ \A id \in DOMAIN rest : rest[id] = docs[id]
  <2> HIDE DEF rest
  <2> QED BY <1>3 DEF TakenOut
<1>8. k \notin DOMAIN rest
  <2> HIDE DEF rest
  <2> QED BY <1>7
<1>9. PutIn(U, rest, k, doc, new)
  <2> HIDE DEF rest
  <2> QED BY <1>7, <1>8, DocsWith
<1>10. PostingsOf(U, pushed, new)
  <2> HIDE DEF rest, p
  <2> QED BY <1>4, <1>7, <1>8, IntoPostings
<1>11. FrequenciesOf(more, new)
  <2> HIDE DEF rest, df
  <2> QED BY <1>4, <1>7, <1>8, IntoFrequencies
<1>12. FoldFunction(+, 0, With(db.doc_lengths, k, n))
           = FoldFunction(+, 0, Without(db.doc_lengths, {k})) + n
  <2> HIDE DEF n
  <2>1. n \in Nat
    BY DEF n
  <2> QED BY <1>1, <2>1, SumOfTable
<1>13. o2.docs = new /\ o2.total_tokens = FoldFunction(+, 0, db2.doc_lengths)
  <2> HIDE DEF f, o2, db2, n, rest
  <2>1. o2.docs = new
    BY <1>4, <1>6
  <2>2. o2.total_tokens = FoldFunction(+, 0, With(db.doc_lengths, k, n))
    BY <1>4, <1>6, <1>12
  <2> QED BY <1>5, <2>1, <2>2
<1> HIDE DEF db2, o2, n, pushed, more, rest, new
<1>14. DOMAIN new = DOMAIN docs \cup {k} /\ DocsOf(U, new) /\ new[k] = doc
       /\ \A id \in DOMAIN docs \ {k} : new[id] = docs[id]
  BY <1>7, <1>9 DEF PutIn
<1>15. db2.doc_lengths \in [DOMAIN new -> Nat] /\ DOMAIN db2.doc_terms = DOMAIN new
  <2>1. n \in Nat
    BY DEF n
  <2> QED BY <1>1, <1>5, <1>14, <2>1 DEF With
<1>16. ASSUME NEW id \in DOMAIN new
       PROVE  db2.doc_lengths[id] = Tokens(new[id]) /\ db2.doc_terms[id] = Used(new[id])
  <2>1. CASE id = k
    <3>1. db2.doc_lengths[id] = n /\ db2.doc_terms[id] = Used(doc)
      BY <1>5, <2>1 DEF With
    <3> QED BY <1>14, <2>1, <3>1 DEF n
  <2>2. CASE id # k
    <3>1. id \in DOMAIN docs /\ new[id] = docs[id]
      BY <1>14, <2>2
    <3>2. db2.doc_lengths[id] = db.doc_lengths[id] /\ db2.doc_terms[id] = db.doc_terms[id]
      BY <1>1, <1>5, <2>2, <3>1 DEF With
    <3> QED BY <1>1, <3>1, <3>2
  <2> QED BY <2>1, <2>2
<1>17. PostingsOf(U, db2.postings, o2.docs) /\ FrequenciesOf(o2.doc_frequencies, o2.docs)
  BY <1>5, <1>6, <1>10, <1>11, <1>13
<1>18. Parity(U, db2, o2)
  BY <1>13, <1>14, <1>15, <1>16, <1>17 DEF Parity
<1> QED BY <1>18 DEF db2, o2

\* The number of entries of a list is that of the documents that hold its term.
LEMMA ListLength ==
  ASSUME NEW U, NEW q, NEW docs, NEW t, Lists(U, q, docs, t)
  PROVE  Len(q) = Cardinality(Has(docs, t))
<1> DEFINE H == Has(docs, t)
           h == [i \in 1 .. Len(q) |-> q[i][1]]
<1>1. Len(q) \in Nat
  BY DEF Lists
<1>2. h \in [1 .. Len(q) -> H] /\ (\A id \in H : \E i \in 1 .. Len(q) : h[i] = id)
  BY DEF Lists
<1>3. \A i, j \in 1 .. Len(q) : h[i] = h[j] => i = j
  BY DEF Lists, Distinct
<1> HIDE DEF H, h
<1>4. h \in Surjection(1 .. Len(q), H)
  BY <1>2 DEF Surjection
<1>5. h \in Injection(1 .. Len(q), H)
  BY <1>2, <1>3 DEF Injection, IsInjective
<1>6. IsFiniteSet(1 .. Len(q)) /\ Cardinality(1 .. Len(q)) = Len(q)
  <2> DEFINE n == Len(q)
  <2>1. n \in Nat /\ 1 \in Int /\ n \in Int
    BY <1>1
  <2> HIDE DEF n
  <2>2. IsFiniteSet(1 .. n) /\ Cardinality(1 .. n) = IF 1 > n THEN 0 ELSE n - 1 + 1
    BY <2>1, FS_Interval
  <2>3. Cardinality(1 .. n) = n
    BY <2>1, <2>2
  <2> QED BY <2>2, <2>3 DEF n
<1>7. Cardinality(H) = Cardinality(1 .. Len(q))
  BY <1>4, <1>5, <1>6, FS_Surjection
<1> QED BY <1>6, <1>7 DEF H

\* The entries of a list.
LEMMA ListEntries ==
  ASSUME NEW U, NEW q, NEW docs, NEW t, Lists(U, q, docs, t)
  PROVE  /\ \A e \in Range(q) : e[1] \in Has(docs, t) /\ e[2] = docs[e[1]][t]
         /\ \A id \in Has(docs, t) : \E e \in Range(q) : e[1] = id
<1>1. q \in Seq(U \X Nat) /\ DOMAIN q = 1 .. Len(q)
  BY DEF Lists
<1>2. /\ \A i \in DOMAIN q : q[i][1] \in Has(docs, t) /\ q[i][2] = docs[q[i][1]][t]
      /\ \A id \in Has(docs, t) : \E i \in DOMAIN q : q[i][1] = id
  BY <1>1 DEF Lists
<1>3. ASSUME NEW e \in Range(q) PROVE e[1] \in Has(docs, t) /\ e[2] = docs[e[1]][t]
  <2>1. PICK i \in DOMAIN q : e = q[i]
    BY DEF Range
  <2> QED BY <1>2, <2>1
<1>4. ASSUME NEW id \in Has(docs, t) PROVE \E e \in Range(q) : e[1] = id
  <2>1. PICK i \in DOMAIN q : q[i][1] = id
    BY <1>2
  <2> QED BY <2>1 DEF Range
<1> QED BY <1>3, <1>4

\* LexicalAnswers: two indexes that hold the same documents answer every query alike:
\* the same hits, each with the same inputs to its score.
LEMMA LexicalAnswers ==
  ASSUME NEW U, NEW db, NEW o, Parity(U, db, o), NEW query, NEW admissible,
         \A i \in DOMAIN query : query[i] \in Terms
  PROVE  scored(db, open(db), query, admissible) = oracle_search(o, query, admissible)
<1> DEFINE docs == o.docs
           N == Cardinality(DOMAIN docs)
           recounted == open(db)
           list(t) == Get(db.postings, t, <<>>)
           rows(i) == {p \in Range(list(query[i])) : p[1] \in admissible \cap DOMAIN db.doc_lengths}
           hits == {p[1] : p \in UNION {rows(i) : i \in DOMAIN query}}
           input(t, p) == [frequency |-> p[2], length |-> db.doc_lengths[p[1]],
                           doc_freq |-> Len(list(t)), stats |-> recounted]
           part(id, i) == {input(query[i], p) : p \in {q \in rows(i) : q[1] = id}}
           total == [corpus_size |-> N, total_tokens |-> o.total_tokens]
           input2(id, t) == [frequency |-> docs[id][t], length |-> Tokens(docs[id]),
                             doc_freq |-> Get(o.doc_frequencies, t, 0), stats |-> total]
           hits2 == {id \in DOMAIN docs \cap admissible : \E i \in DOMAIN query : docs[id][query[i]] > 0}
           part2(id, i) == IF docs[id][query[i]] > 0 THEN {input2(id, query[i])} ELSE {}
<1>1. scored(db, recounted, query, admissible) =
          IF recounted.corpus_size = 0 THEN <<>>
          ELSE [id \in hits |-> [i \in DOMAIN query |-> part(id, i)]]
  BY DEF scored
<1>2. oracle_search(o, query, admissible) =
          IF N = 0 THEN <<>> ELSE [id \in hits2 |-> [i \in DOMAIN query |-> part2(id, i)]]
  BY DEF oracle_search
<1>3. /\ DOMAIN db.doc_lengths = DOMAIN docs
      /\ \A id \in DOMAIN docs : db.doc_lengths[id] = Tokens(docs[id])
      /\ PostingsOf(U, db.postings, docs) /\ FrequenciesOf(o.doc_frequencies, docs)
      /\ o.total_tokens = FoldFunction(+, 0, db.doc_lengths)
      /\ docs \in [DOMAIN docs -> [Terms -> Nat]]
  BY DEF Parity, DocsOf
<1>4. recounted = total /\ recounted.corpus_size = N
  <2>1. recounted = [corpus_size |-> N, total_tokens |-> FoldFunction(+, 0, db.doc_lengths)]
    BY <1>3 DEF open
  <2>2. recounted = total
    BY <1>3, <2>1
  <2> HIDE DEF recounted
  <2>3. recounted.corpus_size = N
    BY <2>2
  <2> QED BY <2>2, <2>3
<1>5. ASSUME NEW t \in Terms
      PROVE  /\ \A e \in Range(list(t)) : e[1] \in Has(docs, t) /\ e[2] = docs[e[1]][t]
             /\ \A id \in Has(docs, t) : \E e \in Range(list(t)) : e[1] = id
             /\ Len(list(t)) = Get(o.doc_frequencies, t, 0)
  <2>1. CASE t \in DOMAIN db.postings
    <3>1. Lists(U, list(t), docs, t)
      BY <1>3, <2>1 DEF Get, PostingsOf
    <3>2. Get(o.doc_frequencies, t, 0) = Cardinality(Has(docs, t))
      BY <1>3, <2>1 DEF Get, PostingsOf, FrequenciesOf
    <3> HIDE DEF list
    <3> QED BY <3>1, <3>2, ListLength, ListEntries
  <2>2. CASE t \notin DOMAIN db.postings
    <3>1. list(t) = <<>> /\ Has(docs, t) = {}
      BY <1>3, <2>2 DEF Get, PostingsOf
    <3>2. Get(o.doc_frequencies, t, 0) = 0
      BY <1>3, <3>1 DEF Get, FrequenciesOf
    <3> HIDE DEF list
    <3>3. Range(list(t)) = {} /\ Len(list(t)) = 0
      BY <3>1 DEF Range
    <3> QED BY <3>1, <3>2, <3>3
  <2> QED BY <2>1, <2>2
<1> HIDE DEF list, recounted, total, docs
<1>6. ASSUME NEW i \in DOMAIN query
      PROVE  /\ \A e \in rows(i) : /\ e[1] \in DOMAIN docs \cap admissible
                                   /\ docs[e[1]][query[i]] > 0 /\ e[2] = docs[e[1]][query[i]]
             /\ \A id \in DOMAIN docs \cap admissible :
                   docs[id][query[i]] > 0 => \E e \in rows(i) : e[1] = id
  <2>1. query[i] \in Terms
    OBVIOUS
  <2>2. /\ \A e \in Range(list(query[i])) : e[1] \in Has(docs, query[i]) /\ e[2] = docs[e[1]][query[i]]
        /\ \A id \in Has(docs, query[i]) : \E e \in Range(list(query[i])) : e[1] = id
    BY <1>5, <2>1
  <2> QED BY <1>3, <2>2 DEF Has
<1> HIDE DEF rows
<1>7. hits = hits2
  <2>1. ASSUME NEW id \in hits PROVE id \in hits2
    <3>1. PICK i \in DOMAIN query : \E p \in rows(i) : id = p[1]
      OBVIOUS
    <3> QED BY <1>6, <3>1
  <2>2. ASSUME NEW id \in hits2 PROVE id \in hits
    <3>1. PICK i \in DOMAIN query : docs[id][query[i]] > 0
      OBVIOUS
    <3>2. PICK e \in rows(i) : e[1] = id
      BY <1>6, <3>1
    <3> QED BY <3>2
  <2> QED BY <2>1, <2>2
<1>8. ASSUME NEW id \in hits2, NEW i \in DOMAIN query PROVE part(id, i) = part2(id, i)
  <2> DEFINE t == query[i]
             x == input2(id, t)
  <2>1. id \in DOMAIN docs \cap admissible /\ t \in Terms
    OBVIOUS
  <2>2. ASSUME NEW e \in rows(i), e[1] = id PROVE input(t, e) = x
    <3>1. e[2] = docs[id][t]
      BY <1>6, <2>2
    <3>2. db.doc_lengths[e[1]] = Tokens(docs[id])
      BY <1>3, <2>1, <2>2
    <3>3. Len(list(t)) = Get(o.doc_frequencies, t, 0)
      BY <1>5, <2>1
    <3> QED BY <1>4, <3>1, <3>2, <3>3
  <2> HIDE DEF input, input2
  <2>3. CASE docs[id][t] > 0
    <3>1. PICK e \in rows(i) : e[1] = id
      BY <1>6, <2>1, <2>3
    <3>2. part2(id, i) = {x}
      BY <2>3
    <3>3. \A p \in {q \in rows(i) : q[1] = id} : input(t, p) = x
      BY <2>2
    <3>4. part(id, i) = {x}
      BY <3>1, <3>3
    <3> QED BY <3>2, <3>4
  <2>4. CASE ~(docs[id][t] > 0)
    <3>1. \A e \in rows(i) : e[1] # id
      BY <1>6, <2>4
    <3>2. part(id, i) = {} /\ part2(id, i) = {}
      BY <2>4, <3>1
    <3> QED BY <3>2
  <2> QED BY <2>3, <2>4
<1> HIDE DEF hits, hits2, part, part2, N
<1>9. [id \in hits |-> [i \in DOMAIN query |-> part(id, i)]]
          = [id \in hits2 |-> [i \in DOMAIN query |-> part2(id, i)]]
  BY <1>7, <1>8
<1>10. scored(db, recounted, query, admissible) = oracle_search(o, query, admissible)
  BY <1>1, <1>2, <1>4, <1>9
<1> QED BY <1>10 DEF recounted

-----------------------------------------------------------------------------
(* The inductive invariant *)

Entries == [id : Ids, point : Points \cup {Absent}]

Vec(id) == Get(index, id, None)
Doc(id) == Get(oracle.docs, id, None)
Pay(id) == Get(payloads, id, None)
OnDisk(id) == Get(stored, id, None)

\* The entries whose vector is still to be removed.
Rest == IF pc = "remove_vector" THEN op.todo ELSE Tail(op.todo)

\* The shape of the stores.
StoreInv ==
    /\ DOMAIN index \subseteq Ids /\ DOMAIN stored \subseteq Ids /\ DOMAIN payloads \subseteq Ids
    /\ window \in {"none", "tail", "ahead", "misplaced", "spoilt"}
    /\ window \in {"none", "tail"} => stored = index
    /\ DOMAIN lexical.doc_lengths \subseteq Ids
    /\ lexical.doc_lengths \in [DOMAIN lexical.doc_lengths -> Nat]
    /\ DOMAIN lexical.doc_terms = DOMAIN lexical.doc_lengths
    /\ acked \in [Ids -> Points \cup {Absent}]
    /\ attempted \in [Ids -> SUBSET (Points \cup {Absent})]

\* The shape of the running call.
CallInv ==
    /\ pc \in {"idle", "down", "remove_vector", "insert_vector", "document", "payload"}
    /\ op = [todo |-> op.todo, filter |-> op.filter, removed |-> op.removed, had |-> op.had]
    /\ Running =>
          /\ op.todo \in Seq(Entries) /\ op.todo # <<>>
          /\ op.removed \in Nat
          /\ op.removed + Len(Rest) <= Cardinality(Ids) + MaxBatch

\* What the steps of the current id have done so far.
StageInv ==
    /\ pc = "insert_vector" => Upserting
    /\ pc \in {"document", "payload"} => Vec(Current.id) = Current.point.vector
    /\ pc = "payload" => Doc(Current.id) = Current.point.document

\* StoresAgree, for one id.
AgreeAt(id) ==
    attempted[id] = {} /\ ~InProgress(id) =>
        /\ window # "spoilt" => Vec(id) = acked[id].vector
        /\ Doc(id) = acked[id].document /\ Pay(id) = acked[id].payload

\* NothingForeign, for one id.
Tried(id) == attempted[id] \cup (IF InProgress(id) THEN {Current.point} ELSE {})
Given(id, vector) ==
    \/ \E p \in {acked[id]} \cup Tried(id) : vector = p.vector
    \/ Tried(id) # {} /\ vector = None
ForeignAt(id) ==
    /\ window # "spoilt" => Given(id, Vec(id))
    /\ \E p \in {acked[id]} \cup Tried(id) : Doc(id) = p.document
    /\ \E p \in {acked[id]} \cup Tried(id) : Pay(id) = p.payload

\* As long as only deletions were begun on an id, its payload goes last.
RetryAt(id) ==
    /\ attempted[id] \subseteq {Absent}
    /\ InProgress(id) => Current.point = Absent
    => Pay(id) = acked[id].payload

\* What the tables hold when RAM is ahead of them: the same, but for ids on which a
\* call failed, and for those still something that was given.
KeptAt(id) ==
    window = "ahead" =>
        /\ \/ OnDisk(id) = Vec(id)
           \/ attempted[id] # {} /\ (InProgress(id) => pc = "remove_vector")
        /\ Given(id, OnDisk(id))

GivenAt(id) == AgreeAt(id) /\ ForeignAt(id) /\ RetryAt(id) /\ KeptAt(id)

IdInv == \A id \in Ids : GivenAt(id)

\* delete_by_filter: what still matches is still to do, and the count adds up.
Left == {e \in Range(Rest) : e.id \in DOMAIN index}
PurgeInv ==
    Running /\ op.filter # {} =>
        /\ \A i \in DOMAIN op.todo : op.todo[i].point = Absent
        /\ \A id \in DOMAIN payloads :
              payloads[id] \in op.filter => \E i \in DOMAIN op.todo : op.todo[i].id = id
        /\ op.removed + Cardinality(Left) = op.had

\* The numbers in RAM.
CountInv == stats = open(lexical) /\ count = Cardinality(DOMAIN payloads)

Inv == StoreInv /\ CallInv /\ StageInv /\ IdInv /\ PurgeInv /\ CountInv

-----------------------------------------------------------------------------
(* Lemmas *)

\* A call's list begins with the current entry and goes on with the rest.
LEMMA HeadAndTail ==
  ASSUME NEW E, NEW s \in Seq(E), s # <<>>
  PROVE  /\ Head(s) \in E /\ Tail(s) \in Seq(E)
         /\ Len(s) \in Nat \ {0} /\ Len(Tail(s)) = Len(s) - 1
         /\ DOMAIN s = 1 .. Len(s) /\ 1 \in DOMAIN s /\ Head(s) = s[1]
         /\ \A i \in DOMAIN Tail(s) : i + 1 \in DOMAIN s /\ Tail(s)[i] = s[i + 1]
         /\ \A i \in DOMAIN s : i = 1 \/ (i - 1 \in DOMAIN Tail(s) /\ s[i] = Tail(s)[i - 1])
         /\ Len(s) = 1 => Tail(s) = <<>>
         /\ Len(s) # 1 => Tail(s) # <<>>
<1>1. Len(s) \in Nat \ {0} /\ DOMAIN s = 1 .. Len(s) /\ Head(s) = s[1] /\ Head(s) \in E
  OBVIOUS
<1>2. /\ Tail(s) \in Seq(E) /\ Len(Tail(s)) = Len(s) - 1
      /\ \A i \in 1 .. Len(s) - 1 : Tail(s)[i] = s[i + 1]
  OBVIOUS
<1>3. DOMAIN Tail(s) = 1 .. Len(s) - 1
  BY <1>2
<1>4. \A i \in DOMAIN s : i = 1 \/ (i - 1 \in DOMAIN Tail(s) /\ s[i] = Tail(s)[i - 1])
  BY <1>1, <1>2, <1>3
<1>5. /\ Len(s) = 1 => Tail(s) = <<>>
      /\ Len(s) # 1 => Tail(s) # <<>>
  BY SMTT(30), <1>1, <1>2
<1> QED BY <1>1, <1>2, <1>3, <1>4, <1>5

\* The entries of a list are finitely many.
LEMMA FiniteRange ==
  ASSUME NEW E, NEW s \in Seq(E)
  PROVE  IsFiniteSet(Range(s))
<1>1. DOMAIN s = 1 .. Len(s) /\ Len(s) \in Nat /\ IsFiniteSet(1 .. Len(s))
  BY FS_Interval
<1>2. s \in [DOMAIN s -> Range(s)] /\ \A e \in Range(s) : \E i \in DOMAIN s : s[i] = e
  BY <1>1 DEF Range
<1>3. s \in Surjection(DOMAIN s, Range(s))
  BY <1>2 DEF Surjection, Range
<1> QED BY <1>1, <1>3, FS_Surjection

\* Points are records.
LEMMA PointIsRecord ==
  ASSUME NEW p \in Points \cup {Absent}
  PROVE  p = [vector |-> p.vector, document |-> p.document, payload |-> p.payload]
BY CollectionAssumption DEF Absent

\* Current entry of a running call.
LEMMA CurrentType ==
  ASSUME StoreInv, CallInv, Running
  PROVE  /\ Current \in Entries /\ Current.id \in Ids /\ Current.point \in Points \cup {Absent}
         /\ Tail(op.todo) \in Seq(Entries)
<1>1. op.todo \in Seq(Entries) /\ op.todo # <<>>
  BY DEF CallInv
<1>2. Head(op.todo) \in Entries /\ Tail(op.todo) \in Seq(Entries)
  BY <1>1, HeadAndTail
<1> QED BY <1>2 DEF Current, Entries

\* The number of rows after a row was written or removed.
LEMMA RowCount ==
  ASSUME NEW f, NEW k, NEW v, IsFiniteSet(DOMAIN f)
  PROVE  /\ Cardinality(DOMAIN f) \in Nat
         /\ Cardinality(DOMAIN With(f, k, v)) =
                IF k \in DOMAIN f THEN Cardinality(DOMAIN f) ELSE Cardinality(DOMAIN f) + 1
         /\ Cardinality(DOMAIN Without(f, {k})) =
                IF k \in DOMAIN f THEN Cardinality(DOMAIN f) - 1 ELSE Cardinality(DOMAIN f)
         /\ k \in DOMAIN f => Cardinality(DOMAIN f) > 0
<1>1. Cardinality(DOMAIN f) \in Nat
  BY FS_CardinalityType
<1>2. k \in DOMAIN f => Cardinality(DOMAIN f) > 0
  BY <1>1, FS_EmptySet
<1>3. Cardinality(DOMAIN f \cup {k}) =
          IF k \in DOMAIN f THEN Cardinality(DOMAIN f) ELSE Cardinality(DOMAIN f) + 1
  BY FS_AddElement
<1>4. Cardinality(DOMAIN f \ {k}) =
          IF k \in DOMAIN f THEN Cardinality(DOMAIN f) - 1 ELSE Cardinality(DOMAIN f)
  BY FS_RemoveElement
<1> QED BY <1>1, <1>2, <1>3, <1>4, Keys

\* A document has a number of tokens.
LEMMA TokensType ==
  ASSUME NEW doc \in [Terms -> Nat]
  PROVE  Tokens(doc) \in Nat
<1>1. IsFiniteSet(Terms) /\ 0 \in Nat
  BY CollectionAssumption
<1>2. FoldFunction(+, 0, doc) \in Nat
  BY <1>1, SumOfTable
<1> QED BY <1>2 DEF Tokens

\* insert keeps the tables in shape and the statistics exact.
LEMMA InsertCounts ==
  ASSUME NEW db, NEW id \in Ids, NEW doc \in [Terms -> Nat],
         DOMAIN db.doc_lengths \subseteq Ids,
         db.doc_lengths \in [DOMAIN db.doc_lengths -> Nat],
         DOMAIN db.doc_terms = DOMAIN db.doc_lengths
  PROVE  /\ DOMAIN insert(db, id, doc).doc_lengths = DOMAIN db.doc_lengths \cup {id}
         /\ insert(db, id, doc).doc_lengths \in [DOMAIN db.doc_lengths \cup {id} -> Nat]
         /\ DOMAIN insert(db, id, doc).doc_terms = DOMAIN db.doc_lengths \cup {id}
         /\ insert_stats(open(db), db, id, doc) = open(insert(db, id, doc))
<1> DEFINE f == db.doc_lengths
           S == DOMAIN db.doc_lengths
           n == Tokens(doc)
           g == With(f, id, n)
<1>1. IsFiniteSet(S)
  BY CollectionAssumption, FS_Subset
<1>2. n \in Nat
  BY TokensType
<1>3. /\ insert(db, id, doc).doc_lengths = g
      /\ insert(db, id, doc).doc_terms = With(db.doc_terms, id, Used(doc))
  BY DEF insert
<1>4. DOMAIN g = S \cup {id} /\ g \in [S \cup {id} -> Nat]
  <2> HIDE DEF n
  <2> QED BY <1>2 DEF With
<1>5. DOMAIN insert(db, id, doc).doc_terms = S \cup {id}
  <2> HIDE DEF n
  <2> QED BY <1>3 DEF With
<1> DEFINE old == FoldFunction(+, 0, f)
           all == FoldFunction(+, 0, g)
           kept == FoldFunction(+, 0, Without(f, {id}))
<1>6. /\ old \in Nat /\ kept \in Nat /\ old = kept + Get(f, id, 0) /\ all = kept + n
  <2> HIDE DEF n
  <2> QED BY <1>1, <1>2, SumOfTable
<1>7. /\ Cardinality(S) \in Nat
      /\ Cardinality(DOMAIN g) = IF id \in S THEN Cardinality(S) ELSE Cardinality(S) + 1
  BY ZenonT(40), <1>1, RowCount
<1>8. PriorTokens(db, id) = Get(f, id, 0) /\ Get(f, id, 0) \in Nat
  BY DEF PriorTokens, Get
<1>9. PriorSize(db, id) = IF id \in S THEN 1 ELSE 0
  BY DEF PriorSize
<1>10. apply_delta(Cardinality(S), 1 - PriorSize(db, id)) = Cardinality(DOMAIN g)
  <2> HIDE DEF S, g
  <2> QED BY <1>7, <1>9 DEF apply_delta
<1>11. apply_delta(old, n - PriorTokens(db, id)) = all
  <2> DEFINE prior == PriorTokens(db, id)
  <2>1. prior \in Nat /\ old = kept + prior
    BY <1>6, <1>8
  <2> HIDE DEF old, all, kept, n, prior
  <2>2. apply_delta(old, n - prior) = all
    BY <1>2, <1>6, <2>1 DEF apply_delta
  <2> QED BY <2>2 DEF prior
<1>12. open(db) = [corpus_size |-> Cardinality(S), total_tokens |-> old]
  BY DEF open
<1>13. open(insert(db, id, doc)) = [corpus_size |-> Cardinality(DOMAIN g), total_tokens |-> all]
  BY <1>3 DEF open
<1>14. insert_stats(open(db), db, id, doc) =
           [corpus_size  |-> apply_delta(Cardinality(S), 1 - PriorSize(db, id)),
            total_tokens |-> apply_delta(old, n - PriorTokens(db, id))]
  <2> DEFINE st == open(db)
  <2>1. st.corpus_size = Cardinality(S) /\ st.total_tokens = old
    <3> HIDE DEF old
    <3> QED BY <1>12
  <2> HIDE DEF st, old
  <2>2. insert_stats(st, db, id, doc) =
           [corpus_size  |-> apply_delta(Cardinality(S), 1 - PriorSize(db, id)),
            total_tokens |-> apply_delta(old, n - PriorTokens(db, id))]
    BY <2>1 DEF insert_stats
  <2> QED BY <2>2 DEF st
<1> QED BY <1>3, <1>4, <1>5, <1>10, <1>11, <1>13, <1>14

\* So does remove.
LEMMA RemoveCounts ==
  ASSUME NEW db, NEW id \in Ids,
         DOMAIN db.doc_lengths \subseteq Ids,
         db.doc_lengths \in [DOMAIN db.doc_lengths -> Nat],
         DOMAIN db.doc_terms = DOMAIN db.doc_lengths
  PROVE  /\ DOMAIN remove(db, id).doc_lengths = DOMAIN db.doc_lengths \ {id}
         /\ remove(db, id).doc_lengths \in [DOMAIN db.doc_lengths \ {id} -> Nat]
         /\ DOMAIN remove(db, id).doc_terms = DOMAIN db.doc_lengths \ {id}
         /\ remove_stats(open(db), db, id) = open(remove(db, id))
<1> DEFINE f == db.doc_lengths
           S == DOMAIN db.doc_lengths
           g == Without(f, {id})
<1>1. IsFiniteSet(S)
  BY CollectionAssumption, FS_Subset
<1> DEFINE old == FoldFunction(+, 0, f)
           kept == FoldFunction(+, 0, g)
<1>2. old \in Nat /\ kept \in Nat /\ old = kept + Get(f, id, 0)
  <2>1. 0 \in Nat
    OBVIOUS
  <2> QED BY <1>1, <2>1, SumOfTable
<1>3. Cardinality(S) \in Nat
  BY <1>1, RowCount
<1>4. open(db) = [corpus_size |-> Cardinality(S), total_tokens |-> old]
  BY DEF open
<1>5. remove_stats(open(db), db, id) =
           [corpus_size  |-> apply_delta(Cardinality(S), -PriorSize(db, id)),
            total_tokens |-> apply_delta(old, -PriorTokens(db, id))]
  <2> DEFINE st == open(db)
  <2>1. st.corpus_size = Cardinality(S) /\ st.total_tokens = old
    <3> HIDE DEF old
    <3> QED BY <1>4
  <2> HIDE DEF st, old
  <2>2. remove_stats(st, db, id) =
           [corpus_size  |-> apply_delta(Cardinality(S), -PriorSize(db, id)),
            total_tokens |-> apply_delta(old, -PriorTokens(db, id))]
    BY <2>1 DEF remove_stats
  <2> QED BY <2>2 DEF st
<1>6. CASE id \in S
  <2>1. /\ remove(db, id).doc_lengths = g
        /\ remove(db, id).doc_terms = Without(db.doc_terms, {id})
    BY <1>6 DEF remove
  <2>2. DOMAIN g = S \ {id} /\ g \in [S \ {id} -> Nat]
    BY DEF Without, Restrict
  <2>3. DOMAIN remove(db, id).doc_terms = S \ {id}
    BY <2>1 DEF Without, Restrict
  <2>4. Cardinality(DOMAIN g) = Cardinality(S) - 1 /\ Cardinality(S) > 0
    BY <1>1, <1>6, RowCount
  <2>5. PriorTokens(db, id) = Get(f, id, 0) /\ Get(f, id, 0) \in Nat /\ PriorSize(db, id) = 1
    BY <1>6 DEF PriorTokens, PriorSize, Get
  <2>6. apply_delta(Cardinality(S), -PriorSize(db, id)) = Cardinality(DOMAIN g)
    <3> HIDE DEF S, g
    <3> QED BY <1>3, <2>4, <2>5 DEF apply_delta
  <2>7. apply_delta(old, -PriorTokens(db, id)) = kept
    <3> DEFINE prior == PriorTokens(db, id)
    <3>1. prior \in Nat /\ old = kept + prior
      BY <1>2, <2>5
    <3> HIDE DEF old, kept, prior
    <3>2. apply_delta(old, -prior) = kept
      BY <1>2, <3>1 DEF apply_delta
    <3> QED BY <3>2 DEF prior
  <2>8. open(remove(db, id)) = [corpus_size |-> Cardinality(DOMAIN g), total_tokens |-> kept]
    BY <2>1 DEF open
  <2> QED BY <1>5, <2>1, <2>2, <2>3, <2>6, <2>7, <2>8
<1>7. CASE id \notin S
  <2>1. remove(db, id) = db /\ S \ {id} = S
    BY <1>7 DEF remove
  <2>2. PriorTokens(db, id) = 0 /\ PriorSize(db, id) = 0
    BY <1>7 DEF PriorTokens, PriorSize
  <2>3. apply_delta(Cardinality(S), -PriorSize(db, id)) = Cardinality(S)
    BY <1>3, <2>2 DEF apply_delta
  <2>4. apply_delta(old, -PriorTokens(db, id)) = old
    <3>1. old \in Nat
      BY <1>2
    <3> HIDE DEF old
    <3> QED BY <2>2, <3>1 DEF apply_delta
  <2> QED BY <1>4, <1>5, <2>1, <2>3, <2>4
<1> QED BY <1>6, <1>7


\* The in-memory index: a document written, a document forgotten.
LEMMA OracleDocs ==
  ASSUME NEW o, NEW k, NEW id, NEW doc
  PROVE  /\ Get(forget(o, k).docs, id, None) = IF id = k THEN None ELSE Get(o.docs, id, None)
         /\ Get(oracle_insert(o, k, doc).docs, id, None)
                = IF id = k THEN doc ELSE Get(o.docs, id, None)
<1>1. Get(forget(o, k).docs, id, None) = IF id = k THEN None ELSE Get(o.docs, id, None)
  <2>1. CASE k \notin DOMAIN o.docs
    <3>1. forget(o, k) = o
      BY <2>1 DEF forget
    <3> QED BY <2>1, <3>1 DEF Get
  <2>2. CASE k \in DOMAIN o.docs
    <3>1. forget(o, k).docs = Without(o.docs, {k})
      BY <2>2 DEF forget
    <3> QED BY <3>1 DEF Get, Without, Restrict
  <2> QED BY <2>1, <2>2
<1>2. oracle_insert(o, k, doc).docs = With(forget(o, k).docs, k, doc)
  BY DEF oracle_insert
<1>3. Get(oracle_insert(o, k, doc).docs, id, None)
          = IF id = k THEN doc ELSE Get(forget(o, k).docs, id, None)
  BY <1>2 DEF Get, With
<1> QED BY <1>1, <1>3

-----------------------------------------------------------------------------
(* The actions *)

\* The empty collection.
LEMMA InitInv == Init => Inv
<1> SUFFICES ASSUME Init PROVE Inv
  OBVIOUS
<1> USE DEF Init
<1>1. DOMAIN EmptyTables.doc_lengths = {} /\ DOMAIN EmptyTables.doc_terms = {}
      /\ EmptyTables.doc_lengths \in [{} -> Nat]
  BY DEF EmptyTables
<1>2. /\ DOMAIN index = {} /\ DOMAIN payloads = {} /\ DOMAIN oracle.docs = {}
      /\ stored = index /\ window = "none"
  BY DEF EmptyOracle
<1>3. StoreInv
  BY <1>1, <1>2 DEF StoreInv
<1>4. ~Running
  BY DEF Running
<1>5. CallInv
  BY <1>4 DEF CallInv, NoOp
<1>6. StageInv /\ PurgeInv
  BY <1>4 DEF StageInv, PurgeInv
<1>7. ASSUME NEW id \in Ids PROVE GivenAt(id)
  <2>1. Vec(id) = None /\ Doc(id) = None /\ Pay(id) = None /\ acked[id] = Absent /\ attempted[id] = {}
    BY <1>2 DEF Vec, Doc, Pay, Get
  <2> QED BY <1>2, <1>4, <2>1 DEF GivenAt, AgreeAt, ForeignAt, RetryAt, KeptAt, Given, Tried,
                                  InProgress, Absent
<1>8. CountInv
  BY <1>2, FS_EmptySet DEF CountInv
<1> QED BY <1>3, <1>5, <1>6, <1>7, <1>8 DEF Inv, IdInv

\* An id of which nothing changed, whatever the step did elsewhere.
LEMMA Unchanged ==
  ASSUME NEW id \in Ids, GivenAt(id),
         Vec(id)' = Vec(id), Doc(id)' = Doc(id), Pay(id)' = Pay(id),
         acked'[id] = acked[id], attempted'[id] = attempted[id],
         window = "spoilt" => window' = "spoilt",
         window' = "ahead" => window = "ahead" /\ OnDisk(id)' = OnDisk(id),
         ~InProgress(id), InProgress(id)' => pc' = "remove_vector"
  PROVE  GivenAt(id)'
<1>1. Tried(id) \subseteq Tried(id)'
  BY DEF Tried
<1>2. \A vector : Given(id, vector) => Given(id, vector)'
  BY <1>1 DEF Given
<1>3. ForeignAt(id)'
  BY <1>1, <1>2 DEF GivenAt, ForeignAt
<1>4. KeptAt(id)'
  BY <1>2 DEF GivenAt, KeptAt
<1>5. AgreeAt(id)' /\ RetryAt(id)'
  BY DEF GivenAt, AgreeAt, RetryAt
<1> QED BY <1>3, <1>4, <1>5 DEF GivenAt

\* A call begins: its first id is now in progress, nothing else changes.
LEMMA StartStep ==
  ASSUME Inv, NEW todo \in Seq(Entries), NEW filter, Start(todo, filter),
         Len(todo) <= Cardinality(Ids) + MaxBatch,
         filter # {} =>
            /\ \A i \in DOMAIN todo : todo[i].point = Absent
            /\ \A id \in DOMAIN payloads :
                  payloads[id] \in filter => \E i \in DOMAIN todo : todo[i].id = id
  PROVE  Inv'
<1> USE DEF Start, stores
<1>1. /\ pc = "idle" /\ pc' = "remove_vector" /\ todo # <<>> /\ op'.todo = todo
      /\ op'.filter = filter /\ op'.removed = 0
      /\ op'.had = Cardinality({e \in Range(todo) : e.id \in DOMAIN index})
  OBVIOUS
<1>2. ~Running /\ Running'
  BY <1>1 DEF Running
<1>3. StoreInv'
  BY DEF Inv, StoreInv
<1>4. Rest' = todo
  BY <1>1 DEF Rest
<1>5. CallInv'
  <2>1. Len(todo) \in Nat
    OBVIOUS
  <2> QED BY <1>1, <1>4, <2>1 DEF CallInv
<1>6. StageInv'
  BY <1>1 DEF StageInv
<1>7. ASSUME NEW id \in Ids PROVE GivenAt(id)'
  <2>1. /\ Vec(id)' = Vec(id) /\ Doc(id)' = Doc(id) /\ Pay(id)' = Pay(id) /\ OnDisk(id)' = OnDisk(id)
        /\ acked' = acked /\ attempted' = attempted /\ window' = window
    BY DEF Vec, Doc, Pay, OnDisk
  <2>2. GivenAt(id) /\ ~InProgress(id)
    BY <1>2 DEF Inv, IdInv, InProgress
  <2> QED BY <1>1, <2>1, <2>2, Unchanged
<1>8. PurgeInv'
  <2>1. Left' = {e \in Range(todo) : e.id \in DOMAIN index}
    BY <1>4 DEF Left
  <2>2. IsFiniteSet(Range(todo))
    BY FiniteRange
  <2> DEFINE L == {e \in Range(todo) : e.id \in DOMAIN index}
  <2>3. Cardinality(L) \in Nat
    BY <2>2, FS_Subset, FS_CardinalityType
  <2>4. op'.removed + Cardinality(Left') = op'.had
    <3> HIDE DEF L
    <3>1. Left' = L /\ op'.had = Cardinality(L)
      BY <1>1, <2>1 DEF L
    <3> QED BY <1>1, <2>3, <3>1
  <2>5. payloads' = payloads
    OBVIOUS
  <2> QED BY <1>1, <2>4, <2>5 DEF PurgeInv
<1>9. CountInv'
  BY DEF Inv, CountInv
<1> QED BY <1>3, <1>5, <1>6, <1>7, <1>8, <1>9 DEF Inv, IdInv

LEMMA UpsertStep ==
  ASSUME Inv, Upsert
  PROVE  Inv'
<1>0. PICK n \in 1 .. MaxBatch :
          \E todo \in [1 .. n -> [id : Ids, point : Points]] : Start(todo, {})
  BY DEF Upsert
<1>1. PICK todo \in [1 .. n -> [id : Ids, point : Points]] : Start(todo, {})
  BY <1>0
<1>2. MaxBatch \in Nat /\ Cardinality(Ids) \in Nat
  BY CollectionAssumption, FS_CardinalityType
<1>3. todo \in Seq(Entries) /\ Len(todo) = n
  <2>1. [id : Ids, point : Points] \subseteq Entries /\ n \in Nat
    BY <1>2 DEF Entries
  <2>2. todo \in [1 .. n -> Entries]
    BY <2>1
  <2> QED BY <2>1, <2>2
<1>4. Len(todo) <= Cardinality(Ids) + MaxBatch
  BY <1>2, <1>3
<1> QED BY <1>1, <1>3, <1>4, StartStep

LEMMA DeleteStep ==
  ASSUME Inv, Delete
  PROVE  Inv'
<1>1. PICK id \in Ids : Start(<<[id |-> id, point |-> Absent]>>, {})
  BY DEF Delete
<1>2. MaxBatch \in Nat \ {0} /\ Cardinality(Ids) \in Nat
  BY CollectionAssumption, FS_CardinalityType
<1> DEFINE todo == <<[id |-> id, point |-> Absent]>>
<1>3. todo \in Seq(Entries) /\ Len(todo) = 1
  BY DEF Entries
<1>4. Len(todo) <= Cardinality(Ids) + MaxBatch
  BY <1>2, <1>3
<1> HIDE DEF todo
<1>5. Start(todo, {})
  BY <1>1 DEF todo
<1> QED BY <1>3, <1>4, <1>5, StartStep

LEMMA DeleteByFilterStep ==
  ASSUME Inv, DeleteByFilter
  PROVE  Inv'
<1>0. PICK filter \in Filters :
          \E order \in {f \in [1 .. Cardinality(matching_ids(filter)) -> matching_ids(filter)] :
                           Range(f) = matching_ids(filter)} :
              Start([i \in DOMAIN order |-> [id |-> order[i], point |-> Absent]], filter)
  BY DEF DeleteByFilter
<1>1. PICK order \in {f \in [1 .. Cardinality(matching_ids(filter)) -> matching_ids(filter)] :
                          Range(f) = matching_ids(filter)} :
          Start([i \in DOMAIN order |-> [id |-> order[i], point |-> Absent]], filter)
  BY <1>0
<1> DEFINE ids == matching_ids(filter)
           todo == [i \in DOMAIN order |-> [id |-> order[i], point |-> Absent]]
<1>2. ids \subseteq Ids /\ ids = {id \in DOMAIN payloads : payloads[id] \in filter}
  BY DEF matching_ids, Inv, StoreInv
<1>3. /\ MaxBatch \in Nat /\ Cardinality(Ids) \in Nat /\ Cardinality(ids) \in Nat
      /\ Cardinality(ids) <= Cardinality(Ids)
  BY <1>2, CollectionAssumption, FS_CardinalityType, FS_Subset
<1>4. order \in [1 .. Cardinality(ids) -> ids] /\ Range(order) = ids
  OBVIOUS
<1> HIDE DEF ids
<1>5. todo \in Seq(Entries) /\ Len(todo) = Cardinality(ids) /\ DOMAIN todo = 1 .. Cardinality(ids)
  <2>1. todo \in [1 .. Cardinality(ids) -> Entries]
    BY <1>2, <1>4 DEF Entries
  <2> HIDE DEF todo
  <2> QED BY <1>3, <2>1
<1>6. Len(todo) <= Cardinality(Ids) + MaxBatch
  <2> HIDE DEF todo
  <2> QED BY <1>3, <1>5
<1>7. \A i \in DOMAIN todo : todo[i].point = Absent /\ todo[i].id = order[i]
  BY <1>4
<1>8. \A id \in ids : \E i \in DOMAIN todo : todo[i].id = id
  <2>1. \A id \in ids : \E i \in DOMAIN order : order[i] = id
    BY <1>4 DEF Range
  <2> QED BY <1>7, <2>1
<1>9. \A id \in DOMAIN payloads :
          payloads[id] \in filter => \E i \in DOMAIN todo : todo[i].id = id
  <2> HIDE DEF todo
  <2> QED BY <1>2, <1>8
<1> HIDE DEF todo
<1>10. Start(todo, filter)
  BY <1>1 DEF todo
<1> QED BY <1>5, <1>6, <1>7, <1>9, <1>10, StartStep


LEMMA RemoveVectorStep ==
  ASSUME Inv, RemoveVector
  PROVE  Inv'
<1> DEFINE k == Current.id
           point == Current.point
           counted == k \in DOMAIN index
<1>1. /\ pc = "remove_vector"
      /\ index' = Without(index, {k})
      /\ op' = [op EXCEPT !.removed = @ + (IF counted THEN 1 ELSE 0)]
      /\ pc' = IF Upserting THEN "insert_vector" ELSE "document"
      /\ UNCHANGED <<payloads, count, lexical, stats, oracle, acked, attempted, faults, crashes>>
  BY DEF RemoveVector, RemovesVector, RemoveFromIndex
<1>0. /\ \/ window' = window /\ stored' = Without(stored, {k})
         \/ window' = "misplaced" /\ stored' = <<>>
      /\ window = "spoilt" => window' = "spoilt"
      /\ window' = "ahead" => window = "ahead" /\ k \notin DOMAIN index /\ k \notin DOMAIN stored
  <2> DEFINE off == window = "misplaced" \/ (window = "ahead" /\ (k \in DOMAIN index
                                               \/ (k \notin DOMAIN index /\ k \in DOMAIN stored)))
  <2>1. /\ window' = IF off THEN "misplaced" ELSE window
        /\ stored' = IF off THEN <<>> ELSE Without(stored, {k})
    BY DEF RemoveVector, RemovesVector, RemoveFromIndex
  <2>2. CASE off
    BY <2>1, <2>2
  <2>3. CASE ~off
    <3>1. window = "ahead" => k \notin DOMAIN index /\ k \notin DOMAIN stored
      BY <2>3
    <3> HIDE DEF off, k
    <3> QED BY <2>1, <2>3, <3>1
  <2> QED BY <2>2, <2>3
<1>2. Running /\ Running'
  BY <1>1 DEF Running
<1>3. /\ op.todo \in Seq(Entries) /\ op.todo # <<>> /\ op.removed \in Nat
      /\ op.removed + Len(op.todo) <= Cardinality(Ids) + MaxBatch
  BY <1>1, <1>2 DEF Inv, CallInv, Rest
<1>4. /\ op'.todo = op.todo /\ op'.filter = op.filter /\ op'.had = op.had
      /\ op'.removed = op.removed + (IF counted THEN 1 ELSE 0)
      /\ op' = [todo |-> op'.todo, filter |-> op'.filter, removed |-> op'.removed, had |-> op'.had]
  BY <1>1 DEF Inv, CallInv
<1>5. Current' = Current /\ Current \in Entries /\ k \in Ids /\ point \in Points \cup {Absent}
  BY <1>2, <1>4, CurrentType DEF Inv, Current
<1>6. DOMAIN index' = DOMAIN index \ {k}
  BY <1>1 DEF Without, Restrict
<1>7. StoreInv'
  <2>1. DOMAIN stored' \subseteq Ids
    BY <1>0 DEF Inv, StoreInv, Without, Restrict
  <2>2. window' \in {"none", "tail"} => stored' = index'
    BY <1>0, <1>1 DEF Inv, StoreInv
  <2>3. window' \in {"none", "tail", "ahead", "misplaced", "spoilt"}
    BY <1>0 DEF Inv, StoreInv
  <2> QED BY <1>1, <1>6, <2>1, <2>2, <2>3 DEF Inv, StoreInv
<1>8. Rest' = Tail(op.todo) /\ Rest = op.todo
  BY <1>1, <1>4 DEF Rest
<1>9. CallInv'
  <2>1. Len(op.todo) \in Nat /\ Len(Tail(op.todo)) = Len(op.todo) - 1
    BY <1>3, HeadAndTail
  <2>2. MaxBatch \in Nat /\ Cardinality(Ids) \in Nat
    BY CollectionAssumption, FS_CardinalityType
  <2>3. op'.removed \in Nat /\ op'.removed + Len(Rest') <= Cardinality(Ids) + MaxBatch
    BY <1>3, <1>4, <1>8, <2>1, <2>2
  <2>4. pc' \in {"insert_vector", "document"}
    BY <1>1
  <2> QED BY <1>3, <1>4, <2>3, <2>4 DEF CallInv
<1>10. ASSUME NEW id \in Ids
       PROVE  /\ Vec(id)' = IF id = k THEN None ELSE Vec(id)
              /\ Doc(id)' = Doc(id) /\ Pay(id)' = Pay(id)
  <2>1. Doc(id)' = Doc(id) /\ Pay(id)' = Pay(id)
    BY <1>1 DEF Doc, Pay
  <2>2. Vec(id)' = Get(index', id, None)
    BY DEF Vec
  <2> HIDE DEF k
  <2>3. Get(Without(index, {k}), id, None) = IF id = k THEN None ELSE Get(index, id, None)
    BY DEF Get, Without, Restrict
  <2> QED BY <1>1, <2>1, <2>2, <2>3 DEF Vec
<1>11. StageInv'
  <2>1. CASE Upserting
    BY <1>1, <1>5, <2>1 DEF StageInv, Upserting
  <2>2. CASE ~Upserting
    <3>1. Current'.point.vector = None
      BY <1>5, <2>2 DEF Upserting, Absent
    <3>2. \A id \in Ids : id = k => Vec(id)' = None
      BY <1>10
    <3>3. pc' = "document"
      BY <1>1, <2>2
    <3>4. Vec(Current.id)' = None
      BY <1>5, <3>2 DEF Vec
    <3> QED BY <3>1, <3>3, <3>4 DEF StageInv
  <2> QED BY <2>1, <2>2
<1>12. ASSUME NEW id \in Ids PROVE GivenAt(id)'
  <2>1. GivenAt(id)
    BY DEF Inv, IdInv
  <2>2. CASE id # k
    <3>1. ~InProgress(id) /\ ~InProgress(id)'
      BY <1>5, <2>2 DEF InProgress
    <3>2. window' = "ahead" => window = "ahead" /\ OnDisk(id)' = OnDisk(id)
      <4>1. k \notin DOMAIN stored => Without(stored, {k}) = Restrict(stored, DOMAIN stored)
        BY DEF Without
      <4>2. Get(Without(stored, {k}), id, None) = Get(stored, id, None)
        BY <2>2 DEF Get, Without, Restrict
      <4> QED BY <1>0, <4>2 DEF OnDisk
    <3> QED BY <1>0, <1>1, <1>10, <2>1, <2>2, <3>1, <3>2, Unchanged
  <2>3. CASE id = k
    <3>1. InProgress(id) /\ InProgress(id)'
      BY <1>2, <1>5, <2>3 DEF InProgress
    <3>2. Tried(id)' = Tried(id) /\ point \in Tried(id)
      BY <1>1, <1>5, <3>1 DEF Tried
    <3>3. Vec(id)' = None /\ Doc(id)' = Doc(id) /\ Pay(id)' = Pay(id) /\ acked' = acked
          /\ attempted' = attempted
      BY <1>1, <1>10, <2>3
    <3>4. ForeignAt(id)'
      BY <2>1, <3>2, <3>3 DEF GivenAt, ForeignAt, Given
    <3>5. AgreeAt(id)'
      BY <3>1 DEF AgreeAt
    <3>6. RetryAt(id)'
      BY <1>5, <2>1, <3>1, <3>3 DEF GivenAt, RetryAt
    <3>7. KeptAt(id)'
      <4> SUFFICES ASSUME window' = "ahead" PROVE OnDisk(id)' = Vec(id)' /\ Given(id, OnDisk(id))'
        BY DEF KeptAt
      <4>1. stored' = Without(stored, {k})
        BY <1>0
      <4>2. Get(Without(stored, {k}), id, None) = None
        BY <2>3 DEF Get, Without, Restrict
      <4>3. OnDisk(id)' = None
        BY <4>1, <4>2 DEF OnDisk
      <4> QED BY <3>2, <3>3, <4>3 DEF Given
    <3> QED BY <3>4, <3>5, <3>6, <3>7 DEF GivenAt
  <2> QED BY <2>2, <2>3
<1>13. PurgeInv'
  <2> SUFFICES ASSUME op.filter # {} PROVE PurgeInv'
    BY <1>4 DEF PurgeInv
  <2>1. /\ \A i \in DOMAIN op.todo : op.todo[i].point = Absent
        /\ \A id \in DOMAIN payloads :
              payloads[id] \in op.filter => \E i \in DOMAIN op.todo : op.todo[i].id = id
        /\ op.removed + Cardinality(Left) = op.had
    BY <1>2 DEF Inv, PurgeInv
  <2>2. Left = {e \in Range(op.todo) : e.id \in DOMAIN index}
    BY <1>8 DEF Left
  <2>3. Left' = {e \in Range(Tail(op.todo)) : e.id \in DOMAIN index \ {k}}
    BY <1>6, <1>8 DEF Left
  <2>4. \A e \in Range(op.todo) : e \in Entries /\ e.point = Absent
    BY <1>3, <2>1 DEF Range
  <2>5. Range(op.todo) = {Current} \cup Range(Tail(op.todo))
    <3> DEFINE s == op.todo
    <3>1. /\ 1 \in DOMAIN s /\ Current = s[1]
          /\ \A i \in DOMAIN Tail(s) : i + 1 \in DOMAIN s /\ Tail(s)[i] = s[i + 1]
          /\ \A i \in DOMAIN s : i = 1 \/ (i - 1 \in DOMAIN Tail(s) /\ s[i] = Tail(s)[i - 1])
      BY <1>3, HeadAndTail DEF Current
    <3> HIDE DEF s
    <3>2. Range(s) = {Current} \cup Range(Tail(s))
      BY <3>1 DEF Range
    <3> QED BY <3>2 DEF s
  <2>6. \A e \in Range(op.todo) : e.id = k => e = Current
    BY <1>5, <2>4, <2>5 DEF Entries
  <2>7. IsFiniteSet(Left) /\ Cardinality(Left) \in Nat
    BY <1>3, <2>2, FiniteRange, FS_Subset, FS_CardinalityType
  <2>8. Left' = Left \ {Current}
    <3> HIDE DEF k
    <3>1. Current.id = k
      BY DEF k
    <3> QED BY <2>2, <2>3, <2>5, <2>6, <3>1
  <2>9. Current \in Left <=> counted
    BY <2>2, <2>5
  <2>10. Cardinality(Left') = IF counted THEN Cardinality(Left) - 1 ELSE Cardinality(Left)
    BY <2>7, <2>8, <2>9, FS_RemoveElement
  <2>11. op'.removed + Cardinality(Left') = op'.had
    BY SMTT(30), <1>3, <1>4, <2>1, <2>7, <2>10
  <2> QED BY <1>1, <1>4, <2>1, <2>11 DEF PurgeInv
<1>14. CountInv'
  BY <1>1 DEF Inv, CountInv
<1> QED BY <1>7, <1>9, <1>11, <1>12, <1>13, <1>14 DEF Inv, IdInv

LEMMA InsertVectorStep ==
  ASSUME Inv, InsertVector
  PROVE  Inv'
<1> DEFINE k == Current.id
           point == Current.point
<1>1. /\ pc = "insert_vector" /\ pc' = "document"
      /\ index' = With(index, k, point.vector)
      /\ UNCHANGED <<lexical, stats, payloads, count, op, oracle, acked, attempted, faults, crashes>>
  BY DEF InsertVector, InsertIntoIndex
<1>0. /\ window' = IF window \in {"tail", "ahead"} THEN "misplaced" ELSE window
      /\ stored' = IF window = "none" THEN With(stored, k, point.vector) ELSE <<>>
  BY DEF InsertVector, InsertIntoIndex
<1>2. Running /\ Running' /\ Current' = Current
  BY <1>1 DEF Running, Current
<1>3. Current \in Entries /\ k \in Ids /\ point \in Points \cup {Absent}
  BY <1>2, CurrentType DEF Inv
<1>4. point # Absent
  BY <1>1 DEF Inv, StageInv, Upserting
<1>5. StoreInv'
  <2>1. DOMAIN index' = DOMAIN index \cup {k}
    BY <1>1 DEF With
  <2>2. window = "none" => stored' = index'
    BY <1>0, <1>1 DEF Inv, StoreInv
  <2>3. DOMAIN stored' \subseteq Ids
    BY <1>0, <1>3, <2>1, <2>2 DEF Inv, StoreInv
  <2> QED BY <1>0, <1>1, <1>3, <2>1, <2>2, <2>3 DEF Inv, StoreInv
<1>6. Rest' = Rest
  BY <1>1 DEF Rest
<1>7. CallInv'
  BY <1>1, <1>2, <1>6 DEF Inv, CallInv
<1>8. ASSUME NEW id \in Ids
      PROVE  /\ Vec(id)' = IF id = k THEN point.vector ELSE Vec(id)
             /\ Doc(id)' = Doc(id) /\ Pay(id)' = Pay(id)
  <2>1. Doc(id)' = Doc(id) /\ Pay(id)' = Pay(id)
    BY <1>1 DEF Doc, Pay
  <2>2. Vec(id)' = Get(index', id, None)
    BY DEF Vec
  <2> HIDE DEF k, point
  <2>3. Get(With(index, k, point.vector), id, None)
            = IF id = k THEN point.vector ELSE Get(index, id, None)
    BY DEF Get, With
  <2> QED BY <1>1, <2>1, <2>2, <2>3 DEF Vec
<1>9. StageInv'
  <2>0. \A id \in Ids : id = k => Vec(id)' = point.vector
    BY <1>8
  <2>1. Vec(Current.id)' = Current'.point.vector
    BY <1>2, <1>3, <2>0 DEF Vec
  <2> QED BY <1>1, <2>1 DEF StageInv
<1>10. ASSUME NEW id \in Ids PROVE GivenAt(id)'
  <2>1. GivenAt(id)
    BY DEF Inv, IdInv
  <2>2. CASE id # k
    <3>1. ~InProgress(id) /\ ~InProgress(id)'
      BY <1>2, <2>2 DEF InProgress
    <3> QED BY <1>0, <1>1, <1>8, <2>1, <2>2, <3>1, Unchanged
  <2>3. CASE id = k
    <3>1. InProgress(id) /\ InProgress(id)'
      BY <1>2, <2>3 DEF InProgress
    <3>2. Tried(id)' = Tried(id) /\ point \in Tried(id)
      BY <1>1, <1>2, <3>1 DEF Tried
    <3>3. Vec(id)' = point.vector /\ Doc(id)' = Doc(id) /\ Pay(id)' = Pay(id) /\ acked' = acked
      BY <1>1, <1>8, <2>3
    <3>4. ForeignAt(id)'
      BY <2>1, <3>2, <3>3 DEF GivenAt, ForeignAt, Given
    <3>5. AgreeAt(id)'
      BY <3>1 DEF AgreeAt
    <3>6. RetryAt(id)'
      BY <1>2, <1>4, <3>1 DEF RetryAt
    <3>7. KeptAt(id)'
      BY <1>0 DEF KeptAt
    <3> QED BY <3>4, <3>5, <3>6, <3>7 DEF GivenAt
  <2> QED BY <2>2, <2>3
<1>11. PurgeInv'
  <2>1. op.filter # {} => FALSE
    <3> SUFFICES ASSUME op.filter # {} PROVE FALSE
      OBVIOUS
    <3>1. \A i \in DOMAIN op.todo : op.todo[i].point = Absent
      BY <1>2 DEF Inv, PurgeInv
    <3>2. op.todo \in Seq(Entries) /\ op.todo # <<>>
      BY <1>2 DEF Inv, CallInv
    <3> QED BY <1>4, <3>1, <3>2, HeadAndTail DEF Current
  <2> QED BY <1>1, <2>1 DEF PurgeInv
<1>12. CountInv'
  BY <1>1 DEF Inv, CountInv
<1> QED BY <1>5, <1>7, <1>9, <1>10, <1>11, <1>12 DEF Inv, IdInv


LEMMA WriteDocumentStep ==
  ASSUME Inv, WriteDocument
  PROVE  Inv'
<1> DEFINE k == Current.id
           point == Current.point
           document == Current.point.document
<1>1. /\ pc = "document" /\ pc' = "payload"
      /\ UNCHANGED <<index, stored, window, payloads, count, op, acked, attempted, faults, crashes>>
  BY DEF WriteDocument, WritesDocument
<1>2. \/ /\ document # None
         /\ lexical' = insert(lexical, k, document)
         /\ stats' = insert_stats(stats, lexical, k, document)
         /\ oracle' = oracle_insert(oracle, k, document)
      \/ /\ document = None
         /\ lexical' = remove(lexical, k)
         /\ stats' = remove_stats(stats, lexical, k)
         /\ oracle' = forget(oracle, k)
  BY DEF WriteDocument, WritesDocument
<1>3. Running /\ Running' /\ Current' = Current
  BY <1>1 DEF Running, Current
<1>4. Current \in Entries /\ k \in Ids /\ point \in Points \cup {Absent}
  BY <1>3, CurrentType DEF Inv
<1>5. document # None => document \in [Terms -> Nat]
  BY <1>4, CollectionAssumption DEF Absent
<1>6. /\ DOMAIN lexical.doc_lengths \subseteq Ids
      /\ lexical.doc_lengths \in [DOMAIN lexical.doc_lengths -> Nat]
      /\ DOMAIN lexical.doc_terms = DOMAIN lexical.doc_lengths
      /\ stats = open(lexical)
  BY DEF Inv, StoreInv, CountInv
<1>7. /\ DOMAIN lexical'.doc_lengths \subseteq Ids
      /\ lexical'.doc_lengths \in [DOMAIN lexical'.doc_lengths -> Nat]
      /\ DOMAIN lexical'.doc_terms = DOMAIN lexical'.doc_lengths
      /\ stats' = open(lexical')
  <2> HIDE DEF k, document
  <2>1. CASE document # None
    <3> DEFINE new == insert(lexical, k, document)
    <3>1. /\ DOMAIN new.doc_lengths = DOMAIN lexical.doc_lengths \cup {k}
          /\ new.doc_lengths \in [DOMAIN lexical.doc_lengths \cup {k} -> Nat]
          /\ DOMAIN new.doc_terms = DOMAIN lexical.doc_lengths \cup {k}
          /\ insert_stats(open(lexical), lexical, k, document) = open(new)
      BY <1>4, <1>5, <1>6, <2>1, InsertCounts
    <3>2. lexical' = new /\ stats' = insert_stats(open(lexical), lexical, k, document)
      BY <1>2, <1>6, <2>1
    <3> HIDE DEF new
    <3> QED BY <1>4, <1>6, <3>1, <3>2
  <2>2. CASE document = None
    <3> DEFINE new == remove(lexical, k)
    <3>1. /\ DOMAIN new.doc_lengths = DOMAIN lexical.doc_lengths \ {k}
          /\ new.doc_lengths \in [DOMAIN lexical.doc_lengths \ {k} -> Nat]
          /\ DOMAIN new.doc_terms = DOMAIN lexical.doc_lengths \ {k}
          /\ remove_stats(open(lexical), lexical, k) = open(new)
      BY <1>4, <1>6, RemoveCounts
    <3>2. lexical' = new /\ stats' = remove_stats(open(lexical), lexical, k)
      BY <1>2, <1>6, <2>2
    <3> HIDE DEF new
    <3> QED BY <1>6, <3>1, <3>2
  <2> QED BY <2>1, <2>2
<1>8. StoreInv' /\ CountInv'
  <2>1. StoreInv'
    BY <1>1, <1>7 DEF Inv, StoreInv
  <2>2. CountInv'
    BY <1>1, <1>7 DEF Inv, CountInv
  <2> QED BY <2>1, <2>2
<1>9. Rest' = Rest
  BY <1>1 DEF Rest
<1>10. CallInv'
  BY <1>1, <1>3, <1>9 DEF Inv, CallInv
<1>11. ASSUME NEW id \in Ids
       PROVE  /\ Doc(id)' = IF id = k THEN document ELSE Doc(id)
              /\ Vec(id)' = Vec(id) /\ Pay(id)' = Pay(id)
  <2>1. Vec(id)' = Vec(id) /\ Pay(id)' = Pay(id)
    BY <1>1 DEF Vec, Pay
  <2>2. Doc(id)' = Get(oracle'.docs, id, None)
    BY DEF Doc
  <2>3. Doc(id) = Get(oracle.docs, id, None)
    BY DEF Doc
  <2> HIDE DEF k, document
  <2>4. CASE document # None
    <3>1. oracle' = oracle_insert(oracle, k, document)
      BY <1>2, <2>4
    <3>2. Get(oracle_insert(oracle, k, document).docs, id, None)
              = IF id = k THEN document ELSE Get(oracle.docs, id, None)
      BY OracleDocs
    <3> QED BY <2>1, <2>2, <2>3, <3>1, <3>2
  <2>5. CASE document = None
    <3>1. oracle' = forget(oracle, k)
      BY <1>2, <2>5
    <3>2. Get(forget(oracle, k).docs, id, None)
              = IF id = k THEN None ELSE Get(oracle.docs, id, None)
      BY OracleDocs
    <3> QED BY <2>1, <2>2, <2>3, <2>5, <3>1, <3>2
  <2> QED BY <2>4, <2>5
<1>12. StageInv'
  <2>1. \A id \in Ids : id = k => Doc(id)' = document /\ Vec(id)' = Vec(id)
    BY <1>11
  <2>2. Vec(Current.id) = Current.point.vector
    BY <1>1 DEF Inv, StageInv
  <2>3. Doc(Current.id)' = Current'.point.document
    BY <1>3, <1>4, <2>1 DEF Doc
  <2>4. Vec(Current.id)' = Current'.point.vector
    BY <1>3, <1>4, <2>1, <2>2 DEF Vec
  <2> QED BY <1>1, <2>3, <2>4 DEF StageInv
<1>13. ASSUME NEW id \in Ids PROVE GivenAt(id)'
  <2>1. GivenAt(id)
    BY DEF Inv, IdInv
  <2>2. CASE id # k
    <3>1. ~InProgress(id) /\ ~InProgress(id)' /\ OnDisk(id)' = OnDisk(id)
      BY <1>1, <1>3, <2>2 DEF InProgress, OnDisk
    <3> QED BY <1>1, <1>11, <2>1, <2>2, <3>1, Unchanged
  <2>3. CASE id = k
    <3>1. InProgress(id) /\ InProgress(id)'
      BY <1>3, <2>3 DEF InProgress
    <3>2. Tried(id)' = Tried(id) /\ point \in Tried(id)
      BY <1>1, <1>3, <3>1 DEF Tried
    <3>3. /\ Doc(id)' = document /\ Vec(id)' = Vec(id) /\ Pay(id)' = Pay(id)
          /\ acked' = acked /\ attempted' = attempted
      BY <1>1, <1>11, <2>3
    <3>4. ForeignAt(id)'
      BY <1>1, <2>1, <3>2, <3>3 DEF GivenAt, ForeignAt, Given
    <3>5. AgreeAt(id)'
      BY <3>1 DEF AgreeAt
    <3>6. RetryAt(id)'
      <4>1. point = Absent => document = None
        BY DEF Absent
      <4> QED BY <1>3, <2>1, <3>1, <3>3, <4>1 DEF GivenAt, RetryAt
    <3>7. KeptAt(id)'
      <4>1. window' = window /\ OnDisk(id)' = OnDisk(id)
        BY <1>1 DEF OnDisk
      <4>2. window = "ahead" => OnDisk(id) = Vec(id) /\ Given(id, OnDisk(id))
        BY <1>1, <2>1, <3>1 DEF GivenAt, KeptAt
      <4> QED BY <3>2, <3>3, <4>1, <4>2 DEF KeptAt, Given
    <3> QED BY <3>4, <3>5, <3>6, <3>7 DEF GivenAt
  <2> QED BY <2>2, <2>3
<1>14. PurgeInv'
  <2>1. Left' = Left
    BY <1>1, <1>9 DEF Left
  <2> QED BY <1>1, <1>3, <2>1 DEF Inv, PurgeInv
<1> QED BY <1>8, <1>10, <1>12, <1>13, <1>14 DEF Inv, IdInv

LEMMA WritePayloadStep ==
  ASSUME Inv, WritePayload
  PROVE  Inv'
<1> DEFINE k == Current.id
           point == Current.point
           payload == Current.point.payload
           last == Len(op.todo) = 1
<1>1. /\ pc = "payload"
      /\ IF payload # None THEN SetPayload(k, payload) ELSE RemovePayload(k)
      /\ acked' = [acked EXCEPT ![k] = point]
      /\ attempted' = [attempted EXCEPT ![k] = {}]
      /\ IF last THEN pc' = "idle" /\ op' = NoOp
                 ELSE pc' = "remove_vector" /\ op' = [op EXCEPT !.todo = Tail(@)]
      /\ UNCHANGED <<index, stored, window, lexical, stats, oracle, faults, crashes>>
  BY DEF WritePayload
<1>2. Running /\ (Running' <=> ~last)
  BY <1>1 DEF Running
<1>3. Current \in Entries /\ k \in Ids /\ point \in Points \cup {Absent}
      /\ Tail(op.todo) \in Seq(Entries)
  BY <1>2, CurrentType DEF Inv
<1>4. /\ op.todo \in Seq(Entries) /\ op.todo # <<>> /\ op.removed \in Nat
      /\ op.removed + Len(Tail(op.todo)) <= Cardinality(Ids) + MaxBatch
      /\ op = [todo |-> op.todo, filter |-> op.filter, removed |-> op.removed, had |-> op.had]
  BY <1>1, <1>2 DEF Inv, CallInv, Rest
<1>5. /\ IsFiniteSet(DOMAIN payloads) /\ DOMAIN payloads \subseteq Ids
      /\ count = Cardinality(DOMAIN payloads) /\ count \in Nat
  <2>1. DOMAIN payloads \subseteq Ids /\ count = Cardinality(DOMAIN payloads)
    BY DEF Inv, StoreInv, CountInv
  <2>2. IsFiniteSet(DOMAIN payloads)
    BY <2>1, CollectionAssumption, FS_Subset
  <2> QED BY <2>1, <2>2, FS_CardinalityType
<1>6. DOMAIN payloads' \subseteq Ids /\ count' = Cardinality(DOMAIN payloads')
  <2> HIDE DEF k, payload
  <2>1. CASE payload # None
    <3>1. payloads' = With(payloads, k, payload)
          /\ count' = IF k \in DOMAIN payloads THEN count ELSE count + 1
      BY <1>1, <2>1 DEF SetPayload
    <3>2. DOMAIN payloads' = DOMAIN payloads \cup {k}
      BY <3>1, Keys
    <3> QED BY <1>3, <1>5, <3>1, <3>2, FS_AddElement
  <2>2. CASE payload = None
    <3>1. payloads' = Without(payloads, {k})
          /\ count' = IF k \in DOMAIN payloads THEN count - 1 ELSE count
      BY <1>1, <2>2 DEF RemovePayload
    <3>2. DOMAIN payloads' = DOMAIN payloads \ {k}
      BY <3>1 DEF Without, Restrict
    <3> QED BY <1>3, <1>5, <3>1, <3>2, FS_RemoveElement
  <2> QED BY <2>1, <2>2
<1>7. StoreInv'
  BY <1>1, <1>3, <1>6 DEF Inv, StoreInv
<1>8. CountInv'
  BY <1>1, <1>6 DEF Inv, CountInv
<1>9. ~last => /\ op'.todo = Tail(op.todo) /\ op'.filter = op.filter
               /\ op'.removed = op.removed /\ op'.had = op.had
               /\ op' = [todo |-> op'.todo, filter |-> op'.filter,
                         removed |-> op'.removed, had |-> op'.had]
               /\ Tail(op.todo) # <<>> /\ pc' = "remove_vector" /\ Rest' = Tail(op.todo)
  <2> SUFFICES ASSUME ~last
               PROVE  /\ op'.todo = Tail(op.todo) /\ op'.filter = op.filter
                      /\ op'.removed = op.removed /\ op'.had = op.had
                      /\ op' = [todo |-> op'.todo, filter |-> op'.filter,
                                removed |-> op'.removed, had |-> op'.had]
                      /\ Tail(op.todo) # <<>> /\ pc' = "remove_vector" /\ Rest' = Tail(op.todo)
    OBVIOUS
  <2>1. pc' = "remove_vector" /\ op' = [op EXCEPT !.todo = Tail(@)]
    BY <1>1
  <2>2. /\ op'.todo = Tail(op.todo) /\ op'.filter = op.filter
        /\ op'.removed = op.removed /\ op'.had = op.had
        /\ op' = [todo |-> op'.todo, filter |-> op'.filter,
                  removed |-> op'.removed, had |-> op'.had]
    BY <1>4, <2>1
  <2>3. Tail(op.todo) # <<>>
    BY <1>4, HeadAndTail
  <2> QED BY <2>1, <2>2, <2>3 DEF Rest
<1>10. CallInv'
  <2>1. CASE last
    BY <1>1, <1>2, <2>1 DEF CallInv, NoOp
  <2>2. CASE ~last
    BY <1>3, <1>4, <1>9, <2>2 DEF CallInv
  <2> QED BY <2>1, <2>2
<1>11. StageInv'
  <2>1. pc' \in {"idle", "remove_vector"}
    BY <1>1
  <2> QED BY <2>1 DEF StageInv
<1>12. ASSUME NEW id \in Ids
       PROVE  /\ Pay(id)' = IF id = k THEN payload ELSE Pay(id)
              /\ Vec(id)' = Vec(id) /\ Doc(id)' = Doc(id)
  <2>1. Vec(id)' = Vec(id) /\ Doc(id)' = Doc(id)
    BY <1>1 DEF Vec, Doc
  <2>2. Pay(id)' = Get(payloads', id, None) /\ Pay(id) = Get(payloads, id, None)
    BY DEF Pay
  <2> HIDE DEF k, payload
  <2>3. CASE payload # None
    <3>1. payloads' = With(payloads, k, payload)
      BY <1>1, <2>3 DEF SetPayload
    <3>2. Get(With(payloads, k, payload), id, None) = IF id = k THEN payload ELSE Get(payloads, id, None)
      BY DEF Get, With
    <3> QED BY <2>1, <2>2, <3>1, <3>2
  <2>4. CASE payload = None
    <3>1. payloads' = Without(payloads, {k})
      BY <1>1, <2>4 DEF RemovePayload
    <3>2. Get(Without(payloads, {k}), id, None) = IF id = k THEN None ELSE Get(payloads, id, None)
      BY DEF Get, Without, Restrict
    <3> QED BY <2>1, <2>2, <2>4, <3>1, <3>2
  <2> QED BY <2>3, <2>4
<1>13. ASSUME NEW id \in Ids PROVE GivenAt(id)'
  <2>1. GivenAt(id)
    BY DEF Inv, IdInv
  <2>2. CASE id # k
    <3>1. ~InProgress(id) /\ OnDisk(id)' = OnDisk(id)
      BY <1>1, <2>2 DEF InProgress, OnDisk
    <3>2. acked'[id] = acked[id] /\ attempted'[id] = attempted[id]
      BY <1>1, <2>2 DEF Inv, StoreInv
    <3>3. InProgress(id)' => pc' = "remove_vector"
      BY <1>1, <1>2 DEF InProgress
    <3> QED BY <1>1, <1>12, <2>1, <2>2, <3>1, <3>2, <3>3, Unchanged
  <2>3. CASE id = k
    <3>1. Vec(id) = point.vector /\ Doc(id) = point.document
      BY <1>1, <2>3 DEF Inv, StageInv
    <3>2. acked'[id] = point /\ attempted'[id] = {}
      BY <1>1, <1>3, <2>3 DEF Inv, StoreInv
    <3>3. /\ Vec(id)' = acked'[id].vector /\ Doc(id)' = acked'[id].document
          /\ Pay(id)' = acked'[id].payload
      BY <1>12, <2>3, <3>1, <3>2
    <3>4. AgreeAt(id)' /\ ForeignAt(id)' /\ RetryAt(id)'
      BY <3>3 DEF AgreeAt, ForeignAt, RetryAt, Given
    <3>5. KeptAt(id)'
      <4>1. window' = window /\ OnDisk(id)' = OnDisk(id) /\ Vec(id)' = Vec(id)
        BY <1>1 DEF OnDisk, Vec
      <4>2. InProgress(id)
        BY <1>2, <2>3 DEF InProgress
      <4>3. window = "ahead" => OnDisk(id) = Vec(id)
        BY <1>1, <2>1, <4>2 DEF GivenAt, KeptAt
      <4> QED BY <3>3, <4>1, <4>3 DEF KeptAt, Given
    <3> QED BY <3>4, <3>5 DEF GivenAt
  <2> QED BY <2>2, <2>3
<1>14. PurgeInv'
  <2> SUFFICES ASSUME ~last, op.filter # {} PROVE PurgeInv'
    BY <1>2, <1>9 DEF PurgeInv
  <2> DEFINE s == op.todo
  <2>1. /\ \A i \in DOMAIN s : s[i].point = Absent
        /\ \A id \in DOMAIN payloads :
              payloads[id] \in op.filter => \E i \in DOMAIN s : s[i].id = id
        /\ op.removed + Cardinality(Left) = op.had
    BY <1>2 DEF Inv, PurgeInv
  <2>2. Left' = Left
    <3>1. Rest' = Rest
      BY <1>1, <1>9 DEF Rest
    <3> QED BY <1>1, <3>1 DEF Left
  <2>3. /\ 1 \in DOMAIN s /\ Current = s[1]
        /\ \A i \in DOMAIN Tail(s) : i + 1 \in DOMAIN s /\ Tail(s)[i] = s[i + 1]
        /\ \A i \in DOMAIN s : i = 1 \/ (i - 1 \in DOMAIN Tail(s) /\ s[i] = Tail(s)[i - 1])
    BY <1>4, HeadAndTail DEF Current
  <2>4. payload = None
    BY <2>1, <2>3 DEF Absent
  <2>5. payloads' = Without(payloads, {k})
    BY <1>1, <2>4 DEF RemovePayload
  <2>6. \A id \in DOMAIN payloads' : id # k /\ id \in DOMAIN payloads /\ payloads'[id] = payloads[id]
    BY <2>5 DEF Without, Restrict
  <2>7. op'.todo = Tail(s) /\ op'.filter = op.filter /\ op'.removed = op.removed /\ op'.had = op.had
    BY <1>9
  <2> HIDE DEF s
  <2>8. \A i \in DOMAIN Tail(s) : Tail(s)[i].point = Absent
    BY <2>1, <2>3
  <2>9. ASSUME NEW id \in DOMAIN payloads', payloads'[id] \in op.filter
        PROVE  \E i \in DOMAIN Tail(s) : Tail(s)[i].id = id
    <3>1. PICK i \in DOMAIN s : s[i].id = id
      BY <2>1, <2>6, <2>9
    <3>2. i # 1
      BY <2>3, <2>6, <3>1
    <3> QED BY <2>3, <3>1, <3>2
  <2> QED BY <2>1, <2>2, <2>7, <2>8, <2>9 DEF PurgeInv
<1> QED BY <1>7, <1>8, <1>10, <1>11, <1>13, <1>14 DEF Inv, IdInv


\* What can be given can still be given when a call on the id is cut short: its point
\* is tried either way.
LEMMA GivenStays ==
  ASSUME Inv, Running, Abandon, ~Running', acked' = acked, NEW id \in Ids
  PROVE  /\ Tried(id)' = Tried(id) /\ ~InProgress(id)'
         /\ \A vector : Given(id, vector)' <=> Given(id, vector)
         /\ id # Current.id => attempted'[id] = attempted[id]
         /\ id = Current.id => /\ attempted'[id] = attempted[id] \cup {Current.point}
                               /\ Current.point \in Tried(id) /\ InProgress(id)
<1> DEFINE k == Current.id
           point == Current.point
<1>1. attempted' = [attempted EXCEPT ![k] = @ \cup {point}]
  BY DEF Abandon
<1>2. k \in Ids
  BY CurrentType DEF Inv
<1>3. ~InProgress(id)'
  BY DEF InProgress
<1>4. /\ id # k => attempted'[id] = attempted[id]
      /\ id = k => attempted'[id] = attempted[id] \cup {point}
  BY <1>1, <1>2 DEF Inv, StoreInv
<1>5. InProgress(id) <=> id = k
  BY DEF InProgress
<1>6. Tried(id)' = Tried(id)
  BY <1>3, <1>4, <1>5 DEF Tried
<1>7. id = k => point \in Tried(id)
  BY <1>5 DEF Tried
<1>8. \A vector : Given(id, vector)' <=> Given(id, vector)
  BY <1>6 DEF Given
<1> QED BY <1>3, <1>4, <1>5, <1>6, <1>7, <1>8

\* What the tables hold for an id was given, as long as a reopen would serve it.
LEMMA KeptIsGiven ==
  ASSUME Inv, NEW id \in Ids, Intact
  PROVE  Given(id, OnDisk(id))
<1>1. ForeignAt(id) /\ KeptAt(id)
  BY DEF Inv, IdInv, GivenAt
<1>2. CASE window = "ahead"
  BY <1>1, <1>2 DEF KeptAt
<1>3. CASE window \in {"none", "tail"}
  <2>1. OnDisk(id) = Vec(id)
    BY <1>3 DEF Inv, StoreInv, OnDisk, Vec
  <2> QED BY <1>1, <1>3, <2>1 DEF ForeignAt
<1> QED BY <1>2, <1>3 DEF Intact

\* A call that is cut short leaves its id as far as it got, as an attempt; the step it
\* stopped in may have taken the vector out of RAM or put the new one in.
LEMMA AbandonStep ==
  ASSUME Inv, Running, Abandon, ~Running', pc' \in {"idle", "down"},
         UNCHANGED <<stored, lexical, stats, payloads, count, oracle, acked>>,
         \A id \in Ids : \/ Vec(id)' = Vec(id)
                         \/ id = Current.id /\ Vec(id)' \in {None, Current.point.vector},
         DOMAIN index' \subseteq Ids,
         window' \in {"none", "tail", "ahead", "misplaced", "spoilt"},
         window' \in {"none", "tail"} => window \in {"none", "tail"} /\ index' = index,
         window' = "ahead" => Intact,
         window = "spoilt" => window' = "spoilt"
  PROVE  Inv'
<1> DEFINE k == Current.id
           point == Current.point
<1>1. op' = NoOp /\ attempted' = [attempted EXCEPT ![k] = @ \cup {point}]
  BY DEF Abandon
<1>2. k \in Ids /\ point \in Points \cup {Absent}
  BY CurrentType DEF Inv
<1>3. StoreInv' /\ CountInv'
  BY <1>1, <1>2 DEF Inv, StoreInv, CountInv
<1>4. CallInv' /\ StageInv' /\ PurgeInv'
  BY <1>1 DEF CallInv, StageInv, PurgeInv, NoOp
<1>5. ASSUME NEW id \in Ids PROVE GivenAt(id)'
  <2>1. GivenAt(id)
    BY DEF Inv, IdInv
  <2>2. Doc(id)' = Doc(id) /\ Pay(id)' = Pay(id) /\ OnDisk(id)' = OnDisk(id)
    BY DEF Doc, Pay, OnDisk
  <2>3. /\ Tried(id)' = Tried(id) /\ ~InProgress(id)'
        /\ \A vector : Given(id, vector)' <=> Given(id, vector)
        /\ id # k => attempted'[id] = attempted[id]
        /\ id = k => attempted'[id] = attempted[id] \cup {point} /\ point \in Tried(id) /\ InProgress(id)
    BY GivenStays
  <2>4. id # k => ~InProgress(id)
    BY DEF InProgress
  <2> HIDE DEF k, point
  <2>5. AgreeAt(id)'
    <3>1. CASE id = k
      BY <2>3, <3>1 DEF AgreeAt
    <3>2. CASE id # k
      <4>1. Vec(id)' = Vec(id)
        BY <3>2 DEF k
      <4> QED BY <2>1, <2>2, <2>3, <2>4, <3>2, <4>1 DEF GivenAt, AgreeAt
    <3> QED BY <3>1, <3>2
  <2>6. ForeignAt(id)'
    <3>1. \A p : p \in Tried(id) => Given(id, p.vector) /\ Given(id, None)
      BY DEF Given
    <3>2. window # "spoilt" => Given(id, Vec(id)')
      <4>1. window # "spoilt" => Given(id, Vec(id))
        BY <2>1 DEF GivenAt, ForeignAt
      <4>2. Vec(id)' = Vec(id) \/ (id = k /\ Vec(id)' \in {None, point.vector})
        BY DEF k, point
      <4> QED BY <2>3, <3>1, <4>1, <4>2
    <3>3. window' # "spoilt" => Given(id, Vec(id))'
      <4>1. Given(id, Vec(id))' <=> Given(id, Vec(id)')
        BY <2>3 DEF Given
      <4> QED BY <3>2, <4>1
    <3> QED BY <2>1, <2>2, <2>3, <3>3 DEF GivenAt, ForeignAt
  <2>7. RetryAt(id)'
    <3> SUFFICES ASSUME attempted'[id] \subseteq {Absent} PROVE Pay(id)' = acked'[id].payload
      BY DEF RetryAt
    <3>1. attempted[id] \subseteq {Absent}
      BY <2>3
    <3>2. InProgress(id) => Current.point = Absent
      BY <2>3, <2>4 DEF point
    <3> QED BY <2>1, <2>2, <3>1, <3>2 DEF GivenAt, RetryAt
  <2>8. KeptAt(id)'
    <3> SUFFICES ASSUME window' = "ahead"
                 PROVE  (OnDisk(id)' = Vec(id)' \/ attempted'[id] # {}) /\ Given(id, OnDisk(id))'
      BY <2>3 DEF KeptAt
    <3>1. Given(id, OnDisk(id)) /\ Intact
      BY KeptIsGiven
    <3>2. Given(id, OnDisk(id))'
      BY <2>2, <2>3, <3>1 DEF Given
    <3>3. CASE id = k
      BY <2>3, <3>2, <3>3
    <3>4. CASE id # k
      <4>1. Vec(id)' = Vec(id) /\ attempted'[id] = attempted[id]
        BY <2>3, <3>4 DEF k
      <4>2. OnDisk(id) = Vec(id) \/ attempted[id] # {}
        <5>1. window \in {"none", "tail"} => OnDisk(id) = Vec(id)
          BY DEF Inv, StoreInv, OnDisk, Vec
        <5> QED BY <2>1, <3>1, <5>1 DEF GivenAt, KeptAt, Intact
      <4> QED BY <2>2, <3>2, <4>1, <4>2
    <3> QED BY <3>3, <3>4
  <2> QED BY <2>5, <2>6, <2>7, <2>8 DEF GivenAt
<1> QED BY <1>3, <1>4, <1>5 DEF Inv, IdInv

\* A crash, a restart or a compaction between calls: RAM keeps the vectors, takes them
\* from the tables, or is damaged.
LEMMA IdleStep ==
  ASSUME Inv, ~Running, ~Running', pc' \in {"idle", "down"}, op' = op \/ op' = NoOp,
         UNCHANGED <<lexical, payloads, oracle, acked, attempted>>,
         stats' = open(lexical), count' = Cardinality(DOMAIN payloads),
         \/ UNCHANGED <<index, stored, window>>
         \/ Intact /\ index' = stored /\ UNCHANGED stored /\ window' = "none"
         \/ window # "spoilt" /\ UNCHANGED index /\ window' = "none" /\ stored' = index
         \/ window # "spoilt" /\ UNCHANGED index /\ window' = "misplaced" /\ stored' = <<>>
         \/ Damaged
  PROVE  Inv'
<1>1. StoreInv' /\ CountInv'
  BY DEF Inv, StoreInv, CountInv, Damaged
<1>2. CallInv' /\ StageInv' /\ PurgeInv'
  BY DEF Inv, CallInv, StageInv, PurgeInv, NoOp
<1>3. ASSUME NEW id \in Ids PROVE GivenAt(id)'
  <2>1. GivenAt(id) /\ ~InProgress(id) /\ ~InProgress(id)'
    BY DEF Inv, IdInv, InProgress
  <2>2. Doc(id)' = Doc(id) /\ Pay(id)' = Pay(id) /\ Tried(id)' = Tried(id)
    BY <2>1 DEF Doc, Pay, Tried
  <2>3. \A vector : Given(id, vector)' <=> Given(id, vector)
    BY <2>2 DEF Given
  <2>4. RetryAt(id)'
    BY <2>1, <2>2 DEF GivenAt, RetryAt
  <2>5. /\ window' # "spoilt" =>
              window # "spoilt" /\ (Vec(id)' = Vec(id) \/ (Intact /\ Vec(id)' = OnDisk(id)))
        /\ window' = "ahead" => window = "ahead" /\ Vec(id)' = Vec(id) /\ OnDisk(id)' = OnDisk(id)
    BY DEF Damaged, Vec, OnDisk, Intact
  <2>6. KeptAt(id)'
    BY <2>1, <2>3, <2>5 DEF GivenAt, KeptAt, Given
  <2>7. Intact => Given(id, OnDisk(id)) /\ (OnDisk(id) = Vec(id) \/ attempted[id] # {})
    <3>1. window \in {"none", "tail"} => OnDisk(id) = Vec(id)
      BY DEF Inv, StoreInv, OnDisk, Vec
    <3> QED BY <2>1, <3>1, KeptIsGiven DEF GivenAt, KeptAt, Intact
  <2>8. AgreeAt(id)'
    BY <2>1, <2>2, <2>5, <2>7 DEF GivenAt, AgreeAt
  <2>9. ForeignAt(id)'
    <3>1. window' # "spoilt" => Given(id, Vec(id)')
      BY <2>1, <2>5, <2>7 DEF GivenAt, ForeignAt
    <3>2. Given(id, Vec(id))' <=> Given(id, Vec(id)')
      BY <2>2 DEF Given
    <3> QED BY <2>1, <2>2, <3>1, <3>2 DEF GivenAt, ForeignAt
  <2> QED BY <2>4, <2>6, <2>8, <2>9 DEF GivenAt
<1> QED BY <1>1, <1>2, <1>3 DEF Inv, IdInv

\* A step that fails: the three ways of it differ in what they leave of the vector.
LEMMA StepFailsStep ==
  ASSUME Inv, StepFails
  PROVE  Inv'
<1> DEFINE k == Current.id
           vector == Current.point.vector
<1>1. /\ Running /\ Abandon /\ pc' = "idle"
      /\ UNCHANGED <<lexical, stats, payloads, count, oracle, acked>>
  BY DEF StepFails
<1>2. ~Running'
  BY <1>1 DEF Running
<1>3. k \in Ids
  BY <1>1, CurrentType DEF Inv
<1>4. stored' = stored
  BY DEF StepFails, FailsClean, FailsWithTail, FailsAhead
<1>5. index' = index \/ index' = Without(index, {k}) \/ index' = With(index, k, vector)
  BY DEF StepFails, FailsClean, FailsWithTail, FailsAhead
<1>6. /\ window' \in {"none", "tail", "ahead", "misplaced", "spoilt"}
      /\ window' \in {"none", "tail"} => window \in {"none", "tail"} /\ index' = index
      /\ window' = "ahead" => Intact
      /\ window = "spoilt" => window' = "spoilt"
  BY DEF Inv, StoreInv, StepFails, FailsClean, FailsWithTail, FailsAhead, Intact
<1>7. DOMAIN index' \subseteq Ids
  <2>1. DOMAIN index' \subseteq DOMAIN index \cup {k}
    <3> HIDE DEF k, vector
    <3>1. /\ DOMAIN With(index, k, vector) = DOMAIN index \cup {k}
          /\ DOMAIN Without(index, {k}) = DOMAIN index \ {k}
      BY Keys
    <3> QED BY <1>5, <3>1
  <2> QED BY <1>3, <2>1 DEF Inv, StoreInv
<1>8. ASSUME NEW id \in Ids
      PROVE  Vec(id)' = Vec(id) \/ (id = k /\ Vec(id)' \in {None, vector})
  <2>1. /\ Get(Without(index, {k}), id, None) = IF id = k THEN None ELSE Get(index, id, None)
        /\ Get(With(index, k, vector), id, None) = IF id = k THEN vector ELSE Get(index, id, None)
    <3> HIDE DEF k, vector
    <3> QED BY DEF Get, Without, With, Restrict
  <2> HIDE DEF k, vector
  <2> QED BY <1>5, <2>1 DEF Vec
<1> QED BY <1>1, <1>2, <1>4, <1>6, <1>7, <1>8, AbandonStep

LEMMA FailureStep ==
  ASSUME Inv, StepFails \/ Compact \/ Crash \/ Reopen
  PROVE  Inv'
<1>1. CASE StepFails
  BY <1>1, StepFailsStep
<1>2. CASE Crash
  <2>1. pc' = "down" /\ UNCHANGED <<stores, oracle, acked>>
    BY <1>2 DEF Crash
  <2>2. ~Running'
    BY <2>1 DEF Running
  <2>3. CASE Running
    <3>1. Abandon
      BY <1>2, <2>3 DEF Crash
    <3>2. UNCHANGED <<index, stored, window, lexical, stats, payloads, count, oracle, acked>>
      BY <2>1 DEF stores
    <3>3. \A id \in Ids : Vec(id)' = Vec(id)
      BY <3>2 DEF Vec
    <3>4. /\ DOMAIN index' \subseteq Ids
          /\ window' \in {"none", "tail", "ahead", "misplaced", "spoilt"}
          /\ window' = "ahead" => Intact
      BY <3>2 DEF Inv, StoreInv, Intact
    <3> QED BY <2>1, <2>2, <2>3, <3>1, <3>2, <3>3, <3>4, AbandonStep
  <2>4. CASE ~Running
    <3>1. op' = NoOp /\ UNCHANGED <<index, stored, window, lexical, stats, payloads, count, attempted>>
      BY <1>2, <2>1, <2>4 DEF Crash, stores
    <3>2. stats' = open(lexical) /\ count' = Cardinality(DOMAIN payloads)
      BY <3>1 DEF Inv, CountInv
    <3> QED BY <2>1, <2>2, <2>4, <3>1, <3>2, IdleStep
  <2> QED BY <2>3, <2>4
<1>3. CASE Reopen
  <2>1. /\ pc = "down" /\ pc' = "idle" /\ stats' = open(lexical)
        /\ count' = Cardinality(DOMAIN payloads)
        /\ UNCHANGED <<lexical, payloads, op, oracle, acked, attempted>>
    BY <1>3 DEF Reopen, open_payloads
  <2>2. ~Running /\ ~Running'
    BY <2>1 DEF Running
  <2>3. \/ Intact /\ index' = stored /\ UNCHANGED stored /\ window' = "none"
        \/ Damaged
    BY <1>3 DEF Reopen, ReopenIndex
  <2> QED BY <2>1, <2>2, <2>3, IdleStep
<1>4. CASE Compact
  <2>1. /\ pc = "idle" /\ pc' = "idle"
        /\ UNCHANGED <<lexical, stats, payloads, count, op, oracle, acked, attempted>>
    BY <1>4 DEF Compact
  <2>2. ~Running /\ ~Running'
    BY <2>1 DEF Running
  <2>3. stats' = open(lexical) /\ count' = Cardinality(DOMAIN payloads)
    BY <2>1 DEF Inv, CountInv
  <2>4. \/ window # "spoilt" /\ UNCHANGED index /\ window' = "none" /\ stored' = index
        \/ window # "spoilt" /\ UNCHANGED index /\ window' = "misplaced" /\ stored' = <<>>
        \/ Damaged
    BY <1>4 DEF Compact
  <2> QED BY <2>1, <2>2, <2>3, <2>4, IdleStep
<1> QED BY <1>1, <1>2, <1>3, <1>4

LEMMA StutterStep ==
  ASSUME Inv, UNCHANGED vars
  PROVE  Inv'
<1> USE DEF vars
<1>1. Running' = Running /\ Current' = Current /\ Rest' = Rest /\ Left' = Left
  BY DEF Running, Current, Rest, Left
<1>2. StoreInv' /\ CallInv' /\ CountInv'
  BY <1>1 DEF Inv, StoreInv, CallInv, CountInv
<1>3. StageInv'
  BY <1>1 DEF Inv, StageInv, Upserting, Vec, Doc
<1>4. PurgeInv'
  BY <1>1 DEF Inv, PurgeInv
<1>5. ASSUME NEW id \in Ids PROVE GivenAt(id)'
  <2>1. GivenAt(id)
    BY DEF Inv, IdInv
  <2>2. /\ Vec(id)' = Vec(id) /\ Doc(id)' = Doc(id) /\ Pay(id)' = Pay(id) /\ OnDisk(id)' = OnDisk(id)
        /\ InProgress(id)' = InProgress(id)
    BY <1>1 DEF Vec, Doc, Pay, OnDisk, InProgress
  <2>3. Tried(id)' = Tried(id)
    BY <1>1, <2>2 DEF Tried
  <2> QED BY <1>1, <2>1, <2>2, <2>3 DEF GivenAt, AgreeAt, ForeignAt, RetryAt, KeptAt, Given
<1> QED BY <1>2, <1>3, <1>4, <1>5 DEF Inv, IdInv

\* Every step keeps the invariant.
LEMMA NextInv == Inv /\ [Next]_vars => Inv'
BY UpsertStep, DeleteStep, DeleteByFilterStep, RemoveVectorStep, InsertVectorStep,
   WriteDocumentStep, WritePayloadStep, FailureStep, StutterStep DEF Next

-----------------------------------------------------------------------------
(* Theorems *)

\* The inductive invariant holds in every reachable state.
THEOREM InvAlways == Spec => []Inv
<1>1. Init => Inv
  BY InitInv
<1>2. Inv /\ [Next]_vars => Inv'
  BY NextInv
<1> QED BY <1>1, <1>2, PTL DEF Spec

\* TypeCorrect: the stores and the running call keep their shape (TypeOK).
THEOREM TypeCorrect == Spec => []TypeOK
<1>1. Inv => TypeOK
  <2> SUFFICES ASSUME Inv PROVE TypeOK
    OBVIOUS
  <2>1. MaxBatch \in Nat /\ Cardinality(Ids) \in Nat
    BY CollectionAssumption, FS_CardinalityType
  <2>2. stats \in [corpus_size : Nat, total_tokens : Nat] /\ count \in Nat
    <3>1. IsFiniteSet(DOMAIN lexical.doc_lengths) /\ IsFiniteSet(DOMAIN payloads)
      BY CollectionAssumption, FS_Subset DEF Inv, StoreInv
    <3>2. Cardinality(DOMAIN lexical.doc_lengths) \in Nat /\ Cardinality(DOMAIN payloads) \in Nat
      BY <3>1, FS_CardinalityType
    <3>3. lexical.doc_lengths \in [DOMAIN lexical.doc_lengths -> Nat] /\ 0 \in Nat
      BY DEF Inv, StoreInv
    <3>4. FoldFunction(+, 0, lexical.doc_lengths) \in Nat
      BY <3>1, <3>3, SumOfTable
    <3>5. stats = open(lexical) /\ count = Cardinality(DOMAIN payloads)
      BY DEF Inv, CountInv
    <3> DEFINE n == FoldFunction(+, 0, lexical.doc_lengths)
    <3>6. stats = [corpus_size |-> Cardinality(DOMAIN lexical.doc_lengths), total_tokens |-> n]
      BY <3>5 DEF open
    <3>7. n \in Nat
      BY <3>4
    <3> HIDE DEF n
    <3> QED BY <3>2, <3>5, <3>6, <3>7
  <2>3. Running => op.todo # <<>> /\ op.removed \in 0 .. Cardinality(Ids) + MaxBatch
    <3> SUFFICES ASSUME Running
                 PROVE  op.todo # <<>> /\ op.removed \in 0 .. Cardinality(Ids) + MaxBatch
      OBVIOUS
    <3>1. /\ op.todo \in Seq(Entries) /\ op.todo # <<>> /\ op.removed \in Nat
          /\ op.removed + Len(Rest) <= Cardinality(Ids) + MaxBatch
      BY DEF Inv, CallInv
    <3>2. Len(Rest) \in Nat
      BY <3>1, HeadAndTail DEF Rest
    <3> QED BY <2>1, <3>1, <3>2
  <2> QED BY <2>2, <2>3 DEF TypeOK, Inv, StoreInv, CallInv
<1> QED BY <1>1, InvAlways, PTL

\* StoresAlwaysAgree: through failures and crashes at any of the transactions of
\* upsert and delete, an id without a half-done call is the same in the three stores.
THEOREM StoresAlwaysAgree == Spec => []StoresAgree
<1>1. Inv => StoresAgree
  <2> SUFFICES ASSUME Inv, NEW id \in Ids, attempted[id] = {}, ~InProgress(id)
               PROVE  /\ View(id).document = acked[id].document /\ View(id).payload = acked[id].payload
                      /\ window # "spoilt" => View(id).vector = acked[id].vector
    BY DEF StoresAgree
  <2> QED BY DEF Inv, IdInv, GivenAt, AgreeAt, View, Vec, Doc, Pay
<1> QED BY <1>1, InvAlways, PTL

\* NothingForeignEver: a half-written id mixes only points that were given for it.
THEOREM NothingForeignEver == Spec => []NothingForeign
<1>1. Inv => NothingForeign
  <2> SUFFICES ASSUME Inv, NEW id \in Ids, NEW part \in {"vector", "document", "payload"},
                      part = "vector" => window # "spoilt"
               PROVE  \/ \E p \in {acked[id]} \cup Tried(id) : View(id)[part] = p[part]
                      \/ part = "vector" /\ Tried(id) # {} /\ View(id).vector = None
    BY DEF NothingForeign, Tried
  <2>1. ForeignAt(id)
    BY DEF Inv, IdInv, GivenAt
  <2>2. View(id).vector = Vec(id) /\ View(id).document = Doc(id) /\ View(id).payload = Pay(id)
    BY DEF View, Vec, Doc, Pay
  <2>3. CASE part = "vector"
    BY <2>1, <2>2, <2>3 DEF ForeignAt, Given
  <2>4. CASE part = "document"
    BY <2>1, <2>2, <2>4 DEF ForeignAt
  <2>5. CASE part = "payload"
    BY <2>1, <2>2, <2>5 DEF ForeignAt
  <2> QED BY <2>3, <2>4, <2>5
<1> QED BY <1>1, InvAlways, PTL

\* PurgeCanAlwaysBeRetried: delete removes the payload last, so an interrupted
\* delete_by_filter finds what it left.
THEOREM PurgeCanAlwaysBeRetried == Spec => []PurgeCanBeRetried
<1>1. Inv => PurgeCanBeRetried
  BY DEF Inv, IdInv, GivenAt, RetryAt, PurgeCanBeRetried, View, Vec, Doc, Pay
<1> QED BY <1>1, InvAlways, PTL

\* CountersAlwaysExact: corpus_size, total_tokens and count, kept by saturating
\* increments and decrements, are what a reopen counts from the tables.
THEOREM CountersAlwaysExact == Spec => []CountersExact
<1>1. Inv => CountersExact
  BY DEF Inv, CountInv, CountersExact
<1> QED BY <1>1, InvAlways, PTL

\* Faults are counted.
LEMMA FaultsCounted == Spec => [](faults \in Nat)
<1>1. Init => faults \in Nat
  BY DEF Init
<1>2. faults \in Nat /\ [Next]_vars => (faults \in Nat)'
  <2> SUFFICES ASSUME faults \in Nat, [Next]_vars PROVE faults' \in Nat
    OBVIOUS
  <2>1. CASE Upsert \/ Delete \/ DeleteByFilter
    BY <2>1 DEF Upsert, Delete, DeleteByFilter, Start
  <2>2. CASE RemoveVector \/ InsertVector
    BY <2>2 DEF RemoveVector, RemovesVector, InsertVector
  <2>3. CASE WriteDocument \/ WritePayload
    BY <2>3 DEF WriteDocument, WritesDocument, WritePayload
  <2>4. CASE StepFails \/ Compact \/ Crash \/ Reopen
    BY <2>4 DEF StepFails, Compact, Crash, Reopen
  <2>5. CASE UNCHANGED vars
    BY <2>5 DEF vars
  <2> QED BY <2>1, <2>2, <2>3, <2>4, <2>5 DEF Next
<1> QED BY <1>1, <1>2, PTL DEF Spec

\* PurgeAlwaysComplete: a delete_by_filter that returns Ok left nothing its
\* filter matches and counted every id that had a vector once.
THEOREM PurgeAlwaysComplete == Spec => PurgeIsComplete
<1> DEFINE Complete == PurgeReturnsOk =>
               /\ \A id \in DOMAIN payloads' : payloads'[id] \notin op.filter
               /\ op.removed = op.had
<1>1. Inv /\ faults \in Nat /\ [Next]_vars => [Complete]_vars
  <2> SUFFICES ASSUME Inv, faults \in Nat, Next, PurgeReturnsOk
               PROVE  /\ \A id \in DOMAIN payloads' : payloads'[id] \notin op.filter
                      /\ op.removed = op.had
    OBVIOUS
  <2>1. pc = "payload" /\ op.filter # {} /\ pc' = "idle" /\ faults' = faults
    BY DEF PurgeReturnsOk
  <2>2. WritePayload
    <3>1. ~Upsert /\ ~Delete /\ ~DeleteByFilter
      BY <2>1 DEF Upsert, Delete, DeleteByFilter, Start
    <3>2. ~RemoveVector /\ ~InsertVector /\ ~WriteDocument /\ ~Compact /\ ~Reopen /\ ~Crash
      BY <2>1 DEF RemoveVector, RemovesVector, InsertVector, WriteDocument, WritesDocument,
                  Compact, Reopen, Crash
    <3>3. ~StepFails
      <4>1. faults + 1 # faults
        BY <2>1
      <4> QED BY <2>1, <4>1 DEF StepFails
    <3> QED BY <3>1, <3>2, <3>3 DEF Next
  <2>3. Running
    BY <2>1 DEF Running
  <2>4. /\ op.todo \in Seq(Entries) /\ op.todo # <<>> /\ op.removed \in Nat
        /\ Len(op.todo) = 1
    BY <2>1, <2>2, <2>3 DEF Inv, CallInv, WritePayload
  <2>5. /\ \A i \in DOMAIN op.todo : op.todo[i].point = Absent
        /\ \A id \in DOMAIN payloads :
              payloads[id] \in op.filter => \E i \in DOMAIN op.todo : op.todo[i].id = id
        /\ op.removed + Cardinality(Left) = op.had
    BY <2>1, <2>3 DEF Inv, PurgeInv
  <2>6. DOMAIN op.todo = {1} /\ Current = op.todo[1] /\ Tail(op.todo) = <<>>
    BY <2>4, HeadAndTail DEF Current
  <2>7. Left = {}
    BY <2>1, <2>6 DEF Left, Rest, Range
  <2>8. op.removed = op.had
    BY <2>4, <2>5, <2>7, FS_EmptySet
  <2>9. payloads' = Without(payloads, {Current.id})
    <3>1. Current.point.payload = None
      BY <2>5, <2>6 DEF Absent
    <3> QED BY <2>2, <3>1 DEF WritePayload, RemovePayload
  <2>10. \A id \in DOMAIN payloads' :
            id # Current.id /\ id \in DOMAIN payloads /\ payloads'[id] = payloads[id]
    BY <2>9 DEF Without, Restrict
  <2> QED BY <2>5, <2>6, <2>8, <2>10
<1> QED BY <1>1, InvAlways, FaultsCounted, PTL DEF Spec, PurgeIsComplete


-----------------------------------------------------------------------------
(* The persistent lexical index and the in-memory one *)

SameDocuments == Parity(Ids, lexical, oracle)

\* Two empty indexes.
LEMMA InitParity == Init => SameDocuments
<1> SUFFICES ASSUME Init PROVE Parity(Ids, lexical, oracle)
  BY DEF SameDocuments
<1>1. lexical = EmptyTables /\ oracle = EmptyOracle
  BY DEF Init
<1>2. /\ DOMAIN oracle.docs = {} /\ DOMAIN oracle.doc_frequencies = {} /\ oracle.total_tokens = 0
      /\ DOMAIN lexical.postings = {} /\ DOMAIN lexical.doc_terms = {}
      /\ lexical.doc_lengths \in [{} -> Nat]
      /\ oracle.docs \in [{} -> [Terms -> Nat]]
  BY <1>1 DEF EmptyTables, EmptyOracle
<1>3. \A t : Has(oracle.docs, t) = {}
  BY <1>2 DEF Has
<1>4. IsFiniteSet({})
  BY FS_EmptySet
<1>5. FoldFunction(+, 0, lexical.doc_lengths) = 0
  <2> DEFINE f == lexical.doc_lengths
  <2>1. f \in [{} -> Nat]
    BY <1>2
  <2> HIDE DEF f
  <2>2. PICK g : Unfolds(f, {}, g) /\ FoldFunction(+, 0, f) = g[{}]
    BY <1>4, <2>1, SumIsFold
  <2>3. g[{}] = 0
    BY <2>2 DEF Unfolds
  <2>4. FoldFunction(+, 0, f) = 0
    BY <2>2, <2>3
  <2> QED BY <2>4 DEF f
<1>6. DocsOf(Ids, oracle.docs)
  BY <1>2, <1>4 DEF DocsOf
<1>7. PostingsOf(Ids, lexical.postings, oracle.docs)
  BY <1>2, <1>3 DEF PostingsOf
<1>8. FrequenciesOf(oracle.doc_frequencies, oracle.docs)
  BY <1>2, <1>3 DEF FrequenciesOf
<1>9. oracle.total_tokens = FoldFunction(+, 0, lexical.doc_lengths)
  BY <1>2, <1>5
<1> QED BY <1>2, <1>6, <1>7, <1>8, <1>9 DEF Parity

\* Only the document step writes either of them, and it writes both.
LEMMA NextParity == Inv /\ SameDocuments /\ [Next]_vars => SameDocuments'
<1> SUFFICES ASSUME Inv, Parity(Ids, lexical, oracle), [Next]_vars
             PROVE  Parity(Ids, lexical', oracle')
  BY DEF SameDocuments
<1>1. CASE WriteDocument
  <2> DEFINE k == Current.id
             document == Current.point.document
  <2>1. Running
    BY <1>1 DEF WriteDocument, WritesDocument, Running
  <2>2. k \in Ids /\ Current.point \in Points \cup {Absent}
    BY <2>1, CurrentType DEF Inv
  <2>3. \/ /\ document # None
           /\ lexical' = insert(lexical, k, document)
           /\ oracle' = oracle_insert(oracle, k, document)
        \/ /\ document = None
           /\ lexical' = remove(lexical, k)
           /\ oracle' = forget(oracle, k)
    BY <1>1 DEF WriteDocument, WritesDocument
  <2>4. document # None => document \in [Terms -> Nat] /\ Tokens(document) \in Nat
    BY <2>2, CollectionAssumption, TokensType DEF Absent
  <2> HIDE DEF k, document
  <2>5. document # None => Parity(Ids, insert(lexical, k, document), oracle_insert(oracle, k, document))
    BY <2>2, <2>4, InsertParity
  <2>6. Parity(Ids, remove(lexical, k), forget(oracle, k))
    BY RemoveParity
  <2> QED BY <2>3, <2>5, <2>6
<1>2. CASE UNCHANGED <<lexical, oracle>>
  BY <1>2
<1>3. WriteDocument \/ UNCHANGED <<lexical, oracle>>
  <2>1. CASE Upsert \/ Delete \/ DeleteByFilter
    BY <2>1 DEF Upsert, Delete, DeleteByFilter, Start, stores
  <2>2. CASE RemoveVector \/ InsertVector
    BY <2>2 DEF RemoveVector, RemovesVector, InsertVector
  <2>3. CASE WritePayload
    BY <2>3 DEF WritePayload
  <2>4. CASE StepFails \/ Compact \/ Crash \/ Reopen
    BY <2>4 DEF StepFails, Compact, Crash, Reopen, stores
  <2>5. CASE UNCHANGED vars
    BY <2>5 DEF vars
  <2> QED BY <2>1, <2>2, <2>3, <2>4, <2>5 DEF Next
<1> QED BY <1>1, <1>2, <1>3

\* The two indexes hold the same documents in every reachable state.
THEOREM AlwaysSameDocuments == Spec => []SameDocuments
<1>1. Init => SameDocuments
  BY InitParity
<1>2. Inv /\ SameDocuments /\ [Next]_vars => SameDocuments'
  BY NextParity
<1> QED BY <1>1, <1>2, InvAlways, PTL DEF Spec

\* LexicalParityEveryQuery: the persistent index answers a query of any length as
\* the in-memory one, whatever set of ids is admissible (scored, search).
THEOREM LexicalParityEveryQuery ==
  Spec => [](\A query \in Seq(Terms) : \A admissible \in SUBSET Ids :
                scored(lexical, stats, query, admissible)
                    = oracle_search(oracle, query, admissible))
<1>1. Inv /\ SameDocuments =>
          \A query \in Seq(Terms) : \A admissible \in SUBSET Ids :
              scored(lexical, stats, query, admissible) = oracle_search(oracle, query, admissible)
  <2> SUFFICES ASSUME Inv, SameDocuments, NEW query \in Seq(Terms), NEW admissible
               PROVE  scored(lexical, stats, query, admissible)
                          = oracle_search(oracle, query, admissible)
    OBVIOUS
  <2>1. stats = open(lexical)
    BY DEF Inv, CountInv
  <2>2. \A i \in DOMAIN query : query[i] \in Terms
    OBVIOUS
  <2>3. scored(lexical, open(lexical), query, admissible) = oracle_search(oracle, query, admissible)
    BY <2>2, LexicalAnswers DEF SameDocuments
  <2> QED BY <2>1, <2>3
<1> QED BY <1>1, InvAlways, AlwaysSameDocuments, PTL

\* LexicalParityAlways: the instance of it that the run checks (LexicalParity).
THEOREM LexicalParityAlways == Spec => []LexicalParity
<1>1. Inv /\ SameDocuments => LexicalParity
  <2> SUFFICES ASSUME Inv, SameDocuments, NEW query \in Queries, NEW admissible
               PROVE  scored(lexical, stats, query, admissible)
                          = oracle_search(oracle, query, admissible)
    BY DEF LexicalParity
  <2>1. stats = open(lexical)
    BY DEF Inv, CountInv
  <2>2. \A i \in DOMAIN query : query[i] \in Terms
    BY DEF Queries
  <2>3. scored(lexical, open(lexical), query, admissible) = oracle_search(oracle, query, admissible)
    BY <2>2, LexicalAnswers DEF SameDocuments
  <2> QED BY <2>1, <2>3
<1> QED BY <1>1, InvAlways, AlwaysSameDocuments, PTL
=============================================================================
