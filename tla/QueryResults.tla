---------------------------- MODULE QueryResults ----------------------------
(***************************************************************************)
(* What queries promise, stated without the algorithms that answer them:   *)
(* which documents satisfy a query, and how much each clause adds to their *)
(* score.                                                                  *)
(***************************************************************************)
EXTENDS Queries

\* The tokens of a field of a document.
FieldTokens(ix, id, field) ==
  IF field \in DOMAIN ix[id] THEN ToSet(ix[id][field]) ELSE {}

FieldTerms(ix, id, field) == {t.term : t \in FieldTokens(ix, id, field)}

\* The terms of the document through which a query on one field finds it.
MatchedTerms(ix, id, q) ==
  LET has == FieldTerms(ix, id, q.field)
  IN  CASE q.kind = "match" ->
             LET asked == DistinctTerms(q.text)
             IN  IF q.operator = "AND" /\ ~(asked \subseteq has) THEN {}
                 ELSE asked \cap has
        [] q.kind = "prefix" ->
             LET words == Analyze(q.prefix)
             IN  {t \in has : IsPrefix(IF words = <<>> THEN q.prefix ELSE words[1].term, t)}
        [] q.kind = "fuzzy" ->
             LET words == Analyze(q.term)
             IN  {t \in has : /\ words # <<>>
                              /\ EditDistance(words[1].term, t) <= Max({1, Min({3, q.maxEdits})})}

\* The words stand in the document as far apart as in the phrase, but for
\* the slop.
HoldsPhrase(ix, id, q) ==
  LET words == Analyze(q.text)
      places(term) == {t.position : t \in {u \in FieldTokens(ix, id, q.field) : u.term = term}}
  IN  /\ words # <<>>
      /\ PlacementExists([k \in 1..Len(words) |-> SetToSeq(places(words[k].term))],
                         [k \in 1..Len(words) |-> words[k].position - words[1].position],
                         q.slop)

\* The documents that satisfy each of the queries.
Satisfying(ix, queries) ==
  LET found[q \in queries] ==
        {id \in DOMAIN ix :
           \/ q.kind = "term" /\ q.term \in FieldTerms(ix, id, q.field)
           \/ q.kind \in {"match", "prefix", "fuzzy"} /\ MatchedTerms(ix, id, q) # {}
           \/ q.kind = "phrase" /\ HoldsPhrase(ix, id, q)
           \/ /\ q.kind = "boolean"
              /\ \A k \in 1..Len(q.must) : id \in found[q.must[k]]
              /\ \A k \in 1..Len(q.mustNot) : id \notin found[q.mustNot[k]]
              /\ \/ q.must # <<>>
                 \/ \E k \in 1..Len(q.should) : id \in found[q.should[k]]
                 \/ q.should = <<>> /\ q.mustNot # <<>>}
  IN  found

\* What a term that occurs in a document is worth.
Worth(ix, id, field, term) ==
  Unit * (1 + Cardinality({d \in DOMAIN ix : term \notin FieldTerms(ix, d, field)}))
       * Cardinality({t \in FieldTokens(ix, id, field) : t.term = term})

\* What each of the queries is worth in each document: nothing where it is
\* not satisfied, otherwise the sum over its terms or its clauses.
Relevance(ix, queries) ==
  LET worth[q \in queries] ==
        [id \in DOMAIN ix |->
           LET matched == MatchedTerms(ix, id, q)
               words   == Analyze(q.text)
               sum(clauses) == SumFunctionOnSet([k \in 1..Len(clauses) |-> worth[clauses[k]][id]],
                                                1..Len(clauses))
           IN  IF id \notin Satisfying(ix, queries)[q] THEN 0
               ELSE CASE q.kind = "term" -> Worth(ix, id, q.field, q.term)
                      [] q.kind \in {"match", "prefix"} ->
                           SumFunctionOnSet([t \in matched |-> Worth(ix, id, q.field, t)], matched)
                      [] q.kind = "fuzzy" ->
                           SumFunctionOnSet(
                             [t \in matched |-> Worth(ix, id, q.field, t) \div
                                (1 + EditDistance(Analyze(q.term)[1].term, t))], matched)
                      [] q.kind = "phrase" ->
                           (3 * SumFunctionOnSet(
                                  [k \in 1..Len(words) |-> Worth(ix, id, q.field, words[k].term)],
                                  1..Len(words))) \div 2
                      [] q.kind = "boolean" -> sum(q.must) + sum(q.should)]
  IN  worth

\* A query returns exactly the documents that satisfy it, each once and with
\* the sum of what its clauses are worth, by falling score and then by ID
\* (Query.Execute of every query type; BooleanQuery's comment).
AnswersExactly(ix, queries, q) ==
  \A hits \in {Execute(ix, queries, q)} :
    /\ ToSet(hits) = {[id |-> d, score |-> Relevance(ix, queries)[q][d]] :
                        d \in Satisfying(ix, queries)[q]}
    /\ \A k, l \in DOMAIN hits : k < l =>
         \/ hits[k].score > hits[l].score
         \/ hits[k].score = hits[l].score /\ hits[k].id < hits[l].id
=============================================================================
