------------------------------- MODULE Queries -------------------------------
(***************************************************************************)
(* Executing queries (src/query): term, match, phrase, prefix, fuzzy and   *)
(* boolean queries over the read-only view of an index.                    *)
(*                                                                         *)
(* The index `ix' is a function from document IDs to documents, a document *)
(* a function from fields to the tokens of their texts.  Every field is    *)
(* analyzed the same way when it is indexed and when it is searched.       *)
(* Scores map hits to what they score.  BM25 is abstracted to a number     *)
(* that grows with the frequency and falls with the document frequency;    *)
(* scores are multiples of Unit so that the boosts divide them.  Errors of *)
(* the searcher, which every query passes on, are left out.                *)
(***************************************************************************)
EXTENDS Tokenizers, Matching, SequencesExt

Unit == 12

NoScores == [id \in {} |-> 0]
ScoreOf(scores, id) == IF id \in DOMAIN scores THEN scores[id] ELSE 0
Only(scores, ids) == [id \in DOMAIN scores \cap ids |-> scores[id]]

\* scores[id] += score for each entry of another map.
Added(a, b) ==
  [id \in DOMAIN a \cup DOMAIN b |-> ScoreOf(a, id) + ScoreOf(b, id)]

\* The loop that adds up all of some maps, in any order.
Total(maps) ==
  LET order == SetToSeq(DOMAIN maps)
      upTo[k \in 0..Len(order)] ==
        IF k = 0 THEN NoScores ELSE Added(upTo[k - 1], maps[order[k]])
  IN  upTo[Len(order)]

\* addInTransaction: what is indexed of documents with the given texts.
Indexed(texts) ==
  [id \in DOMAIN texts |->
     [field \in DOMAIN texts[id] |-> Analyze(texts[id][field])]]

Holding(ix, field) == {id \in DOMAIN ix : field \in DOMAIN ix[id]}

\* The positions of a term among tokens, in the order of the text.
PositionsOf(tokens, term) ==
  LET found == Kept(tokens, {tokens[k] : k \in {j \in 1..Len(tokens) : tokens[j].term = term}})
  IN  [k \in 1..Len(found) |-> found[k].position]

\* Index.Postings: the postings of a term, by document.
PostingsOf(ix, field, term) ==
  [id \in {d \in Holding(ix, field) : PositionsOf(ix[d][field], term) # <<>>}
     |-> NewPosting(id, PositionsOf(ix[id][field], term))]

\* Index.Terms with the empty prefix.
TermsOf(ix, field) ==
  {t.term : t \in UNION {ToSet(ix[id][field]) : id \in Holding(ix, field)}}

\* scorePostings
TermScores(ix, field, term) ==
  LET postings == PostingsOf(ix, field, term)
      rarity   == Cardinality(DOMAIN ix) + 1 - Cardinality(DOMAIN postings)
  IN  [id \in DOMAIN postings |-> Unit * rarity * postings[id].frequency]

\* The hits in the order in which every query returns them: the k-th has
\* k - 1 before it.
Precedes(a, b) == a.score > b.score \/ (a.score = b.score /\ a.id < b.id)

HitsFromScores(scores) ==
  LET hits == {[id |-> id, score |-> scores[id]] : id \in DOMAIN scores}
  IN  [k \in 1..Cardinality(hits) |->
         CHOOSE h \in hits : Cardinality({g \in hits : Precedes(g, h)}) = k - 1]

-----------------------------------------------------------------------------
(* Queries on one field.                                                   *)

DistinctTerms(text) == {t.term : t \in ToSet(Analyze(text))}

MatchScores(ix, q) ==
  LET terms  == DistinctTerms(q.text)
      each   == [t \in terms |-> TermScores(ix, q.field, t)]
      scores == Total(each)
      matched(id) == Cardinality({t \in terms : id \in DOMAIN each[t]})
  IN  IF q.operator = "AND"
      THEN Only(scores, {id \in DOMAIN scores : matched(id) = Cardinality(terms)})
      ELSE scores

PrefixScores(ix, q) ==
  LET tokens == Analyze(q.prefix)
      prefix == IF tokens = <<>> THEN q.prefix ELSE tokens[1].term
      terms  == {t \in TermsOf(ix, q.field) : IsPrefix(prefix, t)}
  IN  Total([t \in terms |-> TermScores(ix, q.field, t)])

-----------------------------------------------------------------------------
(* Phrases.                                                                *)

PhraseScores(ix, q) ==
  LET tokens   == Analyze(q.text)
      n        == Len(tokens)
      postings == [k \in 1..n |-> PostingsOf(ix, q.field, tokens[k].term)]
      relative == [k \in 1..n |-> (tokens[k].position - tokens[1].position) % W32]
      hits     == {id \in DOMAIN ix :
                     /\ \A k \in 1..n : id \in DOMAIN postings[k]
                     /\ PhrasePositionsMatch(
                          [k \in 1..n |-> postings[k][id].positions],
                          relative, q.slop)}
      sum      == Total([k \in 1..n |-> TermScores(ix, q.field, tokens[k].term)])
  IN  IF n = 0 THEN NoScores
      ELSE [id \in hits |-> (sum[id] * 3) \div 2]

-----------------------------------------------------------------------------
(* Fuzzy terms.                                                            *)

MaxEdits(n) == IF n <= 0 THEN 1 ELSE IF n > 3 THEN 3 ELSE n

FuzzyScores(ix, q) ==
  LET tokens  == Analyze(q.term)
      cutoff  == MaxEdits(q.maxEdits)
      distance(t) == Levenshtein(tokens[1].term, t, cutoff)
      terms   == {t \in TermsOf(ix, q.field) : distance(t) <= cutoff}
      boosted(t) == LET scores == TermScores(ix, q.field, t)
                    IN  [id \in DOMAIN scores |-> scores[id] \div (distance(t) + 1)]
  IN  IF tokens = <<>> THEN NoScores ELSE Total([t \in terms |-> boosted(t)])

-----------------------------------------------------------------------------
(* Boolean queries: the three lists of clauses, already executed.          *)

\* The candidates after the required clauses, of which there is one.
Required(must) ==
  LET upTo[k \in 1..Len(must)] ==
        IF k = 1 THEN must[1]
        ELSE [id \in DOMAIN upTo[k - 1] \cap DOMAIN must[k] |-> upTo[k - 1][id] + must[k][id]]
  IN  upTo[Len(must)]

\* The candidates after the optional clauses, which only add to those they
\* find if there are required clauses.
Boosted(candidates, should, only) ==
  LET upTo[k \in 0..Len(should)] ==
        IF k = 0 THEN candidates
        ELSE IF only THEN Only(Added(upTo[k - 1], should[k]), DOMAIN candidates)
        ELSE Added(upTo[k - 1], should[k])
  IN  upTo[Len(should)]

\* Fault: optional clauses add documents that a required clause left out.
BooleanOptionalAdds(ix, must, should, mustNot) ==
  LET candidates ==
        IF must = <<>> /\ should = <<>>
        THEN [id \in (IF mustNot = <<>> THEN {} ELSE DOMAIN ix) |-> 0]
        ELSE Boosted(IF must = <<>> THEN NoScores ELSE Required(must), should, FALSE)
      excluded == UNION {DOMAIN mustNot[k] : k \in 1..Len(mustNot)}
  IN  Only(candidates, DOMAIN candidates \ excluded)

\* Required clauses are intersected, optional ones add to the score of the
\* candidates or, if there is no required one, make them; with neither,
\* excluded clauses start from all documents.
BooleanScores(ix, must, should, mustNot) ==
  LET candidates ==
        IF must = <<>> /\ should = <<>>
        THEN [id \in (IF mustNot = <<>> THEN {} ELSE DOMAIN ix) |-> 0]
        ELSE Boosted(IF must = <<>> THEN NoScores ELSE Required(must), should, must # <<>>)
      excluded == UNION {DOMAIN mustNot[k] : k \in 1..Len(mustNot)}
  IN  Only(candidates, DOMAIN candidates \ excluded)

-----------------------------------------------------------------------------
(* Queries nest.  They are executed in a set that holds, with each query,  *)
(* its clauses.                                                            *)

ClausesOf(q) ==
  IF q.kind = "boolean" THEN ToSet(q.must) \cup ToSet(q.should) \cup ToSet(q.mustNot) ELSE {}

Scores(ix, queries) ==
  LET scores[q \in queries] ==
        LET all(clauses) == [k \in 1..Len(clauses) |-> scores[clauses[k]]]
        IN  CASE q.kind = "term" -> IF q.field = <<>> \/ q.term = <<>> THEN NoScores
                                    ELSE TermScores(ix, q.field, q.term)
              [] q.kind = "match"   -> MatchScores(ix, q)
              [] q.kind = "phrase"  -> PhraseScores(ix, q)
              [] q.kind = "prefix"  -> PrefixScores(ix, q)
              [] q.kind = "fuzzy"   -> FuzzyScores(ix, q)
              [] q.kind = "boolean" ->
                   BooleanScores(ix, all(q.must), all(q.should), all(q.mustNot))
  IN  scores

Execute(ix, queries, q) == HitsFromScores(Scores(ix, queries)[q])

Term(field, term) == [kind |-> "term", field |-> field, term |-> term]
Match(field, text, operator) ==
  [kind |-> "match", field |-> field, text |-> text, operator |-> operator]
Phrase(field, text, slop) ==
  [kind |-> "phrase", field |-> field, text |-> text, slop |-> slop]
Prefix(field, prefix) == [kind |-> "prefix", field |-> field, prefix |-> prefix]
Fuzzy(field, term, maxEdits) ==
  [kind |-> "fuzzy", field |-> field, term |-> term, maxEdits |-> maxEdits]
Boolean(must, should, mustNot) ==
  [kind |-> "boolean", must |-> must, should |-> should, mustNot |-> mustNot]
=============================================================================
