---------------------------- MODULE QueryMeaning ----------------------------
(***************************************************************************)
(* What expressions mean, stated without the algorithms that read them:    *)
(* the grammar of the query language, and what is found by what is written *)
(* or quoted.  The properties compare QueryParser with these meanings.     *)
(***************************************************************************)
EXTENDS QueryParser, QueryResults

-----------------------------------------------------------------------------
(* The query language.                                                     *)

\* What is written is what is asked for: after a field, text in quotes is a
\* phrase whatever it holds but quotes, a word with a last star a prefix and
\* any other word a match, further colons included; without a field it is
\* asked of the default field, unless it has a colon.  With a quote left open
\* it is refused (Parse, atomQuery).
ReadsWhatIsWritten(field, text, default) ==
  LET Plain(s) == \A k \in DOMAIN s :
                    s[k] \notin Spaces \cup Parentheses \cup {Quote}
      quoted == <<Quote>> \o text \o <<Quote>>
      word(f) == IF Last(text) = "*" /\ Len(text) > 1
                 THEN Prefix(f, Front(text)) ELSE Match(f, text, "OR")
      colon == Contains(text, ":")
  IN  /\ Parse(field \o <<":">> \o quoted, default) = Phrase(field, text, 0)
      /\ Parse(field \o <<":", Quote>> \o text, default) = Invalid
      /\ ~colon => Parse(quoted, default) = Phrase(default, text, 0)
      /\ Plain(text) /\ text # <<>> =>
           /\ Parse(field \o <<":">> \o text, default) = word(field)
           /\ ~colon /\ KindOf(text) = "atom" => Parse(text, default) = word(default)

\* The grammar, as the sets of documents that the tokens from span[1] to span[2]
\* can mean, given what parts of them mean: NOT binds tighter than AND, AND
\* tighter than OR, which may be left out.
MeaningAt(meaning, ix, tokens, default, span) ==
  LET i == span[1]
      j == span[2]
      atom == AtomQuery(tokens[i].text, default)
      primary ==
        (IF i = j /\ tokens[i].kind = "atom" /\ atom # Invalid
         THEN {Satisfying(ix, {atom})[atom]} ELSE {})
        \cup (IF i + 1 < j /\ tokens[i].kind = "(" /\ tokens[j].kind = ")"
              THEN meaning[<<i + 1, j - 1>>].any ELSE {})
      unary ==
        primary \cup (IF i < j /\ tokens[i].kind = "NOT"
                      THEN {DOMAIN ix \ m : m \in meaning[<<i + 1, j>>].unary} ELSE {})
      all ==
        unary \cup UNION {{l \cap r : l \in meaning[<<i, k - 1>>].all,
                                      r \in meaning[<<k + 1, j>>].unary} :
                            k \in {m \in i + 1..j - 1 : tokens[m].kind = "AND"}}
      any ==
        all \cup (UNION {{l \cup r : l \in meaning[<<i, k - 1>>].any,
                                     r \in meaning[<<k + 1, j>>].all} :
                           k \in {m \in i + 1..j - 1 : tokens[m].kind = "OR"}})
            \cup (UNION {{l \cup r : l \in meaning[<<i, k>>].any,
                                     r \in meaning[<<k + 1, j>>].all} :
                           k \in i..j - 1})
  IN  [unary |-> unary, all |-> all, any |-> any]

\* What each part of the tokens can mean, from its first token to its last.
Meanings(ix, tokens, default) ==
  LET meaning[span \in (1..Len(tokens) + 1) \X (0..Len(tokens))] ==
        MeaningAt(meaning, ix, tokens, default, span)
  IN  meaning

\* An expression is refused exactly if the grammar has no reading of it, and
\* otherwise finds the documents of that reading, which is the only one; a
\* limit keeps the best of them (Parse with parseOr, parseAnd, parseUnary and
\* parsePrimary; Index.SearchString).
SearchesByGrammar(ix, expression, default) ==
  \A tokens \in {Lex(expression)}, query \in {Parse(expression, default)} :
    \A meanings \in {Meanings(ix, tokens, default)[<<1, Len(tokens)>>].any} :
      IF query \in {NoQuery, Invalid} THEN Refused(tokens) \/ meanings = {}
      ELSE \A found \in {[limit \in {0, 2} |-> Search(ix, expression, default, limit)]} :
             /\ meanings = {{h.id : h \in ToSet(found[0])}}
             /\ found[2] = SubSeq(found[0], 1, Min({2, Len(found[0])}))

-----------------------------------------------------------------------------
\* A phrase quoted from a document finds the document: from the first to the
\* last rune of any run of its tokens, stop words and gaps included, unless
\* only stop words are quoted (StandardTokenizer, StopWordFilter,
\* PhraseQuery and Parse together).  It is meant
\* for texts without quotes, the only ones it is asked of: quoted again, a
\* quote of the text would end the phrase.
QuotationFindsDocument(text, field) ==
  LET RuneAt(offset) == CHOOSE k \in 1..Len(text) + 1 : Offset(text, k) = offset
  IN  \A ix \in {Indexed([id \in {1} |-> [f \in {field} |-> text]])},
         t, u \in ToSet(StandardTokenize(text)) :
        \A quotation \in {SubSeq(text, RuneAt(t.start), RuneAt(u.end) - 1)} :
          (t.start <= u.start /\ Analyze(quotation) # <<>>) =>
            {h.id : h \in ToSet(Search(ix, field \o <<":", Quote>> \o quotation \o <<Quote>>,
                                      field, 0))} = {1}
=============================================================================
