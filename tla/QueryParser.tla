----------------------------- MODULE QueryParser -----------------------------
(***************************************************************************)
(* The query language (src/query/parser.go) and Index.SearchString: a      *)
(* written expression is cut into tokens (QueryLexer), parsed by recursive *)
(* descent and executed.  Invalid stands for ErrInvalidQuery.              *)
(***************************************************************************)
EXTENDS Queries, QueryLexer

Invalid == [kind |-> "invalid"]

-----------------------------------------------------------------------------
(* One atom: field:value, a phrase in quotes, a prefix with a star.        *)

TrimQuotes(text) ==
  LET inner == {k \in 1..Len(text) : text[k] # Quote}
  IN  IF inner = {} THEN <<>> ELSE SubSeq(text, Min(inner), Max(inner))

\* Fault: the field ends at the last colon.
AtomQueryLastColon(value, defaultField) ==
  LET colons == {k \in 1..Len(value) : value[k] = ":"}
      field == IF colons = {} THEN defaultField ELSE SubSeq(value, 1, Max(colons) - 1)
      text  == IF colons = {} THEN value
               ELSE SubSeq(value, Max(colons) + 1, Len(value))
  IN  IF field = <<>> \/ text = <<>> THEN Invalid
      ELSE IF text[1] = Quote
      THEN IF Len(text) < 2 \/ Last(text) # Quote THEN Invalid
           ELSE Phrase(field, TrimQuotes(text), 0)
      ELSE IF Last(text) = "*" /\ Len(text) > 1 THEN Prefix(field, Front(text))
      ELSE Match(field, text, "OR")

\* The field is what stands before the first colon, even inside quotes.
AtomQuery(value, defaultField) ==
  LET colons == {k \in 1..Len(value) : value[k] = ":"}
      field == IF colons = {} THEN defaultField ELSE SubSeq(value, 1, Min(colons) - 1)
      text  == IF colons = {} THEN value
               ELSE SubSeq(value, Min(colons) + 1, Len(value))
  IN  IF field = <<>> \/ text = <<>> THEN Invalid
      ELSE IF text[1] = Quote
      THEN IF Len(text) < 2 \/ Last(text) # Quote THEN Invalid
           ELSE Phrase(field, TrimQuotes(text), 0)
      ELSE IF Last(text) = "*" /\ Len(text) > 1 THEN Prefix(field, Front(text))
      ELSE Match(field, text, "OR")

-----------------------------------------------------------------------------
(* Recursive descent.  At a token, parseUnary reads a query, parseAnd and   *)
(* parseOr one after each round of their loops: `unary', `all[k]' and      *)
(* `any[k]', each with the index of the token after it.  Each calls the    *)
(* others at later tokens only; a loop has fewer rounds than there are     *)
(* tokens.                                                                 *)

Read(query, index) == [query |-> query, index |-> index]

KindAt(tokens, i) == IF i > Len(tokens) THEN "end" ELSE tokens[i].kind

ParsePrimary(later, tokens, i, defaultField) ==
  LET child == later[i + 1].any[Len(tokens)]
  IN  CASE KindAt(tokens, i) = "(" ->
             IF child.query = Invalid \/ KindAt(tokens, child.index) # ")"
             THEN Read(Invalid, i)
             ELSE Read(child.query, child.index + 1)
        [] KindAt(tokens, i) = "atom" ->
             Read(AtomQuery(tokens[i].text, defaultField), i + 1)
        [] OTHER -> Read(Invalid, i)

ParseUnary(later, tokens, i, defaultField) ==
  LET child == later[i + 1].unary
  IN  IF KindAt(tokens, i) # "NOT" THEN ParsePrimary(later, tokens, i, defaultField)
      ELSE IF child.query = Invalid THEN child
      ELSE Read(Boolean(<<>>, <<>>, <<child.query>>), child.index)

AndRound(later, tokens, left) ==
  LET right == later[left.index + 1].unary
  IN  IF left.query = Invalid \/ KindAt(tokens, left.index) # "AND" THEN left
      ELSE IF right.query = Invalid THEN right
      ELSE Read(Boolean(<<left.query, right.query>>, <<>>, <<>>), right.index)

\* Fault: what follows NOT is not taken to be another clause.
OrRoundWithoutNot(later, tokens, left) ==
  LET kind  == KindAt(tokens, left.index)
      right == later[IF kind = "OR" THEN left.index + 1 ELSE left.index].all[Len(tokens)]
  IN  IF left.query = Invalid \/ kind \notin {"OR", "atom", "("} THEN left
      ELSE IF right.query = Invalid THEN right
      ELSE Read(Boolean(<<>>, <<left.query, right.query>>, <<>>), right.index)

\* A clause that follows without an operator is joined as if by OR.
OrRound(later, tokens, left) ==
  LET kind  == KindAt(tokens, left.index)
      right == later[IF kind = "OR" THEN left.index + 1 ELSE left.index].all[Len(tokens)]
  IN  IF left.query = Invalid \/ kind \notin {"OR", "atom", "(", "NOT"} THEN left
      ELSE IF right.query = Invalid THEN right
      ELSE Read(Boolean(<<>>, <<left.query, right.query>>, <<>>), right.index)

ParseAnd(later, tokens, unary) ==
  LET left[k \in 0..Len(tokens)] ==
        IF k = 0 THEN unary ELSE AndRound(later, tokens, left[k - 1])
  IN  left

ParseOr(later, tokens, all) ==
  LET left[k \in 0..Len(tokens)] ==
        IF k = 0 THEN all[Len(tokens)] ELSE OrRound(later, tokens, left[k - 1])
  IN  left

\* What is read at each token.
Reads(tokens, defaultField) ==
  LET later[i \in 1..Len(tokens) + 1] ==
        LET unary == ParseUnary(later, tokens, i, defaultField)
            all   == ParseAnd(later, tokens, unary)
        IN  [unary |-> unary, all |-> all, any |-> ParseOr(later, tokens, all)]
  IN  later

NoQuery == [kind |-> "none"]

\* NoQuery for a blank expression; Invalid if it cannot be read to its end.
Parse(expression, defaultField) ==
  LET tokens == Lex(expression)
      read   == Reads(tokens, defaultField)[1].any[Len(tokens)]
  IN  IF Refused(tokens) THEN Invalid
      ELSE IF tokens = <<>> THEN NoQuery
      ELSE IF read.query = Invalid \/ read.index # Len(tokens) + 1 THEN Invalid
      ELSE read.query

-----------------------------------------------------------------------------
\* Every query that is made of a part of the tokens: with each, its clauses.
QueriesIn(tokens, defaultField) ==
  LET reads  == Reads(tokens, defaultField)
      places == 1..Len(tokens) + 1
      rounds == 0..Len(tokens)
  IN  ({reads[i].unary.query : i \in places}
        \cup {reads[i].all[k].query : i \in places, k \in rounds}
        \cup {reads[i].any[k].query : i \in places, k \in rounds}) \ {Invalid}

\* The hits, at most limit of them if it is positive.
Best(hits, limit) ==
  IF limit > 0 THEN SubSeq(hits, 1, Min({limit, Len(hits)})) ELSE hits

\* Index.SearchString: the expression is parsed and, if it is valid, its query
\* given to Index.Search.
Search(ix, expression, defaultField, limit) ==
  LET query   == Parse(expression, defaultField)
      queries == QueriesIn(Lex(expression), defaultField)
  IN  Best(IF query = NoQuery THEN <<>> ELSE Execute(ix, queries, query), limit)
=============================================================================
