----------------------------- MODULE QueryLexer -----------------------------
(***************************************************************************)
(* The lexer of the query language (lex in src/query/parser.go).           *)
(*                                                                         *)
(* An expression is a sequence of runes.  The words AND, OR and NOT, in    *)
(* any case, are one rune each.                                            *)
(***************************************************************************)
EXTENDS Tokenizers

Quote == "\""
Keywords == {"AND", "OR", "NOT"}
Parentheses == {"(", ")"}

ASSUME LexerAssumption == (Parentheses \cup {Quote}) \cap Spaces = {}

\* Whether a quote is open at k, for a reader that begins at i (inQuote).
InQuote(runes, i, k) == Cardinality({j \in i..k - 1 : runes[j] = Quote}) % 2 = 1

\* Just past the atom that begins at i: it ends before a space or parenthesis
\* outside quotes.
AtomEnd(runes, i) ==
  LET ends(k) == runes[k] \in Spaces \cup Parentheses /\ ~InQuote(runes, i, k)
  IN  CHOOSE e \in i..Len(runes) + 1 :
        /\ \A k \in i..e - 1 : ~ends(k)
        /\ e <= Len(runes) => ends(e)

\* The kind of what was read: a keyword only if it is all of it.
KindOf(value) ==
  IF Len(value) = 1 /\ value[1] \in Keywords THEN value[1] ELSE "atom"

\* Fault: quotes do not keep spaces and parentheses from ending an atom.
LexSpanUnquoted(runes, i) ==
  IF runes[i] \in Parentheses THEN Span(i, i + 1, runes[i])
  ELSE LET end == RunEnd(runes, i, Runes \ (Spaces \cup Parentheses))
       IN  Span(i, end, KindOf(SubSeq(runes, i, end - 1)))

\* The token that begins at i: a parenthesis or an atom, or all that is left
\* if a quote stays open.
LexSpan(runes, i) ==
  IF runes[i] \in Parentheses THEN Span(i, i + 1, runes[i])
  ELSE LET end == AtomEnd(runes, i)
       IN  Span(i, end, IF InQuote(runes, i, end) THEN "unclosed"
                        ELSE KindOf(SubSeq(runes, i, end - 1)))

\* The loop of lex: spaces are passed over, at any other place a token begins.
LexSpans(runes) ==
  Scan(1, Len(runes) + 1, Places(runes, Spaces),
       [i \in 1..Len(runes) |-> <<LexSpan(runes, i)>>])

Token(kind, text) == [kind |-> kind, text |-> text]

\* The tokens of an expression; it is refused if one of them is unclosed.
Lex(runes) ==
  LET spans == LexSpans(runes)
  IN  [k \in 1..Len(spans) |->
         Token(spans[k].type, SubSeq(runes, spans[k].first, spans[k].end - 1))]

Refused(tokens) == \E k \in 1..Len(tokens) : tokens[k].kind = "unclosed"

-----------------------------------------------------------------------------
(* What the lexer promises.                                                *)

\* Whether the k-th rune stands inside quotes.
Quoted(runes, k) == InQuote(runes, 1, k)

\* An expression is refused exactly if a quote stays open, and otherwise cut
\* exactly at the spaces and parentheses outside quotes: a token begins at
\* each place where one of these has ended and goes on to the next of them,
\* nothing is lost but those spaces, and only a token that is all one keyword
\* or parenthesis is read as one (lex).
LexCutsOutsideQuotes(runes) ==
  LET tokens == Lex(runes)
      n == Len(runes)
      blank(k) == runes[k] \in Spaces /\ ~Quoted(runes, k)
      paren(k) == runes[k] \in Parentheses /\ ~Quoted(runes, k)
      begins == {k \in 1..n : /\ ~blank(k)
                              /\ k = 1 \/ paren(k) \/ blank(k - 1) \/ paren(k - 1)}
      number(k) == Cardinality({j \in begins : j <= k})
  IN  /\ Refused(tokens) <=> Quoted(runes, n + 1)
      /\ ~Refused(tokens) =>
           /\ Len(tokens) = Cardinality(begins)
           /\ \A k \in begins : \E e \in k + 1..n + 1 :
                LET token == tokens[number(k)]
                IN  /\ token.text = SubSeq(runes, k, e - 1)
                    /\ \A j \in k + 1..e - 1 : ~blank(j) /\ j \notin begins
                    /\ e <= n => blank(e) \/ e \in begins
                    /\ token.kind = IF /\ Len(token.text) = 1
                                       /\ token.text[1] \in Keywords \cup Parentheses
                                    THEN token.text[1] ELSE "atom"
=============================================================================
