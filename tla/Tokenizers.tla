----------------------------- MODULE Tokenizers -----------------------------
(***************************************************************************)
(* The tokenizers for text in words and the filters behind them            *)
(* (src/analysis): WhitespaceTokenizer, SimpleTokenizer,                   *)
(* StandardTokenizer, LowercaseFilter, StopWordFilter and the default      *)
(* analysis chain of analysis/standard.                                    *)
(*                                                                         *)
(* A text is a sequence of runes.  A rune is known by the classes the code *)
(* asks for; Width gives the bytes it takes in UTF-8, and offsets are in   *)
(* bytes.  Only valid UTF-8 is modelled: there the two ways the code       *)
(* computes offsets agree.                                                 *)
(***************************************************************************)
EXTENDS Integers, Sequences, FiniteSets

CONSTANTS Letters, Digits, Spaces, Punctuation, Han,
          Width,          \* bytes of each rune
          LowerCase,      \* from an upper case letter to its lower case
          URLPrefixes,    \* "http://", "https://" and "www.", scaled down
          StopWords       \* words left out of the index

Runes == DOMAIN Width
WordRunes == Letters \cup Digits

\* What a word or a number may hold besides, and what a URL does not end in.
Connectors == {".", "_", "+", "-", "@"}
Closing == {".", ",", ";", ":", "!", "?", ")", "]", "}"}

ASSUME RunesAssumption ==
  /\ Han \subseteq Letters
  /\ Letters \cap Digits = {}
  /\ WordRunes \cap (Spaces \cup Punctuation) = {}
  /\ (Connectors \cup Closing) \cap (WordRunes \cup Spaces) = {}
  /\ \A r \in Runes : Width[r] \in 1..4
  /\ \A r \in DOMAIN LowerCase : r \in Letters /\ LowerCase[r] \in Runes
  /\ \A p \in URLPrefixes : p \in Seq(Letters \cup Punctuation) /\ p # <<>> /\ p[1] \in Letters

\* The places of the runes of a class.
Places(text, class) == {k \in 1..Len(text) : text[k] \in class}

\* The byte at which the k-th rune begins, or the length for k = Len + 1.
Offset(text, k) ==
  LET upTo[i \in 1..Len(text) + 1] ==
        IF i = 1 THEN 0 ELSE upTo[i - 1] + Width[text[i - 1]]
  IN  upTo[k]

\* Just past the run of runes of the class that begins at i, or i itself.
RunEnd(text, i, class) ==
  CHOOSE e \in i..Len(text) + 1 :
    /\ \A k \in i..e - 1 : text[k] \in class
    /\ e <= Len(text) => text[e] \notin class

Span(first, end, type) == [first |-> first, end |-> end, type |-> type]

\* appendToken: the token of each span of runes, with its place in the order
\* as Position.
TokensOf(text, spans) ==
  [k \in 1..Len(spans) |->
     [term |-> SubSeq(text, spans[k].first, spans[k].end - 1),
      position |-> k - 1,
      start |-> Offset(text, spans[k].first),
      end |-> Offset(text, spans[k].end),
      type |-> spans[k].type]]

\* The loop of the tokenizers, from lo to before hi: a place to skip is passed
\* over, at any other one the spans that begin there are appended and the
\* loop goes on behind the last of them.
Scan(lo, hi, skip, next) ==
  LET from[i \in lo..hi] ==
        IF i = hi THEN <<>>
        ELSE IF i \in skip THEN from[i + 1]
        ELSE next[i] \o from[next[i][Len(next[i])].end]
  IN  from[lo]

\* The runs of the runes of a class.
RunsOf(text, class) ==
  Scan(1, Len(text) + 1, Places(text, Runes \ class),
       [i \in 1..Len(text) |-> <<Span(i, RunEnd(text, i, class), "word")>>])

WhitespaceTokenize(text) == TokensOf(text, RunsOf(text, Runes \ Spaces))

SimpleTokenize(text) == TokensOf(text, RunsOf(text, WordRunes))

-----------------------------------------------------------------------------
(* StandardTokenizer.                                                      *)

Lower(r) == IF r \in DOMAIN LowerCase THEN LowerCase[r] ELSE r
LowerText(text) == [k \in 1..Len(text) |-> Lower(text[k])]

HasURLPrefix(text, i) ==
  \E p \in URLPrefixes :
    /\ i + Len(p) <= Len(text) + 1
    /\ LowerText(SubSeq(text, i, i + Len(p) - 1)) = p

\* Fault: the punctuation that ends a sentence stays in the URL.
URLEndToSpace(text, i) == RunEnd(text, i, Runes \ Spaces)

\* A URL goes on to the next space and gives its closing punctuation back.
URLEnd(text, i) ==
  LET space == RunEnd(text, i, Runes \ Spaces)
  IN  CHOOSE e \in i..space :
        /\ \A k \in e..space - 1 : text[k] \in Closing
        /\ e > i => text[e - 1] \notin Closing

WordType(word) ==
  LET runes == {word[k] : k \in 1..Len(word)}
  IN  IF "@" \in runes THEN "email"
      ELSE IF runes \subseteq Digits \cup {".", ",", "+", "-"} THEN "number"
      ELSE "word"

\* The token that begins at i: a URL, a word or a single rune.
StandardSpan(text, i) ==
  IF HasURLPrefix(text, i) THEN Span(i, URLEnd(text, i), "url")
  ELSE IF text[i] \in WordRunes
       THEN LET end == RunEnd(text, i, WordRunes \cup Connectors)
            IN  Span(i, end, WordType(SubSeq(text, i, end - 1)))
  ELSE Span(i, i + 1, "symbol")

StandardTokenize(text) ==
  TokensOf(text, Scan(1, Len(text) + 1, Places(text, Spaces),
                      [i \in 1..Len(text) |-> <<StandardSpan(text, i)>>]))

-----------------------------------------------------------------------------
(* The filters, and the default chain.                                     *)

LowercaseFilter(tokens) ==
  [k \in 1..Len(tokens) |-> [tokens[k] EXCEPT !.term = LowerText(@)]]

\* The elements of s that are in S, in their order.
Kept(s, S) ==
  LET upTo[k \in 0..Len(s)] ==
        IF k = 0 THEN <<>>
        ELSE IF s[k] \in S THEN Append(upTo[k - 1], s[k]) ELSE upTo[k - 1]
  IN  upTo[Len(s)]

\* Tokens are dropped, positions stay: phrase queries see the gap.
StopWordFilter(tokens) ==
  Kept(tokens, {tokens[k] : k \in {j \in 1..Len(tokens) : tokens[j].term \notin StopWords}})

Analyze(text) == StopWordFilter(LowercaseFilter(StandardTokenize(text)))

-----------------------------------------------------------------------------
(* What the tokenizers promise.                                            *)

\* The tokens lie in the text in order and apart, each holds the runes
\* between its offsets, and together they cover the runes of the class and
\* no others.
CoverExactly(text, tokens, class) ==
  LET RuneAt(offset) ==
        CHOOSE k \in 1..Len(text) + 1 : Offset(text, k) = offset
      first(t) == RuneAt(t.start)
      end(t)   == RuneAt(t.end)
  IN  /\ \A n \in 1..Len(tokens) :
           /\ tokens[n].position = n - 1
           /\ first(tokens[n]) < end(tokens[n])
           /\ tokens[n].term =
                SubSeq(text, first(tokens[n]), end(tokens[n]) - 1)
           /\ n > 1 => end(tokens[n - 1]) <= first(tokens[n])
      /\ {k \in 1..Len(text) : text[k] \in class} =
           UNION {first(tokens[n])..end(tokens[n]) - 1 : n \in 1..Len(tokens)}

\* No rune of the text is lost or read twice by the three tokenizers, a
\* token of the first two is a whole run (it touches no other token), and
\* the standard tokenizer never leaves closing punctuation in a URL nor cuts
\* a word in two: where two tokens touch, the second could not have
\* continued the first (WhitespaceTokenizer, SimpleTokenizer and
\* StandardTokenizer).
TokensCoverText(text) ==
  LET apart(tokens) ==
        \A n \in 2..Len(tokens) : tokens[n - 1].end < tokens[n].start
      standard == StandardTokenize(text)
  IN  /\ CoverExactly(text, WhitespaceTokenize(text), Runes \ Spaces)
      /\ CoverExactly(text, SimpleTokenize(text), WordRunes)
      /\ CoverExactly(text, standard, Runes \ Spaces)
      /\ apart(WhitespaceTokenize(text))
      /\ apart(SimpleTokenize(text))
      /\ \A n \in 1..Len(standard) :
           LET t == standard[n]
           IN  /\ t.type = "url" => t.term[Len(t.term)] \notin Closing
               /\ t.type = "symbol" => Len(t.term) = 1
               /\ (n > 1 /\ standard[n - 1].end = t.start
                         /\ standard[n - 1].type \in {"word", "number", "email"})
                    => t.term[1] \notin WordRunes \cup Connectors
=============================================================================
