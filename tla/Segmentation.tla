---------------------------- MODULE Segmentation ----------------------------
(***************************************************************************)
(* Cutting Chinese text into words (src/analysis/tokenizer/chinese.go and  *)
(* hmm.go): maximum matching against a dictionary, forward, backward or    *)
(* the better of the two, and the hidden Markov model whose Viterbi path   *)
(* labels each character as Begin, Middle or End of a word or as Single.   *)
(*                                                                         *)
(* The trie is the set of its words.  Log probabilities are integers       *)
(* (tenths), NegInf is minus infinity.                                     *)
(***************************************************************************)
EXTENDS Tokenizers

CONSTANTS Dictionary,      \* words: sequences of runes
          NegInf           \* minus infinity: no number, and below them all

ASSUME SegmentationAssumption ==
  /\ \A w \in Dictionary : w \in Seq(WordRunes)
  /\ NegInf \notin Int

Skipped == Spaces \cup Punctuation

\* Fault: Chinese characters are letters too, and are not kept out.
LatinAndHan == WordRunes

LatinRunes == WordRunes \ Han

\* The end of the longest word of the dictionary that begins at i, past i
\* itself if there is none.
Longest(text, i) ==
  LET ends == {e \in i + 1..Len(text) + 1 :
                 SubSeq(text, i, e - 1) \in Dictionary}
  IN  IF ends = {} THEN i + 1 ELSE CHOOSE e \in ends : \A f \in ends : f <= e

\* Fault: the search for a start stops at the first word found to the left
\* of the end, the shortest.
ShortestEndingAt(text, end) ==
  LET starts == {s \in 1..end - 1 : SubSeq(text, s, end - 1) \in Dictionary}
  IN  IF starts = {} THEN end - 1
      ELSE CHOOSE s \in starts : \A r \in starts : r <= s

\* The start of the longest word that ends just before `end'.
LongestEndingAt(text, end) ==
  LET starts == {s \in 1..end - 1 : SubSeq(text, s, end - 1) \in Dictionary}
  IN  IF starts = {} THEN end - 1
      ELSE CHOOSE s \in starts : \A r \in starts : s <= r

ForwardSpan(text, i) ==
  IF text[i] \in Han THEN Span(i, Longest(text, i), "han")
  ELSE IF text[i] \in LatinRunes
       THEN Span(i, RunEnd(text, i, LatinRunes), "word")
  ELSE Span(i, i + 1, "symbol")

ForwardMatching(text) ==
  Scan(1, Len(text) + 1, Places(text, Skipped),
       [i \in 1..Len(text) |-> <<ForwardSpan(text, i)>>])

\* The first place of the run of letters and digits that ends before `end'.
RunStart(text, end) ==
  CHOOSE s \in 1..end - 1 :
    /\ \A k \in s..end - 1 : text[k] \in LatinRunes
    /\ s > 1 => text[s - 1] \notin LatinRunes

BackwardSpan(text, end) ==
  IF text[end - 1] \in Han THEN Span(LongestEndingAt(text, end), end, "han")
  ELSE IF text[end - 1] \in LatinRunes THEN Span(RunStart(text, end), end, "word")
  ELSE Span(end - 1, end, "symbol")

\* tokenizeReverse: from the end of the text to its start; the tokens are
\* then turned round and numbered.
BackwardMatching(text) ==
  LET upTo[end \in 1..Len(text) + 1] ==
        IF end = 1 THEN <<>>
        ELSE IF text[end - 1] \in Skipped THEN upTo[end - 1]
        ELSE upTo[BackwardSpan(text, end).first] \o <<BackwardSpan(text, end)>>
  IN  upTo[Len(text) + 1]

Singles(spans) == Cardinality({n \in 1..Len(spans) : spans[n].end = spans[n].first + 1})

\* Fewer tokens are better, then fewer tokens of one rune; on a tie the
\* forward result stays.
PreferReverse(forward, reverse) ==
  \/ Len(reverse) < Len(forward)
  \/ Len(reverse) = Len(forward) /\ Singles(reverse) < Singles(forward)

ChineseTokenize(mode, text) ==
  TokensOf(text,
    CASE mode = "forward"  -> ForwardMatching(text)
      [] mode = "backward" -> BackwardMatching(text)
      [] mode = "both"     -> IF PreferReverse(ForwardMatching(text), BackwardMatching(text))
                              THEN BackwardMatching(text) ELSE ForwardMatching(text))

-----------------------------------------------------------------------------
(* The hidden Markov model: start, transition, trained emissions by rune   *)
(* and the emission of any other rune.                                     *)

States == {"B", "M", "E", "S"}

LogPlus(a, b) == IF a = NegInf \/ b = NegInf THEN NegInf ELSE a + b
Above(a, b) == a # NegInf /\ (b = NegInf \/ a > b)

\* The order in which states are tried; a later one must be better.
StateOrder == <<"B", "M", "E", "S">>

LegalAfter(from) == IF from \in {"B", "M"} THEN {"M", "E"} ELSE {"B", "S"}

DefaultStart ==
  [s \in States |-> CASE s = "B" -> -5 [] s = "S" -> -8 [] OTHER -> NegInf]
DefaultTransition ==
  [from \in States |-> [to \in States |-> IF to \in LegalAfter(from) THEN -7 ELSE NegInf]]
DefaultUnknown ==
  [s \in States |-> CASE s \in {"B", "E"} -> -6 [] s = "M" -> -8 [] s = "S" -> -9]

\* DefaultHMMModel with the given trained emissions.
Model(trained) ==
  [start |-> DefaultStart, transition |-> DefaultTransition,
   trained |-> trained, unknown |-> DefaultUnknown]

Emission(m, r, s) ==
  IF r \in DOMAIN m.trained THEN m.trained[r][s] ELSE m.unknown[s]

\* The predecessor with the best score, the first of several; Begin when
\* none is better than minus infinity.
BestPrevious(m, scores, s) ==
  LET score(p) == LogPlus(scores[p], m.transition[p][s])
      best(k, l) == IF Above(score(StateOrder[l]), score(StateOrder[k])) THEN l ELSE k
  IN  StateOrder[best(best(best(1, 2), 3), 4)]

\* Fault: a column forgets the emission of its own rune.
ColumnWithoutEmission(m, scores, r) ==
  [s \in States |->
     LET p == BestPrevious(m, scores, s)
     IN  LogPlus(scores[p], m.transition[p][s])]

Column(m, scores, r) ==
  [s \in States |->
     LET p == BestPrevious(m, scores, s)
     IN  LogPlus(LogPlus(scores[p], m.transition[p][s]), Emission(m, r, s))]

\* The labels of a non-empty text: the scores forward, then the better of
\* the two legal last labels, End on a tie, and its predecessors backward.
Viterbi(m, text) ==
  LET n == Len(text)
      scores[k \in 1..n] ==
        IF k = 1 THEN [s \in States |-> LogPlus(m.start[s], Emission(m, text[1], s))]
        ELSE Column(m, scores[k - 1], text[k])
      label[k \in 1..n] ==
        IF k = n THEN IF Above(scores[n]["S"], scores[n]["E"]) THEN "S" ELSE "E"
        ELSE BestPrevious(m, scores[k], label[k + 1])
  IN  [k \in 1..n |-> label[k]]

\* Segment and wordsFromStates: the words of the run of characters from i to
\* before `end'.  A word ends after each End and Single and, whatever its
\* label, after the last character.
Words(m, text, i, end) ==
  LET labels == Viterbi(m, SubSeq(text, i, end - 1))
      ends == {e \in i + 1..end : e = end \/ labels[e - i] \in {"E", "S"}}
      word(k) == Span(k, CHOOSE e \in ends : e > k /\ \A f \in ends : f > k => e <= f, "han")
  IN  Scan(i, end, {}, [k \in i..end - 1 |-> <<word(k)>>])

\* HMMTokenizer: the model cuts each run of Chinese characters.
HMMTokenize(m, text) ==
  LET next(i) ==
        IF text[i] \in Han THEN Words(m, text, i, RunEnd(text, i, Han))
        ELSE IF text[i] \in LatinRunes
             THEN <<Span(i, RunEnd(text, i, LatinRunes), "word")>>
        ELSE <<Span(i, i + 1, "symbol")>>
  IN  TokensOf(text, Scan(1, Len(text) + 1, Places(text, Skipped),
                          [i \in 1..Len(text) |-> next(i)]))

-----------------------------------------------------------------------------
(* What segmentation promises.                                             *)

\* In every mode the tokens cover the text except its blanks and
\* punctuation: no character is lost, also not one no word contains; and a
\* run of letters and digits takes in no Chinese (the comment of
\* ChineseTokenizer, TestHMMTokenizerViterbi).
SegmentsCoverText(m, text) ==
  LET covers(tokens) ==
        /\ CoverExactly(text, tokens, Runes \ Skipped)
        /\ \A n \in 1..Len(tokens) : tokens[n].type = "word" =>
             \A k \in 1..Len(tokens[n].term) : tokens[n].term[k] \notin Han
  IN  /\ \A mode \in {"forward", "backward", "both"} :
           covers(ChineseTokenize(mode, text))
      /\ covers(HMMTokenize(m, text))

\* Matching is maximal: a Chinese token of several runes is a word, and no
\* longer word begins where a forward token begins or ends where a backward
\* one ends; the bidirectional result never has more tokens than either, and
\* with as many never more single runes (ChineseMode in chinese.go).
MatchingIsMaximal(text) ==
  LET forward  == ForwardMatching(text)
      backward == BackwardMatching(text)
      both     == ChineseTokenize("both", text)
      Word(i, e) == SubSeq(text, i, e - 1) \in Dictionary
      Runs(tokens) == Cardinality({n \in 1..Len(tokens) : Len(tokens[n].term) = 1})
  IN  /\ \A n \in 1..Len(forward) :
           LET s == forward[n]
           IN  s.type = "han" =>
                 /\ Word(s.first, s.end) \/ s.end = s.first + 1
                 /\ \A e \in s.end + 1..Len(text) + 1 : ~Word(s.first, e)
      /\ \A n \in 1..Len(backward) :
           LET s == backward[n]
           IN  s.type = "han" =>
                 /\ Word(s.first, s.end) \/ s.end = s.first + 1
                 /\ \A i \in 1..s.first - 1 : ~Word(i, s.end)
      /\ \A spans \in {forward, backward} :
           \/ Len(both) < Len(spans)
           \/ Len(both) = Len(spans) /\ Runs(both) <= Singles(spans)

\* The labels found by dynamic programming are a path of the highest score
\* of all paths that end in End or Single, computed here path by path, and
\* a legal one, as long as the model gives any such path a score at all
\* (HMMModel.Segment).
ViterbiIsOptimal(m, text) ==
  LET n == Len(text)
      score(path) ==
        LET upTo[k \in 1..n] ==
              LogPlus(IF k = 1 THEN m.start[path[1]]
                      ELSE LogPlus(upTo[k - 1], m.transition[path[k - 1]][path[k]]),
                      Emission(m, text[k], path[k]))
        IN  upTo[n]
      paths == {p \in [1..n -> States] : p[n] \in {"E", "S"}}
  IN  \A found \in {Viterbi(m, text)} :
        \A best \in {score(found)} :
          /\ found[n] \in {"E", "S"}
          /\ \A p \in paths : ~Above(score(p), best)
          /\ best # NegInf =>
               \A k \in 1..n - 1 : found[k + 1] \in LegalAfter(found[k])
=============================================================================
