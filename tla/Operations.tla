----------------------------- MODULE Operations -----------------------------
(***************************************************************************)
(* The operations of Koris that keep no state and work on one value at a   *)
(* time: the posting codec and the merging of posting lists (src/inverted),*)
(* the tokenizers (src/analysis), search summaries (src/highlight), the    *)
(* comparisons of words in queries, queries themselves on an index that    *)
(* stays as it is, and the language they are written in (src/query).  A    *)
(* client calls one operation on one input at a time (`call'); each        *)
(* invariant states what the operation promises for every input.  The      *)
(* inputs are constants.                                                   *)
(***************************************************************************)
EXTENDS Segmentation, Highlighting, QueryMeaning

CONSTANTS PostingIDs,        \* given to NewPosting
          PositionLists,     \* likewise
          EncodedData,       \* read by DecodePosting
          PostingLists,      \* merged
          Texts,             \* for each operation on texts, those it is given
          Trained,           \* likewise, the emissions of models, by rune
          Sizes, Limits,     \* of fragments
          WantedTerms,       \* of a search, for its summary
          Phrases,           \* positions of the words, and their places
          Slops,
          Cutoffs,           \* of edit distances
          Library,           \* the texts that are searched, by ID and field
          Asked,             \* queries, in sets; clauses are in earlier sets
          Field,             \* that is written
          DefaultField       \* of what is written without a field

ASSUME PostingInputs ==
  /\ \A s \in PositionLists : s \in Seq(Numbers(W32)) /\ Len(s) < W32
  /\ \A id \in PostingIDs : id \in Seq(ByteValues) /\ Len(id) < W64
  /\ \A d \in EncodedData : d \in Seq(ByteValues)
  /\ \A s \in PostingLists :
       /\ s \in Seq([id : Int, frequency : Int, positions : Seq(Int)])
       /\ \A k \in 1..Len(s) - 1 : s[k].id < s[k + 1].id

TextOperations == {"tokenize", "segment", "viterbi", "highlight", "levenshtein",
                   "lex", "search", "write", "quote"}

ASSUME TextInputs ==
  /\ DOMAIN Texts = TextOperations
  /\ \A op \in TextOperations : \A text \in Texts[op] : text \in Seq(Runes)
  /\ <<>> \notin Texts["viterbi"]
  /\ \A op \in {"segment", "viterbi"} : \A t \in Trained[op] :
       \A r \in DOMAIN t : t[r] \in [States -> Int \cup {NegInf}]
  /\ Sizes \subseteq Nat \ {0} /\ Limits \subseteq Nat \ {0}
  /\ Cutoffs \subseteq Nat

\* The words of a phrase follow each other, and no position is so high that
\* the place of the next word would be past 2^32.
ASSUME PhraseInputs ==
  /\ \A p \in Phrases :
       /\ Len(p.relative) = Len(p.positions) /\ p.positions # <<>>
       /\ p.relative \in Seq(Numbers(W32)) /\ Increasing(p.relative) /\ p.relative[1] = 0
       /\ p.positions \in Seq(Seq(Numbers(W32)))
       /\ \A k \in 1..Len(p.positions) : Increasing(p.positions[k])
       /\ \A k \in 2..Len(p.positions) : \A x \in ElementsOf(p.positions[k - 1]) :
            x + p.relative[k] - p.relative[k - 1] < W32
  /\ Slops \subseteq Numbers(W32)

Collection == Indexed(Library)

\* Every query that is asked, and with it its clauses.
Pool == UNION {Asked[n] : n \in 1..Len(Asked)}

OneFieldQueries ==
  [kind : {"term"}, field : Seq(Runes), term : Seq(Runes)]
    \cup [kind : {"prefix"}, field : Seq(Runes), prefix : Seq(Runes)]
    \cup [kind : {"fuzzy"}, field : Seq(Runes), term : Seq(Runes), maxEdits : Int]
    \cup [kind : {"match"}, field : Seq(Runes), text : Seq(Runes), operator : {"AND", "OR"}]
    \cup [kind : {"phrase"}, field : Seq(Runes), text : Seq(Runes), slop : Numbers(W32)]

\* The positions where these phrases would end in the texts of the library are
\* numbers below 2^32.
RoomForPhrases(queries) ==
  \A q \in queries : q.kind = "phrase" =>
    \A id \in DOMAIN Library : \A field \in DOMAIN Library[id] :
      Len(StandardTokenize(Library[id][field])) + Len(StandardTokenize(q.text)) <= W32

\* So are the positions of the tokens.
ASSUME QueryInputs ==
  /\ Asked \in Seq(SUBSET Pool)
  /\ DOMAIN Library \subseteq Nat /\ IsFiniteSet(DOMAIN Library)
  /\ \A id \in DOMAIN Library : \A field \in DOMAIN Library[id] :
       LET text == Library[id][field]
       IN  /\ field # <<>> /\ text \in Seq(Runes)
           /\ Len(StandardTokenize(text)) < W32
  /\ RoomForPhrases(Pool)
  /\ \A q \in Pool :
       \/ q \in OneFieldQueries
       \/ q.kind = "boolean" /\ q = Boolean(q.must, q.should, q.mustNot)
  /\ \A n \in 1..Len(Asked) : \A q \in Asked[n] : q.kind = "boolean" =>
       LET earlier == UNION {Asked[m] : m \in 1..n - 1}
       IN  q.must \in Seq(earlier) /\ q.should \in Seq(earlier) /\ q.mustNot \in Seq(earlier)

\* A field is a word without a colon; what is written holds no quotes.
ASSUME LanguageInputs ==
  /\ {":", Quote} \subseteq Runes
  /\ Field \in Seq(Runes) \ {<<>>} /\ DefaultField # <<>>
  /\ \A k \in 1..Len(Field) : Field[k] \notin Spaces \cup Parentheses \cup {Quote, ":"}
  /\ \A text \in Texts["write"] : \A k \in 1..Len(text) : text[k] # Quote
  /\ \A text \in Texts["search"] : RoomForPhrases(QueriesIn(Lex(text), DefaultField))

VARIABLE call

NoCall == [op |-> "none"]

-----------------------------------------------------------------------------
CallCodec ==
  \/ \E id \in PostingIDs, positions \in PositionLists :
       call' = [op |-> "encode", id |-> id, positions |-> positions]
  \/ \E data \in EncodedData : call' = [op |-> "decode", data |-> data]

CallMerge ==
  \E left, right \in PostingLists :
    call' = [op |-> "merge", left |-> left, right |-> right]

CallTokenize ==
  \E text \in Texts["tokenize"] : call' = [op |-> "tokenize", text |-> text]

CallSegment ==
  \E op \in {"segment", "viterbi"} : \E text \in Texts[op], trained \in Trained[op] :
    call' = [op |-> op, text |-> text, model |-> Model(trained)]

CallHighlight ==
  \E text \in Texts["highlight"], size \in Sizes, n \in Limits :
    call' = [op |-> "highlight", text |-> text, size |-> size, max |-> n]

CallPositions ==
  \E phrase \in Phrases, slop \in Slops :
    call' = [op |-> "positions", positions |-> phrase.positions,
             relative |-> phrase.relative, slop |-> slop]

CallLevenshtein ==
  \E a, b \in Texts["levenshtein"], cutoff \in Cutoffs :
    call' = [op |-> "levenshtein", a |-> a, b |-> b, cutoff |-> cutoff]

CallLex == \E text \in Texts["lex"] : call' = [op |-> "lex", text |-> text]

CallQuery == \E q \in Pool : call' = [op |-> "query", query |-> q]

CallParse ==
  \E op \in {"search", "write", "quote"} : \E text \in Texts[op] :
    call' = [op |-> op, text |-> text]

Operate ==
  /\ call = NoCall
  /\ \/ CallCodec \/ CallMerge \/ CallTokenize \/ CallSegment \/ CallHighlight
     \/ CallPositions \/ CallLevenshtein \/ CallQuery \/ CallLex \/ CallParse

Answer ==
  /\ call # NoCall
  /\ call' = NoCall

OperationsInit == call = NoCall
OperationsNext == Operate \/ Answer

OperationsSpec == OperationsInit /\ [][OperationsNext]_call

-----------------------------------------------------------------------------
\* Every posting survives its encoding.  No data is read as a posting but its
\* encoding, short of zeros at the end of a varint and of an overflow of the
\* sum of the deltas, and none that goes on or breaks off (RoundTrip,
\* AcceptsOnlyPostings and EndIsNoticed in Postings).
CodecIsExact ==
  /\ call.op = "encode" => RoundTrip(call.id, call.positions)
  /\ call.op = "decode" => AcceptsOnlyPostings(call.data) /\ EndIsNoticed(call.data)

\* What codec.go:36-37, codec.go:59 and phrase.go:103 say: data whose deltas
\* overflow is refused, so the positions of a decoded posting ascend.  The code
\* does otherwise (see README).
AcceptedPositionsAscend ==
  call.op = "decode" /\ DecodePosting(call.data) # NoPosting =>
    InOrder(DecodePosting(call.data).positions)

\* Intersection and union of posting lists are exact (Postings).
ListsMergeExactly == call.op = "merge" => MergesExactly(call.left, call.right)

\* No tokenizer loses or repeats a rune of a text (Tokenizers).
TextsAreCovered == call.op = "tokenize" => TokensCoverText(call.text)

\* No way of cutting Chinese text loses or repeats a character, and none
\* mixes letters and Chinese by itself (Segmentation).
ChineseIsCovered ==
  call.op = "segment" => SegmentsCoverText(call.model, call.text)

\* Dictionary words are matched maximally in all three modes (Segmentation).
WordsAreMaximal == call.op = "segment" => MatchingIsMaximal(call.text)

\* The Viterbi labels are a legal path of the highest score (Segmentation).
LabelsAreOptimal ==
  call.op = "viterbi" => ViterbiIsOptimal(call.model, call.text)

\* Fragments lie in the text, on whole runes, around their matches
\* (Highlighting).
FragmentsFit ==
  call.op = "highlight" =>
    FragmentsFitText(call.text, WantedTerms, call.size, call.max)

\* Rendering keeps the text and tags each match once (Highlighting).
FragmentsAreExact ==
  call.op = "highlight" =>
    RenderingIsExact(call.text, WantedTerms, call.size, call.max)

\* Greedy phrase matching misses no match within the slop (Matching).
PhrasesAreExact ==
  call.op = "positions" =>
    PhraseIsExact(call.positions, call.relative, call.slop)

\* The early exits of the edit distance turn no candidate away
\* (Matching).
DistancesAreExact ==
  call.op = "levenshtein" => LevenshteinIsExact(call.a, call.b, call.cutoff)

\* Queries return exactly what satisfies them, scored and ordered
\* (QueryResults).
QueriesAreExact == call.op = "query" => AnswersExactly(Collection, Pool, call.query)

\* Expressions are cut at the spaces and parentheses outside quotes
\* (QueryLexer).
LexingIsExact == call.op = "lex" => LexCutsOutsideQuotes(call.text)

\* Fields, phrases, prefixes and words are read as written (QueryMeaning).
WritingIsRead ==
  call.op = "write" => ReadsWhatIsWritten(Field, call.text, DefaultField)

\* Expressions mean what the grammar says (QueryMeaning).
SearchesFollowGrammar ==
  call.op = "search" => SearchesByGrammar(Collection, call.text, DefaultField)

\* Quoting a document finds it (QueryMeaning); no text of Texts["quote"] holds
\* a quote itself.
QuotationsFind ==
  call.op = "quote" => QuotationFindsDocument(call.text, DefaultField)
=============================================================================
