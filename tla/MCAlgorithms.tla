---------------------------- MODULE MCAlgorithms ----------------------------
(***************************************************************************)
(* The parts of Koris that keep no shared state, on small inputs: a client *)
(* of one part (`client') calls one operation on one input at a time       *)
(* (`call'), or moves a cursor.  Each invariant states what an operation   *)
(* promises for every input.                                               *)
(***************************************************************************)
EXTENDS Cursors, Operations

VARIABLE client      \* the part that is used

vars == <<cursorVars, client, call>>

\* Constants.  The widths are scaled down, a byte to 3 bits and a uint64 to 5;
\* so are the prefixes of URLs.
MCW32 == 8
MCW64 == 32
MCVarintBase == 4
MCMaxVarintLen == 3
MCKeys == 1..9
MCTargets == 0..10
Sorted(S) == SelectSeq([k \in 1..10 |-> k - 1], LAMBDA k : k \in S)
MCLists == {Sorted(S) : S \in SUBSET MCKeys}
MCLetters == {"a", "b", "A", "w", "t", "AND", "OR", "NOT", "h1", "h2", "h3"}
MCHan == {"h1", "h2", "h3"}
MCDigits == {"1"}
MCSpaces == {" "}
MCPunctuation == {".", ",", "@", ":", "*", "(", ")", "\""}
MCWidth ==
  [r \in MCLetters \cup MCDigits \cup MCSpaces \cup MCPunctuation \cup {"euro"}
     |-> IF r \in MCHan \cup {"AND", "NOT", "euro"} THEN 3
         ELSE IF r = "OR" THEN 2 ELSE 1]
MCLowerCase == [r \in {"A"} |-> "a"]
MCURLPrefixes == {<<"w", ".">>}
MCStopWords == {<<"t">>}
MCDictionary ==
  {<<"h1", "h2">>, <<"h2", "h3", "h1">>, <<"h3", "h1">>, <<"h1", "a">>,
   <<"h2", "h2">>}

Strings(runes, n) == BoundedSeq(runes, n)

\* The words of an expression, with a space after each.
Spaced(words) ==
  [k \in 1..2 * Len(words) |-> IF k % 2 = 0 THEN " " ELSE words[(k + 1) \div 2]]

Sentences ==
  Strings({"a", "b", "AND", "OR", "NOT", "(", ")"}, 4)
    \cup Strings({"a", "b", "AND", "OR", "NOT"}, 5)
    \cup {<<"(">> \o inner \o <<")">> \o rest :
            inner \in Strings({"a", "b", "OR", "NOT"}, 3),
            rest \in Strings({"b", "AND", "NOT"}, 2)}
    \cup Strings({"a", "\"", "OR"}, 4)

\* The inputs of Operations.
MCPositionLists == Strings({0, 3, 6, 7}, 4)
MCPostingIDs == {<<>>, <<1>>, <<7, 0, 4, 4, 4>>}
\* Varints at their shortest and with zeros at the end, one that is cut off
\* and one that does not fit.
MCVarints ==
  {<<0>>, <<1>>, <<4, 0>>, <<7, 1>>, <<4, 2>>, <<7, 7, 1>>, <<7, 7, 2>>, <<5>>}
MCEncodedData ==
  {head \o counts \o FlattenSeq(deltas) :
     head   \in {<<>>, <<0>>, <<1, 7>>, <<5, 0, 7>>, <<2, 1>>},
     counts \in {<<0, 0>>, <<1, 1>>, <<2, 2>>, <<1, 5, 0>>, <<6, 4, 0, 2>>, <<2, 1>>, <<4, 2, 4, 2>>},
     deltas \in Strings(MCVarints, 2)}
MCPostingLists ==
  {[k \in 1..Cardinality(S) |-> [id |-> Sorted(S)[k], frequency |-> n, positions |-> <<>>]] :
     S \in SUBSET (1..4), n \in {1, 2}}
MCTexts ==
  [tokenize    |-> Strings({"w", "A", "1", ".", "@", ",", " "}, 5),
   segment     |-> Strings({"h1", "h2", "h3", "a", "."}, 4) \cup Strings(MCHan, 5),
   viterbi     |-> Strings({"h1", "h2"}, 3) \ {<<>>},
   highlight   |-> Strings({"a", " ", "euro"}, 6),
   levenshtein |-> Strings({"a", "b"}, 3),
   lex         |-> Strings({"a", " ", "\"", "(", ")"}, 4)
                     \cup Strings({"a", "AND", " ", "\"", ")"}, 5),
   search      |-> {Spaced(words) : words \in Sentences},
   write       |-> Strings({"a", "AND", " ", ":", "*", "("}, 4),
   quote       |-> Strings({"a", "w", ".", "t", " ", ","}, 4)]
MCFavoring(state) == [s \in States |-> IF s = state THEN -1 ELSE -9]
MCTrained ==
  [segment |-> {[r \in {"h1"} |-> MCFavoring(s)] : s \in {"B", "S"}},
   viterbi |-> {[r \in {"h1"} |-> scores] : scores \in [States -> {-1, -9, NegInf}]}]
MCSizes == {1, 2, 4, 7}
MCLimits == {1, 2}
MCSlops == {0, 1, W32 - 1}
MCCutoffs == 1..3
MCWantedTerms == {<<"a">>, <<"a", "a">>}
MCPhrases ==
  [positions : [1..3 -> {Sorted(S) : S \in SUBSET (0..3) \ {{}}}],
   relative  : {<<0, gap1, gap1 + gap2>> : gap1 \in {1, 2}, gap2 \in {1, 2}}]

\* The documents that queries are asked of, and the queries.
F == <<"a">>
G == <<"b">>
MCLibrary ==
  (1 :> (F :> <<"b", " ", "b">>)) @@
  (2 :> (F :> <<"b", " ", "t", " ", "a", "b">>)) @@
  (3 :> (F :> <<"a", " ", "t", " ", "b", " ", "a">> @@ G :> <<"a">>)) @@
  (4 :> (G :> <<"b">>)) @@
  (5 :> (F :> <<"A">>))

MCLeaves ==
  {Match(F, <<"a", " ", "b">>, "OR"), Match(F, <<"b", " ", "A", " ", "b">>, "AND"),
   Phrase(F, <<"a", " ", "t", " ", "b">>, 0), Phrase(F, <<"a", " ", "b">>, 1),
   Prefix(F, <<"A">>), Prefix(F, <<"t">>), Fuzzy(F, <<"b">>, 1), Fuzzy(F, <<"b">>, 5),
   Term(G, <<"a">>), Term(G, <<"b">>), Term(F, <<"A">>), Match(F, <<"t">>, "AND"),
   Prefix(F, <<"b">>)}

MCExclusion == Boolean(<<>>, <<>>, <<Prefix(F, <<"b">>)>>)

MCClauses ==
  {Match(F, <<"a", " ", "b">>, "OR"), Phrase(F, <<"a", " ", "b">>, 1), Term(G, <<"b">>),
   MCExclusion}

MCAsked ==
  <<MCLeaves, {MCExclusion},
    {Boolean(lists[1], lists[2], mustNot) :
       lists \in {l \in BoundedSeq(MCClauses, 2) \X BoundedSeq(MCClauses, 2) :
                    Len(l[1]) + Len(l[2]) <= 3},
       mustNot \in BoundedSeq(MCClauses, 1)}>>

-----------------------------------------------------------------------------
Clients == {"postings", "text", "chinese", "summaries", "queries", "language"}

Init ==
  /\ CursorInit
  /\ \/ client = "cursor"
     \/ client \in Clients /\ kind = "binary" /\ list = <<>>
  /\ OperationsInit

Call ==
  /\ call = NoCall
  /\ \/ client = "postings"  /\ (CallCodec \/ CallMerge)
     \/ client = "text"      /\ CallTokenize
     \/ client = "chinese"   /\ CallSegment
     \/ client = "summaries" /\ CallHighlight
     \/ client = "queries"   /\ (CallPositions \/ CallLevenshtein \/ CallQuery)
     \/ client = "language"  /\ (CallLex \/ CallParse)
  /\ UNCHANGED <<cursorVars, client>>

Return ==
  /\ Answer
  /\ UNCHANGED <<cursorVars, client>>

MoveCursor ==
  /\ client = "cursor"
  /\ CursorStep
  /\ UNCHANGED <<client, call>>

Next == Call \/ Return \/ MoveCursor

Spec == Init /\ [][Next]_vars
=============================================================================
