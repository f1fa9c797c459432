---------------------------- MODULE Highlighting ----------------------------
(***************************************************************************)
(* Search summaries (src/highlight/highlight.go): the matches of a text,   *)
(* their groups, the byte window of each fragment and its rendering.       *)
(*                                                                         *)
(* Spans are half-open byte intervals [from, to).  A rendered fragment is  *)
(* the sequence of its pieces of text, each tagged or not; tags and HTML   *)
(* escaping, which works on single characters, are left out.               *)
(***************************************************************************)
EXTENDS Tokenizers

Bytes(text) == Offset(text, Len(text) + 1)

\* The bytes at which a rune begins, and the end of the text.
Boundaries(text) == {Offset(text, k) : k \in 1..Len(text) + 1}

Highest(S) == CHOOSE x \in S : \A y \in S : y <= x
Lowest(S) == CHOOSE x \in S : \A y \in S : x <= y

\* The tokens of the text that the wanted terms contain.  The analyzer
\* returns them in the order of the text, so that sorting changes nothing.
MatchesOf(text, wanted) ==
  LET all    == Analyze(text)
      tokens == Kept(all, {all[k] : k \in {j \in 1..Len(all) : all[j].term \in wanted}})
  IN  [k \in 1..Len(tokens) |-> [from |-> tokens[k].start, to |-> tokens[k].end]]

\* Matches no more than size bytes apart share a group.
GroupMatches(matches, size) ==
  LET upTo[k \in 1..Len(matches)] ==
        IF k = 1 THEN <<matches[1]>>
        ELSE LET groups == upTo[k - 1]
                 last   == groups[Len(groups)]
             IN  IF matches[k].from - last.to <= size
                 THEN [groups EXCEPT ![Len(groups)].to = matches[k].to]
                 ELSE Append(groups, matches[k])
  IN  upTo[Len(matches)]

\* Fault: a window that reaches past the end of the text is cut off there
\* but not moved, and one cut inside a rune is shrunk.
WindowInward(text, group, size) ==
  LET length == group.to - group.from
      half   == IF size > length THEN (size - length) \div 2 ELSE 0
      start  == IF group.from > half THEN group.from - half ELSE 0
      end    == IF start + size > Bytes(text) THEN Bytes(text) ELSE start + size
  IN  [from |-> Lowest({b \in Boundaries(text) : b >= start}),
       to   |-> Highest({b \in Boundaries(text) : b <= end})]

\* fragmentBounds: size bytes around the group, moved inside the text and
\* widened to whole runes.
FragmentBounds(text, group, size) ==
  LET length == group.to - group.from
      half   == IF size > length THEN (size - length) \div 2 ELSE 0
      start  == IF group.from > half THEN group.from - half ELSE 0
      end    == IF start + size < group.to THEN group.to ELSE start + size
      over   == end > Bytes(text)
      first  == IF ~over THEN start
                ELSE IF Bytes(text) > size THEN Bytes(text) - size ELSE 0
      last   == IF over THEN Bytes(text) ELSE end
  IN  [from |-> Highest({b \in Boundaries(text) : b <= first}),
       to   |-> Lowest({b \in Boundaries(text) : b >= last})]

Piece(from, to, tagged) == [from |-> from, to |-> to, tagged |-> tagged]

MatchesInRange(matches, window) ==
  Kept(matches, {matches[k] : k \in {j \in 1..Len(matches) :
                   matches[j].from >= window.from /\ matches[j].to <= window.to}})

\* Fault: a match that begins where the one before it ended is passed over.
RenderStrict(matches, window) ==
  LET inside == MatchesInRange(matches, window)
      upTo[k \in 0..Len(inside)] ==
        IF k = 0 THEN [pieces |-> <<>>, cursor |-> window.from]
        ELSE IF inside[k].from <= upTo[k - 1].cursor THEN upTo[k - 1]
        ELSE [pieces |-> upTo[k - 1].pieces \o
                <<Piece(upTo[k - 1].cursor, inside[k].from, FALSE),
                  Piece(inside[k].from, inside[k].to, TRUE)>>,
              cursor |-> inside[k].to]
      all == upTo[Len(inside)]
  IN  Append(all.pieces, Piece(all.cursor, window.to, FALSE))

\* The matches that lie in the window are tagged, one that begins before the
\* cursor is passed over, the text between them is copied.
Render(matches, window) ==
  LET inside == MatchesInRange(matches, window)
      upTo[k \in 0..Len(inside)] ==
        IF k = 0 THEN [pieces |-> <<>>, cursor |-> window.from]
        ELSE IF inside[k].from < upTo[k - 1].cursor THEN upTo[k - 1]
        ELSE [pieces |-> upTo[k - 1].pieces \o
                <<Piece(upTo[k - 1].cursor, inside[k].from, FALSE),
                  Piece(inside[k].from, inside[k].to, TRUE)>>,
              cursor |-> inside[k].to]
      all == upTo[Len(inside)]
  IN  Append(all.pieces, Piece(all.cursor, window.to, FALSE))

\* One fragment for each of the first groups; none without a match.
Extract(text, wanted, size, maxFragments) ==
  LET matches == MatchesOf(text, wanted)
      groups  == GroupMatches(matches, size)
      count   == IF Len(groups) > maxFragments THEN maxFragments ELSE Len(groups)
  IN  IF matches = <<>> THEN <<>>
      ELSE [k \in 1..count |->
              LET window == FragmentBounds(text, groups[k], size)
              IN  [from |-> window.from, to |-> window.to,
                   pieces |-> Render(matches, window)]]

-----------------------------------------------------------------------------
\* Each fragment lies in the text on whole runes, is as long as asked for
\* unless its matches or the rounding to runes make it longer, and contains
\* the next group of matches; the fragments follow each other in the text.
FragmentsFitText(text, wanted, size, maxFragments) ==
  LET widest == Highest({Width[r] : r \in Runes}) - 1
  IN  \A matches \in {MatchesOf(text, wanted)},
         fragments \in {Extract(text, wanted, size, maxFragments)} :
        /\ matches = <<>> <=> fragments = <<>>
        /\ Len(fragments) <= maxFragments
        /\ \A k \in 1..Len(fragments) :
             LET f == fragments[k]
                 group == GroupMatches(matches, size)[k]
             IN  /\ {f.from, f.to} \subseteq Boundaries(text)
                 /\ f.from <= group.from /\ group.to <= f.to
                 /\ f.to - f.from >= Lowest({size, Bytes(text)})
                 /\ f.to - f.from <=
                      Highest({size, group.to - group.from}) + 2 * widest
                 /\ k > 1 => /\ fragments[k - 1].from <= f.from
                             /\ fragments[k - 1].to <= f.to

\* A rendered fragment is the text of its window, unchanged and complete,
\* and tags exactly the matches inside the window, each once and whole.
RenderingIsExact(text, wanted, size, maxFragments) ==
  \A matches \in {MatchesOf(text, wanted)},
     fragments \in {Extract(text, wanted, size, maxFragments)} :
    \A k \in 1..Len(fragments) :
      LET f == fragments[k]
          p == f.pieces
      IN  /\ p[1].from = f.from /\ p[Len(p)].to = f.to
          /\ \A n \in 1..Len(p) : p[n].from <= p[n].to
          /\ \A n \in 2..Len(p) : p[n].from = p[n - 1].to
          /\ {<<p[n].from, p[n].to>> : n \in {j \in 1..Len(p) : p[j].tagged}} =
               {<<matches[n].from, matches[n].to>> :
                  n \in {j \in 1..Len(matches) : /\ matches[j].from >= f.from
                                                 /\ matches[j].to <= f.to}}
          /\ Cardinality({n \in 1..Len(p) : p[n].tagged}) * 2 + 1 = Len(p)
=============================================================================
