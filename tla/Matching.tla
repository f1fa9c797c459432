------------------------------ MODULE Matching ------------------------------
(***************************************************************************)
(* The two algorithms in queries (src/query) that compare words: whether   *)
(* the positions of the words of a phrase lie as the phrase wants them     *)
(* (phrase.go), and the edit distance of two terms (fuzzy.go), each with   *)
(* what it promises.                                                       *)
(***************************************************************************)
EXTENDS Postings

ElementsOf(list) == {list[k] : k \in 1..Len(list)}
Least(S) == CHOOSE x \in S : \A y \in S : x <= y

-----------------------------------------------------------------------------
(* Phrases.                                                                *)

GapBefore(relative, i) ==
  IF relative[i] > relative[i - 1] THEN relative[i] - relative[i - 1] ELSE 1

NotFound == -1

\* The first position in the list that is not below the minimum.
NextPosition(list, minimum) ==
  LET found == {k \in 1..Len(list) : list[k] >= minimum}
  IN  IF found = {} THEN NotFound ELSE list[Least(found)]

\* Fault: the distance of the words in the query counts as one.
PhraseWithoutGaps(positions, relative, slop) ==
  LET n == Len(positions)
      ends(start) ==
        LET run[i \in 1..n] ==
              IF i = 1 THEN [at |-> start, used |-> 0, ok |-> TRUE]
              ELSE LET minimum == (run[i - 1].at + 1) % W32
                       next == NextPosition(positions[i], minimum)
                       used == (run[i - 1].used + next - minimum) % W32
                   IN  IF run[i - 1].ok /\ next # NotFound
                       THEN [at |-> next, used |-> used, ok |-> used <= slop]
                       ELSE [run[i - 1] EXCEPT !.ok = FALSE]
        IN  run[n].ok
  IN  n > 0 /\ \E k \in 1..Len(positions[1]) : ends(positions[1][k])

\* From each occurrence of the first word, each further word is taken where
\* it occurs first at or after its place; what the places are missed by adds
\* up and may not exceed the slop.  uint32 arithmetic.
PhrasePositionsMatch(positions, relative, slop) ==
  LET n == Len(positions)
      ends(start) ==
        LET run[i \in 1..n] ==
              IF i = 1 THEN [at |-> start, used |-> 0, ok |-> TRUE]
              ELSE LET minimum == (run[i - 1].at + GapBefore(relative, i)) % W32
                       next == NextPosition(positions[i], minimum)
                       used == (run[i - 1].used + next - minimum) % W32
                   IN  IF run[i - 1].ok /\ next # NotFound
                       THEN [at |-> next, used |-> used, ok |-> used <= slop]
                       ELSE [run[i - 1] EXCEPT !.ok = FALSE]
        IN  run[n].ok
  IN  n > 0 /\ \E k \in 1..Len(positions[1]) : ends(positions[1][k])

-----------------------------------------------------------------------------
(* Edit distance.                                                          *)

Min3(a, b, c) == IF a < b /\ a < c THEN a ELSE IF b < c THEN b ELSE c

\* The next row of the table of edit distances.
NextRow(previous, i, r, b) ==
  LET cell[j \in 0..Len(b)] ==
        IF j = 0 THEN i
        ELSE Min3(cell[j - 1] + 1, previous[j] + 1,
                  previous[j - 1] + IF r = b[j] THEN 0 ELSE 1)
  IN  [j \in 0..Len(b) |-> cell[j]]

\* Fault: the comparison ends as soon as a row holds a value past the cutoff.
LevenshteinHasty(a, b, cutoff) ==
  LET row[i \in 0..Len(a)] ==
        IF i = 0 THEN [j \in 0..Len(b) |-> j] ELSE NextRow(row[i - 1], i, a[i], b)
  IN  IF \/ Len(a) - Len(b) > cutoff \/ Len(b) - Len(a) > cutoff
         \/ \E i \in 1..Len(a) : \E j \in 0..Len(b) : row[i][j] > cutoff
      THEN cutoff + 1
      ELSE row[Len(a)][Len(b)]

\* The edit distance, or cutoff + 1 if the lengths differ too much or a whole
\* row is past the cutoff.
Levenshtein(a, b, cutoff) ==
  LET row[i \in 0..Len(a)] ==
        IF i = 0 THEN [j \in 0..Len(b) |-> j] ELSE NextRow(row[i - 1], i, a[i], b)
  IN  IF \/ Len(a) - Len(b) > cutoff \/ Len(b) - Len(a) > cutoff
         \/ \E i \in 1..Len(a) : \A j \in 0..Len(b) : row[i][j] > cutoff
      THEN cutoff + 1
      ELSE row[Len(a)][Len(b)]

-----------------------------------------------------------------------------
(* Phrases: some choice of occurrences, one for each word, in order and    *)
(* at least as far apart as in the query, that misses no more than slop.   *)

PlacementExists(positions, relative, slop) ==
  \E f \in [1..Len(positions) -> UNION {ElementsOf(positions[k]) : k \in 1..Len(positions)}] :
    /\ \A k \in 1..Len(positions) : f[k] \in ElementsOf(positions[k])
    /\ \A k \in 2..Len(positions) :
         f[k] - f[k - 1] >= relative[k] - relative[k - 1]
    /\ f[Len(positions)] - f[1] - relative[Len(positions)] <= slop

\* Taking each word where it occurs first misses no match, and uint32
\* arithmetic makes none, for increasing words of the query and positions
\* that the phrase cannot push past 2^32 (phrasePositionsMatch).
PhraseIsExact(positions, relative, slop) ==
  PhrasePositionsMatch(positions, relative, slop) <=>
    PlacementExists(positions, relative, slop)

-----------------------------------------------------------------------------
(* Edit distance: the least cost of an alignment of two words.             *)

\* Pairings of equal or substituted runes that do not cross.
Alignments(a, b) ==
  {m \in SUBSET ((1..Len(a)) \X (1..Len(b))) :
     \A p, q \in m : p # q => \/ p[1] < q[1] /\ p[2] < q[2]
                              \/ q[1] < p[1] /\ q[2] < p[2]}

\* Runes without a partner are deleted or inserted.
EditDistance(a, b) ==
  Least({Len(a) + Len(b) - 2 * Cardinality(m)
         + Cardinality({p \in m : a[p[1]] # b[p[2]]}) : m \in Alignments(a, b)})

\* The cutoff never turns a candidate away: within it the distance is exact,
\* beyond it the result is beyond it too (levenshtein in fuzzy.go).
LevenshteinIsExact(a, b, cutoff) ==
  LET distance == EditDistance(a, b)
  IN  IF distance <= cutoff THEN Levenshtein(a, b, cutoff) = distance
      ELSE Levenshtein(a, b, cutoff) > cutoff
=============================================================================
