---------------------------- MODULE Parts_proofs ----------------------------
(***************************************************************************)
(* The parts that the operations are made of do what they promise. The     *)
(* cursors implement the forward cursor, for any keys, lists and targets;  *)
(* the comparisons that queries make are exact, whether positions match a  *)
(* phrase and the edit distance of two terms; any text is cut into tokens  *)
(* exactly, by the tokenizers, by the segmenters for Chinese and by the    *)
(* lexer of the query language; and what is written in that language is    *)
(* read as it is written.                                                  *)
(*                                                                         *)
(* The proof about the cursors shows that both ways of skipping find the   *)
(* first key not below the target: the binary search because the list      *)
(* ascends, the skip points because a landing passes only keys below the   *)
(* target. A phrase is matched greedily, and the greedy choice is never    *)
(* behind any other and misses no more. The table of edit distances holds  *)
(* the least cost of an alignment of each two prefixes, and a row past the *)
(* cutoff is followed by such rows only. All tokenizers are loops of one   *)
(* form (Scan), of which it is shown once that what they append covers all *)
(* places but the blanks; for the lexer the blanks are the spaces outside  *)
(* quotes, and it comes only by places outside quotes. What the parser     *)
(* reads at a token depends on what it reads at later tokens only, and one *)
(* atom that no place outside quotes divides is one token.                 *)
(***************************************************************************)
EXTENDS Postings_proofs, Cursors, Segmentation, QueryMeaning

-----------------------------------------------------------------------------
(* Cursors.                                                                *)

(* The keys of the list s from index i on.                                 *)
Suffix(s, i) == {s[k] : k \in i + 1..Len(s)}

(* What FirstAtLeast chooses from.                                         *)
Stops(s, from, target) ==
  {k \in from..Len(s) : k < Len(s) => s[k + 1] >= target}

-----------------------------------------------------------------------------
(* Skipping.                                                               *)

(* Keys compare as integers.                                               *)
LEMMA KeysAreIntegers ==
    ASSUME NEW s \in Seq(Keys), NEW k \in 1..Len(s)
    PROVE  s[k] \in Int
<1>1. s[k] \in Keys
  OBVIOUS
<1>2. s[k] \in Nat
  BY <1>1, ListsAssumption, Zenon
<1> QED BY <1>2

(* The scan stops at the first key not below the target, or at the end     *)
(* (the loop of SkipListIterator.SkipTo, sort.Search).                     *)
LEMMA FirstAtLeastStops ==
    ASSUME NEW s \in Seq(Keys), NEW from \in 0..Len(s), NEW target \in Int
    PROVE  /\ FirstAtLeast(s, from, target) \in Stops(s, from, target)
           /\ \A m \in from..FirstAtLeast(s, from, target) - 1 :
                s[m + 1] < target
<1> DEFINE P(k) == /\ k < Len(s) => s[k + 1] >= target
                   /\ \A m \in from..k - 1 : s[m + 1] < target
<1>1. Stops(s, from, target) \in SUBSET Nat /\ Len(s) \in Stops(s, from, target)
  BY DEF Stops
<1>2. PICK k \in Stops(s, from, target) : \A l \in Stops(s, from, target) : k <= l
  BY <1>1, Smallest
<1>3. k \in from..Len(s)
  BY DEF Stops
<1>4. ASSUME NEW m \in from..k - 1 PROVE s[m + 1] < target
  <2>1. m \notin Stops(s, from, target) /\ m \in from..Len(s) /\ m < Len(s)
    BY <1>2, <1>3
  <2>2. s[m + 1] \in Int
    BY <2>1, KeysAreIntegers
  <2> QED BY <2>1, <2>2 DEF Stops
<1>5. P(k)
  BY <1>4 DEF Stops
<1> HIDE DEF P
<1>6. FirstAtLeast(s, from, target) = CHOOSE l \in from..Len(s) : P(l)
  BY DEF FirstAtLeast, P
<1>7. /\ FirstAtLeast(s, from, target) \in from..Len(s)
      /\ P(FirstAtLeast(s, from, target))
  BY <1>3, <1>5, <1>6
<1> QED BY <1>7 DEF P, Stops

(* There is only one such index.                                           *)
LEMMA FirstAtLeastUnique ==
    ASSUME NEW s \in Seq(Keys), NEW target \in Int,
           NEW i \in Nat, NEW j \in Nat,
           i <= Len(s), j <= Len(s),
           i < Len(s) => s[i + 1] >= target,
           j < i => s[j + 1] < target,
           i < j => s[i + 1] < target,
           j < Len(s) => s[j + 1] >= target
    PROVE  i = j
<1>1. i < Len(s) => s[i + 1] \in Int
  BY KeysAreIntegers
<1>2. j < Len(s) => s[j + 1] \in Int
  BY KeysAreIntegers
<1> QED BY <1>1, <1>2

(* A landing is ahead of the cursor or where it is, and its key is not     *)
(* beyond the target (the loop over the skip points).                      *)
LEMMA LandingBelow ==
    ASSUME NEW s \in Seq(Keys), NEW i \in -1..Len(s), NEW target \in Int
    PROVE  \/ Landing(s, i, target) = i
           \/ /\ Landing(s, i, target) \in 1..Len(s) - 1
              /\ Landing(s, i, target) > i
              /\ s[Landing(s, i, target) + 1] <= target
<1> DEFINE ahead == {p \in SkipPoints(Len(s)) : p > i /\ s[p + 1] <= target}
<1>1. ahead \in SUBSET (1..Len(s) - 1)
  BY DEF SkipPoints
<1>2. CASE ahead = {}
  BY <1>2 DEF Landing
<1>3. CASE ahead # {}
  <2>1. ahead \in SUBSET (0..Len(s)) /\ Len(s) \in Nat
    BY <1>1
  <2>2. PICK m \in ahead : \A k \in ahead : k <= m
    BY <1>3, <2>1, Greatest
  <2>3. Landing(s, i, target) = CHOOSE p \in ahead : \A q \in ahead : q <= p
    BY <1>3 DEF Landing
  <2>4. Landing(s, i, target) \in ahead
    BY <2>2, <2>3
  <2> QED BY <1>1, <2>4
<1> QED BY <1>2, <1>3

(* Both ways of skipping arrive at the same key.                           *)
LEMMA SkipListIsBinary ==
    ASSUME NEW s \in Seq(Keys), Ascends(s),
           NEW i \in -1..Len(s), NEW target \in Int
    PROVE  SkipListSkip(s, i, target) = BinarySkip(s, i, target)
<1> DEFINE land == Landing(s, i, target)
           a    == SkipListSkip(s, i, target)
           b    == BinarySkip(s, i, target)
<1>1. CASE land = i
  BY <1>1 DEF SkipListSkip, BinarySkip
<1>2. CASE /\ land \in 1..Len(s) - 1
           /\ land > i
           /\ s[land + 1] <= target
  <2>1. Start(i) \in 0..Len(s) /\ Start(land) = land /\ Start(i) <= land
    BY <1>2 DEF Start
  <2>2. /\ a \in Stops(s, land, target)
        /\ \A m \in land..a - 1 : s[m + 1] < target
    BY <1>2, <2>1, FirstAtLeastStops DEF SkipListSkip
  <2>3. /\ b \in Stops(s, Start(i), target)
        /\ \A m \in Start(i)..b - 1 : s[m + 1] < target
    BY <2>1, FirstAtLeastStops DEF BinarySkip
  <2>4. ASSUME NEW m \in Start(i)..land - 1 PROVE s[m + 1] < target
    <3>1. land \in Nat /\ s[land + 1] <= target
      BY <1>2
    <3>2. m + 1 \in 1..Len(s) /\ land + 1 \in 1..Len(s) /\ m + 1 < land + 1
      <4>1. Start(i) \in Nat /\ land \in 1..Len(s) - 1 /\ Len(s) \in Nat
        BY <1>2, <2>1
      <4> HIDE DEF land
      <4> QED BY <4>1
    <3> DEFINE x == s[m + 1]
               y == s[land + 1]
    <3>3. x < y
      BY <3>2 DEF Ascends
    <3>4. x \in Int /\ y \in Int /\ y <= target
      BY <3>1, <3>2, KeysAreIntegers
    <3> HIDE DEF x, y
    <3>5. x < target
      BY <3>3, <3>4
    <3> QED BY <3>5 DEF x
  <2>5. a \in Nat /\ b \in Nat /\ land <= a /\ a <= Len(s)
        /\ Start(i) <= b /\ b <= Len(s)
    BY <1>2, <2>1, <2>2, <2>3 DEF Stops
  <2>6. a < Len(s) => s[a + 1] >= target
    BY <2>2 DEF Stops
  <2>7. b < Len(s) => s[b + 1] >= target
    BY <2>3 DEF Stops
  <2> HIDE DEF land, a, b
  <2>8. b < a => s[b + 1] < target
    <3>1. b < a => b \in Start(i)..land - 1 \/ b \in land..a - 1
      BY <1>2, <2>1, <2>5
    <3> QED BY <2>2, <2>4, <3>1
  <2>9. a < b => s[a + 1] < target
    <3>1. a < b => a \in Start(i)..b - 1
      BY <1>2, <2>1, <2>5
    <3> QED BY <2>3, <3>1
  <2>10. a = b
    BY <2>5, <2>6, <2>7, <2>8, <2>9, FirstAtLeastUnique
  <2> QED BY <2>10 DEF a, b
<1> QED BY <1>1, <1>2, LandingBelow

-----------------------------------------------------------------------------
(* The type invariant.                                                     *)

(* Skipping stays inside the list, whichever way is taken.                 *)
LEMMA SkipStops ==
    ASSUME CursorTypeOK, NEW target \in Targets, CursorSkipTo(target)
    PROVE  /\ open
           /\ Start(index) \in 0..Len(list)
           /\ index' \in Stops(list, Start(index), target)
           /\ \A m \in Start(index)..index' - 1 : list[m + 1] < target
<1>1. open /\ index \in -1..Len(list) /\ list \in Seq(Keys) /\ Ascends(list)
  BY DEF CursorTypeOK, CursorSkipTo
<1>2. target \in Int
  BY ListsAssumption, Zenon
<1>3. Start(index) \in 0..Len(list)
  BY <1>1 DEF Start
<1>4. index' = BinarySkip(list, index, target)
  BY <1>1, <1>2, SkipListIsBinary DEF CursorSkipTo
<1> QED BY <1>1, <1>2, <1>3, <1>4, FirstAtLeastStops DEF BinarySkip

(* Every step of a cursor leaves it in a state of its type.                *)
LEMMA CursorStepType == CursorTypeOK /\ [CursorStep]_cursorVars => CursorTypeOK'
<1> SUFFICES ASSUME CursorTypeOK, [CursorStep]_cursorVars PROVE CursorTypeOK'
  OBVIOUS
<1>1. CASE CursorNext
  BY <1>1 DEF CursorNext, CursorTypeOK
<1>2. ASSUME NEW target \in Targets, CursorSkipTo(target) PROVE CursorTypeOK'
  <2>1. index' \in 0..Len(list)
    BY <1>2, SkipStops DEF Stops
  <2> QED BY <1>2, <2>1 DEF CursorSkipTo, CursorTypeOK
<1>3. CASE CursorClose
  <2>1. << >> \in Seq(Keys) /\ Ascends(<< >>)
    BY DEF Ascends
  <2> QED BY <1>3, <2>1 DEF CursorClose, CursorTypeOK
<1>4. CASE UNCHANGED cursorVars
  BY <1>4 DEF cursorVars, CursorTypeOK
<1> QED BY <1>1, <1>2, <1>3, <1>4 DEF CursorStep

(* A cursor's index is before its list, in it or just past it, and only    *)
(* the storage iterator closes (New, Next, SkipTo and Close of the four    *)
(* iterators).                                                             *)
THEOREM CursorTypeCorrect == CursorSpec => []CursorTypeOK
<1>1. CursorInit => CursorTypeOK
  <2>1. ASSUME NewCursor PROVE CursorTypeOK
    <3>1. list \in Seq(Keys) /\ Ascends(list)
      BY <2>1, ListsAssumption DEF NewCursor
    <3> QED BY <2>1, <3>1 DEF NewCursor, CursorTypeOK
  <2>2. ASSUME NewErrorCursor PROVE CursorTypeOK
    <3>1. << >> \in Seq(Keys) /\ Ascends(<< >>)
      BY DEF Ascends
    <3>2. list \in Seq(Keys) /\ Ascends(list)
      BY <2>2, <3>1, Zenon DEF NewErrorCursor
    <3>3. kind = "entries" /\ index = -1 /\ open = FALSE
      BY <2>2 DEF NewErrorCursor
    <3>4. index \in Int /\ index >= -1
      BY <3>3
    <3> QED BY <3>2, <3>3, <3>4, Zenon DEF CursorTypeOK, Kinds
  <2> QED BY <2>1, <2>2 DEF CursorInit
<1> QED BY <1>1, CursorStepType, PTL DEF CursorSpec

-----------------------------------------------------------------------------
(* The refinement.                                                         *)

(* The keys of an ascending list from index i on: none at the end, else    *)
(* the i-th and those above it.                                            *)
LEMMA SuffixSplits ==
    ASSUME NEW s \in Seq(Keys), Ascends(s), NEW i \in 0..Len(s)
    PROVE  /\ i = Len(s) => Suffix(s, i) = {}
           /\ i < Len(s) =>
                /\ Suffix(s, i) # {}
                /\ Forward!Lowest(Suffix(s, i)) = s[i + 1]
                /\ Forward!Above(Suffix(s, i), s[i + 1]) = Suffix(s, i + 1)
<1>1. i = Len(s) => Suffix(s, i) = {}
  BY DEF Suffix
<1>2. ASSUME i < Len(s)
      PROVE  /\ Suffix(s, i) # {}
             /\ Forward!Lowest(Suffix(s, i)) = s[i + 1]
             /\ Forward!Above(Suffix(s, i), s[i + 1]) = Suffix(s, i + 1)
  <2>1. s[i + 1] \in Suffix(s, i) /\ s[i + 1] \in Int
    BY <1>2, KeysAreIntegers DEF Suffix
  <2>2. ASSUME NEW k \in i + 1..Len(s)
        PROVE  /\ s[k] \in Int
               /\ s[i + 1] <= s[k]
               /\ s[k] > s[i + 1] <=> k # i + 1
    <3>1. s[k] \in Int
      BY KeysAreIntegers
    <3>2. k # i + 1 => s[i + 1] < s[k]
      BY <1>2 DEF Ascends
    <3> QED BY <2>1, <3>1, <3>2
  <2>3. \A k \in Suffix(s, i) : k \in Int /\ s[i + 1] <= k
    BY <2>2 DEF Suffix
  <2>4. Forward!Lowest(Suffix(s, i)) = s[i + 1]
    <3>1. \A k \in Suffix(s, i) :
            (\A l \in Suffix(s, i) : k <= l) => k = s[i + 1]
      BY <2>1, <2>3
    <3> QED BY <2>1, <2>3, <3>1 DEF Forward!Lowest
  <2>5. Forward!Above(Suffix(s, i), s[i + 1]) = Suffix(s, i + 1)
    <3>1. Forward!Above(Suffix(s, i), s[i + 1]) =
            {s[k] : k \in {l \in i + 1..Len(s) : s[l] > s[i + 1]}}
      BY DEF Forward!Above, Suffix
    <3>2. {l \in i + 1..Len(s) : s[l] > s[i + 1]} = (i + 1) + 1..Len(s)
      BY <2>2
    <3> QED BY <3>1, <3>2 DEF Suffix
  <2> QED BY <2>1, <2>4, <2>5
<1> QED BY <1>1, <1>2

(* The keys from where the scan stops are those not below the target.      *)
LEMMA SkippedKeys ==
    ASSUME NEW s \in Seq(Keys), Ascends(s),
           NEW i \in 0..Len(s), NEW target \in Int,
           NEW r \in Stops(s, i, target),
           \A m \in i..r - 1 : s[m + 1] < target
    PROVE  {k \in Suffix(s, i) : k >= target} = Suffix(s, r)
<1>1. r \in i..Len(s) /\ Len(s) \in Nat
  BY DEF Stops
<1>2. ASSUME NEW k \in i + 1..Len(s)
      PROVE  s[k] >= target <=> k \in r + 1..Len(s)
  <2>1. s[k] \in Int
    BY KeysAreIntegers
  <2>2. CASE k > r
    <3>1. r < Len(s) /\ s[r + 1] >= target
      BY <1>1, <2>2 DEF Stops
    <3>2. s[r + 1] \in Int
      BY <1>1, <3>1, KeysAreIntegers
    <3>3. k = r + 1 \/ s[r + 1] < s[k]
      BY <1>1, <2>2, <3>1 DEF Ascends
    <3> QED BY <1>1, <2>1, <2>2, <3>1, <3>2, <3>3
  <2>3. CASE ~(k > r)
    <3>1. k - 1 \in i..r - 1
      BY <1>1, <2>3
    <3>2. s[(k - 1) + 1] < target
      BY <3>1
    <3> QED BY <1>1, <2>1, <2>3, <3>2
  <2> QED BY <2>2, <2>3
<1>3. {k \in Suffix(s, i) : k >= target} =
        {s[k] : k \in {l \in i + 1..Len(s) : s[l] >= target}}
  BY DEF Suffix
<1>4. {l \in i + 1..Len(s) : s[l] >= target} = r + 1..Len(s)
  BY <1>1, <1>2
<1> QED BY <1>3, <1>4 DEF Suffix

(* Once the cursor is at index' it stands on the first of the keys that    *)
(* are left there.                                                         *)
LEMMA StandsOnFirst ==
    ASSUME CursorTypeOK, open, open', list' = list,
           index' \in 0..Len(list)
    PROVE  Forward!StandOnFirst(Suffix(list, index'))
<1>1. list \in Seq(Keys) /\ Ascends(list)
  BY DEF CursorTypeOK
<1>2. Left' = Suffix(list, index' + 1)
  <2>1. Left' = {list[k] : k \in index' + 2..Len(list)}
    BY DEF Left
  <2>2. index' + 2 = (index' + 1) + 1
    OBVIOUS
  <2> QED BY <2>1, <2>2 DEF Suffix
<1>3. CASE index' = Len(list)
  <2>1. Suffix(list, index') = {} /\ Left' = {}
    BY <1>2, <1>3 DEF Suffix
  <2>2. Current' = None
    BY <1>3 DEF Current, Valid
  <2> QED BY <2>1, <2>2 DEF Forward!StandOnFirst
<1>4. CASE index' < Len(list)
  <2>1. Current' = list[index' + 1]
    BY <1>4 DEF Current, Valid
  <2> QED BY <1>1, <1>2, <1>4, <2>1, SuffixSplits DEF Forward!StandOnFirst
<1> QED BY <1>3, <1>4

(* The keys that a forward cursor may still reach, without the place the   *)
(* cursor stands on and with it.                                           *)
LEMMA Candidates ==
    ASSUME CursorTypeOK, open
    PROVE  /\ Left = IF index < Len(list) THEN Suffix(list, index + 1) ELSE {}
           /\ (IF Current = None THEN Left ELSE Left \cup {Current}) =
                Suffix(list, Start(index))
<1>1. list \in Seq(Keys) /\ index \in -1..Len(list)
  BY DEF CursorTypeOK
<1>2. Left = Suffix(list, index + 1)
  <2>1. index + 2 = (index + 1) + 1
    BY <1>1
  <2> QED BY <2>1 DEF Left, Suffix
<1>3. CASE index = -1
  BY <1>1, <1>2, <1>3 DEF Current, Valid, Start
<1>4. CASE index = Len(list)
  BY <1>1, <1>2, <1>4 DEF Current, Valid, Start, Suffix
<1>5. CASE index \in 0..Len(list) - 1
  <2>1. Current = list[index + 1] /\ Start(index) = index
    BY <1>5 DEF Current, Valid, Start
  <2>2. list[index + 1] \in Keys
    BY <1>1, <1>5
  <2>3. Current # None
    BY <2>1, <2>2, ListsAssumption, Zenon
  <2>4. index + 1..Len(list) = (index + 1 + 1..Len(list)) \cup {index + 1}
    BY <1>5
  <2>5. Suffix(list, index) = Suffix(list, index + 1) \cup {list[index + 1]}
    BY <2>4 DEF Suffix
  <2> QED BY <1>2, <1>5, <2>1, <2>3, <2>5
<1> QED BY <1>1, <1>3, <1>4, <1>5

(* Each step of a cursor is the step of the forward cursor that the caller *)
(* asked for.                                                              *)
LEMMA CursorStepRefines ==
    CursorTypeOK /\ [CursorStep]_cursorVars =>
      [Forward!Next]_<<request, Current, Left>>
<1> SUFFICES ASSUME CursorTypeOK, [CursorStep]_cursorVars
             PROVE  Forward!Next \/ UNCHANGED <<request, Current, Left>>
  OBVIOUS
<1>1. CASE CursorNext
  <2>1. request' = <<"next">> /\ list' = list /\ open' = open
    BY <1>1 DEF CursorNext
  <2>2. CASE open
    <3>1. index \in -1..Len(list) /\ list \in Seq(Keys)
      BY <2>2 DEF CursorTypeOK
    <3>2. CASE index + 1 < Len(list)
      <4>1. index' = index + 1 /\ index' \in 0..Len(list)
        BY <1>1, <2>2, <3>1, <3>2 DEF CursorNext
      <4>2. Left = Suffix(list, index')
        BY <2>2, <3>1, <3>2, <4>1, Candidates
      <4> QED BY <2>1, <2>2, <4>1, <4>2, StandsOnFirst
            DEF Forward!Next, Forward!Advance
    <3>3. CASE ~(index + 1 < Len(list))
      <4>1. index' = Len(list) /\ index' \in 0..Len(list)
        BY <1>1, <3>1, <3>3 DEF CursorNext
      <4>2. Left = Suffix(list, index')
        BY <2>2, <3>1, <3>3, <4>1, Candidates DEF Suffix
      <4> QED BY <2>1, <2>2, <4>1, <4>2, StandsOnFirst
            DEF Forward!Next, Forward!Advance
    <3> QED BY <3>2, <3>3
  <2>3. CASE ~open
    BY <2>1, <2>3 DEF Left, Current, Valid,
                      Forward!Next, Forward!Advance, Forward!StandOnFirst
  <2> QED BY <2>2, <2>3
<1>2. ASSUME NEW target \in Targets, CursorSkipTo(target) PROVE Forward!Next
  <2> DEFINE i == Start(index)
  <2>1. /\ request' = <<"skip", target>>
        /\ list' = list /\ open' = open
    BY <1>2 DEF CursorSkipTo
  <2>2. /\ open /\ i \in 0..Len(list)
        /\ index' \in Stops(list, i, target)
        /\ \A m \in i..index' - 1 : list[m + 1] < target
    BY <1>2, SkipStops
  <2>3. list \in Seq(Keys) /\ Ascends(list) /\ target \in Int
    BY ListsAssumption, Zenon DEF CursorTypeOK
  <2>4. index' \in 0..Len(list)
    BY <2>2 DEF Stops
  <2>6. {k \in Suffix(list, i) : k >= target} = Suffix(list, index')
    BY <2>2, <2>3, SkippedKeys
  <2>7. Forward!StandOnFirst(Suffix(list, index'))
    BY <2>1, <2>2, <2>4, StandsOnFirst
  <2>8. (IF Current = None THEN Left ELSE Left \cup {Current}) = Suffix(list, i)
    BY <2>2, Candidates
  <2>9. Forward!SkipTo(target)
    BY <2>1, <2>6, <2>7, <2>8 DEF Forward!SkipTo
  <2> QED BY <2>9 DEF Forward!Next
<1>3. CASE CursorClose
  BY <1>3 DEF CursorClose, Current, Left, Valid, Forward!Next, Forward!Close
<1>4. CASE UNCHANGED cursorVars
  BY <1>4 DEF cursorVars, Current, Left, Valid
<1> QED BY <1>1, <1>2, <1>3, <1>4 DEF CursorStep

(* Every cursor of Koris is a forward cursor over the keys of its list: it *)
(* visits them in order, never goes back, and SkipTo stops at the first    *)
(* key not below its target (DocIDIterator in docid.go and its             *)
(* implementations, with binary search or skip points).                    *)
THEOREM CursorsGoForward == CursorSpec => ImplementsForwardCursor
<1>1. CursorInit => Forward!Init
  <2> SUFFICES ASSUME CursorInit PROVE Forward!Init
    OBVIOUS
  <2>1. request = <<"new">> /\ index = -1
    BY DEF CursorInit, NewCursor, NewErrorCursor
  <2>2. Current = None
    BY <2>1 DEF Current, Valid
  <2>3. Left \in SUBSET Keys
    <3>1. CASE NewCursor
      <4>1. list \in Seq(Keys)
        BY <3>1, ListsAssumption DEF NewCursor
      <4>2. \A k \in 1..Len(list) : list[k] \in Keys
        BY <4>1
      <4> QED BY <2>1, <4>2 DEF Left
    <3>2. CASE NewErrorCursor
      BY <3>2 DEF NewErrorCursor, Left
    <3> QED BY <3>1, <3>2 DEF CursorInit
  <2> QED BY <2>1, <2>2, <2>3 DEF Forward!Init
<1> QED
  BY <1>1, CursorTypeCorrect, CursorStepRefines, PTL
  DEF CursorSpec, ImplementsForwardCursor, Forward!Spec

-----------------------------------------------------------------------------
(* Phrases.                                                                *)

\* The positions of the words of a phrase, and their places, as PhraseInputs
\* has them.
GoodPhrase(positions, relative) ==
  /\ Len(relative) = Len(positions) /\ positions # <<>>
  /\ relative \in Seq(Numbers(W32)) /\ Increasing(relative) /\ relative[1] = 0
  /\ positions \in Seq(Seq(Numbers(W32)))
  /\ \A k \in 1..Len(positions) : Increasing(positions[k])
  /\ \A k \in 2..Len(positions) : \A x \in ElementsOf(positions[k - 1]) :
       x + relative[k] - relative[k - 1] < W32

(* The position found is the first that is not below the minimum           *)
(* (nextPosition).                                                         *)
LEMMA NextPositionIs ==
    ASSUME NEW ps \in Seq(Numbers(W32)), Increasing(ps), NEW minimum \in Nat
    PROVE  \/ /\ NextPosition(ps, minimum) = NotFound
              /\ \A x \in ElementsOf(ps) : x < minimum
           \/ /\ NextPosition(ps, minimum) \in ElementsOf(ps)
              /\ NextPosition(ps, minimum) >= minimum
              /\ NextPosition(ps, minimum) # NotFound
              /\ \A x \in ElementsOf(ps) : x >= minimum => NextPosition(ps, minimum) <= x
<1> DEFINE found == {k \in 1..Len(ps) : ps[k] >= minimum}
<1>0. \A k \in 1..Len(ps) : ps[k] \in Nat
  BY WidthsAssumption DEF Numbers
<1>1. CASE found = {}
  <2>1. NextPosition(ps, minimum) = NotFound
    BY <1>1 DEF NextPosition
  <2>2. \A x \in ElementsOf(ps) : x < minimum
    BY <1>0, <1>1 DEF ElementsOf
  <2> QED BY <2>1, <2>2
<1>2. CASE found # {}
  <2>1. found \in SUBSET Nat
    OBVIOUS
  <2>2. PICK m \in found : \A k \in found : m <= k
    <3> HIDE DEF found
    <3> QED BY <1>2, <2>1, Smallest
  <2> DEFINE l == Least(found)
  <2>3. l \in found /\ \A k \in found : l <= k
    BY <2>2 DEF Least
  <2>4. NextPosition(ps, minimum) = ps[l]
    BY <1>2 DEF NextPosition
  <2> HIDE DEF l
  <2>5. l \in 1..Len(ps) /\ ps[l] >= minimum
    BY <2>3
  <2>6. ps[l] \in ElementsOf(ps) /\ ps[l] # NotFound
    BY <2>5, <1>0 DEF ElementsOf, NotFound
  <2>7. ASSUME NEW x \in ElementsOf(ps), x >= minimum
        PROVE  ps[l] <= x
    <3>1. PICK k \in 1..Len(ps) : x = ps[k]
      BY DEF ElementsOf
    <3>2. l <= k
      BY <3>1, <2>3, <2>7
    <3>3. l = k \/ l < k
      BY <3>2, <2>5
    <3>4. l < k => ps[l] < ps[k]
      BY <2>5 DEF Increasing
    <3>5. ps[l] \in Nat /\ ps[k] \in Nat
      BY <2>5, <1>0
    <3> QED BY <3>1, <3>3, <3>4, <3>5
  <2> QED BY <2>4, <2>5, <2>6, <2>7
<1> QED BY <1>1, <1>2

\* From an occurrence of one word to the next word (the loop body of
\* phrasePositionsMatch).
Hop(positions, relative, slop, i, r) ==
  LET minimum == (r.at + GapBefore(relative, i)) % W32
      next == NextPosition(positions[i], minimum)
      used == (r.used + next - minimum) % W32
  IN  IF r.ok /\ next # NotFound
      THEN [at |-> next, used |-> used, ok |-> used <= slop]
      ELSE [r EXCEPT !.ok = FALSE]

HopRecords == [at : Int, used : Int, ok : BOOLEAN]

HopAt(positions, relative, slop, start, run, i) ==
  IF i = 1 THEN [at |-> start, used |-> 0, ok |-> TRUE]
  ELSE Hop(positions, relative, slop, i, run[i - 1])

HopsOf(run, positions, relative, slop, start) ==
  run = [i \in 1..Len(positions) |-> HopAt(positions, relative, slop, start, run, i)]

\* What r says of having come to an occurrence of the i-th word: nothing was
\* missed but what was used of the slop.
Arrived(positions, relative, slop, start, i, r) ==
  /\ r.at \in ElementsOf(positions[i])
  /\ r.used = r.at - start - relative[i]
  /\ r.used \in 0..slop

(* A phrase's words and places are numbers, each place beyond the last.    *)
LEMMA PhraseNumbers ==
    ASSUME NEW positions, NEW relative, GoodPhrase(positions, relative)
    PROVE  /\ Len(positions) \in Nat \ {0}
           /\ \A k \in 1..Len(positions) :
                /\ relative[k] \in Nat
                /\ positions[k] \in Seq(Numbers(W32)) /\ Increasing(positions[k])
                /\ ElementsOf(positions[k]) \subseteq Nat
           /\ \A k \in 2..Len(positions) :
                /\ k \in 1..Len(positions) /\ k - 1 \in 1..Len(positions)
                /\ relative[k - 1] < relative[k]
                /\ GapBefore(relative, k) = relative[k] - relative[k - 1]
<1> DEFINE n == Len(positions)
<1>1. n \in Nat \ {0}
  BY DEF GoodPhrase
<1>2. ASSUME NEW k \in 1..n
      PROVE  /\ relative[k] \in Nat
             /\ positions[k] \in Seq(Numbers(W32)) /\ Increasing(positions[k])
             /\ ElementsOf(positions[k]) \subseteq Nat
  <2>1. relative[k] \in Numbers(W32)
    BY DEF GoodPhrase
  <2>2. positions[k] \in Seq(Numbers(W32)) /\ Increasing(positions[k])
    BY DEF GoodPhrase
  <2>3. Numbers(W32) \subseteq Nat
    BY WidthsAssumption DEF Numbers
  <2> QED BY <2>1, <2>2, <2>3 DEF ElementsOf
<1>3. ASSUME NEW k \in 2..n
      PROVE  /\ k \in 1..n /\ k - 1 \in 1..n
             /\ relative[k - 1] < relative[k]
             /\ GapBefore(relative, k) = relative[k] - relative[k - 1]
  <2>1. k \in 1..n /\ k - 1 \in 1..n /\ k - 1 < k
    BY <1>1
  <2>2. Len(relative) = n /\ Increasing(relative)
    BY DEF GoodPhrase
  <2>3. relative[k - 1] < relative[k]
    BY <2>1, <2>2 DEF Increasing
  <2>4. relative[k] > relative[k - 1]
    BY <2>1, <2>3, <1>2
  <2> QED BY <2>1, <2>3, <2>4 DEF GapBefore
<1> QED BY <1>1, <1>2, <1>3

(* One step: it arrives at the next word, at least as far on as the phrase *)
(* wants and no later than any other choice within the slop does; uint32   *)
(* sums do not wrap.                                                       *)
LEMMA HopArrives ==
    ASSUME NEW positions, NEW relative, GoodPhrase(positions, relative),
           NEW slop \in Numbers(W32), NEW start \in Nat, NEW i \in 2..Len(positions),
           NEW r \in HopRecords, r.ok => Arrived(positions, relative, slop, start, i - 1, r)
    PROVE  /\ Hop(positions, relative, slop, i, r).ok =>
                /\ r.ok
                /\ Arrived(positions, relative, slop, start, i, Hop(positions, relative, slop, i, r))
                /\ Hop(positions, relative, slop, i, r).at - r.at >= relative[i] - relative[i - 1]
           /\ \A x \in ElementsOf(positions[i]) :
                (/\ r.ok
                 /\ x - r.at >= relative[i] - relative[i - 1]
                 /\ x - start - relative[i] <= slop)
                => /\ Hop(positions, relative, slop, i, r).ok
                   /\ Hop(positions, relative, slop, i, r).at <= x
<1> DEFINE h == Hop(positions, relative, slop, i, r)
           minimum == (r.at + GapBefore(relative, i)) % W32
           next == NextPosition(positions[i], minimum)
           used == (r.used + next - minimum) % W32
<1>1. h = IF r.ok /\ next # NotFound
          THEN [at |-> next, used |-> used, ok |-> used <= slop]
          ELSE [r EXCEPT !.ok = FALSE]
  BY DEF Hop
<1>0. r.ok \in BOOLEAN
  BY DEF HopRecords
<1>2. CASE ~r.ok
  <2>1. h = [r EXCEPT !.ok = FALSE]
    BY <1>1, <1>2
  <2>2. h.ok = FALSE
    BY <2>1 DEF HopRecords
  <2> QED BY <1>2, <2>2
<1>3. CASE r.ok
  <2> DEFINE a == r.at
             b == relative[i]
             c == relative[i - 1]
             u == r.used
             E == ElementsOf(positions[i])
  <2>1. /\ a \in ElementsOf(positions[i - 1])
        /\ u = a - start - c
        /\ u \in 0..slop
    BY <1>3 DEF Arrived
  <2>2. /\ a \in Nat /\ b \in Nat /\ c \in Nat /\ c < b
        /\ GapBefore(relative, i) = b - c
        /\ positions[i] \in Seq(Numbers(W32)) /\ Increasing(positions[i])
        /\ E \subseteq 0..W32 - 1
        /\ W32 \in Nat /\ slop \in 0..W32 - 1
    <3>1. i - 1 \in 1..Len(positions) /\ i \in 1..Len(positions)
      BY PhraseNumbers
    <3>2. positions[i] \in Seq(Numbers(W32))
      BY <3>1, PhraseNumbers
    <3>3. E \subseteq 0..W32 - 1
      <4>1. E \subseteq Numbers(W32)
        BY <3>2 DEF ElementsOf
      <4> QED BY <4>1 DEF Numbers
    <3>4. slop \in 0..W32 - 1 /\ W32 \in Nat
      BY WidthsAssumption DEF Numbers
    <3> QED BY <2>1, <3>1, <3>2, <3>3, <3>4, PhraseNumbers
  <2>3. a + b - c < W32
    BY <2>1 DEF GoodPhrase
  <2>4. minimum = (a + (b - c)) % W32
    BY <2>2
  <2> HIDE DEF minimum, a, b, c, u, E
  <2>5. minimum = a + (b - c) /\ minimum \in Nat
    <3>1. a + (b - c) \in 0..W32 - 1
      BY <2>2, <2>3
    <3>2. (a + (b - c)) % W32 = a + (b - c)
      BY <2>2, <3>1, SmallRemainder
    <3> QED BY <2>4, <3>1, <3>2
  <2>6. \/ /\ next = NotFound
           /\ \A x \in E : x < minimum
        \/ /\ next \in E
           /\ next >= minimum
           /\ next # NotFound
           /\ \A x \in E : x >= minimum => next <= x
    BY <2>2, <2>5, NextPositionIs DEF E
  <2> HIDE DEF next
  <2>7. CASE next = NotFound
    <3>1. h = [r EXCEPT !.ok = FALSE]
      BY <1>1, <2>7
    <3>2. h.ok = FALSE
      BY <3>1 DEF HopRecords
    <3> HIDE DEF h
    <3>3. ASSUME NEW x \in E
          PROVE  ~(x - a >= b - c)
      <4>1. x < minimum /\ x \in Nat
        BY <2>2, <2>6, <2>7
      <4> QED BY <4>1, <2>2, <2>5
    <3> QED BY <3>2, <3>3 DEF h, E, a, b, c
  <2>8. CASE next # NotFound
    <3>1. next \in E /\ next >= minimum /\ \A x \in E : x >= minimum => next <= x
      BY <2>6, <2>8
    <3>2. next \in 0..W32 - 1
      BY <3>1, <2>2
    <3>3. used = (u + next - minimum) % W32
      BY DEF u
    <3> HIDE DEF used
    <3>4. used = next - start - b /\ used \in Nat
      <4>1. u + next - minimum = next - start - b /\ u + next - minimum \in 0..W32 - 1
        BY <2>1, <2>2, <2>5, <3>1, <3>2
      <4>2. (u + next - minimum) % W32 = u + next - minimum
        BY <2>2, <4>1, SmallRemainder
      <4> QED BY <3>3, <4>1, <4>2
    <3>5. h = [at |-> next, used |-> used, ok |-> used <= slop]
      BY <1>1, <1>3, <2>8
    <3>6. h.at = next /\ h.used = used /\ h.ok = (used <= slop)
      BY <3>5
    <3> HIDE DEF h
    <3>7. next - a >= b - c
      BY <3>1, <3>2, <2>5, <2>2
    <3>8. ASSUME h.ok
          PROVE  Arrived(positions, relative, slop, start, i, h)
      <4>1. used <= slop
        BY <3>6, <3>8
      <4>2. used \in 0..slop
        BY <4>1, <3>4, <2>2
      <4>3. h.at \in E /\ h.used = h.at - start - b /\ h.used \in 0..slop
        BY <3>1, <3>4, <3>6, <4>2
      <4> QED BY <4>3 DEF Arrived, E, b
    <3>9. ASSUME NEW x \in E, x - a >= b - c, x - start - b <= slop
          PROVE  h.ok /\ h.at <= x
      <4>1. x \in Nat
        BY <2>2
      <4>2. x >= minimum
        BY <4>1, <3>9, <2>2, <2>5
      <4>3. next <= x
        BY <4>2, <3>1
      <4>4. used <= slop
        BY <4>1, <4>3, <3>2, <3>4, <3>9, <2>2
      <4> QED BY <4>3, <4>4, <3>6
    <3>10. h.at - a >= b - c
      BY <3>6, <3>7
    <3> QED BY <1>3, <3>8, <3>9, <3>10 DEF h, E, a, b, c
  <2> QED BY <2>7, <2>8
<1> QED BY <1>2, <1>3

(* A hop ends in a record of its kind.                                     *)
LEMMA HopIsRecord ==
    ASSUME NEW positions, NEW relative, GoodPhrase(positions, relative),
           NEW slop \in Numbers(W32), NEW i \in 2..Len(positions), NEW r \in HopRecords
    PROVE  Hop(positions, relative, slop, i, r) \in HopRecords
<1> DEFINE minimum == (r.at + GapBefore(relative, i)) % W32
           next == NextPosition(positions[i], minimum)
           used == (r.used + next - minimum) % W32
<1>1. r.at \in Int /\ r.used \in Int /\ r.ok \in BOOLEAN
  BY DEF HopRecords
<1>2. GapBefore(relative, i) \in Int
  <2>1. relative[i] \in Nat /\ relative[i - 1] \in Nat /\ GapBefore(relative, i) = relative[i] - relative[i - 1]
    BY PhraseNumbers
  <2> QED BY <2>1
<1>3. minimum \in Nat
  <2>1. r.at + GapBefore(relative, i) \in Int
    BY <1>1, <1>2
  <2> QED BY <2>1, WidthsAssumption
<1> HIDE DEF minimum
<1>4. next \in Int
  <2>1. /\ positions[i] \in Seq(Numbers(W32)) /\ Increasing(positions[i])
        /\ ElementsOf(positions[i]) \subseteq Nat
    BY PhraseNumbers
  <2>2. next = NotFound \/ next \in ElementsOf(positions[i])
    BY <2>1, <1>3, NextPositionIs
  <2> QED BY <2>1, <2>2 DEF NotFound
<1> HIDE DEF next
<1>5. used \in Int
  <2>1. r.used + next - minimum \in Int
    BY <1>1, <1>3, <1>4
  <2> QED BY <2>1, WidthsAssumption
<1> HIDE DEF used
<1>6. (used <= slop) \in BOOLEAN
  OBVIOUS
<1>7. Hop(positions, relative, slop, i, r) =
        IF r.ok /\ next # NotFound
        THEN [at |-> next, used |-> used, ok |-> used <= slop]
        ELSE [r EXCEPT !.ok = FALSE]
  BY DEF Hop, minimum, next, used
<1>8. [at |-> next, used |-> used, ok |-> used <= slop] \in HopRecords
  BY <1>4, <1>5, <1>6 DEF HopRecords
<1>9. [r EXCEPT !.ok = FALSE] \in HopRecords
  BY DEF HopRecords
<1> QED BY <1>7, <1>8, <1>9

(* The hops exist, and are what they should be.                            *)
LEMMA HopsAre ==
    ASSUME NEW positions, NEW relative, GoodPhrase(positions, relative),
           NEW slop \in Numbers(W32), NEW start \in Nat
    PROVE  /\ \E run : HopsOf(run, positions, relative, slop, start)
           /\ \A run : HopsOf(run, positions, relative, slop, start) =>
                /\ run[1] = [at |-> start, used |-> 0, ok |-> TRUE]
                /\ \A i \in 2..Len(positions) : run[i] = Hop(positions, relative, slop, i, run[i - 1])
<1> DEFINE n == Len(positions)
           V == HopRecords
           v1 == [at |-> start, used |-> 0, ok |-> TRUE]
           step == [i \in 2..n |-> [r \in V |-> Hop(positions, relative, slop, i, r)]]
<1>1. n \in Nat \ {0}
  BY DEF GoodPhrase
<1>2. v1 \in V
  BY DEF HopRecords
<1>3. ASSUME NEW i \in 2..n, NEW r \in V
      PROVE  Hop(positions, relative, slop, i, r) \in V
  BY HopIsRecord
<1>4. step \in [2..n -> [V -> V]]
  <2> HIDE DEF V
  <2> QED BY <1>3
<1> HIDE DEF n
<1>5. PICK f \in [1..n -> V] : f[1] = v1 /\ \A k \in 2..n : f[k] = step[k][f[k - 1]]
  <2> HIDE DEF V, v1, step
  <2>1. Chains(n, V, v1, step)
    BY <1>1, <1>2, <1>4 DEF Chains
  <2>2. \E f : ChainOf(f, n, V, v1, step)
    BY <2>1, ChainFunction
  <2> QED BY <2>2 DEF ChainOf
<1>6. ASSUME NEW i \in 1..n
      PROVE  f[i] = HopAt(positions, relative, slop, start, f, i)
  <2>1. CASE i = 1
    BY <2>1, <1>5 DEF HopAt
  <2>2. CASE i # 1
    <3>1. i \in 2..n /\ i - 1 \in 1..n
      BY <2>2, <1>1
    <3>2. f[i - 1] \in V
      BY <3>1
    <3> HIDE DEF V, v1
    <3>3. step[i][f[i - 1]] = Hop(positions, relative, slop, i, f[i - 1])
      BY <3>1, <3>2
    <3> QED BY <3>1, <3>3, <1>5, <2>2 DEF HopAt
  <2> QED BY <2>1, <2>2
<1>7. f = [i \in 1..n |-> f[i]]
  OBVIOUS
<1>8. HopsOf(f, positions, relative, slop, start)
  <2> HIDE DEF V
  <2>1. f = [i \in 1..n |-> HopAt(positions, relative, slop, start, f, i)]
    BY <1>6, <1>7
  <2> QED BY <2>1 DEF HopsOf, n
<1>9. ASSUME NEW run, HopsOf(run, positions, relative, slop, start)
      PROVE  /\ run[1] = v1
             /\ \A i \in 2..n : run[i] = Hop(positions, relative, slop, i, run[i - 1])
  <2>1. run = [i \in 1..n |-> HopAt(positions, relative, slop, start, run, i)]
    BY <1>9 DEF HopsOf, n
  <2>2. 1 \in 1..n /\ \A i \in 2..n : i \in 1..n /\ i # 1
    BY <1>1
  <2>3. run[1] = HopAt(positions, relative, slop, start, run, 1)
    BY <2>1, <2>2
  <2>4. ASSUME NEW i \in 2..n
        PROVE  run[i] = Hop(positions, relative, slop, i, run[i - 1])
    <3>1. run[i] = HopAt(positions, relative, slop, start, run, i)
      BY <2>1, <2>2
    <3> QED BY <3>1, <2>2 DEF HopAt
  <2> QED BY <2>3, <2>4 DEF HopAt
<1> QED BY <1>8, <1>9 DEF n

\* The run of hops from an occurrence of the first word.
RunIs(run, positions, relative, slop, start) ==
  /\ run[1] = [at |-> start, used |-> 0, ok |-> TRUE]
  /\ \A i \in 2..Len(positions) : run[i] = Hop(positions, relative, slop, i, run[i - 1])

(* Along the run: as long as it goes on, it has arrived at each word so far. *)
LEMMA RunArrives ==
    ASSUME NEW positions, NEW relative, GoodPhrase(positions, relative),
           NEW slop \in Numbers(W32), NEW start \in ElementsOf(positions[1]),
           NEW run, RunIs(run, positions, relative, slop, start), NEW i \in 1..Len(positions)
    PROVE  /\ run[i] \in HopRecords
           /\ run[i].ok => Arrived(positions, relative, slop, start, i, run[i])
<1> DEFINE n == Len(positions)
           Fine(j) == /\ run[j] \in HopRecords
                      /\ run[j].ok => Arrived(positions, relative, slop, start, j, run[j])
           S == {k \in Nat : k + 1 <= n => Fine(k + 1)}
<1>1. n \in Nat \ {0} /\ 1 \in 1..n /\ start \in Nat /\ slop \in Nat
  <2>1. n \in Nat \ {0}
    BY PhraseNumbers
  <2>2. 1 \in 1..n
    BY <2>1
  <2>3. ElementsOf(positions[1]) \subseteq Nat
    BY <2>2, PhraseNumbers
  <2> QED BY <2>1, <2>2, <2>3, WidthsAssumption DEF Numbers
<1>2. Fine(1)
  <2>1. run[1] = [at |-> start, used |-> 0, ok |-> TRUE]
    BY DEF RunIs
  <2>2. relative[1] = 0
    BY DEF GoodPhrase
  <2>3. run[1].at = start /\ run[1].used = 0
    BY <2>1
  <2>4. run[1].used = run[1].at - start - relative[1] /\ run[1].used \in 0..slop
    BY <2>2, <2>3, <1>1
  <2>5. run[1] \in HopRecords
    BY <2>1, <1>1 DEF HopRecords
  <2> QED BY <2>3, <2>4, <2>5 DEF Arrived
<1> HIDE DEF n
<1>3. ASSUME NEW j \in 2..n, Fine(j - 1)
      PROVE  Fine(j)
  <2> DEFINE r == run[j - 1]
  <2>1. j \in 2..Len(positions)
    BY DEF n
  <2>2. run[j] = Hop(positions, relative, slop, j, r)
    BY <2>1 DEF RunIs
  <2>3. r \in HopRecords /\ (r.ok => Arrived(positions, relative, slop, start, j - 1, r))
    BY <1>3
  <2> HIDE DEF r
  <2>4. Hop(positions, relative, slop, j, r) \in HopRecords
    BY <2>1, <2>3, HopIsRecord
  <2>5. Hop(positions, relative, slop, j, r).ok =>
          Arrived(positions, relative, slop, start, j, Hop(positions, relative, slop, j, r))
    BY <2>1, <2>3, <1>1, HopArrives
  <2> QED BY <2>2, <2>4, <2>5
<1>4. 0 \in S
  BY <1>2
<1>5. ASSUME NEW k \in S
      PROVE  k + 1 \in S
  <2> SUFFICES ASSUME (k + 1) + 1 <= n PROVE Fine((k + 1) + 1)
    OBVIOUS
  <2>1. (k + 1) + 1 \in 2..n /\ ((k + 1) + 1) - 1 = k + 1 /\ k + 1 <= n
    BY <1>1
  <2>2. Fine(k + 1)
    BY <2>1
  <2> HIDE DEF Fine
  <2> QED BY <2>1, <2>2, <1>3
<1>6. S = Nat
  <2>1. S \in SUBSET Nat
    OBVIOUS
  <2> HIDE DEF S
  <2> QED BY <1>4, <1>5, <2>1, NumberInduction
<1>7. i - 1 \in S /\ (i - 1) + 1 = i /\ i <= n
  <2> HIDE DEF S
  <2> QED BY <1>1, <1>6 DEF n
<1>8. Fine(i)
  <2> HIDE DEF Fine
  <2> QED BY <1>7
<1> QED BY <1>8

\* A placement of the words: one occurrence of each, at least as far apart as
\* in the query.
Placed(f, positions, relative) ==
  /\ \A k \in 1..Len(positions) : f[k] \in ElementsOf(positions[k])
  /\ \A k \in 2..Len(positions) : f[k] - f[k - 1] >= relative[k] - relative[k - 1]

(* What a placement misses of the slop only grows from word to word.       *)
LEMMA MissesGrow ==
    ASSUME NEW positions, NEW relative, GoodPhrase(positions, relative), NEW f,
           Placed(f, positions, relative), NEW i \in 1..Len(positions)
    PROVE  f[i] - relative[i] <= f[Len(positions)] - relative[Len(positions)]
<1> DEFINE n == Len(positions)
           miss(k) == f[k] - relative[k]
           S == {d \in Nat : d < n => miss(n - d) <= miss(n)}
<1>1. n \in Nat \ {0}
  BY PhraseNumbers
<1>2. \A k \in 1..n : f[k] \in Nat /\ relative[k] \in Nat
  BY PhraseNumbers DEF Placed
<1>3. \A k \in 2..n : k \in 1..n /\ k - 1 \in 1..n /\ f[k] - f[k - 1] >= relative[k] - relative[k - 1]
  BY PhraseNumbers DEF Placed
<1> HIDE DEF n
<1>4. \A k \in 1..n : miss(k) \in Int
  <2> TAKE k \in 1..n
  <2>1. f[k] \in Nat /\ relative[k] \in Nat
    BY <1>2
  <2> QED BY <2>1
<1>5. ASSUME NEW k \in 2..n
      PROVE  miss(k - 1) <= miss(k)
  <2> DEFINE a == f[k]
             b == f[k - 1]
             c == relative[k]
             d == relative[k - 1]
  <2>1. a \in Nat /\ b \in Nat /\ c \in Nat /\ d \in Nat /\ a - b >= c - d
    BY <1>2, <1>3
  <2> HIDE DEF a, b, c, d
  <2>2. b - d <= a - c
    BY <2>1
  <2> QED BY <2>2 DEF a, b, c, d
<1> HIDE DEF miss
<1>6. 0 \in S
  <2>1. miss(n) \in Int /\ n - 0 = n
    BY <1>1, <1>4
  <2>2. miss(n - 0) <= miss(n)
    BY <2>1
  <2> QED BY <2>2
<1>7. ASSUME NEW d \in S
      PROVE  d + 1 \in S
  <2> SUFFICES ASSUME d + 1 < n PROVE miss(n - (d + 1)) <= miss(n)
    OBVIOUS
  <2>1. d < n /\ n - d \in 2..n /\ n - d \in 1..n /\ n \in 1..n /\ n - (d + 1) = (n - d) - 1 /\ (n - d) - 1 \in 1..n
    BY <1>1
  <2>2. miss(n - d) <= miss(n)
    BY <2>1
  <2>3. miss((n - d) - 1) <= miss(n - d)
    BY <2>1, <1>5
  <2>4. miss((n - d) - 1) \in Int /\ miss(n - d) \in Int /\ miss(n) \in Int
    BY <2>1, <1>4
  <2>5. miss((n - d) - 1) <= miss(n)
    BY <2>2, <2>3, <2>4
  <2> QED BY <2>1, <2>5
<1>8. S = Nat
  <2>1. S \in SUBSET Nat
    OBVIOUS
  <2> HIDE DEF S
  <2> QED BY <1>6, <1>7, <2>1, NumberInduction
<1>9. n - i \in Nat /\ n - i < n /\ n - (n - i) = i
  BY <1>1 DEF n
<1>10. n - i \in S
  <2> HIDE DEF S
  <2> QED BY <1>8, <1>9
<1>11. miss(n - (n - i)) <= miss(n)
  BY <1>9, <1>10
<1>12. miss(i) <= miss(n)
  BY <1>9, <1>11
<1> QED BY <1>12 DEF miss, n

(* No placement within the slop is missed: the run goes on and is never    *)
(* behind it.                                                              *)
LEMMA RunKeepsUp ==
    ASSUME NEW positions, NEW relative, GoodPhrase(positions, relative),
           NEW slop \in Numbers(W32), NEW f, Placed(f, positions, relative),
           f[Len(positions)] - f[1] - relative[Len(positions)] <= slop,
           NEW run, RunIs(run, positions, relative, slop, f[1]), NEW i \in 1..Len(positions)
    PROVE  run[i].ok /\ run[i].at <= f[i]
<1> DEFINE n == Len(positions)
           Up(j) == run[j].ok /\ run[j].at <= f[j]
           S == {k \in Nat : k + 1 <= n => Up(k + 1)}
<1>1. n \in Nat \ {0} /\ 1 \in 1..n /\ n \in 1..n
  BY PhraseNumbers
<1>2. \A k \in 1..n : f[k] \in Nat /\ relative[k] \in Nat /\ f[k] \in ElementsOf(positions[k])
  BY PhraseNumbers DEF Placed
<1>3. Up(1)
  <2>1. run[1] = [at |-> f[1], used |-> 0, ok |-> TRUE]
    BY DEF RunIs
  <2>2. f[1] \in Nat
    BY <1>1, <1>2
  <2> QED BY <2>1, <2>2
<1>4. f[1] \in ElementsOf(positions[1]) /\ f[1] \in Nat
  BY <1>1, <1>2
<1>5. ASSUME NEW j \in 2..n, Up(j - 1)
      PROVE  Up(j)
  <2> DEFINE r == run[j - 1]
             h == Hop(positions, relative, slop, j, r)
  <2>1. j \in 2..Len(positions) /\ j \in 1..n /\ j - 1 \in 1..n
    BY <1>1
  <2>2. run[j] = h
    BY <2>1 DEF RunIs
  <2>3. r \in HopRecords /\ (r.ok => Arrived(positions, relative, slop, f[1], j - 1, r))
    BY <2>1, <1>4, RunArrives
  <2>4. r.ok /\ r.at <= f[j - 1]
    BY <1>5
  <2> HIDE DEF r
  <2>5. r.at \in Int
    BY <2>3 DEF HopRecords
  <2>6. f[j] - r.at >= relative[j] - relative[j - 1]
    <3> DEFINE a == f[j]
               b == f[j - 1]
               c == relative[j]
               d == relative[j - 1]
               e == r.at
    <3>1. a \in Nat /\ b \in Nat /\ c \in Nat /\ d \in Nat /\ e \in Int /\ e <= b /\ a - b >= c - d
      BY <1>2, <2>1, <2>4, <2>5 DEF Placed
    <3> HIDE DEF a, b, c, d, e
    <3>2. a - e >= c - d
      BY <3>1
    <3> QED BY <3>2 DEF a, c, d, e
  <2>7. f[j] - f[1] - relative[j] <= slop
    <3> DEFINE a == f[j]
               b == f[1]
               c == relative[j]
               d == f[n]
               e == relative[n]
    <3>1. a - c <= d - e
      BY <2>1, MissesGrow
    <3>2. /\ a \in Nat /\ b \in Nat /\ c \in Nat /\ d \in Nat /\ e \in Nat /\ slop \in Nat
          /\ d - b - e <= slop
      BY <1>1, <1>2, <2>1, WidthsAssumption DEF Numbers
    <3> HIDE DEF a, b, c, d, e
    <3>3. a - b - c <= slop
      BY <3>1, <3>2
    <3> QED BY <3>3 DEF a, b, c
  <2>8. f[j] \in ElementsOf(positions[j])
    BY <1>2, <2>1
  <2>9. h.ok /\ h.at <= f[j]
    BY <2>1, <2>3, <2>4, <2>6, <2>7, <2>8, <1>4, HopArrives
  <2> HIDE DEF h
  <2> QED BY <2>2, <2>9
<1> HIDE DEF Up, n
<1>6. 0 \in S
  BY <1>3
<1>7. ASSUME NEW k \in S
      PROVE  k + 1 \in S
  <2> SUFFICES ASSUME (k + 1) + 1 <= n PROVE Up((k + 1) + 1)
    OBVIOUS
  <2>1. (k + 1) + 1 \in 2..n /\ ((k + 1) + 1) - 1 = k + 1 /\ k + 1 <= n
    BY <1>1
  <2>2. Up(k + 1)
    BY <2>1
  <2> QED BY <2>1, <2>2, <1>5
<1>8. S = Nat
  <2>1. S \in SUBSET Nat
    OBVIOUS
  <2> HIDE DEF S
  <2> QED BY <1>6, <1>7, <2>1, NumberInduction
<1>9. i - 1 \in S /\ (i - 1) + 1 = i /\ i <= n
  <2> HIDE DEF S
  <2> QED BY <1>1, <1>8 DEF n
<1>10. Up(i)
  BY <1>9
<1> QED BY <1>10 DEF Up

(* A run that goes on to the end is a placement within the slop.           *)
LEMMA RunIsPlacement ==
    ASSUME NEW positions, NEW relative, GoodPhrase(positions, relative),
           NEW slop \in Numbers(W32), NEW start \in ElementsOf(positions[1]),
           NEW run, RunIs(run, positions, relative, slop, start), run[Len(positions)].ok
    PROVE  PlacementExists(positions, relative, slop)
<1> DEFINE n == Len(positions)
           f == [k \in 1..n |-> run[k].at]
           S == {d \in Nat : d < n => run[n - d].ok}
<1>1. n \in Nat \ {0} /\ 1 \in 1..n /\ n \in 1..n
  BY PhraseNumbers
<1>2. start \in Nat
  <2>1. ElementsOf(positions[1]) \subseteq Nat
    BY <1>1, PhraseNumbers
  <2> QED BY <2>1
<1>3. \A k \in 1..n : /\ run[k] \in HopRecords
                      /\ run[k].ok => Arrived(positions, relative, slop, start, k, run[k])
  BY RunArrives
<1>4. ASSUME NEW k \in 2..n, run[k].ok
      PROVE  run[k - 1].ok /\ run[k].at - run[k - 1].at >= relative[k] - relative[k - 1]
  <2> DEFINE r == run[k - 1]
             h == Hop(positions, relative, slop, k, r)
  <2>1. k \in 2..Len(positions) /\ k - 1 \in 1..n
    BY <1>1
  <2>2. run[k] = h
    BY <2>1 DEF RunIs
  <2>3. r \in HopRecords /\ (r.ok => Arrived(positions, relative, slop, start, k - 1, r))
    BY <2>1, <1>3
  <2> HIDE DEF r
  <2>4. h.ok
    BY <1>4, <2>2
  <2>5. r.ok /\ h.at - r.at >= relative[k] - relative[k - 1]
    BY <2>1, <2>3, <2>4, <1>2, HopArrives
  <2> HIDE DEF h
  <2> QED BY <2>2, <2>5 DEF r
<1> HIDE DEF n
<1>5. 0 \in S
  <2>1. n - 0 = n
    BY <1>1
  <2> QED BY <2>1 DEF n
<1>6. ASSUME NEW d \in S
      PROVE  d + 1 \in S
  <2> SUFFICES ASSUME d + 1 < n PROVE run[n - (d + 1)].ok
    OBVIOUS
  <2>1. d < n /\ n - d \in 2..n /\ n - (d + 1) = (n - d) - 1
    BY <1>1
  <2>2. run[n - d].ok
    BY <2>1
  <2>3. run[(n - d) - 1].ok
    BY <2>1, <2>2, <1>4
  <2> QED BY <2>1, <2>3
<1>7. S = Nat
  <2>1. S \in SUBSET Nat
    OBVIOUS
  <2> HIDE DEF S
  <2> QED BY <1>5, <1>6, <2>1, NumberInduction
<1>8. ASSUME NEW k \in 1..n
      PROVE  run[k].ok
  <2>1. n - k \in Nat /\ n - k < n /\ n - (n - k) = k
    BY <1>1
  <2>2. n - k \in S
    <3> HIDE DEF S
    <3> QED BY <2>1, <1>7
  <2>3. run[n - (n - k)].ok
    BY <2>1, <2>2
  <2> QED BY <2>1, <2>3
<1>9. \A k \in 1..n : run[k].at \in ElementsOf(positions[k])
  BY <1>3, <1>8 DEF Arrived
<1>10. f \in [1..n -> UNION {ElementsOf(positions[k]) : k \in 1..n}]
  BY <1>9
<1>11. \A k \in 1..n : f[k] \in ElementsOf(positions[k])
  BY <1>9
<1>12. \A k \in 2..n : k \in 1..n /\ k - 1 \in 1..n
  BY <1>1
<1>13. \A k \in 2..n : f[k] - f[k - 1] >= relative[k] - relative[k - 1]
  BY <1>4, <1>8, <1>12
<1>14. f[n] - f[1] - relative[n] <= slop
  <2>1. run[1].at = start
    BY DEF RunIs
  <2>2. run[n].used = run[n].at - start - relative[n] /\ run[n].used \in 0..slop
    BY <1>1, <1>3, <1>8 DEF Arrived
  <2>3. run[n].at - start - relative[n] \in 0..slop
    BY <2>2
  <2>4. slop \in Nat
    BY WidthsAssumption DEF Numbers
  <2>5. run[n].at - start - relative[n] <= slop
    BY <2>3, <2>4
  <2> QED BY <2>1, <2>5, <1>1
<1> HIDE DEF f
<1>15. \E g \in [1..n -> UNION {ElementsOf(positions[k]) : k \in 1..n}] :
         /\ \A k \in 1..n : g[k] \in ElementsOf(positions[k])
         /\ \A k \in 2..n : g[k] - g[k - 1] >= relative[k] - relative[k - 1]
         /\ g[n] - g[1] - relative[n] <= slop
  BY <1>10, <1>11, <1>13, <1>14, Zenon
<1> QED BY <1>15 DEF PlacementExists, n

(* Greedy matching is exact: it finds a placement of the words within the  *)
(* slop exactly if there is one (phrasePositionsMatch).                    *)
THEOREM PhrasesMatchExactly ==
    ASSUME NEW positions, NEW relative, GoodPhrase(positions, relative), NEW slop \in Numbers(W32)
    PROVE  PhraseIsExact(positions, relative, slop)
<1> DEFINE n == Len(positions)
           runOf(start) == CHOOSE run : HopsOf(run, positions, relative, slop, start)
<1>1. n \in Nat \ {0} /\ 1 \in 1..n /\ n \in 1..n
  BY PhraseNumbers
<1>2. PhrasePositionsMatch(positions, relative, slop) <=>
        n > 0 /\ \E k \in 1..Len(positions[1]) : runOf(positions[1][k])[n].ok
  BY Zenon DEF PhrasePositionsMatch, HopsOf, HopAt, Hop
<1> HIDE DEF n
<1>3. ASSUME NEW start \in ElementsOf(positions[1])
      PROVE  RunIs(runOf(start), positions, relative, slop, start)
  <2>1. start \in Nat
    BY <1>1, PhraseNumbers DEF n
  <2>2. HopsOf(runOf(start), positions, relative, slop, start)
    BY <2>1, HopsAre
  <2> HIDE DEF runOf
  <2> QED BY <2>1, <2>2, HopsAre DEF RunIs
<1> HIDE DEF runOf
<1>4. ASSUME PhrasePositionsMatch(positions, relative, slop)
      PROVE  PlacementExists(positions, relative, slop)
  <2>1. PICK k \in 1..Len(positions[1]) : runOf(positions[1][k])[n].ok
    BY <1>2, <1>4
  <2>2. positions[1][k] \in ElementsOf(positions[1])
    BY DEF ElementsOf
  <2>3. RunIs(runOf(positions[1][k]), positions, relative, slop, positions[1][k])
    BY <2>2, <1>3
  <2> QED BY <2>1, <2>2, <2>3, RunIsPlacement DEF n
<1>5. ASSUME PlacementExists(positions, relative, slop)
      PROVE  PhrasePositionsMatch(positions, relative, slop)
  <2>1. PICK f : /\ \A k \in 1..n : f[k] \in ElementsOf(positions[k])
                 /\ \A k \in 2..n : f[k] - f[k - 1] >= relative[k] - relative[k - 1]
                 /\ f[n] - f[1] - relative[n] <= slop
    BY <1>5, Zenon DEF PlacementExists, n
  <2>2. Placed(f, positions, relative)
    BY <2>1 DEF Placed, n
  <2>3. f[1] \in ElementsOf(positions[1])
    BY <2>1, <1>1
  <2>4. RunIs(runOf(f[1]), positions, relative, slop, f[1])
    BY <2>3, <1>3
  <2>5. runOf(f[1])[n].ok
    BY <2>1, <2>2, <2>4, <1>1, RunKeepsUp DEF n
  <2>6. PICK k \in 1..Len(positions[1]) : f[1] = positions[1][k]
    BY <2>3 DEF ElementsOf
  <2>7. runOf(positions[1][k])[n].ok
    BY <2>5, <2>6
  <2> QED BY <2>7, <1>1, <1>2
<1> QED BY <1>4, <1>5 DEF PhraseIsExact

-----------------------------------------------------------------------------
(* Edit distance.                                                          *)

Differ(r, s) == IF r = s THEN 0 ELSE 1

\* The table of the edit distances of the prefixes of a and b.
Table(D, a, b) ==
  /\ D \in [0..Len(a) -> [0..Len(b) -> Nat]]
  /\ \A j \in 0..Len(b) : D[0][j] = j
  /\ \A i \in 1..Len(a) : D[i][0] = i
  /\ \A i \in 1..Len(a), j \in 1..Len(b) :
       D[i][j] = Min3(D[i][j - 1] + 1, D[i - 1][j] + 1, D[i - 1][j - 1] + Differ(a[i], b[j]))

(* Min3 is the least of the three.                                         *)
LEMMA Min3Is ==
    ASSUME NEW x \in Nat, NEW y \in Nat, NEW z \in Nat
    PROVE  /\ Min3(x, y, z) \in Nat
           /\ Min3(x, y, z) <= x /\ Min3(x, y, z) <= y /\ Min3(x, y, z) <= z
           /\ Min3(x, y, z) \in {x, y, z}
BY DEF Min3

CellAt(previous, i, r, b, cell, j) ==
  IF j = 0 THEN i ELSE Min3(cell[j - 1] + 1, previous[j] + 1, previous[j - 1] + Differ(r, b[j]))

CellsOf(cell, previous, i, r, b) == cell = [j \in 0..Len(b) |-> CellAt(previous, i, r, b, cell, j)]

(* A row of the table, from the row before it.                             *)
LEMMA NextRowIs ==
    ASSUME NEW Alphabet, NEW b \in Seq(Alphabet), NEW previous \in [0..Len(b) -> Nat], NEW i \in Nat, NEW r
    PROVE  /\ NextRow(previous, i, r, b) \in [0..Len(b) -> Nat]
           /\ NextRow(previous, i, r, b)[0] = i
           /\ \A j \in 1..Len(b) : NextRow(previous, i, r, b)[j] =
                Min3(NextRow(previous, i, r, b)[j - 1] + 1, previous[j] + 1,
                     previous[j - 1] + Differ(r, b[j]))
<1> DEFINE n == Len(b)
           x(j) == previous[j] + 1
           y(j) == previous[j - 1] + Differ(r, b[j])
           step == [j \in 1..n |-> [v \in Nat |-> Min3(v + 1, x(j), y(j))]]
<1>1. n \in Nat
  OBVIOUS
<1>2. \A j \in 1..n : x(j) \in Nat /\ y(j) \in Nat
  <2>1. \A j \in 1..n : j \in 0..n /\ j - 1 \in 0..n
    BY <1>1
  <2>2. \A j \in 1..n : Differ(r, b[j]) \in Nat
    BY DEF Differ
  <2> SUFFICES ASSUME NEW j \in 1..n PROVE x(j) \in Nat /\ y(j) \in Nat
    OBVIOUS
  <2> DEFINE p == previous[j]
             q == previous[j - 1]
             d == Differ(r, b[j])
  <2>3. p \in Nat /\ q \in Nat /\ d \in Nat
    BY <2>1, <2>2
  <2> HIDE DEF p, q, d
  <2>4. p + 1 \in Nat /\ q + d \in Nat
    BY <2>3
  <2> QED BY <2>4 DEF p, q, d
<1> HIDE DEF n, x, y
<1>3. step \in [1..n -> [Nat -> Nat]]
  <2>1. ASSUME NEW j \in 1..n, NEW v \in Nat
        PROVE  Min3(v + 1, x(j), y(j)) \in Nat
    <3>1. v + 1 \in Nat /\ x(j) \in Nat /\ y(j) \in Nat
      BY <1>2
    <3> QED BY <3>1, Min3Is
  <2> QED BY <2>1
<1>4. PICK f : Follows(f, n, Nat, i, step)
  <2> HIDE DEF step
  <2>1. Stepwise(n, Nat, i, step)
    BY <1>1, <1>3 DEF Stepwise
  <2> QED BY <2>1, StepwiseFunction
<1>5. f \in [0..n -> Nat] /\ f[0] = i /\ \A j \in 1..n : f[j] = step[j][f[j - 1]]
  <2> HIDE DEF step
  <2> QED BY <1>4 DEF Follows
<1>6. ASSUME NEW j \in 0..n
      PROVE  f[j] = CellAt(previous, i, r, b, f, j)
  <2>1. CASE j = 0
    BY <2>1, <1>5 DEF CellAt
  <2>2. CASE j # 0
    <3>1. j \in 1..n /\ j - 1 \in 0..n
      BY <2>2, <1>1
    <3>2. f[j - 1] \in Nat
      BY <3>1, <1>5
    <3>3. step[j][f[j - 1]] = Min3(f[j - 1] + 1, x(j), y(j))
      BY <3>1, <3>2
    <3> QED BY <3>1, <3>3, <1>5, <2>2 DEF CellAt, x, y
  <2> QED BY <2>1, <2>2
<1>7. CellsOf(f, previous, i, r, b)
  <2>1. f = [j \in 0..n |-> f[j]]
    BY <1>5
  <2> QED BY <2>1, <1>6, Zenon DEF CellsOf, n
<1> DEFINE h == CHOOSE cell : CellsOf(cell, previous, i, r, b)
           row == NextRow(previous, i, r, b)
<1>8. CellsOf(h, previous, i, r, b)
  BY <1>7
<1>9. row = [j \in 0..n |-> h[j]]
  BY Zenon DEF NextRow, CellsOf, CellAt, Differ, n
<1> HIDE DEF h, row
<1>10. \A j \in 0..n : row[j] = CellAt(previous, i, r, b, row, j)
  <2>1. \A j \in 0..n : h[j] = CellAt(previous, i, r, b, h, j)
    BY <1>8 DEF CellsOf, n
  <2>2. \A j \in 0..n : row[j] = h[j]
    BY <1>9
  <2> SUFFICES ASSUME NEW j \in 0..n PROVE row[j] = CellAt(previous, i, r, b, row, j)
    OBVIOUS
  <2>3. CASE j = 0
    BY <2>1, <2>2, <2>3 DEF CellAt
  <2>4. CASE j # 0
    <3>1. j - 1 \in 0..n
      BY <2>4, <1>1
    <3>2. row[j - 1] = h[j - 1]
      BY <3>1, <2>2
    <3> QED BY <2>1, <2>2, <2>4, <3>2 DEF CellAt
  <2> QED BY <2>3, <2>4
<1>11. row[0] = i
  BY <1>1, <1>10 DEF CellAt
<1>12. ASSUME NEW j \in 1..n
       PROVE  j \in 0..n /\ j - 1 \in 0..n /\ row[j] = Min3(row[j - 1] + 1, x(j), y(j))
  <2>1. j \in 0..n /\ j - 1 \in 0..n /\ j # 0
    BY <1>1
  <2> QED BY <2>1, <1>10 DEF CellAt, x, y
<1>13. \A j \in 0..n : row[j] \in Nat
  <2> DEFINE S == {j \in Nat : j <= n => row[j] \in Nat}
  <2>1. 0 \in S
    BY <1>11
  <2>2. ASSUME NEW j \in S
        PROVE  j + 1 \in S
    <3> SUFFICES ASSUME j + 1 <= n PROVE row[j + 1] \in Nat
      OBVIOUS
    <3>1. j + 1 \in 1..n /\ (j + 1) - 1 = j /\ row[j] \in Nat
      BY <1>1
    <3>2. row[j + 1] = Min3(row[j] + 1, x(j + 1), y(j + 1))
      BY <3>1, <1>12
    <3>3. row[j] + 1 \in Nat /\ x(j + 1) \in Nat /\ y(j + 1) \in Nat
      BY <3>1, <1>2
    <3> DEFINE p == row[j] + 1
               q == x(j + 1)
               s == y(j + 1)
    <3>4. p \in Nat /\ q \in Nat /\ s \in Nat /\ row[j + 1] = Min3(p, q, s)
      BY <3>2, <3>3
    <3> HIDE DEF p, q, s
    <3>5. Min3(p, q, s) \in Nat
      BY <3>4 DEF Min3
    <3> QED BY <3>4, <3>5
  <2>3. S = Nat
    <3>1. S \in SUBSET Nat
      OBVIOUS
    <3> HIDE DEF S
    <3> QED BY <2>1, <2>2, <3>1, NumberInduction
  <2> QED BY <2>3
<1>14. row \in [0..n -> Nat]
  BY <1>9, <1>13
<1> QED BY <1>11, <1>12, <1>14 DEF row, n, x, y

RowAt(a, b, row, i) ==
  IF i = 0 THEN [j \in 0..Len(b) |-> j] ELSE NextRow(row[i - 1], i, a[i], b)

RowsOf(row, a, b) == row = [i \in 0..Len(a) |-> RowAt(a, b, row, i)]

TooFar(D, a, b, cutoff) ==
  \/ Len(a) - Len(b) > cutoff \/ Len(b) - Len(a) > cutoff
  \/ \E i \in 1..Len(a) : \A j \in 0..Len(b) : D[i][j] > cutoff

(* What the comparison returns, in terms of the table.                     *)
LEMMA LevenshteinIs ==
    ASSUME NEW Alphabet, NEW a \in Seq(Alphabet), NEW b \in Seq(Alphabet), NEW cutoff
    PROVE  \E D : /\ Table(D, a, b)
                  /\ Levenshtein(a, b, cutoff) =
                       IF TooFar(D, a, b, cutoff) THEN cutoff + 1 ELSE D[Len(a)][Len(b)]
<1> DEFINE n == Len(a)
           V == [0..Len(b) -> Nat]
           v0 == [j \in 0..Len(b) |-> j]
           step == [i \in 1..n |-> [v \in V |-> NextRow(v, i, a[i], b)]]
<1>1. n \in Nat /\ v0 \in V
  OBVIOUS
<1>2. step \in [1..n -> [V -> V]]
  <2>1. ASSUME NEW i \in 1..n, NEW v \in V
        PROVE  NextRow(v, i, a[i], b) \in V
    BY NextRowIs
  <2> HIDE DEF V, n
  <2> QED BY <2>1
<1>3. PICK f : Follows(f, n, V, v0, step)
  <2> HIDE DEF step, V, v0, n
  <2>1. Stepwise(n, V, v0, step)
    BY <1>1, <1>2 DEF Stepwise
  <2> QED BY <2>1, StepwiseFunction
<1>4. f \in [0..n -> V] /\ f[0] = v0 /\ \A i \in 1..n : f[i] = step[i][f[i - 1]]
  <2> HIDE DEF step, V, v0, n
  <2> QED BY <1>3 DEF Follows
<1>5. ASSUME NEW i \in 0..n
      PROVE  f[i] = RowAt(a, b, f, i)
  <2>1. CASE i = 0
    BY <2>1, <1>4 DEF RowAt
  <2>2. CASE i # 0
    <3>1. i \in 1..n /\ i - 1 \in 0..n
      BY <2>2, <1>1
    <3> HIDE DEF V, v0, n
    <3>2. f[i - 1] \in V
      BY <3>1, <1>4
    <3>3. step[i][f[i - 1]] = NextRow(f[i - 1], i, a[i], b)
      BY <3>1, <3>2
    <3> QED BY <3>1, <3>3, <1>4, <2>2 DEF RowAt
  <2> QED BY <2>1, <2>2
<1>6. RowsOf(f, a, b)
  <2> HIDE DEF V, v0, step
  <2>1. f = [i \in 0..n |-> f[i]]
    BY <1>4
  <2> QED BY <2>1, <1>5, Zenon DEF RowsOf
<1> DEFINE D == CHOOSE row : RowsOf(row, a, b)
<1>7. RowsOf(D, a, b)
  BY <1>6
<1>8. Levenshtein(a, b, cutoff) = IF TooFar(D, a, b, cutoff) THEN cutoff + 1 ELSE D[n][Len(b)]
  BY Zenon DEF Levenshtein, RowsOf, RowAt, TooFar
<1> HIDE DEF D
<1>9. \A i \in 0..n : D[i] = RowAt(a, b, D, i)
  BY <1>7 DEF RowsOf
<1>10. ASSUME NEW i \in 1..n
       PROVE  i \in 0..n /\ i - 1 \in 0..n /\ D[i] = NextRow(D[i - 1], i, a[i], b)
  <2>1. i \in 0..n /\ i - 1 \in 0..n /\ i # 0
    BY <1>1
  <2> QED BY <2>1, <1>9 DEF RowAt
<1>11. D[0] = v0
  BY <1>1, <1>9 DEF RowAt
<1>12. \A i \in 0..n : D[i] \in V
  <2> DEFINE S == {i \in Nat : i <= n => D[i] \in V}
  <2> HIDE DEF v0, V
  <2>1. 0 \in S
    BY <1>1, <1>11
  <2>2. ASSUME NEW i \in S
        PROVE  i + 1 \in S
    <3> SUFFICES ASSUME i + 1 <= n PROVE D[i + 1] \in V
      OBVIOUS
    <3>1. i + 1 \in 1..n /\ (i + 1) - 1 = i /\ D[i] \in V /\ i + 1 \in Nat
      BY <1>1
    <3>2. D[i + 1] = NextRow(D[i], i + 1, a[i + 1], b)
      BY <3>1, <1>10
    <3> QED BY <3>1, <3>2, NextRowIs DEF V
  <2>3. S = Nat
    <3>1. S \in SUBSET Nat
      OBVIOUS
    <3> HIDE DEF S
    <3> QED BY <2>1, <2>2, <3>1, NumberInduction
  <2> HIDE DEF n
  <2> QED BY <2>3, <1>1
<1>13. D \in [0..n -> V]
  <2> HIDE DEF V
  <2>1. D = [i \in 0..n |-> D[i]]
    BY <1>7 DEF RowsOf
  <2> QED BY <2>1, <1>12
<1>14. \A j \in 0..Len(b) : D[0][j] = j
  BY <1>11
<1>15. ASSUME NEW i \in 1..n
       PROVE  /\ D[i][0] = i
              /\ \A j \in 1..Len(b) : D[i][j] =
                   Min3(D[i][j - 1] + 1, D[i - 1][j] + 1, D[i - 1][j - 1] + Differ(a[i], b[j]))
  <2>1. D[i - 1] \in V /\ i \in Nat
    BY <1>10, <1>12
  <2> DEFINE previous == D[i - 1]
             r == a[i]
             next == NextRow(previous, i, r, b)
  <2>2. D[i] = next /\ previous \in [0..Len(b) -> Nat]
    BY <2>1, <1>10
  <2> HIDE DEF previous, r
  <2>3. /\ next[0] = i
        /\ \A j \in 1..Len(b) : next[j] = Min3(next[j - 1] + 1, previous[j] + 1, previous[j - 1] + Differ(r, b[j]))
    BY <2>1, <2>2, NextRowIs
  <2> HIDE DEF next
  <2> QED BY <2>2, <2>3 DEF previous, r
<1>16. Table(D, a, b)
  BY <1>13, <1>14, <1>15 DEF Table
<1> QED BY <1>8, <1>16

\* What a table of distances promises at (i, j), with d for the number there.
Neighbours(D, a, b, i, j) ==
  /\ D[i][j] \in Nat
  /\ D[i][j - 1] \in Nat /\ D[i - 1][j] \in Nat /\ D[i - 1][j - 1] \in Nat
  /\ D[i][j] <= D[i][j - 1] + 1
  /\ D[i][j] <= D[i - 1][j] + 1
  /\ D[i][j] <= D[i - 1][j - 1] + Differ(a[i], b[j])
  /\ \/ D[i][j] = D[i][j - 1] + 1
     \/ D[i][j] = D[i - 1][j] + 1
     \/ D[i][j] = D[i - 1][j - 1] + Differ(a[i], b[j])

(* Each number of the table follows from three that precede it.            *)
LEMMA TableStep ==
    ASSUME NEW Alphabet, NEW a \in Seq(Alphabet), NEW b \in Seq(Alphabet), NEW D, Table(D, a, b),
           NEW i \in 1..Len(a), NEW j \in 1..Len(b)
    PROVE  Neighbours(D, a, b, i, j)
<1>1. i \in 0..Len(a) /\ i - 1 \in 0..Len(a) /\ j \in 0..Len(b) /\ j - 1 \in 0..Len(b)
  OBVIOUS
<1> DEFINE p == D[i][j - 1]
           q == D[i - 1][j]
           s == D[i - 1][j - 1]
           d == Differ(a[i], b[j])
           v == D[i][j]
<1>2. p \in Nat /\ q \in Nat /\ s \in Nat /\ v \in Nat
  <2>1. D \in [0..Len(a) -> [0..Len(b) -> Nat]]
    BY DEF Table
  <2>2. D[i] \in [0..Len(b) -> Nat] /\ D[i - 1] \in [0..Len(b) -> Nat]
    BY <1>1, <2>1
  <2> QED BY <1>1, <2>2
<1>3. d \in Nat
  BY DEF Differ
<1>4. v = Min3(p + 1, q + 1, s + d)
  BY DEF Table
<1> HIDE DEF p, q, s, d, v
<1>5. /\ v <= p + 1 /\ v <= q + 1 /\ v <= s + d
      /\ v = p + 1 \/ v = q + 1 \/ v = s + d
  BY <1>2, <1>3, <1>4 DEF Min3
<1> QED BY <1>2, <1>5 DEF Neighbours, p, q, s, d, v

(* The edges of the table.                                                 *)
LEMMA TableEdge ==
    ASSUME NEW Alphabet, NEW a \in Seq(Alphabet), NEW b \in Seq(Alphabet), NEW D, Table(D, a, b)
    PROVE  /\ \A i \in 0..Len(a) : D[i][0] = i
           /\ \A j \in 0..Len(b) : D[0][j] = j
           /\ \A i \in 0..Len(a), j \in 0..Len(b) : D[i][j] \in Nat
<1>1. \A i \in 0..Len(a) : i = 0 \/ i \in 1..Len(a)
  OBVIOUS
<1>2. 0 \in 0..Len(b)
  OBVIOUS
<1>3. \A i \in 0..Len(a) : D[i][0] = i
  BY <1>1, <1>2 DEF Table
<1>4. \A i \in 0..Len(a), j \in 0..Len(b) : D[i][j] \in Nat
  <2>1. D \in [0..Len(a) -> [0..Len(b) -> Nat]]
    BY DEF Table
  <2> SUFFICES ASSUME NEW i \in 0..Len(a), NEW j \in 0..Len(b) PROVE D[i][j] \in Nat
    OBVIOUS
  <2>2. D[i] \in [0..Len(b) -> Nat]
    BY <2>1
  <2> QED BY <2>2
<1> QED BY <1>3, <1>4 DEF Table

-----------------------------------------------------------------------------
(* Alignments.                                                             *)

\* Pairings within the first i runes of a and the first j of b.
Aligned(m, i, j) ==
  /\ m \in SUBSET ((1..i) \X (1..j))
  /\ \A p, q \in m : p # q => \/ p[1] < q[1] /\ p[2] < q[2]
                              \/ q[1] < p[1] /\ q[2] < p[2]

Mismatches(m, a, b) == {p \in m : a[p[1]] # b[p[2]]}

Cost(m, a, b, i, j) == i + j - 2 * Cardinality(m) + Cardinality(Mismatches(m, a, b))

(* Alignments are finite, and so is what they miss.                        *)
LEMMA AlignedIsFinite ==
    ASSUME NEW i \in Nat, NEW j \in Nat, NEW m, Aligned(m, i, j), NEW a, NEW b
    PROVE  /\ IsFiniteSet(m) /\ IsFiniteSet(Mismatches(m, a, b))
           /\ Cardinality(m) \in Nat /\ Cardinality(Mismatches(m, a, b)) \in Nat
<1>1. IsFiniteSet(1..i) /\ IsFiniteSet(1..j)
  BY UpToNumber
<1>2. IsFiniteSet((1..i) \X (1..j))
  BY <1>1, FS_Product
<1>3. IsFiniteSet(m)
  BY <1>2, FS_Subset DEF Aligned
<1>4. IsFiniteSet(Mismatches(m, a, b))
  BY <1>3, FS_Subset DEF Mismatches
<1> QED BY <1>3, <1>4, FS_CardinalityType

\* The alignment k of i and j runes is m with a pair of the last runes.
PairAdded(k, m, a, b, i, j) ==
  /\ Aligned(k, i, j)
  /\ Cost(k, a, b, i, j) = Cost(m, a, b, i - 1, j - 1) + Differ(a[i], b[j])

(* A pair behind all others makes a longer alignment.                      *)
LEMMA AlignMore ==
    ASSUME NEW i \in Nat \ {0}, NEW j \in Nat \ {0}, NEW m, Aligned(m, i - 1, j - 1), NEW a, NEW b
    PROVE  PairAdded(m \cup {<<i, j>>}, m, a, b, i, j)
<1> DEFINE e == <<i, j>>
           k == m \cup {e}
           M == Mismatches(m, a, b)
           K == Mismatches(k, a, b)
<1>1. \A p \in m : p = <<p[1], p[2]>> /\ p[1] \in 1..i - 1 /\ p[2] \in 1..j - 1
  BY DEF Aligned
<1>2. e[1] = i /\ e[2] = j
  OBVIOUS
<1>3. e \notin m
  BY <1>1, <1>2
<1>4. Aligned(k, i, j)
  <2>1. k \in SUBSET ((1..i) \X (1..j))
    <3>1. \A p \in m : p[1] \in 1..i /\ p[2] \in 1..j
      BY <1>1
    <3>2. m \in SUBSET ((1..i) \X (1..j))
      BY <1>1, <3>1
    <3>3. e \in (1..i) \X (1..j)
      OBVIOUS
    <3> QED BY <3>2, <3>3
  <2>2. ASSUME NEW p \in k, NEW q \in k, p # q
        PROVE  (p[1] < q[1] /\ p[2] < q[2]) \/ (q[1] < p[1] /\ q[2] < p[2])
    <3>1. \A x \in m : x[1] < e[1] /\ x[2] < e[2]
      BY <1>1, <1>2
    <3>2. CASE p \in m /\ q \in m
      BY <2>2, <3>2 DEF Aligned
    <3>3. CASE p \in m /\ q = e
      BY <3>1, <3>3
    <3>4. CASE p = e /\ q \in m
      BY <3>1, <3>4
    <3> QED BY <2>2, <3>2, <3>3, <3>4
  <2> HIDE DEF k
  <2> QED BY <2>1, <2>2 DEF Aligned
<1>5. /\ IsFiniteSet(m) /\ IsFiniteSet(M) /\ Cardinality(m) \in Nat /\ Cardinality(M) \in Nat
  <2>1. i - 1 \in Nat /\ j - 1 \in Nat
    OBVIOUS
  <2> QED BY <2>1, AlignedIsFinite
<1>6. Cardinality(k) = Cardinality(m) + 1
  BY <1>3, <1>5, FS_AddElement
<1>7. Cardinality(K) = Cardinality(M) + Differ(a[i], b[j])
  <2>1. CASE a[i] = b[j]
    <3>1. K = M
      BY <1>2, <2>1 DEF Mismatches
    <3> QED BY <2>1, <3>1, <1>5 DEF Differ
  <2>2. CASE a[i] # b[j]
    <3>1. K = M \cup {e} /\ e \notin M
      BY <1>2, <1>3, <2>2 DEF Mismatches
    <3> HIDE DEF K, M
    <3>2. Cardinality(K) = Cardinality(M) + 1
      BY <3>1, <1>5, FS_AddElement
    <3> QED BY <2>2, <3>2 DEF Differ
  <2> QED BY <2>1, <2>2
<1>8. Cost(k, a, b, i, j) = Cost(m, a, b, i - 1, j - 1) + Differ(a[i], b[j])
  <2> DEFINE c == Cardinality(m)
             x == Cardinality(M)
             d == Differ(a[i], b[j])
  <2>1. c \in Nat /\ x \in Nat /\ d \in Nat
    BY <1>5 DEF Differ
  <2>2. Cost(k, a, b, i, j) = i + j - 2 * (c + 1) + (x + d)
    BY <1>6, <1>7 DEF Cost
  <2>3. Cost(m, a, b, i - 1, j - 1) = (i - 1) + (j - 1) - 2 * c + x
    BY DEF Cost
  <2> HIDE DEF c, x, d, k
  <2>4. i + j - 2 * (c + 1) + (x + d) = ((i - 1) + (j - 1) - 2 * c + x) + d
    BY <2>1
  <2> QED BY <2>2, <2>3, <2>4 DEF d
<1> QED BY <1>4, <1>8 DEF PairAdded

(* Without its last pair an alignment is a shorter one.                    *)
LEMMA AlignLess ==
    ASSUME NEW i \in Nat \ {0}, NEW j \in Nat \ {0}, NEW m, Aligned(m, i, j), NEW a, NEW b,
           <<i, j>> \in m
    PROVE  \E k : /\ Aligned(k, i - 1, j - 1)
                  /\ Cost(m, a, b, i, j) = Cost(k, a, b, i - 1, j - 1) + Differ(a[i], b[j])
<1> DEFINE e == <<i, j>>
           k == m \ {e}
<1>1. \A p \in m : p = <<p[1], p[2]>> /\ p[1] \in 1..i /\ p[2] \in 1..j
  BY DEF Aligned
<1>2. e[1] = i /\ e[2] = j /\ e \in m
  OBVIOUS
<1>3. ASSUME NEW p \in k
      PROVE  p = <<p[1], p[2]>> /\ p[1] \in 1..i - 1 /\ p[2] \in 1..j - 1
  <2>1. (p[1] < e[1] /\ p[2] < e[2]) \/ (e[1] < p[1] /\ e[2] < p[2])
    BY <1>2 DEF Aligned
  <2> QED BY <1>1, <1>2, <2>1
<1>4. Aligned(k, i - 1, j - 1)
  <2>1. k \in SUBSET ((1..i - 1) \X (1..j - 1))
    BY <1>3
  <2> QED BY <2>1 DEF Aligned
<1>5. k \cup {<<i, j>>} = m
  BY <1>2
<1> HIDE DEF k
<1>6. PairAdded(k \cup {<<i, j>>}, k, a, b, i, j)
  BY <1>4, AlignMore
<1> QED BY <1>4, <1>5, <1>6 DEF PairAdded

(* A last rune without a partner can be left out.                          *)
LEMMA AlignWithout ==
    ASSUME NEW i \in Nat, NEW j \in Nat, NEW m, NEW a, NEW b, Aligned(m, i, j)
    PROVE  /\ i > 0 /\ (\A p \in m : p[1] # i) =>
                Aligned(m, i - 1, j) /\ Cost(m, a, b, i, j) = Cost(m, a, b, i - 1, j) + 1
           /\ j > 0 /\ (\A p \in m : p[2] # j) =>
                Aligned(m, i, j - 1) /\ Cost(m, a, b, i, j) = Cost(m, a, b, i, j - 1) + 1
           /\ Aligned(m, i + 1, j) /\ Cost(m, a, b, i + 1, j) = Cost(m, a, b, i, j) + 1
           /\ Aligned(m, i, j + 1) /\ Cost(m, a, b, i, j + 1) = Cost(m, a, b, i, j) + 1
<1>1. Cardinality(m) \in Nat /\ Cardinality(Mismatches(m, a, b)) \in Nat
  BY AlignedIsFinite
<1> DEFINE c == Cardinality(m)
           x == Cardinality(Mismatches(m, a, b))
<1>2. \A k, l : Cost(m, a, b, k, l) = k + l - 2 * c + x
  BY DEF Cost
<1> HIDE DEF c, x
<1>3. c \in Nat /\ x \in Nat
  BY <1>1 DEF c, x
<1>4. /\ Cost(m, a, b, i + 1, j) = Cost(m, a, b, i, j) + 1
      /\ Cost(m, a, b, i, j + 1) = Cost(m, a, b, i, j) + 1
      /\ Cost(m, a, b, i, j) = Cost(m, a, b, i - 1, j) + 1
      /\ Cost(m, a, b, i, j) = Cost(m, a, b, i, j - 1) + 1
  BY <1>2, <1>3
<1>5. \A p \in m : p = <<p[1], p[2]>> /\ p[1] \in 1..i /\ p[2] \in 1..j
  BY DEF Aligned
<1>6. ASSUME NEW k \in Nat, NEW l \in Nat, \A p \in m : p[1] \in 1..k /\ p[2] \in 1..l
      PROVE  Aligned(m, k, l)
  <2>1. m \in SUBSET ((1..k) \X (1..l))
    BY <1>5, <1>6
  <2> QED BY <2>1 DEF Aligned
<1>7. ASSUME i > 0, \A p \in m : p[1] # i
      PROVE  Aligned(m, i - 1, j)
  <2>1. i - 1 \in Nat /\ \A p \in m : p[1] \in 1..i - 1
    BY <1>5, <1>7
  <2> QED BY <2>1, <1>5, <1>6
<1>8. ASSUME j > 0, \A p \in m : p[2] # j
      PROVE  Aligned(m, i, j - 1)
  <2>1. j - 1 \in Nat /\ \A p \in m : p[2] \in 1..j - 1
    BY <1>5, <1>8
  <2> QED BY <2>1, <1>5, <1>6
<1>9. Aligned(m, i + 1, j) /\ Aligned(m, i, j + 1)
  <2>1. i + 1 \in Nat /\ j + 1 \in Nat /\ \A p \in m : p[1] \in 1..i + 1 /\ p[2] \in 1..j + 1
    BY <1>5
  <2> QED BY <2>1, <1>5, <1>6
<1> QED BY <1>4, <1>7, <1>8, <1>9

\* The number at (i, j) is the least cost of an alignment of i and j runes.
Attains(D, a, b, i, j) == \E m : Aligned(m, i, j) /\ Cost(m, a, b, i, j) = D[i][j]

Bounds(D, a, b, i, j) == \A m : Aligned(m, i, j) => D[i][j] <= Cost(m, a, b, i, j)

Right(D, a, b, i, j) == Attains(D, a, b, i, j) /\ Bounds(D, a, b, i, j)

(* On the edges of the table nothing is paired.                            *)
LEMMA RightEdge ==
    ASSUME NEW Alphabet, NEW a \in Seq(Alphabet), NEW b \in Seq(Alphabet), NEW D, Table(D, a, b),
           NEW i \in 0..Len(a), NEW j \in 0..Len(b), i = 0 \/ j = 0
    PROVE  Right(D, a, b, i, j)
<1>1. i \in Nat /\ j \in Nat
  OBVIOUS
<1>2. D[i][j] = i + j
  <2>1. CASE i = 0
    BY <1>1, <2>1, TableEdge
  <2>2. CASE j = 0
    BY <1>1, <2>2, TableEdge
  <2> QED BY <2>1, <2>2
<1>3. Aligned({}, i, j)
  BY DEF Aligned
<1>4. \A m : Aligned(m, i, j) => m = {}
  <2>1. (1..i) \X (1..j) = {}
    BY <1>1
  <2> QED BY <2>1 DEF Aligned
<1>5. Cost({}, a, b, i, j) = i + j
  <2>1. Mismatches({}, a, b) = {}
    BY DEF Mismatches
  <2>2. Cardinality({}) = 0
    BY FS_EmptySet
  <2>3. Cost({}, a, b, i, j) = i + j - 2 * 0 + 0
    BY <2>1, <2>2, Zenon DEF Cost
  <2> QED BY <2>3, <1>1
<1>6. Attains(D, a, b, i, j)
  BY <1>2, <1>3, <1>5 DEF Attains
<1>7. ASSUME NEW m, Aligned(m, i, j)
      PROVE  D[i][j] <= Cost(m, a, b, i, j)
  <2>1. Cost(m, a, b, i, j) = i + j
    BY <1>4, <1>5, <1>7
  <2> QED BY <1>1, <1>2, <2>1
<1> QED BY <1>6, <1>7 DEF Right, Bounds

(* Inside the table the best alignment drops a rune or pairs the last two. *)
LEMMA RightStep ==
    ASSUME NEW Alphabet, NEW a \in Seq(Alphabet), NEW b \in Seq(Alphabet), NEW D, Table(D, a, b),
           NEW i \in 1..Len(a), NEW j \in 1..Len(b),
           Right(D, a, b, i - 1, j), Right(D, a, b, i, j - 1), Right(D, a, b, i - 1, j - 1)
    PROVE  Right(D, a, b, i, j)
<1> DEFINE p == D[i][j - 1]
           q == D[i - 1][j]
           s == D[i - 1][j - 1]
           d == Differ(a[i], b[j])
           v == D[i][j]
<1>1. /\ i \in Nat /\ i \in Nat \ {0} /\ i - 1 \in Nat /\ (i - 1) + 1 = i /\ i > 0
      /\ j \in Nat /\ j \in Nat \ {0} /\ j - 1 \in Nat /\ (j - 1) + 1 = j /\ j > 0
  OBVIOUS
<1>2. d \in Nat
  BY DEF Differ
<1>3. /\ p \in Nat /\ q \in Nat /\ s \in Nat /\ v \in Nat
      /\ v <= p + 1 /\ v <= q + 1 /\ v <= s + d
      /\ v = p + 1 \/ v = q + 1 \/ v = s + d
  BY TableStep DEF Neighbours
<1>4. PICK mp : Aligned(mp, i, j - 1) /\ Cost(mp, a, b, i, j - 1) = p
  BY DEF Right, Attains
<1>5. PICK mq : Aligned(mq, i - 1, j) /\ Cost(mq, a, b, i - 1, j) = q
  BY DEF Right, Attains
<1>6. PICK ms : Aligned(ms, i - 1, j - 1) /\ Cost(ms, a, b, i - 1, j - 1) = s
  BY DEF Right, Attains
<1>7. /\ \A m : Aligned(m, i, j - 1) => p <= Cost(m, a, b, i, j - 1)
      /\ \A m : Aligned(m, i - 1, j) => q <= Cost(m, a, b, i - 1, j)
      /\ \A m : Aligned(m, i - 1, j - 1) => s <= Cost(m, a, b, i - 1, j - 1)
  BY DEF Right, Bounds
<1> HIDE DEF p, q, s, d, v
<1>8. Aligned(mp, i, j) /\ Cost(mp, a, b, i, j) = p + 1
  BY <1>1, <1>4, AlignWithout
<1>9. Aligned(mq, i, j) /\ Cost(mq, a, b, i, j) = q + 1
  BY <1>1, <1>5, AlignWithout
<1>10. \E m : Aligned(m, i, j) /\ Cost(m, a, b, i, j) = s + d
  <2>1. PairAdded(ms \cup {<<i, j>>}, ms, a, b, i, j)
    BY <1>1, <1>6, AlignMore
  <2> QED BY <2>1, <1>6 DEF PairAdded, d
<1>11. \E m : Aligned(m, i, j) /\ Cost(m, a, b, i, j) = v
  BY <1>3, <1>8, <1>9, <1>10
<1>12. ASSUME NEW m, Aligned(m, i, j)
       PROVE  v <= Cost(m, a, b, i, j)
  <2>1. CASE <<i, j>> \in m
    <3>1. PICK k : /\ Aligned(k, i - 1, j - 1)
                   /\ Cost(m, a, b, i, j) = Cost(k, a, b, i - 1, j - 1) + Differ(a[i], b[j])
      BY <1>1, <1>12, <2>1, AlignLess
    <3> DEFINE c == Cost(k, a, b, i - 1, j - 1)
    <3>2. s <= c /\ Cost(m, a, b, i, j) = c + d /\ c \in Int
      <4>1. Cardinality(k) \in Nat /\ Cardinality(Mismatches(k, a, b)) \in Nat
        BY <1>1, <3>1, AlignedIsFinite
      <4>2. c \in Int
        BY <1>1, <4>1 DEF Cost
      <4> QED BY <1>7, <3>1, <4>2 DEF d
    <3> HIDE DEF c
    <3> QED BY <1>2, <1>3, <3>2
  <2>2. CASE \A x \in m : x[1] # i
    <3> DEFINE c == Cost(m, a, b, i - 1, j)
    <3>1. Aligned(m, i - 1, j) /\ Cost(m, a, b, i, j) = c + 1
      BY <1>1, <1>12, <2>2, AlignWithout
    <3>2. c \in Int
      <4>1. Cardinality(m) \in Nat /\ Cardinality(Mismatches(m, a, b)) \in Nat
        BY <1>1, <3>1, AlignedIsFinite
      <4> QED BY <1>1, <4>1 DEF Cost
    <3>3. q <= c
      BY <1>7, <3>1
    <3> HIDE DEF c
    <3> QED BY <1>3, <3>1, <3>2, <3>3
  <2>3. CASE \A x \in m : x[2] # j
    <3> DEFINE c == Cost(m, a, b, i, j - 1)
    <3>1. Aligned(m, i, j - 1) /\ Cost(m, a, b, i, j) = c + 1
      BY <1>1, <1>12, <2>3, AlignWithout
    <3>2. c \in Int
      <4>1. Cardinality(m) \in Nat /\ Cardinality(Mismatches(m, a, b)) \in Nat
        BY <1>1, <3>1, AlignedIsFinite
      <4> QED BY <1>1, <4>1 DEF Cost
    <3>3. p <= c
      BY <1>7, <3>1
    <3> HIDE DEF c
    <3> QED BY <1>3, <3>1, <3>2, <3>3
  <2>4. ASSUME <<i, j>> \notin m, NEW x \in m, x[1] = i, NEW y \in m, y[2] = j
        PROVE  FALSE
    <3>1. /\ x = <<x[1], x[2]>> /\ x[1] \in 1..i /\ x[2] \in 1..j
          /\ y = <<y[1], y[2]>> /\ y[1] \in 1..i /\ y[2] \in 1..j
      BY <1>12 DEF Aligned
    <3>2. x # y
      BY <2>4, <3>1
    <3>3. (x[1] < y[1] /\ x[2] < y[2]) \/ (y[1] < x[1] /\ y[2] < x[2])
      BY <1>12, <3>2 DEF Aligned
    <3> QED BY <2>4, <3>1, <3>3
  <2> QED BY <2>1, <2>2, <2>3, <2>4
<1> QED BY <1>11, <1>12 DEF Right, Attains, Bounds, v

\* A set of places of a table that holds the edges and passes on inwards.
SpreadsOver(S, n, l) ==
  /\ \A i \in 0..n : <<i, 0>> \in S
  /\ \A j \in 0..l : <<0, j>> \in S
  /\ \A i \in 1..n, j \in 1..l :
       (<<i - 1, j>> \in S /\ <<i, j - 1>> \in S /\ <<i - 1, j - 1>> \in S) => <<i, j>> \in S

HoldsAll(S, n, l) == \A i \in 0..n, j \in 0..l : <<i, j>> \in S

(* Such a set holds every place.                                           *)
LEMMA TableInduction ==
    ASSUME NEW n \in Nat, NEW l \in Nat, NEW S, SpreadsOver(S, n, l)
    PROVE  HoldsAll(S, n, l)
<1> DEFINE P == (0..n) \X (0..l)
           w == [x \in P |-> x[1] + x[2]]
<1>1. \A x \in P : x = <<x[1], x[2]>> /\ x[1] \in 0..n /\ x[2] \in 0..l /\ w[x] \in Nat /\ w[x] = x[1] + x[2]
  OBVIOUS
<1>2. ASSUME NEW i \in 0..n, NEW j \in 0..l, \A e \in P : w[e] < i + j => e \in S
      PROVE  <<i, j>> \in S
  <2>1. CASE i = 0 \/ j = 0
    BY <2>1 DEF SpreadsOver
  <2>2. CASE i # 0 /\ j # 0
    <3>1. i \in 1..n /\ i - 1 \in 0..n /\ j \in 1..l /\ j - 1 \in 0..l
      BY <2>2
    <3>2. ASSUME NEW x \in 0..n, NEW y \in 0..l, x + y < i + j
          PROVE  <<x, y>> \in S
      <4>1. <<x, y>> \in P /\ w[<<x, y>>] = x + y
        OBVIOUS
      <4> QED BY <1>2, <3>2, <4>1
    <3> HIDE DEF P, w
    <3>3. (i - 1) + j < i + j /\ i + (j - 1) < i + j /\ (i - 1) + (j - 1) < i + j
      BY <3>1
    <3>4. <<i - 1, j>> \in S /\ <<i, j - 1>> \in S /\ <<i - 1, j - 1>> \in S
      BY <3>1, <3>2, <3>3
    <3> QED BY <3>1, <3>4 DEF SpreadsOver
  <2> QED BY <2>1, <2>2
<1>3. ASSUME NEW x \in P, \A e \in P : w[e] < w[x] => e \in S
      PROVE  x \in S
  <2>1. x = <<x[1], x[2]>> /\ x[1] \in 0..n /\ x[2] \in 0..l /\ w[x] = x[1] + x[2]
    BY <1>1
  <2> HIDE DEF w
  <2>2. <<x[1], x[2]>> \in S
    BY <1>2, <1>3, <2>1
  <2> QED BY <2>1, <2>2
<1>4. P \subseteq S
  <2> HIDE DEF P, w
  <2> QED BY <1>1, <1>3, MeasureInduction
<1> QED BY <1>4 DEF HoldsAll

(* The table holds the least costs.                                        *)
LEMMA TableIsRight ==
    ASSUME NEW Alphabet, NEW a \in Seq(Alphabet), NEW b \in Seq(Alphabet), NEW D, Table(D, a, b)
    PROVE  \A i \in 0..Len(a), j \in 0..Len(b) : Right(D, a, b, i, j)
<1> DEFINE n == Len(a)
           l == Len(b)
           S == {x \in (0..n) \X (0..l) : Right(D, a, b, x[1], x[2])}
<1>1. n \in Nat /\ l \in Nat
  OBVIOUS
<1>2. \A i \in 0..n, j \in 0..l : <<i, j>> \in S <=> Right(D, a, b, i, j)
  OBVIOUS
<1>3. \A i \in 0..n, j \in 0..l : i = 0 \/ j = 0 => Right(D, a, b, i, j)
  BY RightEdge
<1>4. ASSUME NEW i \in 1..n, NEW j \in 1..l,
             <<i - 1, j>> \in S, <<i, j - 1>> \in S, <<i - 1, j - 1>> \in S
      PROVE  <<i, j>> \in S
  <2>1. i \in 0..n /\ i - 1 \in 0..n /\ j \in 0..l /\ j - 1 \in 0..l
    BY <1>1
  <2> HIDE DEF S
  <2>2. Right(D, a, b, i - 1, j) /\ Right(D, a, b, i, j - 1) /\ Right(D, a, b, i - 1, j - 1)
    BY <1>2, <1>4, <2>1
  <2> QED BY <1>2, <2>1, <2>2, RightStep
<1>5. 0 \in 0..n /\ 0 \in 0..l
  BY <1>1
<1> HIDE DEF S, n, l
<1>6. SpreadsOver(S, n, l)
  BY <1>2, <1>3, <1>4, <1>5 DEF SpreadsOver
<1>7. HoldsAll(S, n, l)
  BY <1>1, <1>6, TableInduction
<1> QED BY <1>2, <1>7 DEF HoldsAll, n, l

(* The edit distance is the last number of the table.                      *)
LEMMA DistanceIs ==
    ASSUME NEW Alphabet, NEW a \in Seq(Alphabet), NEW b \in Seq(Alphabet), NEW D, Table(D, a, b)
    PROVE  EditDistance(a, b) = D[Len(a)][Len(b)]
<1> DEFINE n == Len(a)
           l == Len(b)
           v == D[n][l]
           C == {n + l - 2 * Cardinality(m) + Cardinality({p \in m : a[p[1]] # b[p[2]]}) :
                   m \in Alignments(a, b)}
<1>1. \A m : m \in Alignments(a, b) <=> Aligned(m, n, l)
  BY Zenon DEF Alignments, Aligned
<1>2. C = {Cost(m, a, b, n, l) : m \in Alignments(a, b)}
  BY Zenon DEF Cost, Mismatches
<1>3. EditDistance(a, b) = Least(C)
  BY Zenon DEF EditDistance
<1>4. n \in Nat /\ l \in Nat /\ n \in 0..n /\ l \in 0..l
  OBVIOUS
<1>5. v \in Nat
  BY <1>4, TableEdge
<1>6. Right(D, a, b, n, l)
  BY <1>4, TableIsRight
<1>7. v \in C /\ \A c \in C : v <= c
  <2> HIDE DEF C, v, n, l
  <2>1. PICK m : Aligned(m, n, l) /\ Cost(m, a, b, n, l) = v
    BY <1>6 DEF Right, Attains, v
  <2>2. v \in C
    BY <1>1, <1>2, <2>1
  <2>3. \A c \in C : v <= c
    BY <1>1, <1>2, <1>6 DEF Right, Bounds, v
  <2> QED BY <2>2, <2>3
<1>8. \A c \in C : c \in Int
  <2> HIDE DEF C, v
  <2>1. ASSUME NEW m, Aligned(m, n, l)
        PROVE  Cost(m, a, b, n, l) \in Int
    <3>1. Cardinality(m) \in Nat /\ Cardinality(Mismatches(m, a, b)) \in Nat
      BY <1>4, <2>1, AlignedIsFinite
    <3> QED BY <1>4, <3>1 DEF Cost
  <2> HIDE DEF n, l
  <2> QED BY <1>1, <1>2, <2>1
<1> HIDE DEF C, v, n, l
<1>9. Least(C) = v
  <2> DEFINE u == Least(C)
  <2>1. u \in C /\ \A c \in C : u <= c
    BY <1>7 DEF Least
  <2>2. u <= v /\ v <= u /\ u \in Int
    BY <1>7, <1>8, <2>1
  <2> HIDE DEF u
  <2>3. u = v
    BY <2>2, <1>5
  <2> QED BY <2>3 DEF u
<1> QED BY <1>3, <1>9 DEF v, n, l

(* As far apart as the lengths of the prefixes are, so are the prefixes.   *)
LEMMA LengthsApart ==
    ASSUME NEW Alphabet, NEW a \in Seq(Alphabet), NEW b \in Seq(Alphabet), NEW D, Table(D, a, b)
    PROVE  \A i \in 0..Len(a), j \in 0..Len(b) : i - j <= D[i][j] /\ j - i <= D[i][j]
<1> DEFINE n == Len(a)
           l == Len(b)
           S == {x \in (0..n) \X (0..l) :
                   x[1] - x[2] <= D[x[1]][x[2]] /\ x[2] - x[1] <= D[x[1]][x[2]]}
<1>1. n \in Nat /\ l \in Nat
  OBVIOUS
<1>2. \A i \in 0..n, j \in 0..l :
        <<i, j>> \in S <=> i - j <= D[i][j] /\ j - i <= D[i][j]
  OBVIOUS
<1>3. \A i \in 0..n : i - 0 <= D[i][0] /\ 0 - i <= D[i][0]
  BY <1>1, TableEdge
<1>4. \A j \in 0..l : 0 - j <= D[0][j] /\ j - 0 <= D[0][j]
  BY <1>1, TableEdge
<1>5. ASSUME NEW i \in 1..n, NEW j \in 1..l,
             <<i - 1, j>> \in S, <<i, j - 1>> \in S, <<i - 1, j - 1>> \in S
      PROVE  <<i, j>> \in S
  <2>1. i \in 0..n /\ i - 1 \in 0..n /\ j \in 0..l /\ j - 1 \in 0..l
    BY <1>1
  <2> DEFINE p == D[i][j - 1]
             q == D[i - 1][j]
             s == D[i - 1][j - 1]
             d == Differ(a[i], b[j])
             v == D[i][j]
  <2>2. d \in Nat
    BY DEF Differ
  <2>3. /\ p \in Nat /\ q \in Nat /\ s \in Nat /\ v \in Nat
        /\ v = p + 1 \/ v = q + 1 \/ v = s + d
    BY TableStep DEF Neighbours
  <2>4. /\ i - (j - 1) <= p /\ (j - 1) - i <= p
        /\ (i - 1) - j <= q /\ j - (i - 1) <= q
        /\ (i - 1) - (j - 1) <= s /\ (j - 1) - (i - 1) <= s
    <3> HIDE DEF S
    <3> QED BY <1>2, <1>5, <2>1
  <2> HIDE DEF p, q, s, d, v, S
  <2>5. i - j <= v /\ j - i <= v
    BY <2>1, <2>2, <2>3, <2>4
  <2> QED BY <1>2, <2>1, <2>5 DEF v
<1>6. 0 \in 0..n /\ 0 \in 0..l
  BY <1>1
<1> HIDE DEF S, n, l
<1>7. SpreadsOver(S, n, l)
  BY <1>2, <1>3, <1>4, <1>5, <1>6 DEF SpreadsOver
<1>8. HoldsAll(S, n, l)
  BY <1>1, <1>7, TableInduction
<1> QED BY <1>2, <1>8 DEF HoldsAll, n, l

(* After a whole row past the cutoff the next one is past it too.          *)
LEMMA NextRowIsFar ==
    ASSUME NEW Alphabet, NEW a \in Seq(Alphabet), NEW b \in Seq(Alphabet), NEW D, Table(D, a, b),
           NEW c \in Nat, NEW i \in 1..Len(a), \A j \in 0..Len(b) : D[i - 1][j] > c
    PROVE  \A j \in 0..Len(b) : D[i][j] > c
<1> DEFINE l == Len(b)
           S == {j \in Nat : j <= l => D[i][j] > c}
<1>1. l \in Nat /\ 0 \in 0..l
  OBVIOUS
<1>2. i \in 0..Len(a) /\ i - 1 \in 0..Len(a) /\ i \in Nat /\ i - 1 \in Nat
  OBVIOUS
<1>3. 0 \in S
  <2>1. D[i][0] = i /\ D[i - 1][0] = i - 1 /\ D[i - 1][0] > c
    BY <1>1, <1>2, TableEdge
  <2>2. D[i][0] > c
    BY <2>1, <1>2
  <2> QED BY <2>2
<1>4. ASSUME NEW j \in S
      PROVE  j + 1 \in S
  <2> SUFFICES ASSUME j + 1 <= l PROVE D[i][j + 1] > c
    OBVIOUS
  <2>1. j + 1 \in 1..l /\ (j + 1) - 1 = j /\ j \in 0..l /\ j + 1 \in 0..l /\ D[i][j] > c
    BY <1>1
  <2> DEFINE p == D[i][j]
             q == D[i - 1][j + 1]
             s == D[i - 1][j]
             d == Differ(a[i], b[j + 1])
             v == D[i][j + 1]
  <2>2. d \in Nat
    BY DEF Differ
  <2>3. p > c /\ q > c /\ s > c
    BY <2>1
  <2>4. Neighbours(D, a, b, i, j + 1)
    BY <2>1, TableStep
  <2>5. /\ p \in Nat /\ q \in Nat /\ s \in Nat /\ v \in Nat
        /\ v = p + 1 \/ v = q + 1 \/ v = s + d
    BY <2>1, <2>4 DEF Neighbours
  <2> HIDE DEF p, q, s, d, v
  <2>6. v > c
    <3>1. p + 1 > c /\ q + 1 > c /\ s + d > c
      BY <2>2, <2>3, <2>5
    <3> QED BY <2>5, <3>1
  <2> QED BY <2>6 DEF v
<1>5. S = Nat
  <2>1. S \in SUBSET Nat
    OBVIOUS
  <2> HIDE DEF S
  <2> QED BY <1>3, <1>4, <2>1, NumberInduction
<1> QED BY <1>1, <1>5

(* A comparison that is cut off would have ended past the cutoff.          *)
LEMMA CutoffIsSafe ==
    ASSUME NEW Alphabet, NEW a \in Seq(Alphabet), NEW b \in Seq(Alphabet), NEW D, Table(D, a, b),
           NEW c \in Nat, TooFar(D, a, b, c)
    PROVE  D[Len(a)][Len(b)] > c
<1> DEFINE n == Len(a)
           l == Len(b)
           v == D[n][l]
<1>1. n \in Nat /\ l \in Nat /\ n \in 0..n /\ l \in 0..l
  OBVIOUS
<1>2. v \in Nat /\ n - l <= v /\ l - n <= v
  BY <1>1, TableEdge, LengthsApart
<1>3. CASE n - l > c \/ l - n > c
  <2> HIDE DEF v, n, l
  <2>1. v > c
    BY <1>1, <1>2, <1>3
  <2> QED BY <2>1 DEF v, n, l
<1>4. ASSUME NEW i \in 1..n, \A j \in 0..l : D[i][j] > c
      PROVE  v > c
  <2> DEFINE S == {k \in Nat : i + k <= n => \A j \in 0..l : D[i + k][j] > c}
  <2>1. i \in Nat
    OBVIOUS
  <2>2. 0 \in S
    <3>1. i + 0 = i
      BY <2>1
    <3> QED BY <1>4, <3>1
  <2>3. ASSUME NEW k \in S
        PROVE  k + 1 \in S
    <3> SUFFICES ASSUME i + (k + 1) <= n PROVE \A j \in 0..l : D[i + (k + 1)][j] > c
      OBVIOUS
    <3> DEFINE h == i + (k + 1)
    <3>1. h \in 1..n /\ h - 1 = i + k /\ i + k <= n
      BY <1>1, <2>1
    <3>2. \A j \in 0..l : D[h - 1][j] > c
      BY <3>1
    <3> HIDE DEF h, S
    <3>3. \A j \in 0..l : D[h][j] > c
      BY <3>1, <3>2, NextRowIsFar
    <3> QED BY <3>3 DEF h
  <2>4. S = Nat
    <3>1. S \in SUBSET Nat
      OBVIOUS
    <3> HIDE DEF S
    <3> QED BY <2>2, <2>3, <3>1, NumberInduction
  <2>5. n - i \in Nat /\ i + (n - i) = n
    BY <1>1, <2>1
  <2>6. n - i \in S
    BY <2>4, <2>5
  <2>7. \A j \in 0..l : D[n][j] > c
    BY <2>5, <2>6
  <2> QED BY <1>1, <2>7
<1> QED BY <1>3, <1>4 DEF TooFar

(* The comparison returns the least number of runes to insert, delete and  *)
(* replace, and never turns a term away that is within the cutoff.         *)
THEOREM DistancesAreBest ==
    ASSUME NEW Alphabet, NEW a \in Seq(Alphabet), NEW b \in Seq(Alphabet), NEW cutoff \in Nat
    PROVE  LevenshteinIsExact(a, b, cutoff)
<1>1. PICK D : /\ Table(D, a, b)
               /\ Levenshtein(a, b, cutoff) =
                    IF TooFar(D, a, b, cutoff) THEN cutoff + 1 ELSE D[Len(a)][Len(b)]
  BY LevenshteinIs
<1> DEFINE v == D[Len(a)][Len(b)]
           u == Levenshtein(a, b, cutoff)
<1>2. v \in Nat
  <2>1. Len(a) \in 0..Len(a) /\ Len(b) \in 0..Len(b)
    OBVIOUS
  <2> QED BY <1>1, <2>1, TableEdge
<1>3. EditDistance(a, b) = v
  BY <1>1, DistanceIs
<1>4. TooFar(D, a, b, cutoff) => v > cutoff
  BY <1>1, CutoffIsSafe
<1>5. u = IF TooFar(D, a, b, cutoff) THEN cutoff + 1 ELSE v
  BY <1>1
<1> HIDE DEF u, v
<1>6. IF v <= cutoff THEN u = v ELSE u > cutoff
  BY <1>2, <1>4, <1>5
<1> QED BY <1>3, <1>6 DEF LevenshteinIsExact, u

-----------------------------------------------------------------------------
(* Scans.                                                                  *)

SpanTypes ==
  {"url", "email", "number", "word", "symbol", "han",
   "(", ")", "AND", "OR", "NOT", "atom", "unclosed"}
Spans == [first : Nat, end : Nat, type : SpanTypes]

\* The spans lie in order and apart between lo and hi, and cover exactly the
\* places that are not skipped.
Tiles(s, lo, hi, skip) ==
  /\ s \in Seq(Spans)
  /\ \A n \in 1..Len(s) : lo <= s[n].first /\ s[n].first < s[n].end /\ s[n].end <= hi
  /\ \A m, n \in 1..Len(s) : m < n => s[m].end <= s[n].first
  /\ \A k \in lo..hi - 1 : (k \notin skip) <=> \E n \in 1..Len(s) : s[n].first <= k /\ k < s[n].end

Behind(next, i) == next[i][Len(next[i])].end

\* The scan moves on at every place.
Moves(lo, hi, skip, next) ==
  /\ lo \in Nat /\ hi \in Nat /\ lo <= hi
  /\ \A i \in lo..hi - 1 : i \notin skip =>
       next[i] \in Seq(Spans) /\ Behind(next, i) \in i + 1..hi

\* It comes only by the places in reach; what it appends at one covers all
\* places from it to behind it but the blanks, and it skips only blanks.
Leads(reach, lo, hi, skip, next, blanks) ==
  /\ reach \subseteq lo..hi /\ lo \in reach
  /\ \A i \in reach : i < hi =>
       /\ i \in skip => i \in blanks /\ i + 1 \in reach
       /\ i \notin skip => /\ Tiles(next[i], i, Behind(next, i), blanks)
                          /\ Behind(next, i) \in reach

\* What a scan appends at i covers the places from i to behind it.
Advances(lo, hi, skip, next) ==
  /\ lo \in Nat /\ hi \in Nat /\ lo <= hi
  /\ \A i \in lo..hi - 1 : i \notin skip =>
       /\ next[i] \in Seq(Spans)
       /\ Behind(next, i) \in i + 1..hi
       /\ Tiles(next[i], i, Behind(next, i), {})
       /\ \A k \in i..Behind(next, i) - 1 : k \notin skip

\* Each of the spans is one that the scan appended at a place in reach.
Sources(s, reach, hi, skip, next) ==
  \A n \in 1..Len(s) : \E i \in reach : /\ i < hi /\ i \notin skip
                                       /\ \E k \in 1..Len(next[i]) : s[n] = next[i][k]

ScanAt(hi, skip, next, from, i) ==
  IF i = hi THEN <<>>
  ELSE IF i \in skip THEN from[i + 1]
  ELSE next[i] \o from[Behind(next, i)]

Scans(from, lo, hi, skip, next) == from = [i \in lo..hi |-> ScanAt(hi, skip, next, from, i)]

(* The scan is a function of the place where it begins.                    *)
LEMMA ScanIsRecursive ==
    ASSUME NEW lo, NEW hi, NEW skip, NEW next, Moves(lo, hi, skip, next)
    PROVE  \E from : Scans(from, lo, hi, skip, next) /\ Scan(lo, hi, skip, next) = from[lo]
<1> DEFINE D == lo..hi
           V == Seq(Spans)
           m == [i \in D |-> hi - i]
           G == [i \in D |-> [f \in [D -> V] |-> ScanAt(hi, skip, next, f, i)]]
<1>1. lo \in Nat /\ hi \in Nat /\ lo <= hi
  BY DEF Moves
<1>2. ASSUME NEW i \in D
      PROVE  /\ m[i] \in Nat /\ m[i] < hi + 1
             /\ i # hi /\ i \in skip => i + 1 \in D /\ m[i + 1] < m[i]
             /\ i # hi /\ i \notin skip => /\ Behind(next, i) \in D /\ m[Behind(next, i)] < m[i]
                                           /\ next[i] \in V
  <2>1. m[i] \in Nat /\ m[i] < hi + 1
    BY <1>1
  <2>2. ASSUME i # hi
        PROVE  i \in lo..hi - 1 /\ i + 1 \in D /\ m[i + 1] < m[i]
    BY <1>1, <2>2
  <2>3. ASSUME i # hi, i \notin skip
        PROVE  Behind(next, i) \in i + 1..hi /\ next[i] \in V
    BY <2>2, <2>3 DEF Moves
  <2>4. ASSUME NEW e \in i + 1..hi
        PROVE  e \in D /\ m[e] < m[i]
    BY <1>1
  <2> QED BY <2>1, <2>2, <2>3, <2>4
<1>3. Descends(G, D, V, m, hi + 1)
  <2>1. V # {} /\ hi + 1 \in Nat /\ m \in [D -> Nat] /\ \A d \in D : m[d] < hi + 1
    <3>1. <<>> \in V
      OBVIOUS
    <3>2. m \in [D -> Nat]
      BY <1>2
    <3> HIDE DEF D, m, V
    <3> QED BY <1>1, <1>2, <3>1, <3>2
  <2>2. ASSUME NEW i \in D, NEW f \in [D -> V]
        PROVE  ScanAt(hi, skip, next, f, i) \in V
    <3> HIDE DEF D, m
    <3>1. CASE i = hi
      BY <3>1 DEF ScanAt
    <3>2. CASE i # hi /\ i \in skip
      <4> HIDE DEF V
      <4> QED BY <3>2, <1>2 DEF ScanAt
    <3>3. CASE i # hi /\ i \notin skip
      <4>1. next[i] \in V /\ f[Behind(next, i)] \in V
        <5> HIDE DEF V
        <5> QED BY <3>3, <1>2
      <4>2. next[i] \o f[Behind(next, i)] \in V
        BY <4>1, Joined
      <4> HIDE DEF V
      <4> QED BY <3>3, <4>2 DEF ScanAt
    <3> QED BY <3>1, <3>2, <3>3
  <2>3. G \in [D -> [[D -> V] -> V]]
    <3> HIDE DEF D, V, m
    <3> QED BY <2>2
  <2>4. ASSUME NEW d \in D, NEW f \in [D -> V], NEW g \in [D -> V],
               \A e \in D : m[e] < m[d] => f[e] = g[e]
        PROVE  G[d][f] = G[d][g]
    <3> HIDE DEF D, V, m
    <3>1. ScanAt(hi, skip, next, f, d) = ScanAt(hi, skip, next, g, d)
      BY <1>2, <2>4 DEF ScanAt
    <3> QED BY <3>1
  <2> HIDE DEF D, V, m, G
  <2> QED BY <2>1, <2>3, <2>4 DEF Descends
<1>4. PICK f \in [D -> V] : \A d \in D : f[d] = G[d][f]
  <2> HIDE DEF D, V, m, G
  <2> QED BY <1>3, Recursion
<1>5. Scans(f, lo, hi, skip, next)
  <2> HIDE DEF V, m
  <2>1. f = [d \in D |-> f[d]]
    OBVIOUS
  <2>2. \A d \in D : f[d] = ScanAt(hi, skip, next, f, d)
    BY <1>4
  <2> QED BY <2>1, <2>2 DEF Scans
<1>6. Scan(lo, hi, skip, next) = (CHOOSE from : Scans(from, lo, hi, skip, next))[lo]
  BY DEF Scan, Scans, ScanAt, Behind
<1> QED BY <1>5, <1>6

(* Spans for a part and spans for the rest are spans for the whole.        *)
LEMMA TilesJoin ==
    ASSUME NEW a, NEW b, NEW lo \in Nat, NEW mid \in Nat, NEW hi \in Nat, NEW skip,
           lo <= mid, mid <= hi,
           Tiles(a, lo, mid, skip), Tiles(b, mid, hi, skip)
    PROVE  Tiles(a \o b, lo, hi, skip)
<1> DEFINE c == a \o b
           p == Len(a)
           q == Len(b)
<1>1. /\ a \in Seq(Spans) /\ b \in Seq(Spans) /\ p \in Nat /\ q \in Nat
      /\ \A n \in 1..p : /\ a[n].first \in Nat /\ a[n].end \in Nat
                         /\ lo <= a[n].first /\ a[n].first < a[n].end /\ a[n].end <= mid
      /\ \A m, n \in 1..p : m < n => a[m].end <= a[n].first
      /\ \A k \in lo..mid - 1 : (k \notin skip) <=> \E n \in 1..p : a[n].first <= k /\ k < a[n].end
      /\ \A n \in 1..q : /\ b[n].first \in Nat /\ b[n].end \in Nat
                         /\ mid <= b[n].first /\ b[n].first < b[n].end /\ b[n].end <= hi
      /\ \A m, n \in 1..q : m < n => b[m].end <= b[n].first
      /\ \A k \in mid..hi - 1 : (k \notin skip) <=> \E n \in 1..q : b[n].first <= k /\ k < b[n].end
  <2>1. a \in Seq(Spans) /\ b \in Seq(Spans)
    BY DEF Tiles
  <2>2. ASSUME NEW s \in Seq(Spans), NEW n \in 1..Len(s)
        PROVE  s[n].first \in Nat /\ s[n].end \in Nat
    <3>1. s[n] \in Spans
      OBVIOUS
    <3> QED BY <3>1 DEF Spans
  <2> QED BY <2>1, <2>2 DEF Tiles
<1>2. /\ c \in Seq(Spans) /\ Len(c) = p + q
      /\ \A k \in 1..p : c[k] = a[k]
      /\ \A k \in 1..q : c[p + k] = b[k]
      /\ \A k \in 1..p + q : k \in 1..p \/ (k - p \in 1..q /\ c[k] = b[k - p])
  <2>1. c \in Seq(Spans) /\ Len(c) = p + q
        /\ \A k \in 1..p + q : c[k] = IF k <= p THEN a[k] ELSE b[k - p]
    BY <1>1, Joined
  <2> HIDE DEF c, p, q
  <2>2. ASSUME NEW k \in 1..p
        PROVE  k \in 1..p + q /\ k <= p
    BY <1>1
  <2>3. ASSUME NEW k \in 1..q
        PROVE  p + k \in 1..p + q /\ ~(p + k <= p) /\ (p + k) - p = k
    BY <1>1
  <2>4. ASSUME NEW k \in 1..p + q, k \notin 1..p
        PROVE  k - p \in 1..q /\ ~(k <= p)
    BY <1>1, <2>4
  <2> QED BY <2>1, <2>2, <2>3, <2>4
<1> HIDE DEF c, p, q
<1>3. ASSUME NEW n \in 1..p + q
      PROVE  lo <= c[n].first /\ c[n].first < c[n].end /\ c[n].end <= hi
  <2>1. CASE n \in 1..p
    <3>1. /\ c[n] = a[n] /\ a[n].first \in Nat /\ a[n].end \in Nat
          /\ lo <= a[n].first /\ a[n].first < a[n].end /\ a[n].end <= mid
      BY <2>1, <1>1, <1>2
    <3> QED BY <3>1
  <2>2. CASE n - p \in 1..q /\ c[n] = b[n - p]
    <3>1. /\ b[n - p].first \in Nat /\ b[n - p].end \in Nat
          /\ mid <= b[n - p].first /\ b[n - p].first < b[n - p].end /\ b[n - p].end <= hi
      BY <2>2, <1>1
    <3> QED BY <3>1, <2>2
  <2> QED BY <2>1, <2>2, <1>2
<1>4. ASSUME NEW m \in 1..p + q, NEW n \in 1..p + q, m < n
      PROVE  c[m].end <= c[n].first
  <2>1. CASE n \in 1..p
    <3>1. m \in 1..p
      BY <2>1, <1>4, <1>1
    <3> QED BY <2>1, <3>1, <1>4, <1>1, <1>2
  <2>2. CASE n - p \in 1..q /\ c[n] = b[n - p]
    <3>1. CASE m \in 1..p
      <4>1. c[m] = a[m] /\ a[m].end <= mid /\ mid <= b[n - p].first
        BY <3>1, <2>2, <1>1, <1>2
      <4>2. a[m].end \in Nat /\ b[n - p].first \in Nat
        BY <3>1, <2>2, <1>1
      <4> QED BY <4>1, <4>2, <2>2
    <3>2. CASE m - p \in 1..q /\ c[m] = b[m - p]
      <4>1. m - p < n - p
        BY <1>1, <1>4
      <4> QED BY <4>1, <3>2, <2>2, <1>1
    <3> QED BY <3>1, <3>2, <1>2
  <2> QED BY <2>1, <2>2, <1>2
<1>5. ASSUME NEW k \in lo..hi - 1
      PROVE  (k \notin skip) <=> \E n \in 1..p + q : c[n].first <= k /\ k < c[n].end
  <2>1. CASE k < mid
    <3>1. k \in lo..mid - 1
      BY <2>1
    <3>2. (k \notin skip) <=> \E n \in 1..p : a[n].first <= k /\ k < a[n].end
      BY <3>1, <1>1
    <3>3. ASSUME NEW n \in 1..p
          PROVE  n \in 1..p + q /\ c[n] = a[n]
      <4>1. p \in Nat /\ q \in Nat
        BY <1>1
      <4>2. n \in 1..p + q
        BY <4>1
      <4> QED BY <4>2, <1>2
    <3>4. ASSUME NEW n \in 1..p + q, c[n].first <= k /\ k < c[n].end
          PROVE  \E l \in 1..p : a[l].first <= k /\ k < a[l].end
      <4>1. n \in 1..p
        <5> SUFFICES ASSUME n - p \in 1..q /\ c[n] = b[n - p] PROVE FALSE
          BY <1>2
        <5>1. mid <= b[n - p].first /\ b[n - p].first \in Nat
          BY <1>1
        <5> QED BY <5>1, <3>1, <3>4, <2>1
      <4> QED BY <4>1, <3>4, <1>2
    <3> QED BY <3>2, <3>3, <3>4
  <2>2. CASE ~(k < mid)
    <3>1. k \in mid..hi - 1 /\ k \in Int
      BY <2>2
    <3>2. (k \notin skip) <=> \E n \in 1..q : b[n].first <= k /\ k < b[n].end
      BY <3>1, <1>1
    <3>3. ASSUME NEW n \in 1..q
          PROVE  p + n \in 1..p + q /\ c[p + n] = b[n]
      BY <1>1, <1>2
    <3>4. ASSUME NEW n \in 1..p + q, c[n].first <= k /\ k < c[n].end
          PROVE  \E l \in 1..q : b[l].first <= k /\ k < b[l].end
      <4>1. n \notin 1..p
        <5> SUFFICES ASSUME n \in 1..p PROVE FALSE
          OBVIOUS
        <5>1. c[n] = a[n] /\ a[n].end <= mid /\ a[n].end \in Nat
          BY <1>1, <1>2
        <5> QED BY <5>1, <3>1, <3>4, <2>2
      <4> QED BY <4>1, <3>4, <1>2
    <3> QED BY <3>2, <3>3, <3>4
  <2> QED BY <2>1, <2>2
<1> QED BY <1>2, <1>3, <1>4, <1>5 DEF Tiles, c

(* Spans that cover everything cover what is not skipped, if nothing is.    *)
LEMMA TilesAll ==
    ASSUME NEW s, NEW lo, NEW hi, NEW skip, Tiles(s, lo, hi, {}), \A k \in lo..hi - 1 : k \notin skip
    PROVE  Tiles(s, lo, hi, skip)
BY DEF Tiles

(* The last of the spans that cover everything ends with it.                *)
LEMMA TilesEnd ==
    ASSUME NEW s, NEW lo \in Nat, NEW hi \in Nat, lo < hi, Tiles(s, lo, hi, {})
    PROVE  Len(s) \in 1..Len(s) /\ s[Len(s)].end = hi
<1>1. /\ s \in Seq(Spans)
      /\ \A n \in 1..Len(s) : s[n].first < s[n].end /\ s[n].end <= hi
      /\ \A m, n \in 1..Len(s) : m < n => s[m].end <= s[n].first
  BY DEF Tiles
<1>2. \A n \in 1..Len(s) : s[n].first \in Nat /\ s[n].end \in Nat
  <2> SUFFICES ASSUME NEW n \in 1..Len(s) PROVE s[n].first \in Nat /\ s[n].end \in Nat
    OBVIOUS
  <2>1. s[n] \in Spans
    BY <1>1
  <2> QED BY <2>1 DEF Spans
<1>3. hi - 1 \in lo..hi - 1
  OBVIOUS
<1>4. PICK n \in 1..Len(s) : s[n].first <= hi - 1 /\ hi - 1 < s[n].end
  BY <1>3 DEF Tiles
<1> DEFINE L == Len(s)
<1>5. L \in Nat /\ n \in 1..L /\ L \in 1..L
  BY <1>1
<1> HIDE DEF L
<1>6. s[n].end = hi
  BY <1>1, <1>2, <1>4 DEF L
<1>7. ~(n < L)
  <2> SUFFICES ASSUME n < L PROVE FALSE
    OBVIOUS
  <2>1. s[n].end <= s[L].first /\ s[L].first < s[L].end /\ s[L].end <= hi
    BY <1>1, <1>5 DEF L
  <2>2. s[L].first \in Nat /\ s[L].end \in Nat
    BY <1>2, <1>5 DEF L
  <2> DEFINE f == s[L].first
             e == s[L].end
  <2>3. f \in Nat /\ e \in Nat /\ hi <= f /\ f < e /\ e <= hi
    BY <2>1, <2>2, <1>6
  <2> HIDE DEF f, e
  <2> QED BY <2>3
<1>8. n = L
  BY <1>5, <1>7
<1> QED BY <1>5, <1>6, <1>8 DEF L

(* The spans of nothing.                                                    *)
LEMMA TilesNothing ==
    ASSUME NEW lo \in Nat, NEW skip
    PROVE  Tiles(<<>>, lo, lo, skip)
BY DEF Tiles

(* One place more that is skipped.                                          *)
LEMMA TilesSkip ==
    ASSUME NEW s, NEW lo \in Nat, NEW hi \in Nat, NEW skip, lo < hi, lo \in skip, Tiles(s, lo + 1, hi, skip)
    PROVE  Tiles(s, lo, hi, skip)
<1>1. s \in Seq(Spans) /\ \A n \in 1..Len(s) : s[n].first \in Nat /\ s[n].end \in Nat
  <2>1. s \in Seq(Spans)
    BY DEF Tiles
  <2>2. ASSUME NEW n \in 1..Len(s)
        PROVE  s[n].first \in Nat /\ s[n].end \in Nat
    <3>1. s[n] \in Spans
      BY <2>1
    <3> QED BY <3>1 DEF Spans
  <2> QED BY <2>1, <2>2
<1>2. /\ \A n \in 1..Len(s) : lo + 1 <= s[n].first /\ s[n].first < s[n].end /\ s[n].end <= hi
      /\ \A m, n \in 1..Len(s) : m < n => s[m].end <= s[n].first
      /\ \A k \in lo + 1..hi - 1 : (k \notin skip) <=> \E n \in 1..Len(s) : s[n].first <= k /\ k < s[n].end
  BY DEF Tiles
<1>3. ASSUME NEW n \in 1..Len(s)
      PROVE  lo <= s[n].first /\ ~(s[n].first <= lo)
  BY <1>1, <1>2
<1>4. ASSUME NEW k \in lo..hi - 1
      PROVE  (k \notin skip) <=> \E n \in 1..Len(s) : s[n].first <= k /\ k < s[n].end
  <2>1. CASE k = lo
    BY <2>1, <1>3
  <2>2. CASE k # lo
    <3>1. k \in lo + 1..hi - 1
      BY <2>2
    <3> QED BY <3>1, <1>2
  <2> QED BY <2>1, <2>2
<1> QED BY <1>1, <1>2, <1>3, <1>4 DEF Tiles

(* One place more at the end that is skipped.                               *)
LEMMA TilesSkipLast ==
    ASSUME NEW s, NEW lo \in Nat, NEW hi \in Nat, NEW skip, lo <= hi, hi \in skip, Tiles(s, lo, hi, skip)
    PROVE  Tiles(s, lo, hi + 1, skip)
<1>1. s \in Seq(Spans) /\ \A n \in 1..Len(s) : s[n].first \in Nat /\ s[n].end \in Nat
  <2>1. s \in Seq(Spans)
    BY DEF Tiles
  <2>2. ASSUME NEW n \in 1..Len(s)
        PROVE  s[n].first \in Nat /\ s[n].end \in Nat
    <3>1. s[n] \in Spans
      BY <2>1
    <3> QED BY <3>1 DEF Spans
  <2> QED BY <2>1, <2>2
<1>2. /\ \A n \in 1..Len(s) : lo <= s[n].first /\ s[n].first < s[n].end /\ s[n].end <= hi
      /\ \A m, n \in 1..Len(s) : m < n => s[m].end <= s[n].first
      /\ \A k \in lo..hi - 1 : (k \notin skip) <=> \E n \in 1..Len(s) : s[n].first <= k /\ k < s[n].end
  BY DEF Tiles
<1>3. ASSUME NEW n \in 1..Len(s)
      PROVE  s[n].end <= hi + 1 /\ ~(hi < s[n].end)
  <2> DEFINE e == s[n].end
  <2>1. e \in Nat /\ e <= hi
    BY <1>1, <1>2
  <2> HIDE DEF e
  <2>2. e <= hi + 1 /\ ~(hi < e)
    BY <2>1
  <2> QED BY <2>2 DEF e
<1>4. ASSUME NEW k \in lo..(hi + 1) - 1
      PROVE  (k \notin skip) <=> \E n \in 1..Len(s) : s[n].first <= k /\ k < s[n].end
  <2>1. CASE k = hi
    BY <2>1, <1>3
  <2>2. CASE k # hi
    <3>1. k \in lo..hi - 1
      BY <2>2
    <3> QED BY <3>1, <1>2
  <2> QED BY <2>1, <2>2
<1> QED BY <1>1, <1>2, <1>3, <1>4 DEF Tiles

Good(s, i, reach, hi, skip, next, blanks) ==
  Tiles(s, i, hi, blanks) /\ Sources(s, reach, hi, skip, next)

(* A scan covers exactly the places that are not blank, with what it        *)
(* appends.                                                                *)
LEMMA ScanLeads ==
    ASSUME NEW reach, NEW lo, NEW hi, NEW skip, NEW next, NEW blanks,
           Moves(lo, hi, skip, next), Leads(reach, lo, hi, skip, next, blanks)
    PROVE  /\ Tiles(Scan(lo, hi, skip, next), lo, hi, blanks)
           /\ Sources(Scan(lo, hi, skip, next), reach, hi, skip, next)
<1>1. PICK from : Scans(from, lo, hi, skip, next) /\ Scan(lo, hi, skip, next) = from[lo]
  BY ScanIsRecursive
<1> DEFINE m == [i \in reach |-> hi - i]
           S == {i \in reach : Good(from[i], i, reach, hi, skip, next, blanks)}
<1>2. lo \in Nat /\ hi \in Nat /\ lo <= hi /\ reach \subseteq lo..hi /\ lo \in reach
  BY DEF Moves, Leads
<1>3. \A i \in reach : m[i] \in Nat
  BY <1>2
<1>4. ASSUME NEW i \in reach, \A e \in reach : m[e] < m[i] => e \in S
      PROVE  i \in S
  <2>0. from[i] = ScanAt(hi, skip, next, from, i) /\ i \in Nat /\ i <= hi /\ lo <= i
    BY <1>1, <1>2 DEF Scans
  <2>1. CASE i = hi
    <3>1. from[i] = <<>>
      BY <2>0, <2>1 DEF ScanAt
    <3>2. Tiles(<<>>, i, hi, blanks)
      BY <2>0, <2>1, TilesNothing
    <3>3. Sources(<<>>, reach, hi, skip, next)
      BY DEF Sources
    <3> QED BY <3>1, <3>2, <3>3 DEF Good
  <2>2. CASE i # hi /\ i \in skip
    <3>1. from[i] = from[i + 1]
      BY <2>0, <2>2 DEF ScanAt
    <3>2. i < hi /\ i + 1 \in reach /\ i \in blanks
      BY <2>0, <1>2, <2>2 DEF Leads
    <3>3. m[i + 1] < m[i]
      BY <3>2, <1>2
    <3>4. Tiles(from[i + 1], i + 1, hi, blanks) /\ Sources(from[i + 1], reach, hi, skip, next)
      BY <3>2, <3>3, <1>4 DEF Good
    <3>5. Tiles(from[i + 1], i, hi, blanks)
      BY <3>2, <3>4, <2>0, <1>2, TilesSkip
    <3> QED BY <3>1, <3>4, <3>5 DEF Good
  <2>3. CASE i # hi /\ i \notin skip
    <3> DEFINE a == next[i]
               e == Behind(next, i)
    <3>1. from[i] = a \o from[e]
      BY <2>0, <2>3 DEF ScanAt
    <3>2. i < hi /\ i \in lo..hi - 1
      BY <1>2, <2>0, <2>3
    <3>3. /\ a \in Seq(Spans) /\ e \in i + 1..hi /\ Tiles(a, i, e, blanks) /\ e \in reach
      BY <3>2, <2>3 DEF Moves, Leads
    <3> HIDE DEF a, e
    <3>4. m[e] < m[i] /\ e \in Nat /\ i <= e /\ e <= hi
      BY <3>3, <2>0, <1>2
    <3>5. Tiles(from[e], e, hi, blanks) /\ Sources(from[e], reach, hi, skip, next)
      BY <3>3, <3>4, <1>4 DEF Good
    <3>6. Tiles(a \o from[e], i, hi, blanks)
      BY <3>3, <3>4, <3>5, <2>0, <1>2, TilesJoin
    <3>7. Sources(a \o from[e], reach, hi, skip, next)
      <4> DEFINE c == a \o from[e]
      <4> SUFFICES ASSUME NEW n \in 1..Len(c)
                   PROVE  \E j \in reach : /\ j < hi /\ j \notin skip
                                           /\ \E k \in 1..Len(next[j]) : c[n] = next[j][k]
        BY DEF Sources
      <4>1. /\ a \in Seq(Spans) /\ from[e] \in Seq(Spans)
        BY <3>3, <3>5 DEF Tiles
      <4>2. n \in 1..Len(a) + Len(from[e]) /\ c[n] = IF n <= Len(a) THEN a[n] ELSE from[e][n - Len(a)]
        BY <4>1, Joined
      <4> HIDE DEF c
      <4>3. CASE n <= Len(a)
        <5>1. n \in 1..Len(a) /\ c[n] = a[n]
          BY <4>1, <4>2, <4>3
        <5> QED BY <5>1, <3>2, <2>3 DEF a
      <4>4. CASE ~(n <= Len(a))
        <5>1. n - Len(a) \in 1..Len(from[e]) /\ c[n] = from[e][n - Len(a)]
          BY <4>1, <4>2, <4>4
        <5>2. \E j \in reach : /\ j < hi /\ j \notin skip
                               /\ \E k \in 1..Len(next[j]) : from[e][n - Len(a)] = next[j][k]
          BY <5>1, <3>5, Zenon DEF Sources
        <5> QED BY <5>1, <5>2, Zenon
      <4> QED BY <4>3, <4>4
    <3> QED BY <3>1, <3>6, <3>7 DEF Good
  <2> QED BY <2>1, <2>2, <2>3
<1>5. reach \subseteq S
  <2> HIDE DEF m, S
  <2> QED BY <1>3, <1>4, MeasureInduction
<1> QED BY <1>1, <1>2, <1>5 DEF Good

(* A scan covers exactly the places that it does not skip, with what it     *)
(* appends (the loops of the tokenizers).                                  *)
LEMMA ScanTiles ==
    ASSUME NEW lo, NEW hi, NEW skip, NEW next, Advances(lo, hi, skip, next)
    PROVE  /\ Tiles(Scan(lo, hi, skip, next), lo, hi, skip)
           /\ Sources(Scan(lo, hi, skip, next), lo..hi, hi, skip, next)
<1>1. Moves(lo, hi, skip, next)
  BY DEF Moves, Advances
<1>2. lo \in Nat /\ hi \in Nat /\ lo <= hi
  BY DEF Advances
<1>3. ASSUME NEW i \in lo..hi, i < hi
      PROVE  /\ i + 1 \in lo..hi
             /\ i \notin skip => /\ Tiles(next[i], i, Behind(next, i), skip)
                                /\ Behind(next, i) \in lo..hi
  <2>1. i \in lo..hi - 1 /\ i + 1 \in lo..hi
    BY <1>2, <1>3
  <2>2. ASSUME i \notin skip
        PROVE  Tiles(next[i], i, Behind(next, i), skip) /\ Behind(next, i) \in lo..hi
    <3>1. /\ Behind(next, i) \in i + 1..hi
          /\ Tiles(next[i], i, Behind(next, i), {})
          /\ \A k \in i..Behind(next, i) - 1 : k \notin skip
      BY <2>1, <2>2 DEF Advances
    <3>2. Behind(next, i) \in lo..hi
      BY <1>2, <3>1
    <3> QED BY <3>1, <3>2, TilesAll
  <2> QED BY <2>1, <2>2
<1>4. Leads(lo..hi, lo, hi, skip, next, skip)
  BY <1>2, <1>3 DEF Leads
<1> QED BY <1>1, <1>4, ScanLeads

-----------------------------------------------------------------------------
(* Offsets.                                                                *)

OffsetAt(text, upTo, i) == IF i = 1 THEN 0 ELSE upTo[i - 1] + Width[text[i - 1]]
OffsetsOf(upTo, text) == upTo = [i \in 1..Len(text) + 1 |-> OffsetAt(text, upTo, i)]

(* Offsets begin at 0 and grow by the width of each rune.                   *)
LEMMA OffsetIsRecursive ==
    ASSUME NEW text \in Seq(Runes)
    PROVE  /\ Offset(text, 1) = 0
           /\ \A k \in 1..Len(text) : Offset(text, k + 1) = Offset(text, k) + Width[text[k]]
<1> DEFINE n == Len(text)
           step == [k \in 1..n |-> [v \in Nat |-> v + Width[text[k]]]]
<1>1. n \in Nat /\ \A k \in 1..n : Width[text[k]] \in Nat
  BY RunesAssumption
<1>2. Stepwise(n, Nat, 0, step)
  BY <1>1 DEF Stepwise
<1>3. PICK f : Follows(f, n, Nat, 0, step)
  <2> HIDE DEF n, step
  <2> QED BY <1>2, StepwiseFunction
<1>4. /\ f[0] = 0
      /\ \A k \in 1..n : f[k] = f[k - 1] + Width[text[k]] /\ f[k - 1] \in Nat
  <2>1. f \in [0..n -> Nat] /\ f[0] = 0 /\ \A k \in 1..n : f[k] = step[k][f[k - 1]]
    BY <1>3 DEF Follows
  <2> HIDE DEF n
  <2>2. \A k \in 1..n : k - 1 \in 0..n
    BY <1>1
  <2> QED BY <2>1, <2>2
<1> DEFINE g == [i \in 1..n + 1 |-> f[i - 1]]
<1>5. OffsetsOf(g, text)
  <2>1. ASSUME NEW i \in 1..n + 1
        PROVE  f[i - 1] = IF i = 1 THEN 0 ELSE g[i - 1] + Width[text[i - 1]]
    <3>1. CASE i = 1
      BY <3>1, <1>4
    <3>2. CASE i # 1
      <4>1. i - 1 \in 1..n /\ i - 1 \in 1..n + 1
        BY <3>2, <1>1
      <4>2. g[i - 1] = f[i - 1 - 1]
        BY <4>1
      <4> QED BY <3>2, <4>1, <4>2, <1>4
    <3> QED BY <3>1, <3>2
  <2> QED BY <2>1 DEF OffsetsOf, OffsetAt
<1> DEFINE h == CHOOSE upTo : OffsetsOf(upTo, text)
<1>6. OffsetsOf(h, text)
  BY <1>5
<1>7. \A k : Offset(text, k) = h[k]
  BY DEF Offset, OffsetsOf, OffsetAt
<1> HIDE DEF h
<1>8. 1 \in 1..n + 1 /\ h[1] = 0
  BY <1>1, <1>6 DEF OffsetsOf, OffsetAt
<1>9. ASSUME NEW k \in 1..n
      PROVE  h[k + 1] = h[k] + Width[text[k]]
  <2>1. k + 1 \in 1..n + 1 /\ k + 1 # 1 /\ (k + 1) - 1 = k
    BY <1>1
  <2> HIDE DEF n
  <2>2. h[k + 1] = OffsetAt(text, h, k + 1)
    BY <2>1, <1>6 DEF OffsetsOf, n
  <2> QED BY <2>1, <2>2 DEF OffsetAt
<1> QED BY <1>7, <1>8, <1>9

(* Offsets are numbers, and grow with the place by at most four bytes.     *)
LEMMA OffsetsRise ==
    ASSUME NEW text \in Seq(Runes)
    PROVE  /\ \A k \in 1..Len(text) + 1 : Offset(text, k) \in Nat
           /\ \A k, l \in 1..Len(text) + 1 : k < l => Offset(text, k) < Offset(text, l)
<1> DEFINE n == Len(text)
           off(k) == Offset(text, k)
           S == {l \in Nat : l + 1 <= n + 1 => /\ off(l + 1) \in Nat
                                              /\ \A k \in 1..l : off(k) \in Nat /\ off(k) < off(l + 1)}
<1>1. n \in Nat /\ \A k \in 1..n : Width[text[k]] \in Nat /\ Width[text[k]] > 0
  BY RunesAssumption
<1>2. off(1) = 0 /\ \A k \in 1..n : off(k + 1) = off(k) + Width[text[k]]
  BY OffsetIsRecursive
<1> HIDE DEF off, n
<1>3. 0 \in S
  BY <1>2
<1>4. ASSUME NEW l \in S
      PROVE  l + 1 \in S
  <2> SUFFICES ASSUME (l + 1) + 1 <= n + 1
               PROVE  /\ off((l + 1) + 1) \in Nat
                      /\ \A k \in 1..l + 1 : off(k) \in Nat /\ off(k) < off((l + 1) + 1)
    BY DEF S
  <2>1. l \in Nat /\ l + 1 <= n + 1 /\ l + 1 \in 1..n
    BY <1>1
  <2>2. off(l + 1) \in Nat /\ \A k \in 1..l : off(k) \in Nat /\ off(k) < off(l + 1)
    BY <2>1 DEF S
  <2>3. off((l + 1) + 1) = off(l + 1) + Width[text[l + 1]]
    BY <2>1, <1>2
  <2>4. off((l + 1) + 1) \in Nat /\ off(l + 1) < off((l + 1) + 1)
    BY <2>1, <2>2, <2>3, <1>1
  <2>5. ASSUME NEW k \in 1..l + 1
        PROVE  off(k) \in Nat /\ off(k) < off((l + 1) + 1)
    <3>1. CASE k = l + 1
      BY <3>1, <2>2, <2>4
    <3>2. CASE k # l + 1
      <4>1. k \in 1..l
        BY <3>2, <2>1
      <4>2. off(k) \in Nat /\ off(k) < off(l + 1)
        BY <4>1, <2>2
      <4> QED BY <4>2, <2>2, <2>4
    <3> QED BY <3>1, <3>2
  <2> QED BY <2>4, <2>5
<1>5. S = Nat
  <2>1. S \in SUBSET Nat
    OBVIOUS
  <2> HIDE DEF S
  <2> QED BY <1>3, <1>4, <2>1, NumberInduction
<1>6. ASSUME NEW l \in 1..n + 1
      PROVE  off(l) \in Nat /\ \A k \in 1..n + 1 : k < l => off(k) < off(l)
  <2>1. l - 1 \in S /\ (l - 1) + 1 = l
    <3>1. l - 1 \in Nat /\ (l - 1) + 1 = l
      BY <1>1
    <3> HIDE DEF S
    <3> QED BY <3>1, <1>5
  <2>2. l <= n + 1
    BY <1>1
  <2>3. off(l) \in Nat /\ \A k \in 1..l - 1 : off(k) < off(l)
    BY <2>1, <2>2
  <2>4. \A k \in 1..n + 1 : k < l => k \in 1..l - 1
    BY <1>1
  <2> QED BY <2>3, <2>4
<1> QED BY <1>6 DEF off, n

(* An offset tells its place.                                              *)
LEMMA OffsetTellsPlace ==
    ASSUME NEW text \in Seq(Runes), NEW p \in 1..Len(text) + 1
    PROVE  (CHOOSE k \in 1..Len(text) + 1 : Offset(text, k) = Offset(text, p)) = p
<1> DEFINE q == CHOOSE k \in 1..Len(text) + 1 : Offset(text, k) = Offset(text, p)
<1>1. q \in 1..Len(text) + 1 /\ Offset(text, q) = Offset(text, p)
  OBVIOUS
<1> HIDE DEF q
<1>2. Len(text) \in Nat /\ q \in Int /\ p \in Int /\ Offset(text, q) \in Nat /\ Offset(text, p) \in Nat
  BY <1>1, OffsetsRise
<1>3. ~(q < p) /\ ~(p < q)
  BY <1>1, <1>2, OffsetsRise
<1>4. q = p
  BY <1>2, <1>3
<1> QED BY <1>4 DEF q

(* A run of runes of a class ends at the first rune that is not of it, or   *)
(* with the text.                                                          *)
LEMMA RunEndIs ==
    ASSUME NEW V, NEW text \in Seq(V), NEW i \in 1..Len(text) + 1, NEW class
    PROVE  /\ RunEnd(text, i, class) \in i..Len(text) + 1
           /\ \A k \in i..RunEnd(text, i, class) - 1 : text[k] \in class
           /\ RunEnd(text, i, class) <= Len(text) => text[RunEnd(text, i, class)] \notin class
<1> DEFINE n == Len(text)
           T == {e \in i..n + 1 : e = n + 1 \/ text[e] \notin class}
           Ends(e) == /\ \A k \in i..e - 1 : text[k] \in class
                      /\ e <= n => text[e] \notin class
<1>1. n \in Nat /\ i \in Nat /\ i <= n + 1
  OBVIOUS
<1> HIDE DEF n
<1>2. T \in SUBSET Nat /\ n + 1 \in T
  BY <1>1
<1>3. PICK m \in T : \A k \in T : m <= k
  <2> HIDE DEF T
  <2> QED BY <1>2, Smallest
<1>4. m \in i..n + 1 /\ Ends(m)
  <2>1. m \in i..n + 1 /\ (m = n + 1 \/ text[m] \notin class)
    OBVIOUS
  <2>2. ASSUME NEW k \in i..m - 1
        PROVE  text[k] \in class
    <3>1. k \in i..n + 1 /\ k # n + 1 /\ ~(m <= k)
      BY <1>1, <2>1
    <3> QED BY <3>1, <1>3
  <2>3. m <= n => m # n + 1
    BY <1>1, <2>1
  <2> QED BY <2>1, <2>2, <2>3
<1>5. RunEnd(text, i, class) = CHOOSE e \in i..n + 1 : Ends(e)
  BY DEF RunEnd, n
<1>6. RunEnd(text, i, class) \in i..n + 1 /\ Ends(RunEnd(text, i, class))
  <2> HIDE DEF Ends
  <2> QED BY <1>4, <1>5, Zenon
<1> QED BY <1>6 DEF n

(* A run that begins with a rune of the class holds it.                    *)
LEMMA RunIsLong ==
    ASSUME NEW V, NEW text \in Seq(V), NEW i \in 1..Len(text), NEW class, text[i] \in class
    PROVE  RunEnd(text, i, class) \in i + 1..Len(text) + 1
<1> DEFINE e == RunEnd(text, i, class)
<1>1. i \in 1..Len(text) + 1 /\ Len(text) \in Nat
  OBVIOUS
<1>2. e \in i..Len(text) + 1 /\ (e <= Len(text) => text[e] \notin class)
  BY <1>1, RunEndIs
<1> HIDE DEF e
<1>3. e # i
  BY <1>1, <1>2
<1>4. e \in i + 1..Len(text) + 1
  BY <1>1, <1>2, <1>3
<1> QED BY <1>4 DEF e

(* A span by itself.                                                       *)
LEMMA OneSpan ==
    ASSUME NEW i \in Nat, NEW e \in Nat, NEW type \in SpanTypes, i < e
    PROVE  /\ <<Span(i, e, type)>> \in Seq(Spans)
           /\ Tiles(<<Span(i, e, type)>>, i, e, {})
<1> DEFINE s == <<Span(i, e, type)>>
<1>1. Span(i, e, type) \in Spans
  BY DEF Span, Spans
<1>2. s \in Seq(Spans) /\ Len(s) = 1 /\ s[1] = Span(i, e, type)
  BY <1>1
<1> HIDE DEF s
<1>3. s[1].first = i /\ s[1].end = e
  BY <1>2 DEF Span
<1>4. \A n \in 1..Len(s) : n = 1
  BY <1>2
<1>5. \A k \in i..e - 1 : (k \notin {}) <=> \E n \in 1..Len(s) : s[n].first <= k /\ k < s[n].end
  <2>1. 1 \in 1..Len(s)
    BY <1>2
  <2> QED BY <2>1, <1>3
<1>6. Tiles(s, i, e, {})
  <2>1. \A n \in 1..Len(s) : i <= s[n].first /\ s[n].first < s[n].end /\ s[n].end <= e
    BY <1>3, <1>4
  <2>2. \A m, n \in 1..Len(s) : m < n => s[m].end <= s[n].first
    BY <1>4
  <2> QED BY <1>2, <2>1, <2>2, <1>5 DEF Tiles
<1> QED BY <1>2, <1>6 DEF s

\* At each place that is not skipped, one span is appended.
Singly(lo, hi, skip, span) ==
  /\ lo \in Nat /\ hi \in Nat /\ lo <= hi
  /\ \A i \in lo..hi - 1 : i \notin skip =>
       \E e \in i + 1..hi, type \in SpanTypes :
         /\ span[i] = <<Span(i, e, type)>>
         /\ \A k \in i..e - 1 : k \notin skip

Scanned(s, lo, hi, skip, span) ==
  /\ Tiles(s, lo, hi, skip)
  /\ \A n \in 1..Len(s) :
       /\ s[n].first \in lo..hi - 1 /\ s[n].first \notin skip
       /\ <<s[n]>> = span[s[n].first]

(* A scan that appends a span at a time covers what it does not skip, and   *)
(* each span is the one that begins there.                                 *)
LEMMA ScanOfSpans ==
    ASSUME NEW lo, NEW hi, NEW skip, NEW span, Singly(lo, hi, skip, span)
    PROVE  Scanned(Scan(lo, hi, skip, span), lo, hi, skip, span)
<1>1. Advances(lo, hi, skip, span)
  <2>1. ASSUME NEW i \in lo..hi - 1, i \notin skip
        PROVE  /\ span[i] \in Seq(Spans)
               /\ Behind(span, i) \in i + 1..hi
               /\ Tiles(span[i], i, Behind(span, i), {})
               /\ \A k \in i..Behind(span, i) - 1 : k \notin skip
    <3>1. PICK e \in i + 1..hi, type \in SpanTypes :
             span[i] = <<Span(i, e, type)>> /\ \A k \in i..e - 1 : k \notin skip
      BY <2>1 DEF Singly
    <3>2. i \in Nat /\ e \in Nat /\ i < e
      BY DEF Singly
    <3>3. Behind(span, i) = e
      <4>1. Len(span[i]) = 1 /\ span[i][1] = Span(i, e, type)
        BY <3>1
      <4> QED BY <4>1 DEF Behind, Span
    <3> QED BY <3>1, <3>2, <3>3, OneSpan
  <2> QED BY <2>1 DEF Advances, Singly
<1> DEFINE t == Scan(lo, hi, skip, span)
<1>2. Tiles(t, lo, hi, skip) /\ Sources(t, lo..hi, hi, skip, span)
  BY <1>1, ScanTiles
<1> HIDE DEF t
<1>3. ASSUME NEW n \in 1..Len(t)
      PROVE  /\ t[n].first \in lo..hi - 1 /\ t[n].first \notin skip
             /\ <<t[n]>> = span[t[n].first]
  <2>1. PICK i \in lo..hi - 1 : i \notin skip /\ \E k \in 1..Len(span[i]) : t[n] = span[i][k]
    <3>1. PICK i \in lo..hi : i < hi /\ i \notin skip /\ \E k \in 1..Len(span[i]) : t[n] = span[i][k]
      BY <1>2, Zenon DEF Sources
    <3>2. i \in lo..hi - 1
      BY <1>1, <3>1 DEF Advances
    <3> QED BY <3>1, <3>2
  <2>2. PICK e \in i + 1..hi, type \in SpanTypes : span[i] = <<Span(i, e, type)>>
    BY <2>1 DEF Singly
  <2>3. Len(span[i]) = 1 /\ span[i][1] = Span(i, e, type)
    BY <2>2
  <2>4. t[n] = Span(i, e, type)
    BY <2>1, <2>3
  <2>5. t[n].first = i
    BY <2>4 DEF Span
  <2> QED BY <2>1, <2>2, <2>4, <2>5
<1> QED BY <1>2, <1>3 DEF t, Scanned

-----------------------------------------------------------------------------
(* Tokens.                                                                 *)

RuneAt(text, offset) == CHOOSE k \in 1..Len(text) + 1 : Offset(text, k) = offset

(* A sequence of spans of a text, and what its tokens hold.                 *)
LEMMA TokensHold ==
    ASSUME NEW text \in Seq(Runes), NEW s, NEW skip, Tiles(s, 1, Len(text) + 1, skip)
    PROVE  /\ Len(TokensOf(text, s)) = Len(s) /\ Len(s) \in Nat
           /\ \A n \in 1..Len(s) :
                /\ s[n] \in Spans
                /\ s[n].first \in 1..Len(text) + 1 /\ s[n].end \in 1..Len(text) + 1
                /\ s[n].first < s[n].end
                /\ s[n].first \in 1..Len(text) /\ s[n].end - 1 \in s[n].first..Len(text)
                /\ TokensOf(text, s)[n].term = SubSeq(text, s[n].first, s[n].end - 1)
                /\ TokensOf(text, s)[n].position = n - 1
                /\ TokensOf(text, s)[n].start = Offset(text, s[n].first)
                /\ TokensOf(text, s)[n].end = Offset(text, s[n].end)
                /\ TokensOf(text, s)[n].type = s[n].type
                /\ RuneAt(text, TokensOf(text, s)[n].start) = s[n].first
                /\ RuneAt(text, TokensOf(text, s)[n].end) = s[n].end
           /\ \A n \in 2..Len(s) : n - 1 \in 1..Len(s) /\ n \in 1..Len(s) /\ s[n - 1].end <= s[n].first
<1> DEFINE toks == TokensOf(text, s)
           L == Len(text)
<1>1. s \in Seq(Spans) /\ Len(s) \in Nat /\ L \in Nat
  BY DEF Tiles
<1>2. Len(toks) = Len(s)
  BY <1>1 DEF TokensOf
<1>3. ASSUME NEW n \in 1..Len(s)
      PROVE  /\ s[n] \in Spans
             /\ s[n].first \in 1..L + 1 /\ s[n].end \in 1..L + 1
             /\ s[n].first < s[n].end
             /\ s[n].first \in 1..L /\ s[n].end - 1 \in s[n].first..L
             /\ toks[n].term = SubSeq(text, s[n].first, s[n].end - 1)
             /\ toks[n].position = n - 1
             /\ toks[n].start = Offset(text, s[n].first)
             /\ toks[n].end = Offset(text, s[n].end)
             /\ toks[n].type = s[n].type
             /\ RuneAt(text, toks[n].start) = s[n].first
             /\ RuneAt(text, toks[n].end) = s[n].end
  <2>1. s[n] \in Spans
    BY <1>1
  <2>2. s[n].first \in Nat /\ s[n].end \in Nat
    BY <2>1 DEF Spans
  <2>3. 1 <= s[n].first /\ s[n].first < s[n].end /\ s[n].end <= L + 1
    BY DEF Tiles
  <2> HIDE DEF L
  <2>4. /\ s[n].first \in 1..L + 1 /\ s[n].end \in 1..L + 1
        /\ s[n].first \in 1..L /\ s[n].end - 1 \in s[n].first..L
    <3> DEFINE a == s[n].first
               b == s[n].end
    <3>1. a \in Nat /\ b \in Nat /\ L \in Nat /\ 1 <= a /\ a < b /\ b <= L + 1
      BY <2>2, <2>3, <1>1
    <3> HIDE DEF a, b
    <3>2. a \in 1..L + 1 /\ b \in 1..L + 1 /\ a \in 1..L /\ b - 1 \in a..L
      BY <3>1
    <3> QED BY <3>2 DEF a, b
  <2>5. toks[n] = [term |-> SubSeq(text, s[n].first, s[n].end - 1),
                   position |-> n - 1,
                   start |-> Offset(text, s[n].first),
                   end |-> Offset(text, s[n].end),
                   type |-> s[n].type]
    BY DEF TokensOf
  <2> HIDE DEF toks
  <2>6. /\ toks[n].term = SubSeq(text, s[n].first, s[n].end - 1)
        /\ toks[n].position = n - 1
        /\ toks[n].start = Offset(text, s[n].first)
        /\ toks[n].end = Offset(text, s[n].end)
        /\ toks[n].type = s[n].type
    <3> DEFINE a == SubSeq(text, s[n].first, s[n].end - 1)
               b == Offset(text, s[n].first)
               c == Offset(text, s[n].end)
               d == s[n].type
    <3>1. toks[n] = [term |-> a, position |-> n - 1, start |-> b, end |-> c, type |-> d]
      BY <2>5
    <3> HIDE DEF a, b, c, d
    <3>2. /\ toks[n].term = a /\ toks[n].position = n - 1
          /\ toks[n].start = b /\ toks[n].end = c /\ toks[n].type = d
      BY <3>1
    <3> QED BY <3>2 DEF a, b, c, d
  <2>7. /\ RuneAt(text, toks[n].start) = s[n].first
        /\ RuneAt(text, toks[n].end) = s[n].end
    BY <2>6, <2>4, OffsetTellsPlace DEF RuneAt, L
  <2> QED BY <2>1, <2>3, <2>4, <2>6, <2>7
<1>4. ASSUME NEW n \in 2..Len(s)
      PROVE  n - 1 \in 1..Len(s) /\ n \in 1..Len(s) /\ s[n - 1].end <= s[n].first
  <2>1. n - 1 \in 1..Len(s) /\ n \in 1..Len(s) /\ n - 1 < n
    BY <1>1
  <2> QED BY <2>1 DEF Tiles
<1> QED BY <1>1, <1>2, <1>3, <1>4 DEF L, toks

(* Tokens of spans that cover what is not skipped cover the text exactly.   *)
LEMMA TokensCover ==
    ASSUME NEW text \in Seq(Runes), NEW s, NEW skip, NEW class,
           Tiles(s, 1, Len(text) + 1, skip),
           \A k \in 1..Len(text) : (k \in skip) <=> text[k] \notin class
    PROVE  CoverExactly(text, TokensOf(text, s), class)
<1> DEFINE toks == TokensOf(text, s)
           first(t) == RuneAt(text, t.start)
           end(t) == RuneAt(text, t.end)
           L == Len(text)
<1>1. /\ Len(toks) = Len(s) /\ Len(s) \in Nat /\ L \in Nat
      /\ \A n \in 1..Len(s) :
           /\ first(toks[n]) = s[n].first /\ end(toks[n]) = s[n].end
           /\ s[n].first < s[n].end
           /\ s[n].first \in 1..L + 1 /\ s[n].end \in 1..L + 1
           /\ toks[n].position = n - 1
           /\ toks[n].term = SubSeq(text, s[n].first, s[n].end - 1)
      /\ \A n \in 2..Len(s) : n - 1 \in 1..Len(s) /\ s[n - 1].end <= s[n].first
  BY TokensHold
<1>2. \A k \in 1..L : (k \notin skip) <=> \E n \in 1..Len(s) : s[n].first <= k /\ k < s[n].end
  <2>1. \A k \in 1..(L + 1) - 1 : (k \notin skip) <=> \E n \in 1..Len(s) : s[n].first <= k /\ k < s[n].end
    BY DEF Tiles
  <2> QED BY <1>1, <2>1
<1>0. \A k \in 1..L : (k \in skip) <=> text[k] \notin class
  OBVIOUS
<1> HIDE DEF toks, first, end, L
<1>3. ASSUME NEW n \in 1..Len(toks)
      PROVE  /\ toks[n].position = n - 1
             /\ first(toks[n]) < end(toks[n])
             /\ toks[n].term = SubSeq(text, first(toks[n]), end(toks[n]) - 1)
             /\ n > 1 => end(toks[n - 1]) <= first(toks[n])
  <2>1. n \in 1..Len(s) /\ (n > 1 => n \in 2..Len(s))
    BY <1>1
  <2> QED BY <2>1, <1>1
<1>4. {k \in 1..L : text[k] \in class} = UNION {first(toks[n])..end(toks[n]) - 1 : n \in 1..Len(toks)}
  <2>1. ASSUME NEW k \in 1..L, text[k] \in class
        PROVE  \E n \in 1..Len(toks) : k \in first(toks[n])..end(toks[n]) - 1
    <3>1. PICK n \in 1..Len(s) : s[n].first <= k /\ k < s[n].end
      BY <2>1, <1>0, <1>2
    <3>2. s[n].first \in Int /\ s[n].end \in Int /\ k \in Int
      BY <1>1
    <3>3. k \in s[n].first..s[n].end - 1
      BY <3>1, <3>2
    <3> QED BY <3>3, <1>1
  <2>2. ASSUME NEW n \in 1..Len(toks), NEW k \in first(toks[n])..end(toks[n]) - 1
        PROVE  k \in 1..L /\ text[k] \in class
    <3>1. n \in 1..Len(s) /\ k \in s[n].first..s[n].end - 1
      BY <1>1
    <3>2. s[n].first \in 1..L + 1 /\ s[n].end \in 1..L + 1
      BY <3>1, <1>1
    <3>3. k \in 1..L /\ s[n].first <= k /\ k < s[n].end
      BY <3>1, <3>2, <1>1
    <3> QED BY <3>1, <3>3, <1>0, <1>2
  <2> QED BY <2>1, <2>2
<1>5. CoverExactly(text, toks, class) <=>
        /\ \A n \in 1..Len(toks) :
             /\ toks[n].position = n - 1
             /\ first(toks[n]) < end(toks[n])
             /\ toks[n].term = SubSeq(text, first(toks[n]), end(toks[n]) - 1)
             /\ n > 1 => end(toks[n - 1]) <= first(toks[n])
        /\ {k \in 1..L : text[k] \in class} = UNION {first(toks[n])..end(toks[n]) - 1 : n \in 1..Len(toks)}
  BY Zenon DEF CoverExactly, RuneAt, first, end, L
<1> QED BY <1>3, <1>4, <1>5, Zenon DEF toks

Apart(tokens) == \A n \in 2..Len(tokens) : tokens[n - 1].end < tokens[n].start

(* Places where spans meet or not are offsets where tokens meet or not.     *)
LEMMA OffsetsFollowPlaces ==
    ASSUME NEW text \in Seq(Runes), NEW a \in 1..Len(text) + 1, NEW b \in 1..Len(text) + 1
    PROVE  /\ a < b => Offset(text, a) < Offset(text, b)
           /\ Offset(text, a) = Offset(text, b) => a = b
<1>1. a \in Int /\ b \in Int
  OBVIOUS
<1>2. a < b => Offset(text, a) < Offset(text, b)
  BY OffsetsRise
<1>3. ASSUME Offset(text, a) = Offset(text, b)
      PROVE  a = b
  BY <1>3, OffsetTellsPlace, Zenon
<1> QED BY <1>2, <1>3

(* The runs of a class cover its runes and lie apart.                       *)
LEMMA RunsCover ==
    ASSUME NEW text \in Seq(Runes), NEW class
    PROVE  /\ CoverExactly(text, TokensOf(text, RunsOf(text, class)), class)
           /\ Apart(TokensOf(text, RunsOf(text, class)))
<1> DEFINE L == Len(text)
           skip == Places(text, Runes \ class)
           span == [i \in 1..L |-> <<Span(i, RunEnd(text, i, class), "word")>>]
           s == RunsOf(text, class)
           toks == TokensOf(text, s)
<1>1. L \in Nat /\ L + 1 \in Nat /\ 1 <= L + 1 /\ (L + 1) - 1 = L /\ 1 \in Nat
  OBVIOUS
<1>2. \A k \in 1..L : (k \in skip) <=> text[k] \notin class
  BY DEF Places
<1>3. ASSUME NEW i \in 1..L, i \notin skip
      PROVE  \E e \in i + 1..L + 1, type \in SpanTypes :
               span[i] = <<Span(i, e, type)>> /\ \A k \in i..e - 1 : k \notin skip
  <2> DEFINE e == RunEnd(text, i, class)
  <2>1. text[i] \in class
    BY <1>2, <1>3
  <2>2. e \in i + 1..L + 1
    BY <2>1, RunIsLong
  <2>3. \A k \in i..e - 1 : text[k] \in class
    BY <1>1, RunEndIs
  <2>4. span[i] = <<Span(i, e, "word")>> /\ "word" \in SpanTypes
    BY DEF SpanTypes
  <2> HIDE DEF e, span, skip
  <2>5. \A k \in i..e - 1 : k \notin skip
    <3>1. \A k \in i..e - 1 : k \in 1..L
      BY <2>2, <1>1
    <3> QED BY <3>1, <2>3, <1>2
  <2> QED BY <2>2, <2>4, <2>5
<1>4. Singly(1, L + 1, skip, span)
  <2> HIDE DEF L, skip, span
  <2> QED BY <1>1, <1>3 DEF Singly
<1>5. s = Scan(1, L + 1, skip, span)
  BY DEF RunsOf
<1> HIDE DEF s, toks
<1>6. /\ Tiles(s, 1, L + 1, skip)
      /\ \A n \in 1..Len(s) : s[n].first \in 1..L /\ s[n].first \notin skip /\ <<s[n]>> = span[s[n].first]
  <2> HIDE DEF L, skip, span
  <2>1. Scanned(s, 1, L + 1, skip, span)
    BY <1>4, <1>5, ScanOfSpans, Zenon
  <2> QED BY <1>1, <2>1 DEF Scanned
<1>7. CoverExactly(text, toks, class)
  <2> HIDE DEF skip
  <2> QED BY <1>6, <1>2, TokensCover DEF toks
<1>8. ASSUME NEW n \in 2..Len(toks)
      PROVE  toks[n - 1].end < toks[n].start
  <2> HIDE DEF skip
  <2>1. n \in 1..Len(s) /\ n - 1 \in 1..Len(s) /\ s[n - 1].end <= s[n].first
    BY <1>6, TokensHold DEF toks
  <2>2. /\ toks[n - 1].end = Offset(text, s[n - 1].end) /\ toks[n].start = Offset(text, s[n].first)
        /\ s[n - 1].end \in 1..L + 1 /\ s[n].first \in 1..L + 1 /\ s[n].first \in 1..L
        /\ s[n - 1].first \in 1..L
    BY <1>6, <2>1, TokensHold DEF toks
  <2>3. s[n - 1].end = RunEnd(text, s[n - 1].first, class)
    <3>1. <<s[n - 1]>> = <<Span(s[n - 1].first, RunEnd(text, s[n - 1].first, class), "word")>>
      BY <2>1, <1>6
    <3>2. s[n - 1] = Span(s[n - 1].first, RunEnd(text, s[n - 1].first, class), "word")
      BY <3>1
    <3> QED BY <3>2 DEF Span
  <2>4. s[n - 1].end <= L => text[s[n - 1].end] \notin class
    <3>1. s[n - 1].first \in 1..L + 1
      BY <2>2, <1>1
    <3> QED BY <3>1, <2>3, RunEndIs
  <2>5. text[s[n].first] \in class
    BY <2>1, <2>2, <1>6, <1>2
  <2> HIDE DEF L
  <2>6. s[n - 1].end < s[n].first
    <3> DEFINE a == s[n - 1].end
               b == s[n].first
    <3>1. a \in 1..L + 1 /\ b \in 1..L /\ a <= b
      BY <2>1, <2>2
    <3>2. a = b => FALSE
      <4>1. b <= L
        BY <3>1, <1>1
      <4> QED BY <4>1, <2>4, <2>5
    <3> HIDE DEF a, b
    <3>3. a < b
      BY <3>1, <3>2, <1>1
    <3> QED BY <3>3 DEF a, b
  <2> QED BY <2>2, <2>6, OffsetsFollowPlaces DEF L
<1> QED BY <1>7, <1>8 DEF Apart, toks, s

(* Part of a text.                                                         *)
LEMMA PartOf ==
    ASSUME NEW V, NEW text \in Seq(V), NEW i \in 1..Len(text), NEW j \in i..Len(text)
    PROVE  /\ SubSeq(text, i, j) \in Seq(V)
           /\ Len(SubSeq(text, i, j)) = j - i + 1
           /\ \A k \in 1..j - i + 1 : SubSeq(text, i, j)[k] = text[i + k - 1]
           /\ SubSeq(text, i, j)[1] = text[i]
           /\ SubSeq(text, i, j)[Len(SubSeq(text, i, j))] = text[j]
<1>1. i \in Nat /\ j \in Nat /\ Len(text) \in Nat /\ 1 <= i /\ i <= j /\ j <= Len(text)
  OBVIOUS
<1>2. SubSeq(text, i, j) \in Seq(V) /\ Len(SubSeq(text, i, j)) = j - i + 1
  BY <1>1
<1>3. \A k \in 1..j - i + 1 : SubSeq(text, i, j)[k] = text[i + k - 1]
  BY <1>1
<1>4. 1 \in 1..j - i + 1 /\ j - i + 1 \in 1..j - i + 1 /\ i + 1 - 1 = i /\ i + (j - i + 1) - 1 = j
  BY <1>1
<1> QED BY <1>2, <1>3, <1>4

(* A URL begins with a letter.                                             *)
LEMMA URLBeginsWithLetter ==
    ASSUME NEW text \in Seq(Runes), NEW i \in 1..Len(text), HasURLPrefix(text, i)
    PROVE  text[i] \in Letters
<1>1. PICK p \in URLPrefixes : /\ i + Len(p) <= Len(text) + 1
                              /\ LowerText(SubSeq(text, i, i + Len(p) - 1)) = p
  BY DEF HasURLPrefix
<1>2. p \in Seq(Letters \cup Punctuation) /\ p # <<>> /\ p[1] \in Letters
  BY RunesAssumption
<1>3. Len(p) \in Nat /\ Len(p) > 0 /\ 1 \in 1..Len(p)
  BY <1>2
<1> DEFINE j == i + Len(p) - 1
           part == SubSeq(text, i, j)
<1>4. j \in i..Len(text)
  BY <1>1, <1>3
<1> HIDE DEF j
<1>5. part[1] = text[i] /\ Len(part) = j - i + 1
  BY <1>4, PartOf
<1>6. j - i + 1 \in Nat /\ 1 \in 1..j - i + 1
  BY <1>4
<1> HIDE DEF part
<1>7. LowerText(part)[1] = Lower(part[1])
  BY <1>5, <1>6 DEF LowerText
<1>8. Lower(text[i]) \in Letters
  BY <1>1, <1>2, <1>5, <1>7 DEF j, part
<1> QED BY <1>8, RunesAssumption DEF Lower

(* A URL holds a rune and does not end in closing punctuation.              *)
LEMMA URLEndIs ==
    ASSUME NEW text \in Seq(Runes), NEW i \in 1..Len(text), HasURLPrefix(text, i)
    PROVE  /\ URLEnd(text, i) \in i + 1..Len(text) + 1
           /\ \A k \in i..URLEnd(text, i) - 1 : text[k] \notin Spaces
           /\ text[URLEnd(text, i) - 1] \notin Closing
<1> DEFINE L == Len(text)
           space == RunEnd(text, i, Runes \ Spaces)
           Back(e) == \A k \in e..space - 1 : text[k] \in Closing
           T == {e \in i..space : Back(e)}
           Ends(e) == Back(e) /\ (e > i => text[e - 1] \notin Closing)
<1>1. text[i] \in Letters /\ text[i] \in Runes /\ text[i] \notin Spaces /\ text[i] \notin Closing
  <2>1. text[i] \in Letters /\ text[i] \in Runes
    BY URLBeginsWithLetter
  <2> QED BY <2>1, RunesAssumption DEF WordRunes
<1>2. space \in i + 1..L + 1
  BY <1>1, RunIsLong
<1>3. \A k \in i..space - 1 : text[k] \in Runes \ Spaces
  <2>1. i \in 1..Len(text) + 1
    OBVIOUS
  <2> QED BY <2>1, RunEndIs
<1>4. L \in Nat /\ i \in Nat
  OBVIOUS
<1> HIDE DEF space, L
<1>5. space \in T /\ T \in SUBSET Nat /\ space \in Nat
  BY <1>2, <1>4
<1>6. PICK m \in T : \A k \in T : m <= k
  <2> HIDE DEF T
  <2> QED BY <1>5, Smallest
<1>7. m \in i..space /\ Ends(m)
  <2>1. m \in i..space /\ Back(m) /\ m \in Nat
    BY <1>4
  <2>2. ASSUME m > i, text[m - 1] \in Closing
        PROVE  FALSE
    <3>1. m - 1 \in i..space /\ ~(m <= m - 1)
      BY <2>1, <2>2, <1>4, <1>5
    <3>2. Back(m - 1)
      <4> SUFFICES ASSUME NEW k \in m - 1..space - 1 PROVE text[k] \in Closing
        OBVIOUS
      <4>1. CASE k = m - 1
        BY <4>1, <2>2
      <4>2. CASE k # m - 1
        <5>1. k \in m..space - 1
          BY <4>2, <2>1, <1>5
        <5> QED BY <5>1, <2>1
      <4> QED BY <4>1, <4>2
    <3> QED BY <3>1, <3>2, <1>6
  <2> QED BY <2>1, <2>2
<1> DEFINE u == URLEnd(text, i)
<1>8. u = CHOOSE e \in i..space : Ends(e)
  BY DEF URLEnd, space
<1>9. u \in i..space /\ Ends(u)
  <2> HIDE DEF Ends, u
  <2> QED BY <1>7, <1>8, Zenon
<1> HIDE DEF u
<1>10. u # i
  <2> SUFFICES ASSUME u = i PROVE FALSE
    OBVIOUS
  <2>1. i \in i..space - 1
    BY <1>2, <1>4
  <2> QED BY <2>1, <1>9, <1>1
<1>11. u \in i + 1..L + 1 /\ u > i
  BY <1>9, <1>10, <1>2, <1>4
<1>12. \A k \in i..u - 1 : k \in i..space - 1
  BY <1>9, <1>5, <1>4
<1> QED BY <1>3, <1>9, <1>11, <1>12 DEF u, L

(* What the standard tokenizer takes at a place that is not a blank.        *)
LEMMA StandardSpanIs ==
    ASSUME NEW text \in Seq(Runes), NEW i \in 1..Len(text), text[i] \notin Spaces
    PROVE  \E e \in i + 1..Len(text) + 1, type \in SpanTypes :
             /\ StandardSpan(text, i) = Span(i, e, type)
             /\ \A k \in i..e - 1 : text[k] \notin Spaces
             /\ type = "url" => text[e - 1] \notin Closing
             /\ type = "symbol" => e = i + 1
             /\ type \in {"word", "number", "email"} =>
                  (e <= Len(text) => text[e] \notin WordRunes \cup Connectors)
<1>1. CASE HasURLPrefix(text, i)
  <2>1. StandardSpan(text, i) = Span(i, URLEnd(text, i), "url")
    BY <1>1 DEF StandardSpan
  <2>2. "url" \in SpanTypes
    BY DEF SpanTypes
  <2> QED BY <2>1, <2>2, <1>1, URLEndIs
<1>2. CASE ~HasURLPrefix(text, i) /\ text[i] \in WordRunes
  <2> DEFINE e == RunEnd(text, i, WordRunes \cup Connectors)
             type == WordType(SubSeq(text, i, e - 1))
  <2>1. StandardSpan(text, i) = Span(i, e, type)
    BY <1>2 DEF StandardSpan
  <2>2. type \in SpanTypes /\ type # "url" /\ type # "symbol"
    <3>1. type \in {"email", "number", "word"}
      BY DEF WordType
    <3> QED BY <3>1 DEF SpanTypes
  <2>3. e \in i + 1..Len(text) + 1
    BY <1>2, RunIsLong
  <2>4. i \in 1..Len(text) + 1
    OBVIOUS
  <2>5. /\ \A k \in i..e - 1 : text[k] \in WordRunes \cup Connectors
        /\ e <= Len(text) => text[e] \notin WordRunes \cup Connectors
    BY <2>4, RunEndIs
  <2> HIDE DEF e, type
  <2>6. \A k \in i..e - 1 : text[k] \notin Spaces
    BY <2>5, RunesAssumption
  <2> QED BY <2>1, <2>2, <2>3, <2>5, <2>6
<1>3. CASE ~HasURLPrefix(text, i) /\ text[i] \notin WordRunes
  <2>1. StandardSpan(text, i) = Span(i, i + 1, "symbol")
    BY <1>3 DEF StandardSpan
  <2>2. i + 1 \in i + 1..Len(text) + 1 /\ \A k \in i..(i + 1) - 1 : k = i
    OBVIOUS
  <2>3. "symbol" \in SpanTypes
    BY DEF SpanTypes
  <2>4. \A k \in i..(i + 1) - 1 : text[k] \notin Spaces
    BY <2>2
  <2> QED BY <2>1, <2>2, <2>3, <2>4
<1> QED BY <1>1, <1>2, <1>3

(* The tokens of the standard tokenizer are those of spans that cover all   *)
(* but the blanks, each the one that begins at its place.                   *)
LEMMA StandardScans ==
    ASSUME NEW text \in Seq(Runes)
    PROVE  \E s : /\ StandardTokenize(text) = TokensOf(text, s)
                  /\ Scanned(s, 1, Len(text) + 1, Places(text, Spaces),
                             [i \in 1..Len(text) |-> <<StandardSpan(text, i)>>])
<1> DEFINE L == Len(text)
           skip == Places(text, Spaces)
           span == [i \in 1..L |-> <<StandardSpan(text, i)>>]
<1>1. L \in Nat /\ L + 1 \in Nat /\ 1 <= L + 1 /\ (L + 1) - 1 = L /\ 1 \in Nat
  OBVIOUS
<1>2. \A k \in 1..L : (k \in skip) <=> text[k] \in Spaces
  BY DEF Places
<1>3. ASSUME NEW i \in 1..L, i \notin skip
      PROVE  \E e \in i + 1..L + 1, type \in SpanTypes :
               span[i] = <<Span(i, e, type)>> /\ \A k \in i..e - 1 : k \notin skip
  <2>1. text[i] \notin Spaces
    BY <1>2, <1>3
  <2>2. PICK e \in i + 1..L + 1, type \in SpanTypes :
          StandardSpan(text, i) = Span(i, e, type) /\ \A k \in i..e - 1 : text[k] \notin Spaces
    BY <2>1, StandardSpanIs, Zenon
  <2>3. span[i] = <<Span(i, e, type)>>
    BY <2>2
  <2> HIDE DEF span, skip
  <2>4. \A k \in i..e - 1 : k \in 1..L
    BY <1>1
  <2>5. \A k \in i..e - 1 : k \notin skip
    BY <2>4, <2>2, <1>2
  <2> QED BY <2>3, <2>5
<1>4. Singly(1, L + 1, skip, span)
  <2> HIDE DEF L, skip, span
  <2> QED BY <1>1, <1>3 DEF Singly
<1>5. Scanned(Scan(1, L + 1, skip, span), 1, L + 1, skip, span)
  <2> HIDE DEF L, skip, span
  <2> QED BY <1>4, ScanOfSpans, Zenon
<1> QED BY <1>5, Zenon DEF StandardTokenize

(* The standard tokenizer covers all but the blanks, gives closing          *)
(* punctuation back, and cuts no word in two.                              *)
LEMMA StandardCovers ==
    ASSUME NEW text \in Seq(Runes)
    PROVE  /\ CoverExactly(text, StandardTokenize(text), Runes \ Spaces)
           /\ \A n \in 1..Len(StandardTokenize(text)) :
                LET t == StandardTokenize(text)[n]
                IN  /\ t.type = "url" => t.term[Len(t.term)] \notin Closing
                    /\ t.type = "symbol" => Len(t.term) = 1
                    /\ (n > 1 /\ StandardTokenize(text)[n - 1].end = t.start
                              /\ StandardTokenize(text)[n - 1].type \in {"word", "number", "email"})
                         => t.term[1] \notin WordRunes \cup Connectors
<1> DEFINE L == Len(text)
           skip == Places(text, Spaces)
           span == [i \in 1..L |-> <<StandardSpan(text, i)>>]
<1>1. L \in Nat /\ L + 1 \in Nat /\ 1 <= L + 1 /\ (L + 1) - 1 = L /\ 1 \in Nat
  OBVIOUS
<1>2. \A k \in 1..L : (k \in skip) <=> text[k] \notin Runes \ Spaces
  BY DEF Places
<1>0. \A k \in 1..L : (k \in skip) <=> text[k] \in Spaces
  BY DEF Places
<1>3. PICK s : StandardTokenize(text) = TokensOf(text, s) /\ Scanned(s, 1, L + 1, skip, span)
  BY StandardScans, Zenon
<1> DEFINE toks == TokensOf(text, s)
<1>5. StandardTokenize(text) = toks
  BY <1>3
<1> HIDE DEF toks
<1>6. /\ Tiles(s, 1, L + 1, skip)
      /\ \A n \in 1..Len(s) : s[n].first \in 1..L /\ s[n].first \notin skip /\ <<s[n]>> = span[s[n].first]
  <2> HIDE DEF L, skip, span
  <2> QED BY <1>1, <1>3 DEF Scanned
<1>7. CoverExactly(text, toks, Runes \ Spaces)
  <2> HIDE DEF skip
  <2> QED BY <1>6, <1>2, TokensCover DEF toks
<1>8. ASSUME NEW n \in 1..Len(s)
      PROVE  /\ s[n].type = "url" => text[s[n].end - 1] \notin Closing
             /\ s[n].type = "symbol" => s[n].end = s[n].first + 1
             /\ s[n].type \in {"word", "number", "email"} =>
                  (s[n].end <= L => text[s[n].end] \notin WordRunes \cup Connectors)
  <2> DEFINE i == s[n].first
  <2>1. i \in 1..L /\ text[i] \notin Spaces /\ <<s[n]>> = span[i]
    BY <1>0, <1>6
  <2>2. s[n] = StandardSpan(text, i)
    BY <2>1
  <2> HIDE DEF i
  <2>3. PICK e \in i + 1..L + 1, type \in SpanTypes :
             /\ s[n] = Span(i, e, type)
             /\ type = "url" => text[e - 1] \notin Closing
             /\ type = "symbol" => e = i + 1
             /\ type \in {"word", "number", "email"} =>
                  (e <= L => text[e] \notin WordRunes \cup Connectors)
    BY <2>1, <2>2, StandardSpanIs, Zenon
  <2>4. s[n].first = i /\ s[n].end = e /\ s[n].type = type
    BY <2>3 DEF Span
  <2> QED BY <2>3, <2>4
<1>9. ASSUME NEW n \in 1..Len(toks)
      PROVE  /\ toks[n].type = "url" => toks[n].term[Len(toks[n].term)] \notin Closing
             /\ toks[n].type = "symbol" => Len(toks[n].term) = 1
             /\ (n > 1 /\ toks[n - 1].end = toks[n].start
                       /\ toks[n - 1].type \in {"word", "number", "email"})
                  => toks[n].term[1] \notin WordRunes \cup Connectors
  <2> HIDE DEF skip
  <2> DEFINE i == s[n].first
             e == s[n].end
             term == toks[n].term
  <2>1. /\ Len(toks) = Len(s) /\ Len(s) \in Nat
        /\ \A m \in 1..Len(s) :
             /\ s[m].first \in 1..L + 1 /\ s[m].end \in 1..L + 1
             /\ s[m].first < s[m].end
             /\ s[m].first \in 1..L /\ s[m].end - 1 \in s[m].first..L
             /\ toks[m].term = SubSeq(text, s[m].first, s[m].end - 1)
             /\ toks[m].start = Offset(text, s[m].first)
             /\ toks[m].end = Offset(text, s[m].end)
             /\ toks[m].type = s[m].type
    BY <1>6, TokensHold DEF toks
  <2>2. n \in 1..Len(s)
    BY <2>1
  <2>3. i \in 1..L /\ e - 1 \in i..L /\ term = SubSeq(text, i, e - 1) /\ toks[n].type = s[n].type
    BY <2>1, <2>2
  <2>4. Len(term) = (e - 1) - i + 1 /\ term[1] = text[i] /\ term[Len(term)] = text[e - 1]
    <3> DEFINE j == e - 1
    <3>1. i \in 1..L /\ j \in i..L /\ term = SubSeq(text, i, j)
      BY <2>3
    <3> HIDE DEF i, j, term
    <3>2. /\ Len(SubSeq(text, i, j)) = j - i + 1 /\ SubSeq(text, i, j)[1] = text[i]
          /\ SubSeq(text, i, j)[Len(SubSeq(text, i, j))] = text[j]
      BY <3>1, PartOf
    <3>3. Len(term) = j - i + 1 /\ term[1] = text[i] /\ term[Len(term)] = text[j]
      BY <3>1, <3>2
    <3> QED BY <3>3 DEF j
  <2>5. e = i + 1 => Len(term) = 1
    <3> HIDE DEF i, e, term, L
    <3> QED BY <2>3, <2>4, <1>1
  <2>6. ASSUME n > 1, toks[n - 1].end = toks[n].start, toks[n - 1].type \in {"word", "number", "email"}
        PROVE  term[1] \notin WordRunes \cup Connectors
    <3>1. n - 1 \in 1..Len(s)
      BY <2>1, <2>2, <2>6
    <3>2. s[n - 1].end = i
      <4>1. Offset(text, s[n - 1].end) = Offset(text, i)
        BY <2>1, <2>2, <2>6, <3>1
      <4>2. s[n - 1].end \in 1..L + 1 /\ i \in 1..L + 1
        BY <2>1, <2>2, <3>1
      <4> QED BY <4>1, <4>2, OffsetsFollowPlaces
    <3>3. s[n - 1].type \in {"word", "number", "email"}
      BY <2>1, <2>6, <3>1
    <3>4. i <= L
      BY <2>3, <1>1
    <3> HIDE DEF i, e, L
    <3>5. text[i] \notin WordRunes \cup Connectors
      BY <3>1, <3>2, <3>3, <3>4, <1>8
    <3> QED BY <3>5, <2>4
  <2> QED BY <2>2, <2>3, <2>4, <2>5, <2>6, <1>8
<1> QED BY <1>5, <1>7, <1>9

(* No tokenizer loses or repeats a rune of a text, none joins two words or  *)
(* cuts one, and a URL gives its closing punctuation back.                 *)
THEOREM TokensAreExact ==
    ASSUME NEW text \in Seq(Runes)
    PROVE  TokensCoverText(text)
<1>1. /\ CoverExactly(text, WhitespaceTokenize(text), Runes \ Spaces)
      /\ Apart(WhitespaceTokenize(text))
  BY RunsCover DEF WhitespaceTokenize
<1>2. /\ CoverExactly(text, SimpleTokenize(text), WordRunes)
      /\ Apart(SimpleTokenize(text))
  BY RunsCover DEF SimpleTokenize
<1> QED BY <1>1, <1>2, StandardCovers DEF TokensCoverText, Apart

Word(text, i, e) == SubSeq(text, i, e - 1) \in Dictionary

(* The longest word that begins at a place, or its rune.                    *)
LEMMA LongestIs ==
    ASSUME NEW text \in Seq(Runes), NEW i \in 1..Len(text)
    PROVE  /\ Longest(text, i) \in i + 1..Len(text) + 1
           /\ Word(text, i, Longest(text, i)) \/ Longest(text, i) = i + 1
           /\ \A e \in Longest(text, i) + 1..Len(text) + 1 : ~Word(text, i, e)
<1> DEFINE L == Len(text)
           ends == {e \in i + 1..L + 1 : SubSeq(text, i, e - 1) \in Dictionary}
           g == Longest(text, i)
<1>1. L \in Nat /\ i \in Nat /\ i + 1 \in i + 1..L + 1
  OBVIOUS
<1>2. g = IF ends = {} THEN i + 1 ELSE CHOOSE e \in ends : \A f \in ends : f <= e
  BY DEF Longest
<1> HIDE DEF g, L
<1>3. CASE ends = {}
  <2>1. g = i + 1
    BY <1>2, <1>3
  <2>2. \A e \in g + 1..L + 1 : e \in i + 1..L + 1
    BY <2>1, <1>1
  <2>3. \A e \in g + 1..L + 1 : ~Word(text, i, e)
    BY <2>2, <1>3 DEF Word
  <2> QED BY <2>1, <2>3, <1>1 DEF g, L
<1>4. CASE ends # {}
  <2>1. ends \in SUBSET (0..L + 1) /\ L + 1 \in Nat
    BY <1>1
  <2>2. \E m \in ends : \A k \in ends : k <= m
    <3> HIDE DEF ends
    <3> QED BY <2>1, <1>4, Greatest
  <2>3. g \in ends /\ \A k \in ends : k <= g
    <3> HIDE DEF ends
    <3> QED BY <2>2, <1>2, <1>4
  <2>4. g \in i + 1..L + 1 /\ Word(text, i, g)
    BY <2>3 DEF Word
  <2>5. ASSUME NEW e \in g + 1..L + 1
        PROVE  ~Word(text, i, e)
    <3>1. e \in i + 1..L + 1 /\ ~(e <= g)
      BY <2>4, <1>1
    <3> QED BY <3>1, <2>3 DEF Word
  <2> QED BY <2>4, <2>5 DEF g, L
<1> QED BY <1>3, <1>4

(* The longest word that ends before a place, or its rune.                  *)
LEMMA LongestEndingIs ==
    ASSUME NEW text \in Seq(Runes), NEW e \in 2..Len(text) + 1
    PROVE  /\ LongestEndingAt(text, e) \in 1..e - 1
           /\ Word(text, LongestEndingAt(text, e), e) \/ LongestEndingAt(text, e) = e - 1
           /\ \A i \in 1..LongestEndingAt(text, e) - 1 : ~Word(text, i, e)
<1> DEFINE starts == {s \in 1..e - 1 : SubSeq(text, s, e - 1) \in Dictionary}
           g == LongestEndingAt(text, e)
<1>1. e \in Nat /\ e - 1 \in 1..e - 1
  OBVIOUS
<1>2. g = IF starts = {} THEN e - 1 ELSE CHOOSE s \in starts : \A r \in starts : s <= r
  BY DEF LongestEndingAt
<1> HIDE DEF g
<1>3. CASE starts = {}
  <2>1. g = e - 1
    BY <1>2, <1>3
  <2>2. \A i \in 1..g - 1 : i \in 1..e - 1
    BY <2>1, <1>1
  <2>3. \A i \in 1..g - 1 : ~Word(text, i, e)
    BY <2>2, <1>3 DEF Word
  <2> QED BY <2>1, <2>3, <1>1 DEF g
<1>4. CASE starts # {}
  <2>1. starts \in SUBSET Nat
    BY <1>1
  <2>2. \E m \in starts : \A k \in starts : m <= k
    <3> HIDE DEF starts
    <3> QED BY <2>1, <1>4, Smallest
  <2>3. g \in starts /\ \A k \in starts : g <= k
    <3> HIDE DEF starts
    <3> QED BY <2>2, <1>2, <1>4
  <2>4. g \in 1..e - 1 /\ Word(text, g, e)
    BY <2>3 DEF Word
  <2>5. ASSUME NEW i \in 1..g - 1
        PROVE  ~Word(text, i, e)
    <3>1. i \in 1..e - 1 /\ ~(g <= i)
      BY <2>4, <1>1
    <3> QED BY <3>1, <2>3 DEF Word
  <2> QED BY <2>4, <2>5 DEF g
<1> QED BY <1>3, <1>4

(* The run of letters and digits that ends before a place.                  *)
LEMMA RunStartIs ==
    ASSUME NEW text \in Seq(Runes), NEW e \in 2..Len(text) + 1, text[e - 1] \in LatinRunes
    PROVE  /\ RunStart(text, e) \in 1..e - 1
           /\ \A k \in RunStart(text, e)..e - 1 : text[k] \in LatinRunes
<1> DEFINE All(s) == \A k \in s..e - 1 : text[k] \in LatinRunes
           T == {s \in 1..e - 1 : All(s)}
           Starts(s) == All(s) /\ (s > 1 => text[s - 1] \notin LatinRunes)
<1>1. e \in Nat /\ e - 1 \in 1..e - 1 /\ \A k \in e - 1..e - 1 : k = e - 1
  OBVIOUS
<1>2. T \in SUBSET Nat /\ e - 1 \in T
  BY <1>1
<1>3. PICK m \in T : \A k \in T : m <= k
  <2> HIDE DEF T
  <2> QED BY <1>2, Smallest
<1>4. m \in 1..e - 1 /\ Starts(m)
  <2>1. m \in 1..e - 1 /\ All(m) /\ m \in Nat
    BY <1>1
  <2>2. ASSUME m > 1, text[m - 1] \in LatinRunes
        PROVE  FALSE
    <3>1. m - 1 \in 1..e - 1 /\ ~(m <= m - 1)
      BY <2>1, <2>2, <1>1
    <3>2. All(m - 1)
      <4> SUFFICES ASSUME NEW k \in m - 1..e - 1 PROVE text[k] \in LatinRunes
        OBVIOUS
      <4>1. CASE k = m - 1
        BY <4>1, <2>2
      <4>2. CASE k # m - 1
        <5>1. k \in m..e - 1
          BY <4>2, <2>1, <1>1
        <5> QED BY <5>1, <2>1
      <4> QED BY <4>1, <4>2
    <3> QED BY <3>1, <3>2, <1>3
  <2> QED BY <2>1, <2>2
<1> DEFINE u == RunStart(text, e)
<1>5. u = CHOOSE s \in 1..e - 1 : Starts(s)
  BY DEF RunStart
<1>6. u \in 1..e - 1 /\ Starts(u)
  <2> HIDE DEF Starts, u
  <2> QED BY <1>4, <1>5, Zenon
<1> QED BY <1>6

(* Dictionary words hold no rune that is skipped, nor do single characters. *)
LEMMA WordsAreNotSkipped ==
    ASSUME NEW text \in Seq(Runes), NEW i \in 1..Len(text), NEW e \in i + 1..Len(text) + 1,
           Word(text, i, e) \/ (e = i + 1 /\ text[i] \in WordRunes)
    PROVE  \A k \in i..e - 1 : text[k] \notin Skipped
<1> DEFINE j == e - 1
<1>1. j \in i..Len(text) /\ i \in Int /\ e \in Int
  OBVIOUS
<1>2. \A k \in 1..j - i + 1 : SubSeq(text, i, j)[k] = text[i + k - 1]
  BY <1>1, PartOf
<1>3. Len(SubSeq(text, i, j)) = j - i + 1
  BY <1>1, PartOf
<1>4. ASSUME NEW k \in i..e - 1
      PROVE  text[k] \in WordRunes
  <2>1. CASE Word(text, i, e)
    <3>1. SubSeq(text, i, j) \in Seq(WordRunes)
      BY <2>1, SegmentationAssumption DEF Word
    <3>2. k - i + 1 \in 1..j - i + 1 /\ i + (k - i + 1) - 1 = k
      BY <1>1
    <3> HIDE DEF j
    <3>3. SubSeq(text, i, j)[k - i + 1] \in WordRunes
      BY <3>1, <3>2, <1>3
    <3>4. SubSeq(text, i, j)[k - i + 1] = text[k]
      BY <3>2, <1>2
    <3> QED BY <3>3, <3>4
  <2>2. CASE e = i + 1 /\ text[i] \in WordRunes
    <3>1. k = i
      BY <2>2, <1>1
    <3> QED BY <3>1, <2>2
  <2> QED BY <2>1, <2>2
<1> QED BY <1>4, RunesAssumption DEF Skipped

\* What a segmenter takes from i to before e.
CutPiece(text, i, e, type) ==
  /\ \A k \in i..e - 1 : text[k] \notin Skipped
  /\ type = "word" => \A k \in i..e - 1 : text[k] \notin Han

(* The characters that are not skipped.                                     *)
LEMMA LatinIsNotSkipped ==
    ASSUME NEW r \in LatinRunes
    PROVE  r \notin Skipped /\ r \notin Han
BY RunesAssumption DEF LatinRunes, Skipped

(* A Chinese rune is a rune of words, which none skips.                    *)
LEMMA HanIsNotSkipped ==
    ASSUME NEW r \in Han
    PROVE  r \notin Skipped /\ r \in WordRunes
BY RunesAssumption DEF WordRunes, Skipped

(* What forward matching takes.                                             *)
LEMMA ForwardSpanIs ==
    ASSUME NEW text \in Seq(Runes), NEW i \in 1..Len(text), text[i] \notin Skipped
    PROVE  \E e \in i + 1..Len(text) + 1, type \in SpanTypes :
             /\ ForwardSpan(text, i) = Span(i, e, type)
             /\ CutPiece(text, i, e, type)
             /\ type = "han" =>
                  /\ Word(text, i, e) \/ e = i + 1
                  /\ \A f \in e + 1..Len(text) + 1 : ~Word(text, i, f)
<1>0. {"word", "symbol", "han"} \subseteq SpanTypes
  BY DEF SpanTypes
<1>1. CASE text[i] \in Han
  <2> DEFINE e == Longest(text, i)
  <2>1. /\ e \in i + 1..Len(text) + 1
        /\ Word(text, i, e) \/ e = i + 1
        /\ \A f \in e + 1..Len(text) + 1 : ~Word(text, i, f)
    BY LongestIs
  <2>2. ForwardSpan(text, i) = Span(i, e, "han")
    BY <1>1 DEF ForwardSpan
  <2> HIDE DEF e
  <2>3. \A k \in i..e - 1 : text[k] \notin Skipped
    BY <2>1, <1>1, HanIsNotSkipped, WordsAreNotSkipped
  <2>4. CutPiece(text, i, e, "han")
    BY <2>3 DEF CutPiece
  <2> QED BY <2>1, <2>2, <2>4, <1>0
<1>2. CASE text[i] \notin Han /\ text[i] \in LatinRunes
  <2> DEFINE e == RunEnd(text, i, LatinRunes)
  <2>1. e \in i + 1..Len(text) + 1
    BY <1>2, RunIsLong
  <2>2. i \in 1..Len(text) + 1
    OBVIOUS
  <2>3. \A k \in i..e - 1 : text[k] \in LatinRunes
    BY <2>2, RunEndIs
  <2>4. ForwardSpan(text, i) = Span(i, e, "word")
    BY <1>2 DEF ForwardSpan
  <2> HIDE DEF e
  <2>5. CutPiece(text, i, e, "word")
    BY <2>3, LatinIsNotSkipped DEF CutPiece
  <2> QED BY <2>1, <2>4, <2>5, <1>0
<1>3. CASE text[i] \notin Han /\ text[i] \notin LatinRunes
  <2>1. ForwardSpan(text, i) = Span(i, i + 1, "symbol")
    BY <1>3 DEF ForwardSpan
  <2>2. i + 1 \in i + 1..Len(text) + 1 /\ \A k \in i..(i + 1) - 1 : k = i
    OBVIOUS
  <2>3. CutPiece(text, i, i + 1, "symbol")
    BY <2>2 DEF CutPiece
  <2> QED BY <2>1, <2>2, <2>3, <1>0
<1> QED BY <1>1, <1>2, <1>3

(* What backward matching takes.                                            *)
LEMMA BackwardSpanIs ==
    ASSUME NEW text \in Seq(Runes), NEW e \in 2..Len(text) + 1, text[e - 1] \notin Skipped
    PROVE  \E i \in 1..e - 1, type \in SpanTypes :
             /\ BackwardSpan(text, e) = Span(i, e, type)
             /\ CutPiece(text, i, e, type)
             /\ type = "han" =>
                  /\ Word(text, i, e) \/ e = i + 1
                  /\ \A f \in 1..i - 1 : ~Word(text, f, e)
<1>0. {"word", "symbol", "han"} \subseteq SpanTypes
  BY DEF SpanTypes
<1>4. ASSUME NEW i \in 1..e - 1
      PROVE  i \in 1..Len(text) /\ e \in i + 1..Len(text) + 1 /\ (i = e - 1 => e = i + 1)
  OBVIOUS
<1>1. CASE text[e - 1] \in Han
  <2> DEFINE i == LongestEndingAt(text, e)
  <2>1. /\ i \in 1..e - 1
        /\ Word(text, i, e) \/ i = e - 1
        /\ \A f \in 1..i - 1 : ~Word(text, f, e)
    BY LongestEndingIs
  <2>2. BackwardSpan(text, e) = Span(i, e, "han")
    BY <1>1 DEF BackwardSpan
  <2> HIDE DEF i
  <2>3. \A k \in i..e - 1 : text[k] \notin Skipped
    <3>1. i = e - 1 => text[i] \in WordRunes
      BY <1>1, HanIsNotSkipped
    <3>2. i \in 1..Len(text) /\ e \in i + 1..Len(text) + 1 /\ (i = e - 1 => e = i + 1)
      BY <2>1, <1>4
    <3> QED BY <2>1, <3>1, <3>2, WordsAreNotSkipped
  <2>4. CutPiece(text, i, e, "han")
    BY <2>3 DEF CutPiece
  <2> QED BY <2>1, <2>2, <2>4, <1>0, <1>4
<1>2. CASE text[e - 1] \notin Han /\ text[e - 1] \in LatinRunes
  <2> DEFINE i == RunStart(text, e)
  <2>1. i \in 1..e - 1 /\ \A k \in i..e - 1 : text[k] \in LatinRunes
    BY <1>2, RunStartIs
  <2>2. BackwardSpan(text, e) = Span(i, e, "word")
    BY <1>2 DEF BackwardSpan
  <2> HIDE DEF i
  <2>3. CutPiece(text, i, e, "word")
    BY <2>1, LatinIsNotSkipped DEF CutPiece
  <2> QED BY <2>1, <2>2, <2>3, <1>0
<1>3. CASE text[e - 1] \notin Han /\ text[e - 1] \notin LatinRunes
  <2>1. BackwardSpan(text, e) = Span(e - 1, e, "symbol")
    BY <1>3 DEF BackwardSpan
  <2>2. e - 1 \in 1..e - 1 /\ \A k \in e - 1..e - 1 : k = e - 1
    OBVIOUS
  <2>3. CutPiece(text, e - 1, e, "symbol")
    BY <2>2 DEF CutPiece
  <2> QED BY <2>1, <2>2, <2>3, <1>0
<1> QED BY <1>1, <1>2, <1>3

\* The spans cover all but blanks and punctuation, and no word holds Chinese.
Cuts(text, s) ==
  /\ Tiles(s, 1, Len(text) + 1, Places(text, Skipped))
  /\ \A n \in 1..Len(s) : s[n].type = "word" => \A k \in s[n].first..s[n].end - 1 : text[k] \notin Han

Covers(text, tokens) ==
  /\ CoverExactly(text, tokens, Runes \ Skipped)
  /\ \A n \in 1..Len(tokens) : tokens[n].type = "word" =>
       \A k \in 1..Len(tokens[n].term) : tokens[n].term[k] \notin Han

(* The tokens of such spans cover the text likewise.                        *)
LEMMA CutsCover ==
    ASSUME NEW text \in Seq(Runes), NEW s, Cuts(text, s)
    PROVE  Covers(text, TokensOf(text, s))
<1> DEFINE L == Len(text)
           skip == Places(text, Skipped)
           toks == TokensOf(text, s)
<1>1. \A k \in 1..L : (k \in skip) <=> text[k] \notin Runes \ Skipped
  BY DEF Places
<1>2. Tiles(s, 1, L + 1, skip)
  BY DEF Cuts
<1>3. CoverExactly(text, toks, Runes \ Skipped)
  <2> HIDE DEF skip
  <2> QED BY <1>1, <1>2, TokensCover
<1>4. ASSUME NEW n \in 1..Len(toks), toks[n].type = "word"
      PROVE  \A k \in 1..Len(toks[n].term) : toks[n].term[k] \notin Han
  <2> HIDE DEF skip
  <2> DEFINE i == s[n].first
             j == s[n].end - 1
             term == toks[n].term
  <2>1. n \in 1..Len(s)
    BY <1>2, TokensHold
  <2>2. i \in 1..L /\ j \in i..L /\ term = SubSeq(text, i, j) /\ toks[n].type = s[n].type
    BY <1>2, <2>1, TokensHold
  <2>3. \A k \in i..j : text[k] \notin Han
    BY <2>1, <2>2, <1>4 DEF Cuts
  <2> HIDE DEF i, j, term
  <2>4. Len(term) = j - i + 1 /\ \A k \in 1..j - i + 1 : term[k] = text[i + k - 1]
    BY <2>2, PartOf
  <2>5. ASSUME NEW k \in 1..j - i + 1
        PROVE  term[k] \notin Han
    <3>1. i + k - 1 \in i..j
      BY <2>2
    <3> QED BY <3>1, <2>3, <2>4
  <2> QED BY <2>4, <2>5 DEF term
<1> QED BY <1>3, <1>4 DEF Covers

(* What forward matching promises of each span.                             *)
LEMMA ForwardCuts ==
    ASSUME NEW text \in Seq(Runes)
    PROVE  /\ Cuts(text, ForwardMatching(text))
           /\ \A n \in 1..Len(ForwardMatching(text)) :
                LET s == ForwardMatching(text)[n]
                IN  s.type = "han" =>
                      /\ Word(text, s.first, s.end) \/ s.end = s.first + 1
                      /\ \A f \in s.end + 1..Len(text) + 1 : ~Word(text, s.first, f)
<1> DEFINE L == Len(text)
           skip == Places(text, Skipped)
           span == [i \in 1..L |-> <<ForwardSpan(text, i)>>]
           s == ForwardMatching(text)
           Says(i, e, type) == /\ ForwardSpan(text, i) = Span(i, e, type)
                               /\ CutPiece(text, i, e, type)
                               /\ type = "han" =>
                                    /\ Word(text, i, e) \/ e = i + 1
                                    /\ \A f \in e + 1..L + 1 : ~Word(text, i, f)
<1>1. L \in Nat /\ L + 1 \in Nat /\ 1 <= L + 1 /\ (L + 1) - 1 = L /\ 1 \in Nat
  OBVIOUS
<1>2. \A k \in 1..L : (k \in skip) <=> text[k] \in Skipped
  BY DEF Places
<1>3. ASSUME NEW i \in 1..L, i \notin skip
      PROVE  \E e \in i + 1..L + 1, type \in SpanTypes : Says(i, e, type)
  <2>1. text[i] \notin Skipped
    BY <1>2, <1>3
  <2> QED BY <2>1, ForwardSpanIs, Zenon
<1>4. ASSUME NEW i \in 1..L, i \notin skip
      PROVE  \E e \in i + 1..L + 1, type \in SpanTypes :
               span[i] = <<Span(i, e, type)>> /\ \A k \in i..e - 1 : k \notin skip
  <2>1. PICK e \in i + 1..L + 1, type \in SpanTypes : Says(i, e, type)
    BY <1>3, <1>4
  <2>2. span[i] = <<Span(i, e, type)>>
    BY <2>1
  <2>3. \A k \in i..e - 1 : text[k] \notin Skipped
    BY <2>1 DEF CutPiece
  <2> HIDE DEF span, skip
  <2>4. \A k \in i..e - 1 : k \in 1..L
    BY <1>1
  <2> QED BY <2>2, <2>3, <2>4, <1>2
<1>5. Singly(1, L + 1, skip, span)
  <2> HIDE DEF L, skip, span
  <2> QED BY <1>1, <1>4 DEF Singly
<1>6. s = Scan(1, L + 1, skip, span)
  BY DEF ForwardMatching
<1> HIDE DEF s
<1>7. /\ Tiles(s, 1, L + 1, skip)
      /\ \A n \in 1..Len(s) : s[n].first \in 1..L /\ s[n].first \notin skip /\ <<s[n]>> = span[s[n].first]
  <2> HIDE DEF L, skip, span
  <2>1. Scanned(s, 1, L + 1, skip, span)
    BY <1>5, <1>6, ScanOfSpans, Zenon
  <2> QED BY <1>1, <2>1 DEF Scanned
<1>8. ASSUME NEW n \in 1..Len(s)
      PROVE  Says(s[n].first, s[n].end, s[n].type)
  <2> DEFINE i == s[n].first
  <2>1. i \in 1..L /\ i \notin skip /\ <<s[n]>> = span[i]
    BY <1>7
  <2>2. s[n] = ForwardSpan(text, i)
    BY <2>1
  <2> HIDE DEF i, Says, skip
  <2>3. PICK e \in i + 1..L + 1, type \in SpanTypes : Says(i, e, type)
    BY <1>3, <2>1
  <2>4. s[n] = Span(i, e, type)
    BY <2>2, <2>3 DEF Says
  <2>5. s[n].first = i /\ s[n].end = e /\ s[n].type = type
    BY <2>4 DEF Span
  <2> QED BY <2>3, <2>5
<1>9. Cuts(text, s)
  BY <1>7, <1>8 DEF Cuts, CutPiece
<1> QED BY <1>8, <1>9 DEF s

BackwardAt(text, upTo, e) ==
  IF e = 1 THEN <<>>
  ELSE IF text[e - 1] \in Skipped THEN upTo[e - 1]
  ELSE upTo[BackwardSpan(text, e).first] \o <<BackwardSpan(text, e)>>

GoesBackward(upTo, text) == upTo = [e \in 1..Len(text) + 1 |-> BackwardAt(text, upTo, e)]

\* What backward matching promises of a span.
BackwardSays(text, i, e, type) ==
  /\ BackwardSpan(text, e) = Span(i, e, type)
  /\ CutPiece(text, i, e, type)
  /\ type = "han" =>
       /\ Word(text, i, e) \/ e = i + 1
       /\ \A f \in 1..i - 1 : ~Word(text, f, e)

(* A step of backward matching.                                             *)
LEMMA BackwardStep ==
    ASSUME NEW text \in Seq(Runes), NEW e \in 1..Len(text) + 1, e # 1
    PROVE  /\ e \in 2..Len(text) + 1 /\ e - 1 \in 1..Len(text) + 1 /\ e - 1 < e /\ e - 1 \in 1..Len(text)
           /\ text[e - 1] \notin Skipped =>
                \E i \in 1..e - 1, type \in SpanTypes :
                  /\ BackwardSays(text, i, e, type)
                  /\ BackwardSpan(text, e) = Span(i, e, type)
                  /\ i \in 1..Len(text) + 1 /\ i < e
<1>1. e \in 2..Len(text) + 1 /\ e - 1 \in 1..Len(text) + 1 /\ e - 1 < e /\ e - 1 \in 1..Len(text)
  OBVIOUS
<1>2. ASSUME text[e - 1] \notin Skipped
      PROVE  \E i \in 1..e - 1, type \in SpanTypes : BackwardSays(text, i, e, type)
  BY <1>1, <1>2, BackwardSpanIs DEF BackwardSays
<1>3. \A i \in 1..e - 1 : i \in 1..Len(text) + 1 /\ i < e
  OBVIOUS
<1>4. \A i, type : BackwardSays(text, i, e, type) => BackwardSpan(text, e) = Span(i, e, type)
  BY DEF BackwardSays
<1> QED BY <1>1, <1>2, <1>3, <1>4

(* Backward matching is a function of the place where it ends.              *)
LEMMA BackwardIsRecursive ==
    ASSUME NEW text \in Seq(Runes)
    PROVE  \E upTo : GoesBackward(upTo, text) /\ BackwardMatching(text) = upTo[Len(text) + 1]
<1> DEFINE L == Len(text)
           D == 1..L + 1
           V == Seq(Spans)
           m == [e \in D |-> e]
           G == [e \in D |-> [f \in [D -> V] |-> BackwardAt(text, f, e)]]
<1>1. L \in Nat
  OBVIOUS
<1>2. ASSUME NEW e \in D, e # 1
      PROVE  /\ e - 1 \in D /\ m[e - 1] < m[e]
             /\ text[e - 1] \notin Skipped =>
                  /\ BackwardSpan(text, e).first \in D /\ m[BackwardSpan(text, e).first] < m[e]
                  /\ <<BackwardSpan(text, e)>> \in V
  <2>1. e - 1 \in D /\ m[e - 1] < m[e]
    BY <1>2
  <2>2. ASSUME text[e - 1] \notin Skipped
        PROVE  /\ BackwardSpan(text, e).first \in D /\ m[BackwardSpan(text, e).first] < m[e]
               /\ <<BackwardSpan(text, e)>> \in V
    <3>1. PICK i \in 1..e - 1, type \in SpanTypes :
            BackwardSpan(text, e) = Span(i, e, type) /\ i \in 1..L + 1 /\ i < e
      BY <1>2, <2>2, BackwardStep
    <3>2. BackwardSpan(text, e).first = i
      BY <3>1 DEF Span
    <3>3. i \in Nat /\ e \in Nat
      OBVIOUS
    <3>4. <<Span(i, e, type)>> \in V
      BY <3>1, <3>3, OneSpan
    <3> QED BY <3>1, <3>2, <3>4
  <2> QED BY <2>1, <2>2
<1>3. Descends(G, D, V, m, L + 2)
  <2>1. V # {} /\ L + 2 \in Nat /\ m \in [D -> Nat] /\ \A d \in D : m[d] < L + 2
    <3>1. <<>> \in V
      OBVIOUS
    <3>2. m \in [D -> Nat] /\ \A d \in D : m[d] < L + 2
      BY <1>1
    <3> HIDE DEF D, m, V
    <3> QED BY <1>1, <3>1, <3>2
  <2>2. ASSUME NEW e \in D, NEW f \in [D -> V]
        PROVE  BackwardAt(text, f, e) \in V
    <3> HIDE DEF D, m
    <3>1. CASE e = 1
      BY <3>1 DEF BackwardAt
    <3>2. CASE e # 1 /\ text[e - 1] \in Skipped
      <4> HIDE DEF V
      <4> QED BY <3>2, <1>2 DEF BackwardAt
    <3>3. CASE e # 1 /\ text[e - 1] \notin Skipped
      <4>1. f[BackwardSpan(text, e).first] \in V /\ <<BackwardSpan(text, e)>> \in V
        <5> HIDE DEF V
        <5> QED BY <3>3, <1>2
      <4>2. f[BackwardSpan(text, e).first] \o <<BackwardSpan(text, e)>> \in V
        BY <4>1, Joined
      <4> HIDE DEF V
      <4> QED BY <3>3, <4>2 DEF BackwardAt
    <3> QED BY <3>1, <3>2, <3>3
  <2>3. G \in [D -> [[D -> V] -> V]]
    <3> HIDE DEF D, V, m
    <3> QED BY <2>2
  <2>4. ASSUME NEW d \in D, NEW f \in [D -> V], NEW g \in [D -> V],
               \A e \in D : m[e] < m[d] => f[e] = g[e]
        PROVE  G[d][f] = G[d][g]
    <3> HIDE DEF D, V, m
    <3>1. BackwardAt(text, f, d) = BackwardAt(text, g, d)
      BY <1>2, <2>4 DEF BackwardAt
    <3> QED BY <3>1
  <2> HIDE DEF D, V, m, G
  <2> QED BY <2>1, <2>3, <2>4 DEF Descends
<1>4. PICK f \in [D -> V] : \A d \in D : f[d] = G[d][f]
  <2> HIDE DEF D, V, m, G
  <2> QED BY <1>3, Recursion
<1>5. GoesBackward(f, text)
  <2> HIDE DEF V, m
  <2>1. f = [d \in D |-> f[d]]
    OBVIOUS
  <2>2. \A d \in D : f[d] = BackwardAt(text, f, d)
    BY <1>4
  <2> QED BY <2>1, <2>2 DEF GoesBackward
<1>6. BackwardMatching(text) = (CHOOSE upTo : GoesBackward(upTo, text))[L + 1]
  BY DEF BackwardMatching, GoesBackward, BackwardAt
<1> QED BY <1>5, <1>6

SaysBackward(text, s) == \A n \in 1..Len(s) : BackwardSays(text, s[n].first, s[n].end, s[n].type)

GoodBackward(text, s, e) == Tiles(s, 1, e, Places(text, Skipped)) /\ SaysBackward(text, s)

(* A span that is joined at the end.                                        *)
LEMMA BackwardJoin ==
    ASSUME NEW text \in Seq(Runes), NEW s, NEW i \in Nat, NEW e \in Nat, NEW type \in SpanTypes,
           1 <= i, i < e, GoodBackward(text, s, i), BackwardSays(text, i, e, type)
    PROVE  GoodBackward(text, s \o <<Span(i, e, type)>>, e)
<1> DEFINE skip == Places(text, Skipped)
           b == <<Span(i, e, type)>>
           c == s \o b
<1>1. b \in Seq(Spans) /\ Tiles(b, i, e, {}) /\ Len(b) = 1 /\ b[1] = Span(i, e, type)
  BY OneSpan
<1>2. \A k \in i..e - 1 : k \notin skip
  BY DEF BackwardSays, CutPiece, Places
<1> HIDE DEF skip, b
<1>3. Tiles(b, i, e, skip)
  BY <1>1, <1>2, TilesAll
<1>4. Tiles(s, 1, i, skip) /\ SaysBackward(text, s)
  BY DEF GoodBackward, skip
<1>5. Tiles(c, 1, e, skip)
  BY <1>3, <1>4, TilesJoin
<1>6. s \in Seq(Spans) /\ Len(s) \in Nat
  BY <1>4 DEF Tiles
<1>7. Len(c) = Len(s) + 1 /\ \A k \in 1..Len(s) + 1 : c[k] = IF k <= Len(s) THEN s[k] ELSE b[k - Len(s)]
  <2>1. /\ Len(c) = Len(s) + Len(b)
        /\ \A k \in 1..Len(s) + Len(b) : c[k] = IF k <= Len(s) THEN s[k] ELSE b[k - Len(s)]
    BY <1>1, <1>6, Joined
  <2> HIDE DEF c
  <2> QED BY <2>1, <1>1
<1> HIDE DEF c
<1>8. ASSUME NEW k \in 1..Len(c)
      PROVE  BackwardSays(text, c[k].first, c[k].end, c[k].type)
  <2>1. CASE k <= Len(s)
    <3>1. k \in 1..Len(s) /\ c[k] = s[k]
      BY <2>1, <1>6, <1>7
    <3> QED BY <3>1, <1>4 DEF SaysBackward
  <2>2. CASE ~(k <= Len(s))
    <3>1. k - Len(s) = 1 /\ c[k] = b[k - Len(s)]
      BY <2>2, <1>6, <1>7
    <3>2. c[k].first = i /\ c[k].end = e /\ c[k].type = type
      BY <3>1, <1>1 DEF Span
    <3> QED BY <3>2
  <2> QED BY <2>1, <2>2
<1> QED BY <1>5, <1>8 DEF GoodBackward, SaysBackward, skip, c, b

(* What backward matching promises of each span.                            *)
LEMMA BackwardCuts ==
    ASSUME NEW text \in Seq(Runes)
    PROVE  /\ Cuts(text, BackwardMatching(text))
           /\ \A n \in 1..Len(BackwardMatching(text)) :
                LET s == BackwardMatching(text)[n]
                IN  s.type = "han" =>
                      /\ Word(text, s.first, s.end) \/ s.end = s.first + 1
                      /\ \A f \in 1..s.first - 1 : ~Word(text, f, s.end)
<1> DEFINE L == Len(text)
           D == 1..L + 1
           skip == Places(text, Skipped)
           m == [e \in D |-> e]
<1>1. PICK upTo : GoesBackward(upTo, text) /\ BackwardMatching(text) = upTo[L + 1]
  BY BackwardIsRecursive
<1> DEFINE S == {e \in D : GoodBackward(text, upTo[e], e)}
<1>2. \A e \in D : m[e] \in Nat
  OBVIOUS
<1>3. ASSUME NEW e \in D, \A d \in D : m[d] < m[e] => d \in S
      PROVE  e \in S
  <2>0. upTo[e] = BackwardAt(text, upTo, e) /\ e \in Nat
    <3>1. upTo[e] = BackwardAt(text, upTo, e)
      <4> HIDE DEF D
      <4>1. upTo = [d \in D |-> BackwardAt(text, upTo, d)]
        BY <1>1 DEF GoesBackward, D
      <4>2. \A d \in D : upTo[d] = BackwardAt(text, upTo, d)
        BY <4>1, Zenon
      <4> QED BY <4>2
    <3>2. e \in Nat
      OBVIOUS
    <3> QED BY <3>1, <3>2
  <2>1. CASE e = 1
    <3>1. upTo[e] = <<>>
      BY <2>0, <2>1 DEF BackwardAt
    <3>2. Tiles(<<>>, 1, e, skip)
      BY <2>1, TilesNothing
    <3>3. SaysBackward(text, <<>>)
      BY DEF SaysBackward
    <3> QED BY <3>1, <3>2, <3>3 DEF GoodBackward
  <2>2. CASE e # 1 /\ text[e - 1] \in Skipped
    <3>1. upTo[e] = upTo[e - 1]
      BY <2>0, <2>2 DEF BackwardAt
    <3>2. e - 1 \in D /\ e - 1 < e /\ e - 1 \in 1..L /\ m[e - 1] < m[e] /\ e - 1 \in Nat /\ 1 <= e - 1
          /\ (e - 1) + 1 = e
      BY <2>2, BackwardStep
    <3>3. Tiles(upTo[e - 1], 1, e - 1, skip) /\ SaysBackward(text, upTo[e - 1])
      BY <3>2, <1>3 DEF GoodBackward
    <3>4. e - 1 \in skip
      BY <3>2, <2>2 DEF Places
    <3>5. Tiles(upTo[e - 1], 1, (e - 1) + 1, skip)
      <4> HIDE DEF skip
      <4> QED BY <3>2, <3>3, <3>4, TilesSkipLast
    <3>6. Tiles(upTo[e], 1, e, skip)
      BY <3>1, <3>2, <3>5
    <3> QED BY <3>1, <3>3, <3>6 DEF GoodBackward
  <2>3. CASE e # 1 /\ text[e - 1] \notin Skipped
    <3>1. upTo[e] = upTo[BackwardSpan(text, e).first] \o <<BackwardSpan(text, e)>>
      BY <2>0, <2>3 DEF BackwardAt
    <3>2. PICK i \in 1..e - 1, type \in SpanTypes :
            /\ BackwardSays(text, i, e, type)
            /\ BackwardSpan(text, e) = Span(i, e, type)
            /\ i \in D /\ i < e
      BY <2>3, BackwardStep
    <3>3. BackwardSpan(text, e).first = i /\ i \in Nat /\ 1 <= i
      BY <3>2 DEF Span
    <3>4. GoodBackward(text, upTo[i], i)
      BY <3>2, <1>3
    <3>5. GoodBackward(text, upTo[i] \o <<Span(i, e, type)>>, e)
      BY <3>2, <3>3, <3>4, <2>0, BackwardJoin
    <3> QED BY <3>1, <3>2, <3>3, <3>5
  <2> QED BY <2>1, <2>2, <2>3
<1>4. D \subseteq S
  <2> HIDE DEF D, m, S
  <2> QED BY <1>2, <1>3, MeasureInduction
<1> DEFINE s == BackwardMatching(text)
<1>5. L + 1 \in D
  OBVIOUS
<1>6. GoodBackward(text, s, L + 1)
  BY <1>1, <1>4, <1>5
<1> HIDE DEF s
<1>7. \A n \in 1..Len(s) : BackwardSays(text, s[n].first, s[n].end, s[n].type)
  BY <1>6 DEF GoodBackward, SaysBackward
<1>8. Cuts(text, s)
  BY <1>6, <1>7 DEF GoodBackward, Cuts, BackwardSays, CutPiece
<1> QED BY <1>7, <1>8 DEF BackwardSays, s

(* The words of a run of characters cover it, whatever its labels are.      *)
LEMMA WordsCover ==
    ASSUME NEW m, NEW text, NEW i \in Nat, NEW e \in Nat, i < e
    PROVE  /\ Tiles(Words(m, text, i, e), i, e, {})
           /\ \A n \in 1..Len(Words(m, text, i, e)) : Words(m, text, i, e)[n].type = "han"
<1> DEFINE labels == Viterbi(m, SubSeq(text, i, e - 1))
           ends == {f \in i + 1..e : f = e \/ labels[f - i] \in {"E", "S"}}
           Next(k, c) == c \in ends /\ c > k /\ \A f \in ends : f > k => c <= f
           end(k) == CHOOSE c \in ends : c > k /\ \A f \in ends : f > k => c <= f
           span == [k \in i..e - 1 |-> <<Span(k, end(k), "han")>>]
           s == Words(m, text, i, e)
<1>1. s = Scan(i, e, {}, span)
  BY Zenon DEF Words
<1>2. ends \in SUBSET Nat /\ e \in ends /\ \A c \in ends : c <= e
  <2> HIDE DEF labels
  <2> QED OBVIOUS
<1> HIDE DEF ends, s
<1>3. ASSUME NEW k \in i..e - 1
      PROVE  end(k) \in k + 1..e
  <2> DEFINE T == {c \in ends : c > k}
  <2>1. T \in SUBSET Nat /\ e \in T
    <3>1. e > k
      OBVIOUS
    <3>2. T \in SUBSET ends
      OBVIOUS
    <3> QED BY <1>2, <3>1, <3>2
  <2>2. \E c \in T : \A f \in T : c <= f
    <3> HIDE DEF T
    <3> QED BY <2>1, Smallest
  <2>3. \E c \in ends : c > k /\ \A f \in ends : f > k => c <= f
    BY <2>2
  <2>4. end(k) \in ends /\ end(k) > k
    BY <2>3
  <2> HIDE DEF end
  <2>5. end(k) \in Nat /\ end(k) <= e
    BY <2>4, <1>2
  <2> QED BY <2>4, <2>5
<1> HIDE DEF end
<1>4. "han" \in SpanTypes
  BY DEF SpanTypes
<1>5. ASSUME NEW k \in i..e - 1
      PROVE  \E c \in k + 1..e, type \in SpanTypes :
               span[k] = <<Span(k, c, type)>> /\ \A j \in k..c - 1 : j \notin {}
  BY <1>3, <1>4
<1>6. i <= e
  OBVIOUS
<1>7. Singly(i, e, {}, span)
  <2> HIDE DEF span
  <2> QED BY <1>5, <1>6 DEF Singly
<1>8. Scanned(s, i, e, {}, span)
  BY <1>1, <1>7, ScanOfSpans
<1>9. ASSUME NEW n \in 1..Len(s)
      PROVE  s[n].type = "han"
  <2>1. s[n].first \in i..e - 1 /\ <<s[n]>> = span[s[n].first]
    BY <1>8 DEF Scanned
  <2>2. s[n] = Span(s[n].first, end(s[n].first), "han")
    BY <2>1
  <2> QED BY <2>2 DEF Span
<1> QED BY <1>8, <1>9 DEF Scanned, s

\* What the tokenizer of the model appends at a place.
Takes(m, text, i) ==
  IF text[i] \in Han THEN Words(m, text, i, RunEnd(text, i, Han))
  ELSE IF text[i] \in LatinRunes THEN <<Span(i, RunEnd(text, i, LatinRunes), "word")>>
  ELSE <<Span(i, i + 1, "symbol")>>

TakesIs(m, text, i, e) ==
  /\ Tiles(Takes(m, text, i), i, e, {})
  /\ Behind([k \in {i} |-> Takes(m, text, k)], i) = e
  /\ \A k \in i..e - 1 : text[k] \notin Skipped
  /\ \A n \in 1..Len(Takes(m, text, i)) :
       LET s == Takes(m, text, i)[n]
       IN  s.type = "word" => \A k \in s.first..s.end - 1 : text[k] \notin Han

(* What it takes is a run of Chinese, of letters and digits, or one rune.   *)
LEMMA TakesAre ==
    ASSUME NEW m, NEW text \in Seq(Runes), NEW i \in 1..Len(text), text[i] \notin Skipped
    PROVE  \E e \in i + 1..Len(text) + 1 : TakesIs(m, text, i, e)
<1>0. {"word", "symbol", "han"} \subseteq SpanTypes
  BY DEF SpanTypes
<1> DEFINE t == Takes(m, text, i)
<1>5. i \in Nat /\ i \in 1..Len(text) + 1 /\ Len(text) \in Nat
  OBVIOUS
<1>6. ASSUME NEW e \in i + 1..Len(text) + 1, Tiles(t, i, e, {})
      PROVE  Behind([k \in {i} |-> Takes(m, text, k)], i) = e
  <2>1. e \in Nat /\ i < e
    BY <1>5
  <2>2. t[Len(t)].end = e
    BY <2>1, <1>5, <1>6, TilesEnd
  <2> QED BY <2>2 DEF Behind
<1>7. ASSUME NEW e \in i + 1..Len(text) + 1, NEW type \in SpanTypes, t = <<Span(i, e, type)>>,
             \A k \in i..e - 1 : text[k] \notin Skipped,
             type = "word" => \A k \in i..e - 1 : text[k] \notin Han
      PROVE  TakesIs(m, text, i, e)
  <2>1. e \in Nat /\ i < e
    BY <1>5
  <2>2. Tiles(t, i, e, {})
    BY <2>1, <1>5, <1>7, OneSpan
  <2>3. Behind([k \in {i} |-> Takes(m, text, k)], i) = e
    BY <2>2, <1>6
  <2>4. ASSUME NEW n \in 1..Len(t)
        PROVE  t[n].type = type /\ t[n].first = i /\ t[n].end = e
    <3>1. t[n] = Span(i, e, type)
      BY <1>7
    <3> QED BY <3>1 DEF Span
  <2> HIDE DEF t
  <2>5. \A n \in 1..Len(t) : t[n].type = "word" => \A k \in t[n].first..t[n].end - 1 : text[k] \notin Han
    BY <2>4, <1>7
  <2> QED BY <2>2, <2>3, <2>5, <1>7 DEF TakesIs, t
<1>1. CASE text[i] \in Han
  <2> DEFINE e == RunEnd(text, i, Han)
  <2>1. e \in i + 1..Len(text) + 1
    BY <1>1, RunIsLong
  <2>2. \A k \in i..e - 1 : text[k] \in Han
    BY <1>5, RunEndIs
  <2>3. t = Words(m, text, i, e)
    BY <1>1 DEF Takes
  <2> HIDE DEF e, t
  <2>4. e \in Nat /\ i < e
    BY <2>1, <1>5
  <2>5. Tiles(t, i, e, {}) /\ \A n \in 1..Len(t) : t[n].type = "han"
    BY <2>3, <2>4, <1>5, WordsCover
  <2>6. \A k \in i..e - 1 : text[k] \notin Skipped
    BY <2>2, HanIsNotSkipped
  <2>7. Behind([k \in {i} |-> Takes(m, text, k)], i) = e
    BY <2>1, <2>5, <1>6
  <2>8. TakesIs(m, text, i, e)
    BY <2>5, <2>6, <2>7 DEF TakesIs, t
  <2> QED BY <2>1, <2>8
<1>2. CASE text[i] \notin Han /\ text[i] \in LatinRunes
  <2> DEFINE e == RunEnd(text, i, LatinRunes)
  <2>1. e \in i + 1..Len(text) + 1
    BY <1>2, RunIsLong
  <2>2. \A k \in i..e - 1 : text[k] \in LatinRunes
    BY <1>5, RunEndIs
  <2>3. t = <<Span(i, e, "word")>>
    BY <1>2 DEF Takes
  <2> HIDE DEF e, t
  <2>4. \A k \in i..e - 1 : text[k] \notin Skipped /\ text[k] \notin Han
    BY <2>2, LatinIsNotSkipped
  <2>5. TakesIs(m, text, i, e)
    BY <2>1, <2>3, <2>4, <1>0, <1>7
  <2> QED BY <2>1, <2>5
<1>3. CASE text[i] \notin Han /\ text[i] \notin LatinRunes
  <2>1. t = <<Span(i, i + 1, "symbol")>>
    BY <1>3 DEF Takes
  <2>2. i + 1 \in i + 1..Len(text) + 1 /\ \A k \in i..(i + 1) - 1 : k = i
    OBVIOUS
  <2> HIDE DEF t
  <2>3. \A k \in i..(i + 1) - 1 : text[k] \notin Skipped
    BY <2>2
  <2>4. TakesIs(m, text, i, i + 1)
    BY <2>1, <2>2, <2>3, <1>0, <1>7
  <2> QED BY <2>2, <2>4
<1> QED BY <1>1, <1>2, <1>3

(* What the hidden Markov model cuts.                                       *)
LEMMA ModelCuts ==
    ASSUME NEW m, NEW text \in Seq(Runes)
    PROVE  Covers(text, HMMTokenize(m, text))
<1> DEFINE L == Len(text)
           skip == Places(text, Skipped)
           next == [i \in 1..L |-> Takes(m, text, i)]
           s == Scan(1, L + 1, skip, next)
<1>1. L \in Nat /\ L + 1 \in Nat /\ 1 <= L + 1 /\ (L + 1) - 1 = L /\ 1 \in Nat
  OBVIOUS
<1>2. \A k \in 1..L : (k \in skip) <=> text[k] \in Skipped
  BY DEF Places
<1>3. HMMTokenize(m, text) = TokensOf(text, s)
  BY Zenon DEF HMMTokenize, Takes
<1>4. ASSUME NEW i \in 1..L, i \notin skip
      PROVE  \E e \in i + 1..L + 1 : TakesIs(m, text, i, e)
  <2>1. text[i] \notin Skipped
    BY <1>2, <1>4
  <2> QED BY <2>1, TakesAre
<1>5. ASSUME NEW i \in 1..L, i \notin skip
      PROVE  /\ next[i] \in Seq(Spans)
             /\ Behind(next, i) \in i + 1..L + 1
             /\ Tiles(next[i], i, Behind(next, i), {})
             /\ \A k \in i..Behind(next, i) - 1 : k \notin skip
  <2>1. PICK e \in i + 1..L + 1 : TakesIs(m, text, i, e)
    BY <1>4, <1>5
  <2>2. next[i] = Takes(m, text, i)
    OBVIOUS
  <2>3. Behind(next, i) = Behind([k \in {i} |-> Takes(m, text, k)], i)
    BY <2>2 DEF Behind
  <2> HIDE DEF next, skip
  <2>4. Behind(next, i) = e /\ Tiles(next[i], i, e, {}) /\ \A k \in i..e - 1 : text[k] \notin Skipped
    BY <2>1, <2>2, <2>3 DEF TakesIs
  <2>5. next[i] \in Seq(Spans)
    BY <2>4 DEF Tiles
  <2>6. \A k \in i..e - 1 : k \in 1..L
    BY <1>1
  <2>7. \A k \in i..e - 1 : k \notin skip
    BY <2>4, <2>6, <1>2
  <2> QED BY <2>4, <2>5, <2>7
<1>6. Advances(1, L + 1, skip, next)
  <2> HIDE DEF L, skip, next
  <2> QED BY <1>1, <1>5 DEF Advances
<1>7. Tiles(s, 1, L + 1, skip) /\ Sources(s, 1..L + 1, L + 1, skip, next)
  <2> HIDE DEF L, skip, next
  <2> QED BY <1>6, ScanTiles
<1> HIDE DEF s
<1>8. ASSUME NEW n \in 1..Len(s), s[n].type = "word"
      PROVE  \A k \in s[n].first..s[n].end - 1 : text[k] \notin Han
  <2>1. PICK i \in 1..L : i \notin skip /\ \E k \in 1..Len(next[i]) : s[n] = next[i][k]
    <3> HIDE DEF skip, next, L
    <3>1. PICK i \in 1..L + 1 : i < L + 1 /\ i \notin skip /\ \E k \in 1..Len(next[i]) : s[n] = next[i][k]
      BY <1>7, Zenon DEF Sources
    <3>2. i \in 1..L
      BY <1>1, <3>1
    <3> QED BY <3>1, <3>2
  <2>2. PICK e \in i + 1..L + 1 : TakesIs(m, text, i, e)
    BY <1>4, <2>1
  <2>3. next[i] = Takes(m, text, i)
    OBVIOUS
  <2> HIDE DEF next, skip
  <2> QED BY <2>1, <2>2, <2>3, <1>8 DEF TakesIs
<1>9. Cuts(text, s)
  BY <1>7, <1>8 DEF Cuts
<1> QED BY <1>3, <1>9, CutsCover

(* No way of cutting Chinese text loses or repeats a character, and none    *)
(* mixes letters and Chinese.                                              *)
THEOREM SegmentsAreExact ==
    ASSUME NEW m, NEW text \in Seq(Runes)
    PROVE  SegmentsCoverText(m, text)
<1>1. ASSUME NEW mode \in {"forward", "backward", "both"}
      PROVE  Covers(text, ChineseTokenize(mode, text))
  <2>1. Covers(text, TokensOf(text, ForwardMatching(text)))
    BY ForwardCuts, CutsCover
  <2>2. Covers(text, TokensOf(text, BackwardMatching(text)))
    BY BackwardCuts, CutsCover
  <2>3. \/ ChineseTokenize(mode, text) = TokensOf(text, ForwardMatching(text))
        \/ ChineseTokenize(mode, text) = TokensOf(text, BackwardMatching(text))
    <3>1. CASE mode = "forward"
      BY <3>1 DEF ChineseTokenize
    <3>2. CASE mode = "backward"
      BY <3>2 DEF ChineseTokenize
    <3>3. CASE mode = "both"
      BY <3>3 DEF ChineseTokenize
    <3> QED BY <3>1, <3>2, <3>3
  <2> QED BY <2>1, <2>2, <2>3
<1>2. Covers(text, HMMTokenize(m, text))
  BY ModelCuts
<1> QED BY <1>1, <1>2 DEF SegmentsCoverText, Covers

(* The spans of one rune are the tokens of one rune.                        *)
LEMMA SinglesAre ==
    ASSUME NEW text \in Seq(Runes), NEW s, Cuts(text, s)
    PROVE  /\ Singles(s) \in Nat
           /\ Cardinality({n \in 1..Len(TokensOf(text, s)) : Len(TokensOf(text, s)[n].term) = 1}) = Singles(s)
           /\ Len(TokensOf(text, s)) = Len(s) /\ Len(s) \in Nat
<1> DEFINE toks == TokensOf(text, s)
           skip == Places(text, Skipped)
<1>1. Tiles(s, 1, Len(text) + 1, skip)
  BY DEF Cuts
<1>2. Len(toks) = Len(s) /\ Len(s) \in Nat
  BY <1>1, TokensHold
<1>3. ASSUME NEW n \in 1..Len(s)
      PROVE  Len(toks[n].term) = 1 <=> s[n].end = s[n].first + 1
  <2> DEFINE i == s[n].first
             e == s[n].end
             j == e - 1
  <2>1. /\ i \in 1..Len(text) /\ j \in i..Len(text) /\ i \in 1..Len(text) + 1 /\ e \in 1..Len(text) + 1
        /\ toks[n].term = SubSeq(text, i, j)
    BY <1>1, TokensHold
  <2> HIDE DEF i, toks
  <2>2. Len(SubSeq(text, i, j)) = j - i + 1
    BY <2>1, PartOf
  <2> HIDE DEF e
  <2>3. j - i + 1 = 1 <=> e = i + 1
    BY <2>1
  <2> QED BY <2>1, <2>2, <2>3 DEF i, e
<1>4. {n \in 1..Len(toks) : Len(toks[n].term) = 1} = {n \in 1..Len(s) : s[n].end = s[n].first + 1}
  <2> HIDE DEF toks
  <2> QED BY <1>2, <1>3
<1>5. Singles(s) \in Nat
  <2> DEFINE T == {n \in 1..Len(s) : s[n].end = s[n].first + 1}
  <2>1. IsFiniteSet(1..Len(s))
    BY <1>2, UpToNumber
  <2>2. T \in SUBSET (1..Len(s))
    OBVIOUS
  <2> HIDE DEF T
  <2>3. Cardinality(T) \in Nat
    BY <2>1, <2>2, FS_Subset, FS_CardinalityType
  <2> QED BY <2>3 DEF Singles, T
<1> QED BY <1>2, <1>4, <1>5 DEF Singles

(* Dictionary words are matched maximally in all three modes.               *)
THEOREM MatchingIsExact ==
    ASSUME NEW text \in Seq(Runes)
    PROVE  MatchingIsMaximal(text)
<1> DEFINE forward  == ForwardMatching(text)
           backward == BackwardMatching(text)
           both     == ChineseTokenize("both", text)
           Runs(tokens) == Cardinality({n \in 1..Len(tokens) : Len(tokens[n].term) = 1})
<1>1. \A n \in 1..Len(forward) :
        LET s == forward[n]
        IN  s.type = "han" =>
              /\ Word(text, s.first, s.end) \/ s.end = s.first + 1
              /\ \A e \in s.end + 1..Len(text) + 1 : ~Word(text, s.first, e)
  BY ForwardCuts
<1>2. \A n \in 1..Len(backward) :
        LET s == backward[n]
        IN  s.type = "han" =>
              /\ Word(text, s.first, s.end) \/ s.end = s.first + 1
              /\ \A i \in 1..s.first - 1 : ~Word(text, i, s.end)
  BY BackwardCuts
<1>3. /\ Singles(forward) \in Nat /\ Len(forward) \in Nat
      /\ Singles(backward) \in Nat /\ Len(backward) \in Nat
  BY ForwardCuts, BackwardCuts, SinglesAre
<1>4. /\ Runs(TokensOf(text, forward)) = Singles(forward) /\ Len(TokensOf(text, forward)) = Len(forward)
      /\ Runs(TokensOf(text, backward)) = Singles(backward) /\ Len(TokensOf(text, backward)) = Len(backward)
  BY ForwardCuts, BackwardCuts, SinglesAre
<1>5. both = IF PreferReverse(forward, backward) THEN TokensOf(text, backward) ELSE TokensOf(text, forward)
  BY DEF ChineseTokenize
<1> HIDE DEF forward, backward, both, Runs
<1>6. ASSUME NEW spans \in {forward, backward}
      PROVE  \/ Len(both) < Len(spans)
             \/ Len(both) = Len(spans) /\ Runs(both) <= Singles(spans)
  <2>1. CASE PreferReverse(forward, backward)
    <3>1. Len(both) = Len(backward) /\ Runs(both) = Singles(backward)
      BY <2>1, <1>4, <1>5
    <3>2. \/ Len(backward) < Len(forward)
          \/ Len(backward) = Len(forward) /\ Singles(backward) < Singles(forward)
      BY <2>1 DEF PreferReverse
    <3> QED BY <3>1, <3>2, <1>3
  <2>2. CASE ~PreferReverse(forward, backward)
    <3>1. Len(both) = Len(forward) /\ Runs(both) = Singles(forward)
      BY <2>2, <1>4, <1>5
    <3>2. ~(\/ Len(backward) < Len(forward)
            \/ Len(backward) = Len(forward) /\ Singles(backward) < Singles(forward))
      BY <2>2 DEF PreferReverse
    <3> QED BY <3>1, <3>2, <1>3
  <2> QED BY <2>1, <2>2
<1> QED BY <1>1, <1>2, <1>6, Zenon DEF MatchingIsMaximal, Word, forward, backward, both, Runs

-----------------------------------------------------------------------------
(* The lexer.                                                              *)

Quotes(runes, i, k) == {j \in i..k - 1 : runes[j] = Quote}

(* Whether a quote is open after two parts depends on both.                *)
LEMMA QuotesJoin ==
    ASSUME NEW runes, NEW i \in Nat, NEW m \in Nat, NEW k \in Nat, i <= m, m <= k
    PROVE  InQuote(runes, i, k) <=> ~(InQuote(runes, i, m) <=> InQuote(runes, m, k))
<1> DEFINE A == Quotes(runes, i, m)
           B == Quotes(runes, m, k)
           C == Quotes(runes, i, k)
           a == Cardinality(A)
           b == Cardinality(B)
           c == Cardinality(C)
<1>1. /\ IsFiniteSet(i..m - 1) /\ IsFiniteSet(m..k - 1)
      /\ A \subseteq i..m - 1 /\ B \subseteq m..k - 1
  BY FS_Interval DEF Quotes
<1>2. IsFiniteSet(A) /\ IsFiniteSet(B)
  BY <1>1, FS_Subset
<1>3. C = A \cup B /\ A \cap B = {}
  BY DEF Quotes
<1>4. a \in Nat /\ b \in Nat
  BY <1>2, FS_CardinalityType
<1>5. c = a + b
  <2>1. Cardinality(A \cup B) = Cardinality(A) + Cardinality(B) - Cardinality(A \cap B)
    <3> HIDE DEF A, B
    <3> QED BY <1>2, FS_Union
  <2>2. Cardinality({}) = 0
    BY FS_EmptySet
  <2>3. c = a + b - Cardinality({})
    <3> HIDE DEF A, B, C
    <3> QED BY <2>1, <1>3
  <2> HIDE DEF a, b, c
  <2> QED BY <2>2, <2>3, <1>4
<1>6. InQuote(runes, i, k) <=> c % 2 = 1
  BY DEF InQuote, Quotes
<1>7. InQuote(runes, i, m) <=> a % 2 = 1
  BY DEF InQuote, Quotes
<1>8. InQuote(runes, m, k) <=> b % 2 = 1
  BY DEF InQuote, Quotes
<1> HIDE DEF a, b, c
<1>9. (c % 2 = 1) <=> ~((a % 2 = 1) <=> (b % 2 = 1))
  BY <1>4, <1>5
<1> QED BY <1>6, <1>7, <1>8, <1>9

(* No quote is open at the beginning, nor is one opened by another rune.   *)
LEMMA QuoteStays ==
    ASSUME NEW runes, NEW i \in Nat
    PROVE  /\ ~InQuote(runes, i, i)
           /\ runes[i] # Quote => ~InQuote(runes, i, i + 1)
<1>1. Quotes(runes, i, i) = {}
  BY DEF Quotes
<1>2. runes[i] # Quote => Quotes(runes, i, i + 1) = {}
  <2> SUFFICES ASSUME runes[i] # Quote, NEW j \in Quotes(runes, i, i + 1) PROVE FALSE
    OBVIOUS
  <2>1. j \in i..(i + 1) - 1 /\ runes[j] = Quote
    BY DEF Quotes
  <2>2. j = i
    BY <2>1
  <2> QED BY <2>1, <2>2
<1>3. Cardinality({}) % 2 # 1
  BY FS_EmptySet
<1>4. \A k : InQuote(runes, i, k) <=> Cardinality(Quotes(runes, i, k)) % 2 = 1
  BY DEF InQuote, Quotes
<1> QED BY <1>1, <1>2, <1>3, <1>4

(* From a place outside quotes on, the quotes before it do not matter.     *)
LEMMA QuotedFrom ==
    ASSUME NEW runes, NEW i \in Nat, NEW k \in Nat, 1 <= i, i <= k, ~Quoted(runes, i)
    PROVE  Quoted(runes, k) <=> InQuote(runes, i, k)
<1>1. InQuote(runes, 1, k) <=> ~(InQuote(runes, 1, i) <=> InQuote(runes, i, k))
  BY QuotesJoin
<1> QED BY <1>1 DEF Quoted

(* A rune that is no quote opens none.                                     *)
LEMMA QuotedNext ==
    ASSUME NEW runes, NEW i \in Nat, 1 <= i, ~Quoted(runes, i), runes[i] # Quote
    PROVE  ~Quoted(runes, i + 1)
<1>1. Quoted(runes, i + 1) <=> InQuote(runes, i, i + 1)
  <2>1. i + 1 \in Nat /\ i <= i + 1
    OBVIOUS
  <2> QED BY <2>1, QuotedFrom
<1> QED BY <1>1, QuoteStays

Breaks(runes, i, k) == runes[k] \in Spaces \cup Parentheses /\ ~InQuote(runes, i, k)

(* An atom ends at the first break, or with the expression.                *)
LEMMA AtomEndIs ==
    ASSUME NEW runes \in Seq(Runes), NEW i \in 1..Len(runes)
    PROVE  /\ AtomEnd(runes, i) \in i..Len(runes) + 1
           /\ \A k \in i..AtomEnd(runes, i) - 1 : ~Breaks(runes, i, k)
           /\ AtomEnd(runes, i) <= Len(runes) => Breaks(runes, i, AtomEnd(runes, i))
<1> DEFINE n == Len(runes)
           T == {e \in i..n + 1 : e = n + 1 \/ Breaks(runes, i, e)}
           Ends(e) == /\ \A k \in i..e - 1 : ~Breaks(runes, i, k)
                      /\ e <= n => Breaks(runes, i, e)
<1>1. n \in Nat /\ i \in Nat /\ i <= n + 1
  OBVIOUS
<1> HIDE DEF n
<1>2. T \in SUBSET Nat /\ n + 1 \in T
  BY <1>1
<1>3. PICK m \in T : \A k \in T : m <= k
  <2> HIDE DEF T
  <2> QED BY <1>2, Smallest
<1>4. m \in i..n + 1 /\ Ends(m)
  <2>1. m \in i..n + 1 /\ (m = n + 1 \/ Breaks(runes, i, m))
    OBVIOUS
  <2>2. ASSUME NEW k \in i..m - 1
        PROVE  ~Breaks(runes, i, k)
    <3>1. k \in i..n + 1 /\ ~(m <= k)
      BY <1>1, <2>1
    <3> QED BY <3>1, <1>3
  <2>3. m <= n => m # n + 1
    BY <1>1, <2>1
  <2> QED BY <2>1, <2>2, <2>3
<1>5. AtomEnd(runes, i) = CHOOSE e \in i..n + 1 : Ends(e)
  BY DEF AtomEnd, n, Breaks
<1>6. AtomEnd(runes, i) \in i..n + 1 /\ Ends(AtomEnd(runes, i))
  <2> HIDE DEF Ends
  <2> QED BY <1>4, <1>5, Zenon
<1> QED BY <1>6 DEF n

Blank(runes, k) == runes[k] \in Spaces /\ ~Quoted(runes, k)
Paren(runes, k) == runes[k] \in Parentheses /\ ~Quoted(runes, k)

KindIs(text, type) ==
  type = IF Len(text) = 1 /\ text[1] \in Keywords \cup Parentheses THEN text[1] ELSE "atom"

\* What the lexer takes at a place outside quotes that is not blank.
Lexed(runes, i, e, type) ==
  /\ e \in i + 1..Len(runes) + 1 /\ type \in SpanTypes
  /\ LexSpan(runes, i) = Span(i, e, type)
  /\ \A k \in i..e - 1 : ~Blank(runes, k)
  /\ \A k \in i + 1..e - 1 : ~Paren(runes, k)
  /\ e # i + 1 => ~Paren(runes, i)
  /\ e <= Len(runes) =>
       ~Quoted(runes, e) /\ (Paren(runes, i) \/ Blank(runes, e) \/ Paren(runes, e))
  /\ type = "unclosed" <=> Quoted(runes, e)
  /\ type # "unclosed" => KindIs(SubSeq(runes, i, e - 1), type)

(* The runes from one place to before another.                              *)
LEMMA RunesBetween ==
    ASSUME NEW runes \in Seq(Runes), NEW i \in 1..Len(runes), NEW e \in i + 1..Len(runes) + 1
    PROVE  /\ Len(SubSeq(runes, i, e - 1)) = e - i
           /\ SubSeq(runes, i, e - 1)[1] = runes[i]
<1>1. Len(SubSeq(runes, i, e - 1)) = e - i
  OBVIOUS
<1>2. SubSeq(runes, i, e - 1)[1] = runes[i]
  OBVIOUS
<1> QED BY <1>1, <1>2

(* A token moves the lexer on, whether or not it is in quotes.              *)
LEMMA LexSpanMoves ==
    ASSUME NEW runes \in Seq(Runes), NEW i \in 1..Len(runes), runes[i] \notin Spaces
    PROVE  \E e \in i + 1..Len(runes) + 1, type \in SpanTypes :
             /\ LexSpan(runes, i) = Span(i, e, type)
             /\ IF runes[i] \in Parentheses THEN e = i + 1 /\ type = runes[i]
                ELSE /\ e = AtomEnd(runes, i)
                     /\ type = IF InQuote(runes, i, e) THEN "unclosed"
                               ELSE KindOf(SubSeq(runes, i, e - 1))
<1>1. Len(runes) \in Nat /\ i \in Nat
  OBVIOUS
<1>2. CASE runes[i] \in Parentheses
  <2>1. LexSpan(runes, i) = Span(i, i + 1, runes[i])
    BY <1>2 DEF LexSpan
  <2>2. runes[i] \in SpanTypes
    BY <1>2 DEF Parentheses, SpanTypes
  <2>3. i + 1 \in i + 1..Len(runes) + 1
    BY <1>1
  <2> QED BY <1>2, <2>1, <2>2, <2>3
<1>3. CASE runes[i] \notin Parentheses
  <2> DEFINE e == AtomEnd(runes, i)
             text == SubSeq(runes, i, e - 1)
             type == IF InQuote(runes, i, e) THEN "unclosed" ELSE KindOf(text)
  <2>1. LexSpan(runes, i) = Span(i, e, type)
    BY <1>3 DEF LexSpan
  <2>2. /\ e \in i..Len(runes) + 1
        /\ e <= Len(runes) => Breaks(runes, i, e)
    BY AtomEndIs
  <2>3. ~Breaks(runes, i, i)
    BY <1>3 DEF Breaks
  <2>4. e \in i + 1..Len(runes) + 1
    <3> HIDE DEF e
    <3> QED BY <1>1, <2>2, <2>3
  <2>5. KindOf(text) \in SpanTypes
    BY DEF KindOf, Keywords, SpanTypes
  <2>6. type \in SpanTypes
    BY <2>5 DEF SpanTypes
  <2> HIDE DEF type
  <2>7. type = IF InQuote(runes, i, e) THEN "unclosed" ELSE KindOf(text)
    BY DEF type
  <2> HIDE DEF e
  <2> QED BY <1>3, <2>1, <2>4, <2>6, <2>7 DEF e
<1> QED BY <1>2, <1>3

(* The kind of what was read.                                              *)
LEMMA KindOfIs ==
    ASSUME NEW text
    PROVE  /\ KindOf(text) # "unclosed"
           /\ Len(text) # 1 \/ text[1] \notin Parentheses => KindIs(text, KindOf(text))
BY DEF KindOf, KindIs, Keywords, Parentheses

(* What the lexer takes outside quotes.                                     *)
LEMMA LexSpanIs ==
    ASSUME NEW runes \in Seq(Runes), NEW i \in 1..Len(runes), runes[i] \notin Spaces,
           ~Quoted(runes, i)
    PROVE  \E e \in i + 1..Len(runes) + 1, type \in SpanTypes : Lexed(runes, i, e, type)
<1>1. PICK e \in i + 1..Len(runes) + 1, type \in SpanTypes :
        /\ LexSpan(runes, i) = Span(i, e, type)
        /\ IF runes[i] \in Parentheses THEN e = i + 1 /\ type = runes[i]
           ELSE /\ e = AtomEnd(runes, i)
                /\ type = IF InQuote(runes, i, e) THEN "unclosed"
                          ELSE KindOf(SubSeq(runes, i, e - 1))
  BY LexSpanMoves
<1>2. Len(runes) \in Nat /\ i \in Nat /\ 1 <= i /\ e \in Nat /\ i < e
  OBVIOUS
<1>3. \A k \in i..e : k \in Nat /\ (Quoted(runes, k) <=> InQuote(runes, i, k))
  <2> SUFFICES ASSUME NEW k \in i..e PROVE k \in Nat /\ (Quoted(runes, k) <=> InQuote(runes, i, k))
    OBVIOUS
  <2>1. k \in Nat /\ i <= k
    BY <1>2
  <2> QED BY <2>1, <1>2, QuotedFrom
<1> DEFINE text == SubSeq(runes, i, e - 1)
<1>4. Len(text) = e - i /\ text[1] = runes[i]
  BY RunesBetween
<1> HIDE DEF text
<1>5. ~Blank(runes, i)
  BY DEF Blank
<1>6. e \in i..e /\ (Quoted(runes, e) <=> InQuote(runes, i, e))
  BY <1>2, <1>3
<1>7. CASE runes[i] \in Parentheses
  <2>1. e = i + 1 /\ type = runes[i]
    BY <1>1, <1>7
  <2>2. ~Quoted(runes, e)
    <3>1. runes[i] # Quote
      BY <1>7, Zenon DEF Parentheses, Quote
    <3> QED BY <3>1, <2>1, <1>2, QuotedNext
  <2>3. type # "unclosed" /\ KindIs(text, type)
    <3>1. Len(text) = 1
      BY <1>2, <1>4, <2>1
    <3> QED BY <3>1, <1>4, <1>7, <2>1 DEF KindIs, Parentheses
  <2>4. Paren(runes, i)
    BY <1>7 DEF Paren
  <2>5. \A k \in i..e - 1 : k = i
    BY <1>2, <2>1
  <2>6. \A k \in i + 1..e - 1 : FALSE
    BY <1>2, <2>1
  <2> QED BY <1>1, <1>5, <2>1, <2>2, <2>3, <2>4, <2>5, <2>6 DEF Lexed, text
<1>8. CASE runes[i] \notin Parentheses
  <2>1. /\ e = AtomEnd(runes, i)
        /\ type = IF InQuote(runes, i, e) THEN "unclosed" ELSE KindOf(text)
    BY <1>1, <1>8 DEF text
  <2>2. /\ \A k \in i..e - 1 : ~Breaks(runes, i, k)
        /\ e <= Len(runes) => Breaks(runes, i, e)
    BY <2>1, AtomEndIs
  <2>3. \A k \in i..e - 1 : k \in i..e
    BY <1>2
  <2>4. \A k \in i..e - 1 : ~Blank(runes, k) /\ ~Paren(runes, k)
    BY <1>3, <2>2, <2>3 DEF Breaks, Blank, Paren
  <2>5. \A k \in i + 1..e - 1 : k \in i..e - 1
    BY <1>2
  <2>6. i \in i..e - 1
    BY <1>2
  <2>7. e <= Len(runes) => ~Quoted(runes, e) /\ (Blank(runes, e) \/ Paren(runes, e))
    BY <1>6, <2>2 DEF Breaks, Blank, Paren
  <2>8. type = "unclosed" <=> Quoted(runes, e)
    BY <2>1, <1>6, KindOfIs
  <2>9. type # "unclosed" => KindIs(text, type)
    BY <2>1, <1>4, <1>8, KindOfIs
  <2> QED BY <1>1, <2>4, <2>5, <2>6, <2>7, <2>8, <2>9 DEF Lexed, text
<1> QED BY <1>7, <1>8

Blanks(runes) == {k \in 1..Len(runes) : Blank(runes, k)}

\* The spans of the tokens cover all but the blanks, each as it is lexed.
LexedAll(runes, s) ==
  /\ Tiles(s, 1, Len(runes) + 1, Blanks(runes))
  /\ \A m \in 1..Len(s) :
       /\ s[m].first \in 1..Len(runes) /\ s[m].end \in s[m].first + 1..Len(runes) + 1
       /\ ~Quoted(runes, s[m].first)
       /\ Lexed(runes, s[m].first, s[m].end, s[m].type)

(* The loop of the lexer.                                                  *)
LEMMA LexSpansAre ==
    ASSUME NEW runes \in Seq(Runes)
    PROVE  LexedAll(runes, LexSpans(runes))
<1> DEFINE n == Len(runes)
           skip == Places(runes, Spaces)
           next == [i \in 1..n |-> <<LexSpan(runes, i)>>]
           reach == {k \in 1..n + 1 : k = n + 1 \/ ~Quoted(runes, k)}
           blanks == Blanks(runes)
           s == Scan(1, n + 1, skip, next)
<1>1. n \in Nat
  OBVIOUS
<1>2. ASSUME NEW i \in 1..n, i \notin skip
      PROVE  runes[i] \notin Spaces
  BY <1>2 DEF Places
<1>3. ASSUME NEW i \in 1..n, NEW e \in i + 1..n + 1, NEW type \in SpanTypes,
             LexSpan(runes, i) = Span(i, e, type)
      PROVE  /\ next[i] = <<Span(i, e, type)>> /\ next[i] \in Seq(Spans)
             /\ Behind(next, i) = e /\ Tiles(next[i], i, e, {})
  <2>1. next[i] = <<Span(i, e, type)>>
    BY <1>3
  <2>2. i \in Nat /\ e \in Nat /\ i < e
    BY <1>1
  <2>3. Behind(next, i) = e
    <3> HIDE DEF next
    <3>1. Len(next[i]) = 1 /\ next[i][1] = Span(i, e, type)
      BY <2>1
    <3> QED BY <3>1 DEF Behind, Span
  <2> HIDE DEF next
  <2> QED BY <2>1, <2>2, <2>3, OneSpan
<1>4. Moves(1, n + 1, skip, next)
  <2>1. ASSUME NEW i \in 1..(n + 1) - 1, i \notin skip
        PROVE  next[i] \in Seq(Spans) /\ Behind(next, i) \in i + 1..n + 1
    <3>1. i \in 1..n
      BY <1>1
    <3>2. PICK e \in i + 1..n + 1, type \in SpanTypes : LexSpan(runes, i) = Span(i, e, type)
      BY <3>1, <2>1, <1>2, LexSpanMoves
    <3> HIDE DEF next, skip, n
    <3> QED BY <3>1, <3>2, <1>3
  <2> HIDE DEF next, skip, n
  <2> QED BY <2>1, <1>1 DEF Moves
<1>5. ASSUME NEW i \in reach, i < n + 1
      PROVE  /\ i \in 1..n /\ ~Quoted(runes, i)
             /\ i \in skip => i \in blanks /\ i + 1 \in reach
             /\ i \notin skip => /\ Tiles(next[i], i, Behind(next, i), blanks)
                                /\ Behind(next, i) \in reach
  <2>1. i \in 1..n /\ ~Quoted(runes, i) /\ i \in Nat /\ 1 <= i
    BY <1>1, <1>5
  <2>2. ASSUME i \in skip
        PROVE  i \in blanks /\ i + 1 \in reach
    <3>1. runes[i] \in Spaces
      BY <2>2 DEF Places
    <3>2. i \in blanks
      BY <2>1, <3>1 DEF Blanks, Blank
    <3>3. runes[i] # Quote
      BY <3>1, LexerAssumption
    <3>4. ~Quoted(runes, i + 1)
      BY <2>1, <3>3, QuotedNext
    <3>5. i + 1 \in 1..n + 1
      BY <1>1, <2>1
    <3> QED BY <3>2, <3>4, <3>5
  <2>3. ASSUME i \notin skip
        PROVE  /\ Tiles(next[i], i, Behind(next, i), blanks)
               /\ Behind(next, i) \in reach
    <3>1. PICK e \in i + 1..n + 1, type \in SpanTypes : Lexed(runes, i, e, type)
      BY <2>1, <2>3, <1>2, LexSpanIs
    <3>2. /\ Behind(next, i) = e /\ Tiles(next[i], i, e, {})
      <4>1. LexSpan(runes, i) = Span(i, e, type)
        BY <3>1 DEF Lexed
      <4> HIDE DEF next, n
      <4> QED BY <4>1, <2>1, <1>3
    <3>3. \A k \in i..e - 1 : k \notin blanks
      BY <3>1 DEF Lexed, Blanks
    <3>4. e \in 1..n + 1 /\ (e = n + 1 \/ e <= n)
      BY <1>1, <2>1
    <3>5. e \in reach
      BY <3>1, <3>4 DEF Lexed
    <3> HIDE DEF next, blanks, reach
    <3> QED BY <3>2, <3>3, <3>5, TilesAll
  <2> QED BY <2>1, <2>2, <2>3
<1>6. reach \subseteq 1..n + 1 /\ 1 \in reach
  <2>1. 1 \in 1..n + 1 /\ ~Quoted(runes, 1)
    BY <1>1, QuoteStays DEF Quoted
  <2> QED BY <2>1
<1>7. Leads(reach, 1, n + 1, skip, next, blanks)
  <2> HIDE DEF reach, n, skip, next, blanks
  <2> QED BY <1>5, <1>6 DEF Leads
<1>8. Tiles(s, 1, n + 1, blanks) /\ Sources(s, reach, n + 1, skip, next)
  <2> HIDE DEF reach, n, skip, next, blanks
  <2> QED BY <1>4, <1>7, ScanLeads
<1>9. LexSpans(runes) = s
  BY DEF LexSpans
<1> HIDE DEF s
<1>10. ASSUME NEW m \in 1..Len(s)
       PROVE  /\ s[m].first \in 1..n /\ s[m].end \in s[m].first + 1..n + 1
              /\ ~Quoted(runes, s[m].first)
              /\ Lexed(runes, s[m].first, s[m].end, s[m].type)
  <2>1. PICK i \in reach : i < n + 1 /\ i \notin skip /\ \E k \in 1..Len(next[i]) : s[m] = next[i][k]
    <3> HIDE DEF reach, n, skip, next, blanks
    <3> QED BY <1>8, Zenon DEF Sources
  <2>2. i \in 1..n /\ ~Quoted(runes, i)
    <3> HIDE DEF reach, n, skip, next, blanks
    <3> QED BY <1>5, <2>1
  <2>3. PICK e \in i + 1..n + 1, type \in SpanTypes : Lexed(runes, i, e, type)
    BY <2>1, <2>2, <1>2, LexSpanIs
  <2>4. next[i] = <<Span(i, e, type)>>
    <3>1. LexSpan(runes, i) = Span(i, e, type)
      BY <2>3 DEF Lexed
    <3> HIDE DEF next, n
    <3> QED BY <3>1, <2>2, <1>3
  <2> HIDE DEF next, n, reach, skip
  <2>5. s[m] = Span(i, e, type)
    <3>1. Len(next[i]) = 1 /\ next[i][1] = Span(i, e, type)
      BY <2>4
    <3> QED BY <2>1, <3>1
  <2>6. s[m].first = i /\ s[m].end = e /\ s[m].type = type
    BY <2>5 DEF Span
  <2> QED BY <2>2, <2>3, <2>6
<1> QED BY <1>8, <1>9, <1>10 DEF LexedAll

\* The first m numbers.
FirstOf(f, m) == {f[j] : j \in 1..m}

(* Numbers that rise are counted by their places.                           *)
LEMMA RisingCount ==
    ASSUME NEW L \in Nat, NEW f, \A m \in 1..L : f[m] \in Nat,
           \A j, m \in 1..L : j < m => f[j] < f[m]
    PROVE  /\ \A m \in 0..L : /\ IsFiniteSet(FirstOf(f, m))
                              /\ Cardinality(FirstOf(f, m)) = m
           /\ \A m \in 1..L : Cardinality({k \in FirstOf(f, L) : k <= f[m]}) = m
<1> DEFINE U(m) == FirstOf(f, m)
           S == {m \in Nat : m <= L => IsFiniteSet(U(m)) /\ Cardinality(U(m)) = m}
<1>1. 0 \in S
  <2>1. U(0) = {}
    BY DEF FirstOf
  <2> HIDE DEF U
  <2> QED BY <2>1, FS_EmptySet
<1>2. ASSUME NEW m \in S
      PROVE  m + 1 \in S
  <2> SUFFICES ASSUME m + 1 <= L PROVE IsFiniteSet(U(m + 1)) /\ Cardinality(U(m + 1)) = m + 1
    OBVIOUS
  <2>1. m \in Nat /\ IsFiniteSet(U(m)) /\ Cardinality(U(m)) = m
    OBVIOUS
  <2>2. \A j : j \in 1..m + 1 <=> j \in 1..m \/ j = m + 1
    BY <2>1
  <2>3. U(m + 1) = U(m) \cup {f[m + 1]}
    BY <2>2 DEF FirstOf
  <2>4. \A j \in 1..m : f[j] < f[m + 1] /\ f[j] \in Nat
    BY <2>1
  <2>5. f[m + 1] \notin U(m)
    BY <2>4 DEF FirstOf
  <2> HIDE DEF U, S
  <2>6. /\ IsFiniteSet(U(m) \cup {f[m + 1]})
        /\ Cardinality(U(m) \cup {f[m + 1]}) = IF f[m + 1] \in U(m) THEN Cardinality(U(m)) ELSE Cardinality(U(m)) + 1
    BY <2>1, FS_AddElement, Zenon
  <2> QED BY <2>1, <2>3, <2>5, <2>6
<1>3. S = Nat
  <2>1. S \in SUBSET Nat
    OBVIOUS
  <2> HIDE DEF S
  <2> QED BY <1>1, <1>2, <2>1, NumberInduction
<1>4. \A m \in 0..L : m \in S /\ m <= L
  BY <1>3
<1>5. ASSUME NEW m \in 1..L
      PROVE  {k \in U(L) : k <= f[m]} = U(m)
  <2>1. \A j \in 1..L : f[j] <= f[m] <=> j <= m
    <3> SUFFICES ASSUME NEW j \in 1..L PROVE f[j] <= f[m] <=> j <= m
      OBVIOUS
    <3>1. f[j] \in Nat /\ f[m] \in Nat
      OBVIOUS
    <3>2. j < m \/ j = m \/ m < j
      OBVIOUS
    <3>3. j < m => f[j] < f[m]
      OBVIOUS
    <3>4. m < j => f[m] < f[j]
      OBVIOUS
    <3> QED BY <3>1, <3>2, <3>3, <3>4
  <2>2. \A j : j \in 1..m <=> j \in 1..L /\ j <= m
    OBVIOUS
  <2> QED BY <2>1, <2>2 DEF FirstOf
<1>6. \A m \in 1..L : m \in 0..L
  OBVIOUS
<1> QED BY <1>4, <1>5, <1>6

Begins(runes) ==
  {k \in 1..Len(runes) :
     ~Blank(runes, k) /\ (k = 1 \/ Paren(runes, k) \/ Blank(runes, k - 1) \/ Paren(runes, k - 1))}

(* Tokens begin where their spans do, and nowhere else.                    *)
LEMMA TokensBegin ==
    ASSUME NEW runes \in Seq(Runes), NEW s, LexedAll(runes, s)
    PROVE  /\ Begins(runes) = {s[m].first : m \in 1..Len(s)}
           /\ \A m \in 1..Len(s) : \A k \in s[m].first + 1..s[m].end - 1 : k \notin Begins(runes)
<1> DEFINE n == Len(runes)
           L == Len(s)
<1>1. n \in Nat
  OBVIOUS
<1>2. /\ \A j, m \in 1..L : j < m => s[j].end <= s[m].first
      /\ \A k \in 1..n : (k \notin Blanks(runes)) <=> \E m \in 1..L : s[m].first <= k /\ k < s[m].end
  <2>1. \A k \in 1..n : k \in 1..(n + 1) - 1
    BY <1>1
  <2> QED BY <2>1 DEF LexedAll, Tiles
<1>3. \A m \in 1..L : /\ s[m].first \in 1..n /\ s[m].end \in s[m].first + 1..n + 1
                      /\ ~Quoted(runes, s[m].first)
                      /\ Lexed(runes, s[m].first, s[m].end, s[m].type)
  BY DEF LexedAll
<1>4. \A k \in 1..n : (k \in Blanks(runes)) <=> Blank(runes, k)
  BY DEF Blanks
<1> HIDE DEF n, L
<1>5. ASSUME NEW m \in 1..L, NEW k \in s[m].first + 1..s[m].end - 1
      PROVE  k \notin Begins(runes)
  <2> DEFINE i == s[m].first
             e == s[m].end
  <2>1. i \in 1..n /\ e \in i + 1..n + 1 /\ Lexed(runes, i, e, s[m].type)
    BY <1>3
  <2>2. k \in i + 1..e - 1
    OBVIOUS
  <2> HIDE DEF i, e
  <2>3. k # 1 /\ k \in Int /\ k - 1 \in i..e - 1 /\ (k - 1 = i \/ k - 1 \in i + 1..e - 1) /\ e # i + 1
    BY <2>1, <2>2, <1>1
  <2>4. ~Paren(runes, k) /\ ~Blank(runes, k - 1) /\ ~Paren(runes, k - 1)
    BY <2>1, <2>2, <2>3 DEF Lexed
  <2> QED BY <2>3, <2>4 DEF Begins
<1>6. ASSUME NEW k \in Begins(runes)
      PROVE  \E m \in 1..L : k = s[m].first
  <2>1. k \in 1..n /\ ~Blank(runes, k)
    BY DEF Begins, n
  <2>2. PICK m \in 1..L : s[m].first <= k /\ k < s[m].end
    BY <2>1, <1>2, <1>4
  <2>3. k \notin s[m].first + 1..s[m].end - 1
    BY <1>5
  <2>4. s[m].first \in Int /\ s[m].end \in Int
    BY <1>3, <1>1
  <2> DEFINE i == s[m].first
             e == s[m].end
  <2>5. i \in Int /\ e \in Int /\ i <= k /\ k < e /\ k \notin i + 1..e - 1 /\ k \in Int
    BY <2>1, <2>2, <2>3, <2>4, <1>1
  <2> HIDE DEF i, e
  <2>6. k = i
    BY <2>5
  <2> QED BY <2>6 DEF i
<1>7. ASSUME NEW m \in 1..L
      PROVE  s[m].first \in Begins(runes)
  <2> DEFINE k == s[m].first
  <2>1. k \in 1..n /\ ~Blank(runes, k) /\ s[m].end \in k + 1..n + 1
    <3>1. k \in 1..n /\ s[m].end \in k + 1..n + 1 /\ Lexed(runes, k, s[m].end, s[m].type)
      BY <1>3
    <3> HIDE DEF k
    <3>2. k \in k..s[m].end - 1
      BY <3>1, <1>1
    <3> QED BY <3>1, <3>2 DEF Lexed
  <2>2. k < s[m].end
    <3> HIDE DEF k
    <3> QED BY <2>1, <1>1
  <2>3. ASSUME k # 1, ~Paren(runes, k), ~Blank(runes, k - 1)
        PROVE  Paren(runes, k - 1)
    <3> HIDE DEF k
    <3>1. k - 1 \in 1..n /\ k \in Int
      BY <2>1, <2>3, <1>1
    <3>2. PICK j \in 1..L : s[j].first <= k - 1 /\ k - 1 < s[j].end
      BY <3>1, <2>3, <1>2, <1>4
    <3> DEFINE i == s[j].first
               e == s[j].end
    <3>3. i \in 1..n /\ e \in i + 1..n + 1 /\ Lexed(runes, i, e, s[j].type)
      BY <1>3
    <3>4. i <= k - 1 /\ k - 1 < e
      BY <3>2
    <3>5. j < m
      <4>1. m < j => s[m].end <= i
        BY <1>2
      <4>2. j # m
        BY <3>4, <3>1 DEF k
      <4>3. s[m].end \in Int /\ m \in Int /\ j \in Int
        BY <2>1, <1>1
      <4> HIDE DEF i, e
      <4>4. i \in Int
        BY <3>3
      <4> QED BY <4>1, <4>2, <4>3, <4>4, <3>1, <3>4, <2>2
    <3>6. e <= k
      BY <3>5, <1>2 DEF k
    <3> HIDE DEF i, e
    <3>7. e = k /\ e <= n /\ i \in Int
      BY <3>1, <3>3, <3>4, <3>6, <2>1, <1>1
    <3>8. Paren(runes, i)
      BY <3>3, <3>7, <2>1, <2>3 DEF Lexed, n
    <3>9. e = i + 1
      BY <3>3, <3>8 DEF Lexed
    <3>10. i = k - 1
      BY <3>7, <3>9, <3>1
    <3> QED BY <3>8, <3>10
  <2> HIDE DEF k
  <2>4. k \in Begins(runes)
    BY <2>1, <2>3 DEF Begins, n
  <2> QED BY <2>4 DEF k
<1>8. Begins(runes) = {s[m].first : m \in 1..L}
  BY <1>6, <1>7
<1> QED BY <1>5, <1>8 DEF L

(* What the tokens of the expression hold.                                 *)
LEMMA LexIs ==
    ASSUME NEW runes \in Seq(Runes)
    PROVE  \E s : /\ LexedAll(runes, s) /\ s \in Seq(Spans) /\ Len(Lex(runes)) = Len(s)
                 /\ \A m \in 1..Len(s) :
                      Lex(runes)[m] = Token(s[m].type, SubSeq(runes, s[m].first, s[m].end - 1))
<1> DEFINE s == LexSpans(runes)
<1>1. LexedAll(runes, s)
  BY LexSpansAre
<1>2. s \in Seq(Spans)
  BY <1>1 DEF LexedAll, Tiles
<1>3. Lex(runes) = [k \in 1..Len(s) |-> Token(s[k].type, SubSeq(runes, s[k].first, s[k].end - 1))]
  BY DEF Lex
<1> HIDE DEF s
<1>4. Len(s) \in Nat
  BY <1>2
<1>5. Len(Lex(runes)) = Len(s)
  BY <1>3, <1>4
<1> QED BY <1>1, <1>2, <1>3, <1>5

(* An expression is refused exactly if a quote is open at its end.         *)
LEMMA RefusedIs ==
    ASSUME NEW runes \in Seq(Runes), NEW s, LexedAll(runes, s)
    PROVE  (\E m \in 1..Len(s) : s[m].type = "unclosed") <=> Quoted(runes, Len(runes) + 1)
<1> DEFINE n == Len(runes)
           L == Len(s)
<1>1. n \in Nat
  OBVIOUS
<1>2. \A k \in 1..n : (k \notin Blanks(runes)) <=> \E m \in 1..L : s[m].first <= k /\ k < s[m].end
  <2>1. \A k \in 1..n : k \in 1..(n + 1) - 1
    BY <1>1
  <2> QED BY <2>1 DEF LexedAll, Tiles
<1>3. \A m \in 1..L : /\ s[m].end \in s[m].first + 1..n + 1 /\ s[m].first \in 1..n
                      /\ Lexed(runes, s[m].first, s[m].end, s[m].type)
  BY DEF LexedAll
<1> HIDE DEF L
<1>4. ASSUME NEW m \in 1..L, s[m].type = "unclosed"
      PROVE  Quoted(runes, n + 1)
  <2>1. Quoted(runes, s[m].end) /\ ~(s[m].end <= n)
    BY <1>3, <1>4 DEF Lexed
  <2>2. s[m].end = n + 1
    <3> HIDE DEF n
    <3> QED BY <2>1, <1>1, <1>3
  <2> QED BY <2>1, <2>2
<1>5. ASSUME \A m \in 1..L : s[m].type # "unclosed"
      PROVE  ~Quoted(runes, n + 1)
  <2>1. CASE n = 0
    BY <2>1, QuoteStays DEF Quoted
  <2>2. CASE n # 0 /\ n \in Blanks(runes)
    <3>1. n \in Nat /\ 1 <= n
      BY <1>1, <2>2
    <3>2. runes[n] \in Spaces /\ ~Quoted(runes, n)
      BY <2>2 DEF Blanks, Blank
    <3>3. runes[n] # Quote
      BY <3>2, LexerAssumption
    <3> HIDE DEF n
    <3> QED BY <3>1, <3>2, <3>3, QuotedNext
  <2>3. CASE n # 0 /\ n \notin Blanks(runes)
    <3>1. n \in 1..n
      BY <1>1, <2>3
    <3>2. PICK m \in 1..L : s[m].first <= n /\ n < s[m].end
      BY <3>1, <2>3, <1>2
    <3>3. ~Quoted(runes, s[m].end)
      BY <1>3, <1>5 DEF Lexed
    <3>4. s[m].end = n + 1
      <4> HIDE DEF n
      <4> QED BY <1>1, <1>3, <3>2
    <3> QED BY <3>3, <3>4
  <2> QED BY <2>1, <2>2, <2>3
<1> QED BY <1>4, <1>5 DEF L

(* An expression is cut exactly at the spaces and parentheses outside       *)
(* quotes, and refused exactly if a quote stays open, whatever it is (lex).*)
THEOREM LexingIsExactForAnyText ==
    ASSUME NEW runes \in Seq(Runes)
    PROVE  LexCutsOutsideQuotes(runes)
<1> DEFINE tokens == Lex(runes)
           n == Len(runes)
           begins == Begins(runes)
           number(k) == Cardinality({j \in begins : j <= k})
<1>1. PICK s : /\ LexedAll(runes, s) /\ s \in Seq(Spans) /\ Len(tokens) = Len(s)
               /\ \A m \in 1..Len(s) :
                    tokens[m] = Token(s[m].type, SubSeq(runes, s[m].first, s[m].end - 1))
  BY LexIs
<1> HIDE DEF tokens
<1> DEFINE L == Len(s)
           text(m) == SubSeq(runes, s[m].first, s[m].end - 1)
<1>2. L \in Nat /\ n \in Nat
  BY <1>1
<1>3. \A m \in 1..L : /\ s[m].first \in 1..n /\ s[m].end \in s[m].first + 1..n + 1
                      /\ Lexed(runes, s[m].first, s[m].end, s[m].type)
  BY <1>1 DEF LexedAll
<1>4. \A m \in 1..L : tokens[m].kind = s[m].type /\ tokens[m].text = text(m)
  <2> SUFFICES ASSUME NEW m \in 1..L PROVE tokens[m].kind = s[m].type /\ tokens[m].text = text(m)
    OBVIOUS
  <2>1. tokens[m] = Token(s[m].type, text(m))
    BY <1>1
  <2> HIDE DEF text
  <2> QED BY <2>1 DEF Token
<1>5. Refused(tokens) <=> Quoted(runes, n + 1)
  <2>1. (\E m \in 1..Len(s) : s[m].type = "unclosed") <=> Quoted(runes, n + 1)
    BY <1>1, RefusedIs
  <2> QED BY <1>1, <1>4, <2>1 DEF Refused
<1>6. /\ begins = {s[m].first : m \in 1..L}
      /\ \A m \in 1..L : \A k \in s[m].first + 1..s[m].end - 1 : k \notin begins
  BY <1>1, TokensBegin
<1> HIDE DEF begins
<1>7. L = Cardinality(begins) /\ \A m \in 1..L : number(s[m].first) = m
  <2> DEFINE f == [m \in 1..L |-> s[m].first]
  <2>1. \A m \in 1..L : f[m] = s[m].first /\ f[m] \in Nat
    BY <1>3
  <2>2. ASSUME NEW j \in 1..L, NEW m \in 1..L, j < m
        PROVE  s[j].first < s[m].first
    <3>1. s[j].end <= s[m].first
      BY <1>1, <2>2 DEF LexedAll, Tiles
    <3>2. s[j].first \in Nat /\ s[j].end \in s[j].first + 1..n + 1 /\ s[m].first \in Nat
      BY <1>3
    <3> DEFINE a == s[j].first
               b == s[j].end
               c == s[m].first
    <3>3. a \in Nat /\ b \in a + 1..n + 1 /\ c \in Nat
      BY <3>2
    <3>4. b <= c
      BY <3>1
    <3>5. a < c
      <4> HIDE DEF a, b, c, n
      <4> QED BY <3>3, <3>4, <1>2
    <3> QED BY <3>5
  <2>3. \A j, m \in 1..L : j < m => f[j] < f[m]
    BY <2>2
  <2>4. begins = FirstOf(f, L)
    BY <1>6 DEF FirstOf
  <2> HIDE DEF f, L
  <2>5. Cardinality(FirstOf(f, L)) = L
    <3>1. L \in 0..L
      BY <1>2
    <3>2. \A m \in 0..L : Cardinality(FirstOf(f, m)) = m
      BY <1>2, <2>1, <2>3, RisingCount
    <3> QED BY <3>1, <3>2
  <2>6. \A m \in 1..L : Cardinality({k \in FirstOf(f, L) : k <= f[m]}) = m
    BY <1>2, <2>1, <2>3, RisingCount
  <2> QED BY <2>1, <2>4, <2>5, <2>6
<1> HIDE DEF number
<1>8. ASSUME ~Refused(tokens), NEW k \in begins
      PROVE  \E e \in k + 1..n + 1 :
               /\ tokens[number(k)].text = SubSeq(runes, k, e - 1)
               /\ \A j \in k + 1..e - 1 : ~Blank(runes, j) /\ j \notin begins
               /\ e <= n => Blank(runes, e) \/ e \in begins
               /\ KindIs(tokens[number(k)].text, tokens[number(k)].kind)
  <2>1. PICK m \in 1..L : k = s[m].first
    BY <1>6
  <2> DEFINE e == s[m].end
  <2>2. e \in k + 1..n + 1 /\ k \in 1..n /\ Lexed(runes, k, e, s[m].type)
    BY <1>3, <2>1
  <2>3. number(k) = m
    BY <1>7, <2>1
  <2>4. tokens[m].text = SubSeq(runes, k, e - 1) /\ tokens[m].kind = s[m].type
    BY <1>4, <2>1
  <2>5. \A j \in k + 1..e - 1 : j \notin begins
    BY <1>6, <2>1
  <2> HIDE DEF e
  <2>6. \A j \in k + 1..e - 1 : j \in k..e - 1
    BY <1>2, <2>2
  <2>7. \A j \in k + 1..e - 1 : ~Blank(runes, j)
    BY <2>2, <2>6 DEF Lexed
  <2>8. ASSUME e <= n, ~Blank(runes, e)
        PROVE  e \in begins
    <3>1. e \in 1..n
      <4> HIDE DEF n
      <4> QED BY <1>2, <2>2, <2>8
    <3>2. Paren(runes, k) \/ Paren(runes, e)
      BY <2>2, <2>8 DEF Lexed
    <3>3. Paren(runes, k) => e = k + 1
      BY <2>2 DEF Lexed
    <3>4. e = k + 1 => e - 1 = k
      <4> HIDE DEF n
      <4> QED BY <1>2, <2>2
    <3> QED BY <3>1, <3>2, <3>3, <3>4, <2>8 DEF begins, Begins
  <2>9. KindIs(tokens[m].text, tokens[m].kind)
    <3>1. tokens[m].kind # "unclosed"
      BY <1>1, <1>8 DEF Refused
    <3> QED BY <3>1, <2>2, <2>4 DEF Lexed
  <2> QED BY <2>2, <2>3, <2>4, <2>5, <2>7, <2>8, <2>9
<1>9. ~Refused(tokens) => Len(tokens) = Cardinality(begins)
  BY <1>1, <1>7
<1> QED BY <1>5, <1>8, <1>9
     DEF LexCutsOutsideQuotes, tokens, begins, Begins, number, Blank, Paren, KindIs

-----------------------------------------------------------------------------
(* Reading queries.                                                         *)

\* A round of the loop of parseAnd or parseOr, and whether the loop has ended.
Round(b, f, tokens, left) ==
  IF b = "all" THEN AndRound(f, tokens, left) ELSE OrRound(f, tokens, left)

Joining(b) == IF b = "all" THEN {"AND"} ELSE {"OR", "atom", "(", "NOT"}

Over(b, tokens, r) == r.query = Invalid \/ KindAt(tokens, r.index) \notin Joining(b)

\* Where the loop reads on, what it reads there and what it makes of it.
JoinedAt(b, tokens, left) ==
  IF b = "all" \/ KindAt(tokens, left.index) = "OR" THEN left.index + 1 ELSE left.index

ReadNext(b, x, tokens) == IF b = "all" THEN x.unary ELSE x.all[Len(tokens)]

JoinOf(b, left, right) ==
  IF right.query = Invalid THEN right
  ELSE IF b = "all" THEN Read(Boolean(<<left.query, right.query>>, <<>>, <<>>), right.index)
  ELSE Read(Boolean(<<>>, <<left.query, right.query>>, <<>>), right.index)

(* A round reads on unless the loop is over.                                *)
LEMMA RoundJoins ==
    ASSUME NEW b \in {"all", "any"}, NEW f, NEW tokens, NEW left
    PROVE  Round(b, f, tokens, left) =
             IF Over(b, tokens, left) THEN left
             ELSE JoinOf(b, left, ReadNext(b, f[JoinedAt(b, tokens, left)], tokens))
<1>1. CASE b = "all"
  BY <1>1 DEF Round, Over, Joining, JoinOf, ReadNext, JoinedAt, AndRound
<1>2. CASE b = "any"
  <2>1. b # "all"
    BY <1>2
  <2> QED BY <1>2, <2>1 DEF Round, Over, Joining, JoinOf, ReadNext, JoinedAt, OrRound
<1> QED BY <1>1, <1>2

RoundsOf(g, b, f, tokens, a) ==
  g = [k \in 0..Len(tokens) |-> IF k = 0 THEN a ELSE Round(b, f, tokens, g[k - 1])]

(* The rounds of a loop can be run.                                         *)
LEMMA RoundsExist ==
    ASSUME NEW b \in {"all", "any"}, NEW f, NEW tokens, NEW a, Len(tokens) \in Nat
    PROVE  \E g : RoundsOf(g, b, f, tokens, a)
<1> DEFINE R(x) == Round(b, f, tokens, x)
           Q(g, n) == g = [k \in 0..n |-> IF k = 0 THEN a ELSE R(g[k - 1])]
           S == {n \in Nat : \E g : Q(g, n)}
<1> HIDE DEF R
<1>1. 0 \in S
  <2>1. Q([k \in 0..0 |-> a], 0)
    OBVIOUS
  <2> QED BY <2>1
<1>2. ASSUME NEW n \in S PROVE n + 1 \in S
  <2>1. PICK g : Q(g, n)
    OBVIOUS
  <2> DEFINE h == [k \in 0..n + 1 |-> IF k = n + 1 THEN R(g[n]) ELSE g[k]]
  <2>2. \A k \in 0..n : g[k] = IF k = 0 THEN a ELSE R(g[k - 1])
    BY <2>1
  <2>3. \A k \in 0..n + 1 : h[k] = IF k = 0 THEN a ELSE R(h[k - 1])
    <3> SUFFICES ASSUME NEW k \in 0..n + 1 PROVE h[k] = IF k = 0 THEN a ELSE R(h[k - 1])
      OBVIOUS
    <3>1. CASE k = n + 1
      <4>1. h[k] = R(g[n]) /\ h[k - 1] = g[n] /\ k # 0
        BY <3>1
      <4> QED BY <4>1
    <3>2. CASE k # n + 1
      <4>1. k \in 0..n /\ h[k] = g[k] /\ (k # 0 => h[k - 1] = g[k - 1])
        BY <3>2
      <4> QED BY <4>1, <2>2
    <3> QED BY <3>1, <3>2
  <2>4. h = [k \in 0..n + 1 |-> h[k]]
    OBVIOUS
  <2> HIDE DEF h
  <2>5. Q(h, n + 1)
    BY <2>3, <2>4
  <2>6. n + 1 \in Nat
    OBVIOUS
  <2> HIDE DEF Q
  <2> QED BY <2>5, <2>6
<1>3. S = Nat
  <2> HIDE DEF Q
  <2>1. S \in SUBSET Nat /\ 0 \in S /\ \A n \in S : n + 1 \in S
    BY <1>1, <1>2
  <2> HIDE DEF S
  <2> QED BY <2>1, NumberInduction
<1>4. \E g : Q(g, Len(tokens))
  BY <1>3
<1> QED BY <1>4 DEF RoundsOf, R

(* They run in one way.                                                     *)
LEMMA RoundsAreUnique ==
    ASSUME NEW b \in {"all", "any"}, NEW f, NEW tokens, NEW a, Len(tokens) \in Nat, NEW g, NEW h,
           RoundsOf(g, b, f, tokens, a), RoundsOf(h, b, f, tokens, a)
    PROVE  g = h
<1> DEFINE n == Len(tokens)
           R(x) == Round(b, f, tokens, x)
           S == {k \in Nat : k <= n => g[k] = h[k]}
<1>1. /\ g = [k \in 0..n |-> IF k = 0 THEN a ELSE R(g[k - 1])]
      /\ h = [k \in 0..n |-> IF k = 0 THEN a ELSE R(h[k - 1])]
  BY DEF RoundsOf
<1> HIDE DEF R, n
<1>n. n \in Nat
  BY DEF n
<1>2. /\ \A k \in 0..n : g[k] = IF k = 0 THEN a ELSE R(g[k - 1])
      /\ \A k \in 0..n : h[k] = IF k = 0 THEN a ELSE R(h[k - 1])
  BY <1>1
<1>3. 0 \in S
  BY <1>2, <1>n
<1>4. ASSUME NEW k \in S PROVE k + 1 \in S
  BY <1>2, <1>n
<1>5. S = Nat
  <2>1. S \in SUBSET Nat
    OBVIOUS
  <2> HIDE DEF S
  <2> QED BY <1>3, <1>4, <2>1, NumberInduction
<1>6. \A k \in 0..n : g[k] = h[k]
  BY <1>5, <1>n
<1> QED BY <1>1, <1>6

(* The loops of the parser are these rounds.                                *)
LEMMA LoopsAre ==
    ASSUME NEW f, NEW tokens, Len(tokens) \in Nat, NEW unary, NEW all
    PROVE  /\ RoundsOf(ParseAnd(f, tokens, unary), "all", f, tokens, unary)
           /\ RoundsOf(ParseOr(f, tokens, all), "any", f, tokens, all[Len(tokens)])
<1>1. /\ \E g : RoundsOf(g, "all", f, tokens, unary)
      /\ \E g : RoundsOf(g, "any", f, tokens, all[Len(tokens)])
  BY RoundsExist
<1>2. \E g : g = [k \in 0..Len(tokens) |-> IF k = 0 THEN unary ELSE AndRound(f, tokens, g[k - 1])]
  BY <1>1, Zenon DEF RoundsOf, Round
<1>3. \E g : g = [k \in 0..Len(tokens) |->
                   IF k = 0 THEN all[Len(tokens)] ELSE OrRound(f, tokens, g[k - 1])]
  BY <1>1, Zenon DEF RoundsOf, Round
<1>4. RoundsOf(ParseAnd(f, tokens, unary), "all", f, tokens, unary)
  <2> DEFINE p == ParseAnd(f, tokens, unary)
  <2>1. p = [k \in 0..Len(tokens) |-> IF k = 0 THEN unary ELSE AndRound(f, tokens, p[k - 1])]
    BY <1>2, Zenon DEF ParseAnd
  <2> QED BY <2>1, Zenon DEF RoundsOf, Round
<1>5. RoundsOf(ParseOr(f, tokens, all), "any", f, tokens, all[Len(tokens)])
  <2> DEFINE p == ParseOr(f, tokens, all)
  <2>1. p = [k \in 0..Len(tokens) |->
              IF k = 0 THEN all[Len(tokens)] ELSE OrRound(f, tokens, p[k - 1])]
    BY <1>3, Zenon DEF ParseOr
  <2> QED BY <2>1, Zenon DEF RoundsOf, Round
<1> QED BY <1>4, <1>5

\* What is read at a place, if anything, ends after it.
WellRead(r, i, n) == r.query # Invalid => r.index \in i + 1..n + 1

GoodReads(x, i, n) ==
  /\ WellRead(x.unary, i, n)
  /\ \A k \in 0..n : WellRead(x.all[k], i, n) /\ WellRead(x.any[k], i, n)

GoodAfter(f, i, n) == \A j \in i + 1..n + 1 : GoodReads(f[j], j, n)

(* A kind that the loops look for is that of a token.                       *)
LEMMA KindWithin ==
    ASSUME NEW tokens, NEW i, NEW n \in Nat, Len(tokens) = n, i \in 1..n + 1,
           KindAt(tokens, i) # "end"
    PROVE  i \in 1..n
BY DEF KindAt

(* What a round reads.                                                      *)
LEMMA RoundIs ==
    ASSUME NEW b \in {"all", "any"}, NEW f, NEW tokens, NEW n \in Nat, Len(tokens) = n, NEW i \in 1..n + 1,
           GoodAfter(f, i, n), NEW left, WellRead(left, i, n)
    PROVE  /\ Over(b, tokens, left) => Round(b, f, tokens, left) = left
           /\ WellRead(Round(b, f, tokens, left), i, n)
           /\ ~Over(b, tokens, left) /\ Round(b, f, tokens, left).query # Invalid =>
                Round(b, f, tokens, left).index > left.index
           /\ \A g : (\A j \in i + 1..n + 1 : g[j] = f[j]) =>
                Round(b, g, tokens, left) = Round(b, f, tokens, left)
<1>1. CASE Over(b, tokens, left)
  <2>1. \A g : Round(b, g, tokens, left) = left
    BY <1>1, RoundJoins
  <2> QED BY <2>1, <1>1
<1>2. CASE ~Over(b, tokens, left)
  <2> DEFINE m == left.index
             s == JoinedAt(b, tokens, left)
             right(g) == ReadNext(b, g[s], tokens)
             r == Round(b, f, tokens, left)
  <2>1. left.query # Invalid /\ KindAt(tokens, m) \in Joining(b)
    BY <1>2 DEF Over
  <2>2. m \in i + 1..n + 1 /\ KindAt(tokens, m) # "end"
    BY <2>1 DEF WellRead, Joining
  <2>3. m \in 1..n
    BY <2>2, KindWithin
  <2>4. s \in i + 1..n + 1 /\ s \in 1..n + 1 /\ s >= m
    BY <2>2, <2>3 DEF JoinedAt
  <2>5. \A g : Round(b, g, tokens, left) = JoinOf(b, left, right(g))
    BY <1>2, RoundJoins
  <2> HIDE DEF s
  <2>6. GoodReads(f[s], s, n)
    BY <2>4 DEF GoodAfter
  <2>7. WellRead(right(f), s, n)
    BY <2>6 DEF GoodReads, ReadNext
  <2>8. \A g : (\A j \in i + 1..n + 1 : g[j] = f[j]) => right(g) = right(f)
    BY <2>4
  <2> HIDE DEF right, m
  <2>9. right(f).query # Invalid => right(f).index \in s + 1..n + 1
    BY <2>7 DEF WellRead
  <2>10. right(f).query # Invalid => right(f).index \in m + 1..n + 1
    BY <2>4, <2>3, <2>9
  <2>11. r = JoinOf(b, left, right(f))
    BY <2>5
  <2>12. \A g : (\A j \in i + 1..n + 1 : g[j] = f[j]) => Round(b, g, tokens, left) = r
    BY <2>5, <2>8
  <2> HIDE DEF r
  <2>13. r.query # Invalid => right(f).query # Invalid /\ r.index = right(f).index
    BY <2>11 DEF JoinOf, Read
  <2>14. r.query # Invalid => r.index \in m + 1..n + 1 /\ m \in i + 1..n + 1 /\ m \in 1..n
    BY <2>10, <2>13, <2>2, <2>3
  <2>15. m = left.index
    BY DEF m
  <2>16. WellRead(r, i, n) /\ (r.query # Invalid => r.index > left.index)
    BY <2>14, <2>15 DEF WellRead
  <2> QED BY <2>12, <2>16, <1>2 DEF r
<1> QED BY <1>1, <1>2

\* A loop goes on to its end, where it stays.
Looped(g, b, f, tokens, a, i, n) ==
  /\ g[0] = a
  /\ \A k \in 1..n : g[k] = Round(b, f, tokens, g[k - 1])
  /\ \A k \in 0..n : WellRead(g[k], i, n)
  /\ Over(b, tokens, g[n])
  /\ \A k \in 0..n : Over(b, tokens, g[k]) => g[n] = g[k]

(* The loops of the parser do.                                              *)
LEMMA LoopIs ==
    ASSUME NEW b \in {"all", "any"}, NEW f, NEW tokens, NEW n \in Nat, Len(tokens) = n, NEW i \in 1..n + 1,
           GoodAfter(f, i, n), NEW a, WellRead(a, i, n), NEW g, RoundsOf(g, b, f, tokens, a)
    PROVE  Looped(g, b, f, tokens, a, i, n)
<1> DEFINE R(x) == Round(b, f, tokens, x)
           S == {k \in Nat : k <= n => /\ WellRead(g[k], i, n)
                                       /\ Over(b, tokens, g[k]) \/ g[k].index >= i + 1 + k}
<1>1. \A k \in 0..n : g[k] = IF k = 0 THEN a ELSE R(g[k - 1])
  BY DEF RoundsOf
<1> HIDE DEF R
<1>2. g[0] = a /\ \A k \in 1..n : g[k] = R(g[k - 1])
  BY <1>1
<1>3. \A x : WellRead(x, i, n) =>
        /\ Over(b, tokens, x) => R(x) = x
        /\ WellRead(R(x), i, n)
        /\ ~Over(b, tokens, x) /\ R(x).query # Invalid => R(x).index > x.index
  <2> SUFFICES ASSUME NEW x, WellRead(x, i, n)
               PROVE  /\ Over(b, tokens, x) => R(x) = x
                      /\ WellRead(R(x), i, n)
                      /\ ~Over(b, tokens, x) /\ R(x).query # Invalid => R(x).index > x.index
    OBVIOUS
  <2>1. Over(b, tokens, x) => Round(b, f, tokens, x) = x
    BY RoundJoins
  <2>2. WellRead(Round(b, f, tokens, x), i, n)
    BY RoundIs
  <2> QED BY <2>1, <2>2, RoundIs DEF R
<1>4. \A x : ~Over(b, tokens, x) => x.query # Invalid
  BY DEF Over
<1>5. 0 \in S
  <2>1. Over(b, tokens, g[0]) \/ g[0].index >= i + 1
    BY <1>2, <1>4 DEF WellRead
  <2> QED BY <1>2, <2>1
<1>6. ASSUME NEW k \in S PROVE k + 1 \in S
  <2> SUFFICES ASSUME k + 1 <= n PROVE k + 1 \in S
    OBVIOUS
  <2>1. WellRead(g[k], i, n) /\ (Over(b, tokens, g[k]) \/ g[k].index >= i + 1 + k)
    OBVIOUS
  <2>2. g[k + 1] = R(g[k])
    <3>1. k + 1 \in 1..n /\ k + 1 - 1 = k
      OBVIOUS
    <3> QED BY <3>1, <1>2
  <2>3. WellRead(g[k + 1], i, n)
    BY <2>1, <2>2, <1>3
  <2>4. Over(b, tokens, g[k + 1]) \/ g[k + 1].index >= i + 1 + (k + 1)
    <3>1. CASE Over(b, tokens, g[k])
      BY <3>1, <2>1, <2>2, <1>3
    <3>2. CASE ~Over(b, tokens, g[k]) /\ ~Over(b, tokens, g[k + 1])
      <4>1. g[k].query # Invalid /\ g[k + 1].query # Invalid
        BY <3>2, <1>4
      <4>2. g[k + 1].index > g[k].index
        BY <2>1, <2>2, <3>2, <4>1, <1>3
      <4>3. g[k].index \in Int /\ g[k + 1].index \in Int /\ g[k].index >= i + 1 + k
        BY <2>1, <2>3, <3>2, <4>1 DEF WellRead
      <4> QED BY <4>2, <4>3
    <3> QED BY <3>1, <3>2
  <2> QED BY <2>3, <2>4
<1>7. S = Nat
  <2>1. S \in SUBSET Nat
    OBVIOUS
  <2> HIDE DEF S
  <2> QED BY <1>5, <1>6, <2>1, NumberInduction
<1>8. \A k \in 0..n : WellRead(g[k], i, n) /\ (Over(b, tokens, g[k]) \/ g[k].index >= i + 1 + k)
  BY <1>7
<1>9. Over(b, tokens, g[n])
  <2>1. WellRead(g[n], i, n) /\ (Over(b, tokens, g[n]) \/ g[n].index >= i + 1 + n)
    BY <1>8
  <2>2. ~Over(b, tokens, g[n]) => g[n].query # Invalid
    BY <1>4
  <2> QED BY <2>1, <2>2 DEF WellRead
<1>10. ASSUME NEW k \in 0..n, Over(b, tokens, g[k]) PROVE g[n] = g[k]
  <2> DEFINE T == {m \in Nat : k + m <= n => g[k + m] = g[k]}
  <2>1. 0 \in T
    OBVIOUS
  <2>2. ASSUME NEW m \in T PROVE m + 1 \in T
    <3> SUFFICES ASSUME k + m + 1 <= n PROVE g[k + m + 1] = g[k]
      OBVIOUS
    <3>1. g[k + m] = g[k]
      OBVIOUS
    <3>2. k + m + 1 \in 1..n /\ k + m + 1 - 1 = k + m
      OBVIOUS
    <3>3. g[k + m + 1] = R(g[k + m])
      BY <3>2, <1>2
    <3>4. R(g[k]) = g[k]
      BY <1>10, <1>8, <1>3
    <3> QED BY <3>1, <3>3, <3>4
  <2>3. T = Nat
    <3>1. T \in SUBSET Nat
      OBVIOUS
    <3> HIDE DEF T
    <3> QED BY <2>1, <2>2, <3>1, NumberInduction
  <2>4. n - k \in Nat /\ k + (n - k) = n
    OBVIOUS
  <2>5. \A m \in Nat : k + m <= n => g[k + m] = g[k]
    BY <2>3
  <2> DEFINE d == n - k
  <2>6. d \in Nat /\ k + d = n
    BY <2>4
  <2> HIDE DEF d
  <2>7. g[k + d] = g[k]
    BY <2>5, <2>6
  <2> QED BY <2>6, <2>7
<1> QED BY <1>2, <1>8, <1>9, <1>10 DEF R, Looped

\* What is read at a place, given what is read after it.
ReadAt(f, tokens, d, i) ==
  LET unary == ParseUnary(f, tokens, i, d)
      all   == ParseAnd(f, tokens, unary)
  IN  [unary |-> unary, all |-> all, any |-> ParseOr(f, tokens, all)]

(* A query is read in one token or more.                                    *)
LEMMA UnaryIs ==
    ASSUME NEW f, NEW tokens, NEW d, NEW n \in Nat, Len(tokens) = n, NEW i \in 1..n + 1, GoodAfter(f, i, n)
    PROVE  /\ WellRead(ParseUnary(f, tokens, i, d), i, n)
           /\ \A g : (\A j \in i + 1..n + 1 : g[j] = f[j]) =>
                ParseUnary(g, tokens, i, d) = ParseUnary(f, tokens, i, d)
<1> DEFINE kd == KindAt(tokens, i)
           U(g) == ParseUnary(g, tokens, i, d)
           r == U(f)
<1>0. \A q, e : Read(q, e).query = q /\ Read(q, e).index = e
  BY DEF Read
<1>1. CASE kd = "NOT"
  <2> DEFINE child(g) == g[i + 1].unary
             not(c) == IF c.query = Invalid THEN c
                       ELSE Read(Boolean(<<>>, <<>>, <<c.query>>), c.index)
  <2>1. \A g : U(g) = not(child(g))
    BY <1>1 DEF ParseUnary
  <2>2. i \in 1..n
    BY <1>1, KindWithin
  <2>3. WellRead(child(f), i + 1, n)
    BY <2>2 DEF GoodAfter, GoodReads
  <2>4. \A g : (\A j \in i + 1..n + 1 : g[j] = f[j]) => child(g) = child(f)
    BY <2>2
  <2> HIDE DEF child, U, not
  <2>5. \A g : (\A j \in i + 1..n + 1 : g[j] = f[j]) => U(g) = U(f)
    BY <2>1, <2>4
  <2>6. child(f).query # Invalid => child(f).index \in i + 2..n + 1
    BY <2>3, <2>2 DEF WellRead
  <2>7. r.query # Invalid => child(f).query # Invalid /\ r.index = child(f).index
    BY <2>1, <1>0 DEF not
  <2>8. WellRead(r, i, n)
    BY <2>6, <2>7, <2>2 DEF WellRead
  <2> QED BY <2>5, <2>8 DEF U
<1>2. CASE kd = "("
  <2> DEFINE child(g) == g[i + 1].any[n]
  <2>1. \A g : U(g) = IF child(g).query = Invalid \/ KindAt(tokens, child(g).index) # ")"
                      THEN Read(Invalid, i) ELSE Read(child(g).query, child(g).index + 1)
    BY <1>2 DEF ParseUnary, ParsePrimary
  <2>2. i \in 1..n
    BY <1>2, KindWithin
  <2>3. WellRead(child(f), i + 1, n)
    BY <2>2 DEF GoodAfter, GoodReads
  <2>4. \A g : (\A j \in i + 1..n + 1 : g[j] = f[j]) => child(g) = child(f)
    BY <2>2
  <2> HIDE DEF child, U
  <2>5. \A g : (\A j \in i + 1..n + 1 : g[j] = f[j]) => U(g) = U(f)
    BY <2>1, <2>4
  <2>6. child(f).query # Invalid => child(f).index \in i + 2..n + 1
    BY <2>3, <2>2 DEF WellRead
  <2>7. r.query # Invalid => /\ child(f).query # Invalid /\ KindAt(tokens, child(f).index) = ")"
                             /\ r.index = child(f).index + 1
    BY <2>1, <1>0
  <2> DEFINE m == child(f).index
  <2>9. r.query # Invalid => m \in 1..n
    <3>1. r.query # Invalid => m \in 1..n + 1 /\ KindAt(tokens, m) # "end"
      BY <2>6, <2>7, <2>2
    <3> HIDE DEF m, r
    <3> QED BY <3>1, KindWithin
  <2> HIDE DEF r
  <2>8. WellRead(r, i, n)
    BY <2>6, <2>7, <2>9, <2>2 DEF WellRead
  <2> QED BY <2>5, <2>8 DEF U, r
<1>3. CASE kd = "atom"
  <2>1. \A g : U(g) = Read(AtomQuery(tokens[i].text, d), i + 1)
    BY <1>3 DEF ParseUnary, ParsePrimary
  <2>2. i \in 1..n
    BY <1>3, KindWithin
  <2> HIDE DEF U
  <2>3. r.index = i + 1
    BY <2>1, <1>0
  <2>4. WellRead(r, i, n)
    BY <2>2, <2>3 DEF WellRead
  <2> QED BY <2>1, <2>4 DEF U
<1>4. CASE kd \notin {"NOT", "(", "atom"}
  <2>1. \A g : U(g) = Read(Invalid, i)
    BY <1>4 DEF ParseUnary, ParsePrimary
  <2> HIDE DEF U
  <2>2. WellRead(r, i, n)
    BY <2>1, <1>0 DEF WellRead
  <2> QED BY <2>1, <2>2 DEF U
<1> QED BY <1>1, <1>2, <1>3, <1>4

(* What is read at a place depends on what is read after it.                *)
LEMMA LaterDecides ==
    ASSUME NEW f, NEW tokens, NEW d, NEW n \in Nat, Len(tokens) = n, NEW i \in 1..n + 1,
           GoodAfter(f, i, n)
    PROVE  /\ GoodReads(ReadAt(f, tokens, d, i), i, n)
           /\ \A g : (\A j \in i + 1..n + 1 : g[j] = f[j]) => ReadAt(g, tokens, d, i) = ReadAt(f, tokens, d, i)
<1> DEFINE u == ParseUnary(f, tokens, i, d)
           a == ParseAnd(f, tokens, u)
           o == ParseOr(f, tokens, a)
<1>1. WellRead(u, i, n)
  BY UnaryIs
<1> HIDE DEF u
<1>2. RoundsOf(a, "all", f, tokens, u)
  BY LoopsAre
<1>3. \A k \in 0..n : WellRead(a[k], i, n)
  <2> HIDE DEF a
  <2> QED BY <1>1, <1>2, LoopIs DEF Looped
<1> HIDE DEF a
<1>4. RoundsOf(o, "any", f, tokens, a[n])
  BY LoopsAre
<1>5. WellRead(a[n], i, n)
  BY <1>3
<1>6. \A k \in 0..n : WellRead(o[k], i, n)
  <2> HIDE DEF o
  <2> QED BY <1>4, <1>5, LoopIs DEF Looped
<1>7. ReadAt(f, tokens, d, i) = [unary |-> u, all |-> a, any |-> o]
  BY DEF ReadAt, u, a
<1>8. ASSUME NEW g, \A j \in i + 1..n + 1 : g[j] = f[j]
      PROVE  ReadAt(g, tokens, d, i) = ReadAt(f, tokens, d, i)
  <2> DEFINE u2 == ParseUnary(g, tokens, i, d)
             a2 == ParseAnd(g, tokens, u)
             o2 == ParseOr(g, tokens, a)
  <2>1. u2 = u
    BY <1>8, UnaryIs DEF u
  <2>2. ASSUME NEW b \in {"all", "any"}, NEW s, WellRead(s, i, n), NEW x, RoundsOf(x, b, f, tokens, s)
        PROVE  RoundsOf(x, b, g, tokens, s)
    <3>1. \A k \in 0..n : WellRead(x[k], i, n)
      BY <2>2, LoopIs DEF Looped
    <3>2. \A k \in 0..n : k # 0 => Round(b, g, tokens, x[k - 1]) = Round(b, f, tokens, x[k - 1])
      <4> SUFFICES ASSUME NEW k \in 0..n, k # 0
                   PROVE  Round(b, g, tokens, x[k - 1]) = Round(b, f, tokens, x[k - 1])
        OBVIOUS
      <4>1. WellRead(x[k - 1], i, n)
        BY <3>1
      <4> QED BY <4>1, <1>8, RoundIs
    <3>3. x = [k \in 0..n |-> IF k = 0 THEN s ELSE Round(b, f, tokens, x[k - 1])]
      BY <2>2 DEF RoundsOf
    <3>4. x = [k \in 0..n |-> IF k = 0 THEN s ELSE Round(b, g, tokens, x[k - 1])]
      BY <3>2, <3>3
    <3> QED BY <3>4 DEF RoundsOf
  <2>3. a2 = a
    <3>1. RoundsOf(a, "all", g, tokens, u)
      BY <2>2, <1>1, <1>2
    <3>2. RoundsOf(a2, "all", g, tokens, u)
      BY LoopsAre
    <3> HIDE DEF a2
    <3> QED BY <3>1, <3>2, RoundsAreUnique
  <2>4. o2 = o
    <3> HIDE DEF o, o2
    <3>1. RoundsOf(o, "any", g, tokens, a[n])
      BY <2>2, <1>4, <1>5
    <3>2. RoundsOf(o2, "any", g, tokens, a[n])
      BY LoopsAre DEF o2
    <3> QED BY <3>1, <3>2, RoundsAreUnique
  <2>5. ReadAt(g, tokens, d, i) = [unary |-> u2, all |-> ParseAnd(g, tokens, u2),
                                   any |-> ParseOr(g, tokens, ParseAnd(g, tokens, u2))]
    BY DEF ReadAt
  <2> HIDE DEF u2, o
  <2>6. ParseAnd(g, tokens, u2) = a
    BY <2>1, <2>3
  <2>7. ReadAt(g, tokens, d, i) = [unary |-> u, all |-> a, any |-> o]
    BY <2>5, <2>6, <2>1, <2>4
  <2> QED BY <2>7, <1>7
<1> HIDE DEF o
<1>9. GoodReads(ReadAt(f, tokens, d, i), i, n)
  BY <1>1, <1>3, <1>6, <1>7 DEF GoodReads
<1> QED BY <1>8, <1>9

\* What is read at the places from i on.
ReadFrom(f, i, tokens, d) ==
  \A j \in i..Len(tokens) + 1 : f[j] = ReadAt(f, tokens, d, j) /\ GoodReads(f[j], j, Len(tokens))

ReadsOf(f, tokens, d) == f = [i \in 1..Len(tokens) + 1 |-> ReadAt(f, tokens, d, i)]

(* A query can be read at every place.                                      *)
LEMMA ReadsExist ==
    ASSUME NEW tokens, NEW d, NEW n \in Nat, Len(tokens) = n
    PROVE  \E f : ReadsOf(f, tokens, d)
<1> DEFINE S == {m \in Nat : m <= n + 1 => \E f : ReadFrom(f, n + 2 - m, tokens, d)}
<1>1. 0 \in S
  <2>1. ReadFrom(0, n + 2 - 0, tokens, d)
    BY DEF ReadFrom
  <2> QED BY <2>1
<1>2. ASSUME NEW m \in S PROVE m + 1 \in S
  <2> SUFFICES ASSUME m + 1 <= n + 1 PROVE \E f : ReadFrom(f, n + 2 - (m + 1), tokens, d)
    OBVIOUS
  <2> DEFINE lo == n + 1 - m
  <2>1. m \in Nat /\ lo \in 1..n + 1 /\ n + 2 - m = lo + 1 /\ n + 2 - (m + 1) = lo
    OBVIOUS
  <2>2. PICK f : ReadFrom(f, lo + 1, tokens, d)
    BY <2>1
  <2> DEFINE h == [i \in lo..n + 1 |-> IF i = lo THEN ReadAt(f, tokens, d, lo) ELSE f[i]]
  <2> HIDE DEF lo
  <2>3. \A j \in lo + 1..n + 1 : f[j] = ReadAt(f, tokens, d, j) /\ GoodReads(f[j], j, n)
    BY <2>2 DEF ReadFrom
  <2>4. h[lo] = ReadAt(f, tokens, d, lo) /\ \A j \in lo + 1..n + 1 : h[j] = f[j]
    BY <2>1
  <2> HIDE DEF h
  <2>5. ASSUME NEW i \in lo..n + 1
        PROVE  h[i] = ReadAt(h, tokens, d, i) /\ GoodReads(h[i], i, n)
    <3>1. GoodAfter(f, i, n) /\ \A j \in i + 1..n + 1 : h[j] = f[j]
      BY <2>1, <2>3, <2>4 DEF GoodAfter
    <3>2. i \in 1..n + 1
      BY <2>1
    <3>3. ReadAt(h, tokens, d, i) = ReadAt(f, tokens, d, i) /\ GoodReads(ReadAt(f, tokens, d, i), i, n)
      BY <3>1, <3>2, LaterDecides
    <3>4. h[i] = ReadAt(f, tokens, d, i)
      BY <2>1, <2>3, <2>4
    <3> QED BY <3>3, <3>4
  <2>6. ReadFrom(h, lo, tokens, d)
    BY <2>5 DEF ReadFrom
  <2> QED BY <2>1, <2>6
<1>3. S = Nat
  <2>1. S \in SUBSET Nat
    OBVIOUS
  <2> HIDE DEF S
  <2> QED BY <1>1, <1>2, <2>1, NumberInduction
<1>4. PICK f : ReadFrom(f, 1, tokens, d)
  <2>1. n + 1 \in Nat /\ n + 2 - (n + 1) = 1
    OBVIOUS
  <2>2. n + 1 \in S
    BY <1>3, <2>1
  <2>3. \E f : ReadFrom(f, n + 2 - (n + 1), tokens, d)
    BY <2>2
  <2> QED BY <2>1, <2>3
<1> DEFINE h == [i \in 1..n + 1 |-> f[i]]
<1>5. \A i \in 1..n + 1 : f[i] = ReadAt(f, tokens, d, i) /\ GoodReads(f[i], i, n)
  BY <1>4 DEF ReadFrom
<1>6. \A i \in 1..n + 1 : h[i] = f[i]
  OBVIOUS
<1>7. \A i \in 1..n + 1 : f[i] = ReadAt(h, tokens, d, i)
  <2> SUFFICES ASSUME NEW i \in 1..n + 1 PROVE f[i] = ReadAt(h, tokens, d, i)
    OBVIOUS
  <2> HIDE DEF h
  <2>1. GoodAfter(f, i, n) /\ \A j \in i + 1..n + 1 : h[j] = f[j]
    BY <1>5, <1>6 DEF GoodAfter
  <2>2. ReadAt(h, tokens, d, i) = ReadAt(f, tokens, d, i)
    BY <2>1, LaterDecides
  <2> QED BY <2>2, <1>5
<1>8. h = [i \in 1..n + 1 |-> ReadAt(h, tokens, d, i)]
  BY <1>7
<1> HIDE DEF h
<1> QED BY <1>8 DEF ReadsOf

\* The equations of what is read, at each place and in each round.
ReadEquations(f, tokens, d) ==
  \A i \in 1..Len(tokens) + 1 :
    /\ f[i].unary = ParseUnary(f, tokens, i, d)
    /\ RoundsOf(f[i].all, "all", f, tokens, f[i].unary)
    /\ RoundsOf(f[i].any, "any", f, tokens, f[i].all[Len(tokens)])
    /\ GoodReads(f[i], i, Len(tokens))

(* The reads obey the equations of the parser.                              *)
LEMMA ReadsAre ==
    ASSUME NEW tokens, NEW d, NEW n \in Nat, Len(tokens) = n
    PROVE  ReadEquations(Reads(tokens, d), tokens, d)
<1> DEFINE f == Reads(tokens, d)
<1>1. \E g : ReadsOf(g, tokens, d)
  BY ReadsExist
<1>2. f = [i \in 1..Len(tokens) + 1 |-> ReadAt(f, tokens, d, i)]
  BY <1>1, Zenon DEF Reads, ReadAt, ReadsOf
<1> HIDE DEF f
<1>3. \A i \in 1..n + 1 : f[i] = ReadAt(f, tokens, d, i)
  BY <1>2
<1> DEFINE S == {i \in 1..n + 1 : GoodReads(f[i], i, n)}
           m == [i \in 1..n + 1 |-> n + 1 - i]
<1>4. 1..n + 1 \subseteq S
  <2>1. \A i \in 1..n + 1 : m[i] \in Nat
    OBVIOUS
  <2>2. ASSUME NEW i \in 1..n + 1, \A e \in 1..n + 1 : m[e] < m[i] => e \in S
        PROVE  i \in S
    <3>1. \A j \in i + 1..n + 1 : j \in 1..n + 1 /\ m[j] < m[i]
      OBVIOUS
    <3>2. GoodAfter(f, i, n)
      BY <2>2, <3>1 DEF GoodAfter
    <3>3. GoodReads(ReadAt(f, tokens, d, i), i, n)
      BY <3>2, LaterDecides
    <3> QED BY <3>3, <1>3
  <2> DEFINE D == 1..n + 1
  <2>3. \A i \in D : m[i] \in Nat
    BY <2>1
  <2>4. \A i \in D : (\A e \in D : m[e] < m[i] => e \in S) => i \in S
    BY <2>2
  <2> HIDE DEF S, m, D
  <2>5. D \subseteq S
    BY <2>3, <2>4, MeasureInduction
  <2> QED BY <2>5 DEF D
<1>5. ASSUME NEW i \in 1..n + 1
      PROVE  /\ f[i].unary = ParseUnary(f, tokens, i, d)
             /\ RoundsOf(f[i].all, "all", f, tokens, f[i].unary)
             /\ RoundsOf(f[i].any, "any", f, tokens, f[i].all[n])
             /\ GoodReads(f[i], i, n)
  <2> DEFINE u == ParseUnary(f, tokens, i, d)
             a == ParseAnd(f, tokens, u)
             o == ParseOr(f, tokens, a)
  <2>1. f[i] = [unary |-> u, all |-> a, any |-> o]
    BY <1>3 DEF ReadAt
  <2>2. RoundsOf(a, "all", f, tokens, u)
    BY LoopsAre
  <2> HIDE DEF a, u
  <2>3. RoundsOf(o, "any", f, tokens, a[n])
    BY LoopsAre
  <2> HIDE DEF o
  <2>4. f[i].unary = u /\ f[i].all = a /\ f[i].any = o
    BY <2>1
  <2> QED BY <2>2, <2>3, <2>4, <1>4 DEF u
<1> QED BY <1>5 DEF ReadEquations, f

\* All that is read at a place, and the tokens that a query takes somewhere.
ReadsAt(x, n) == {x.unary} \cup {x.all[k] : k \in 0..n} \cup {x.any[k] : k \in 0..n}

ReadsFrom(f, n, q, s) == \E i \in 1..n + 1 : \E r \in ReadsAt(f[i], n) : r.query = q /\ r.index = i + s

\* What a query is made of, if it takes s tokens.
Made(f, tokens, d, q, s) ==
  LET n == Len(tokens)
      part(c) == c # Invalid /\ \E t \in 1..s - 1 : ReadsFrom(f, n, c, t)
  IN  \/ \E i \in 1..n : KindAt(tokens, i) = "atom" /\ q = AtomQuery(tokens[i].text, d)
      \/ part(q)
      \/ \E c : part(c) /\ q = Boolean(<<>>, <<>>, <<c>>)
      \/ \E l, r : /\ part(l) /\ part(r)
                   /\ q \in {Boolean(<<l, r>>, <<>>, <<>>), Boolean(<<>>, <<l, r>>, <<>>)}

RoundsAt(b, x) == IF b = "all" THEN x.all ELSE x.any

(* A primary or its negation is made of what is read after its first token. *)
LEMMA UnaryIsMade ==
    ASSUME NEW f, NEW tokens, NEW d, NEW n \in Nat, Len(tokens) = n, NEW i \in 1..n + 1,
           ReadEquations(f, tokens, d), f[i].unary.query # Invalid
    PROVE  Made(f, tokens, d, f[i].unary.query, f[i].unary.index - i)
<1> DEFINE kd == KindAt(tokens, i)
           r == ParseUnary(f, tokens, i, d)
           s == r.index - i
           part(c) == c # Invalid /\ \E t \in 1..s - 1 : ReadsFrom(f, n, c, t)
<1>0. \A q, e : Read(q, e).query = q /\ Read(q, e).index = e
  BY DEF Read
<1>1. r = f[i].unary /\ r.query # Invalid
  BY DEF ReadEquations
<1>2. \A j \in 1..n + 1 : GoodReads(f[j], j, n)
  BY DEF ReadEquations
<1>s. r.index \in Int /\ s \in Int
  <2>1. WellRead(f[i].unary, i, n)
    BY <1>2 DEF GoodReads
  <2> HIDE DEF r
  <2> QED BY <2>1, <1>1 DEF WellRead
<1>3. CASE kd = "NOT"
  <2> DEFINE c == f[i + 1].unary
  <2>1. r = IF c.query = Invalid THEN c ELSE Read(Boolean(<<>>, <<>>, <<c.query>>), c.index)
    BY <1>3 DEF ParseUnary
  <2>i. i \in 1..n
    BY <1>3, KindWithin
  <2>2. i + 1 \in 1..n + 1
    BY <2>i
  <2>3. c.query # Invalid /\ r.query = Boolean(<<>>, <<>>, <<c.query>>) /\ r.index = c.index
    BY <2>1, <1>0, <1>1
  <2>4. WellRead(c, i + 1, n)
    BY <2>2, <1>2 DEF GoodReads
  <2>5. c \in ReadsAt(f[i + 1], n)
    BY DEF ReadsAt
  <2> HIDE DEF c, r
  <2> DEFINE e == c.index
  <2>e. e \in i + 2..n + 1
    BY <2>3, <2>4, <2>i DEF WellRead
  <2>s. s = e - i
    BY <2>3
  <2> HIDE DEF e, s
  <2>6. s - 1 \in 1..s - 1 /\ e = i + 1 + (s - 1)
    BY <2>e, <2>s
  <2>7. ReadsFrom(f, n, c.query, s - 1)
    BY <2>2, <2>5, <2>6 DEF ReadsFrom, e
  <2>8. part(c.query)
    BY <2>3, <2>6, <2>7
  <2> HIDE DEF part
  <2> QED BY <2>3, <2>8, <1>1 DEF Made, part, s
<1>4. CASE kd = "("
  <2> DEFINE c == f[i + 1].any[n]
  <2>1. r = IF c.query = Invalid \/ KindAt(tokens, c.index) # ")"
            THEN Read(Invalid, i) ELSE Read(c.query, c.index + 1)
    BY <1>4 DEF ParseUnary, ParsePrimary
  <2>i. i \in 1..n
    BY <1>4, KindWithin
  <2>2. i + 1 \in 1..n + 1
    BY <2>i
  <2>3. c.query # Invalid /\ r.query = c.query /\ r.index = c.index + 1
    BY <2>1, <1>0, <1>1
  <2>4. WellRead(c, i + 1, n)
    BY <2>2, <1>2 DEF GoodReads
  <2>5. c \in ReadsAt(f[i + 1], n)
    BY DEF ReadsAt
  <2> HIDE DEF c, r
  <2> DEFINE e == c.index
  <2>e. e \in i + 2..n + 1
    BY <2>3, <2>4, <2>i DEF WellRead
  <2>s. s = e + 1 - i
    <3>1. r.index = e + 1
      BY <2>3
    <3> HIDE DEF e
    <3> QED BY <3>1, <2>e
  <2> HIDE DEF e, s
  <2>6. s - 2 \in 1..s - 1 /\ e = i + 1 + (s - 2)
    BY <2>e, <2>s
  <2>7. ReadsFrom(f, n, c.query, s - 2)
    BY <2>2, <2>5, <2>6 DEF ReadsFrom, e
  <2>8. part(r.query)
    BY <2>3, <2>6, <2>7
  <2> HIDE DEF part
  <2> QED BY <2>8, <1>1 DEF Made, part, s
<1>5. CASE kd = "atom"
  <2>1. r.query = AtomQuery(tokens[i].text, d)
    BY <1>5, <1>0 DEF ParseUnary, ParsePrimary
  <2>2. i \in 1..n
    BY <1>5, KindWithin
  <2> HIDE DEF r
  <2> QED BY <2>1, <2>2, <1>1, <1>5 DEF Made
<1>6. CASE kd \notin {"NOT", "(", "atom"}
  <2>1. r = Read(Invalid, i)
    BY <1>6 DEF ParseUnary, ParsePrimary
  <2> QED BY <2>1, <1>0, <1>1
<1> QED BY <1>3, <1>4, <1>5, <1>6

(* What a loop reads is made of what it has read and what it reads next.    *)
LEMMA LoopIsMade ==
    ASSUME NEW f, NEW tokens, NEW d, NEW n \in Nat, Len(tokens) = n, NEW i \in 1..n + 1,
           ReadEquations(f, tokens, d), NEW b \in {"all", "any"}, NEW a, WellRead(a, i, n),
           RoundsOf(RoundsAt(b, f[i]), b, f, tokens, a),
           a.query # Invalid => Made(f, tokens, d, a.query, a.index - i)
    PROVE  \A k \in 0..n : RoundsAt(b, f[i])[k].query # Invalid =>
             Made(f, tokens, d, RoundsAt(b, f[i])[k].query, RoundsAt(b, f[i])[k].index - i)
<1> DEFINE g == RoundsAt(b, f[i])
           OK(r) == r.query # Invalid => Made(f, tokens, d, r.query, r.index - i)
           S == {k \in Nat : k <= n => OK(g[k])}
<1>0. GoodAfter(f, i, n) /\ \A j \in 1..n + 1 : GoodReads(f[j], j, n)
  BY DEF ReadEquations, GoodAfter
<1>m. \A k \in 0..n : g[k] \in ReadsAt(f[i], n)
  BY DEF RoundsAt, ReadsAt
<1> HIDE DEF g
<1>g. RoundsOf(g, b, f, tokens, a)
  BY DEF g
<1>1. /\ g[0] = a
      /\ \A k \in 1..n : g[k] = Round(b, f, tokens, g[k - 1])
      /\ \A k \in 0..n : WellRead(g[k], i, n)
  <2>1. Looped(g, b, f, tokens, a, i, n)
    BY <1>0, <1>g, LoopIs
  <2> QED BY <2>1 DEF Looped
<1>2. 0 \in S
  BY <1>1
<1>3. ASSUME NEW k \in S PROVE k + 1 \in S
  <2> SUFFICES ASSUME k + 1 <= n PROVE OK(g[k + 1])
    OBVIOUS
  <2>k. k \in 0..n /\ k + 1 \in 1..n /\ k + 1 \in 0..n /\ k + 1 - 1 = k
    OBVIOUS
  <2> DEFINE left == g[k]
             r == g[k + 1]
             p == JoinedAt(b, tokens, left)
             right == ReadNext(b, f[p], tokens)
             s == r.index - i
             part(c) == c # Invalid /\ \E t \in 1..s - 1 : ReadsFrom(f, n, c, t)
  <2>1. OK(left)
    BY <2>k
  <2>2. r = IF Over(b, tokens, left) THEN left ELSE JoinOf(b, left, right)
    <3>1. r = Round(b, f, tokens, left)
      BY <1>1, <2>k
    <3> QED BY <3>1, RoundJoins
  <2>3. CASE Over(b, tokens, left)
    BY <2>1, <2>2, <2>3
  <2>4. CASE ~Over(b, tokens, left) /\ r.query # Invalid
    <3>1. WellRead(left, i, n) /\ WellRead(r, i, n) /\ left \in ReadsAt(f[i], n)
      BY <1>1, <1>m, <2>k
    <3>2. left.query # Invalid /\ KindAt(tokens, left.index) \in Joining(b)
      BY <2>4 DEF Over
    <3>3. r = JoinOf(b, left, right)
      BY <2>2, <2>4
    <3> HIDE DEF r, left
    <3>4. left.index \in i + 1..n
      <4>1. left.index \in i + 1..n + 1 /\ KindAt(tokens, left.index) # "end"
        BY <3>1, <3>2 DEF WellRead, Joining
      <4>2. left.index \in 1..n
        BY <4>1, KindWithin
      <4> QED BY <4>1, <4>2
    <3>5. p \in 1..n + 1 /\ p >= left.index
      BY <3>4 DEF JoinedAt
    <3> HIDE DEF p
    <3>6. right \in ReadsAt(f[p], n) /\ WellRead(right, p, n)
      <4>1. GoodReads(f[p], p, n)
        BY <3>5, <1>0
      <4> QED BY <4>1 DEF ReadNext, ReadsAt, GoodReads
    <3> HIDE DEF right
    <3>7. /\ right.query # Invalid /\ r.index = right.index
          /\ r.query \in {Boolean(<<left.query, right.query>>, <<>>, <<>>),
                          Boolean(<<>>, <<left.query, right.query>>, <<>>)}
      BY <3>3, <2>4 DEF JoinOf, Read
    <3>8. right.index \in p + 1..n + 1
      BY <3>6, <3>7 DEF WellRead
    <3> DEFINE t == left.index - i
               u == right.index - p
    <3>9. /\ t \in 1..s - 1 /\ left.index = i + t
          /\ u \in 1..s - 1 /\ right.index = p + u
      <4> DEFINE x == left.index
                 y == right.index
      <4>1. r.index = y
        BY <3>7
      <4>2. x \in i + 1..n /\ y \in p + 1..n + 1 /\ p \in 1..n + 1 /\ p >= x
        BY <3>4, <3>5, <3>8
      <4>3. t = x - i /\ u = y - p /\ s = y - i
        BY <4>1
      <4> HIDE DEF x, y, t, u, s
      <4>4. t \in 1..s - 1 /\ x = i + t /\ u \in 1..s - 1 /\ y = p + u
        BY <4>2, <4>3
      <4> QED BY <4>4 DEF x, y
    <3> HIDE DEF t, u, s
    <3>10. ReadsFrom(f, n, left.query, t) /\ ReadsFrom(f, n, right.query, u)
      BY <3>1, <3>5, <3>6, <3>9 DEF ReadsFrom
    <3>11. part(left.query) /\ part(right.query)
      BY <3>2, <3>7, <3>9, <3>10
    <3> HIDE DEF part
    <3>12. Made(f, tokens, d, r.query, s)
      BY <3>7, <3>11 DEF Made, part
    <3> QED BY <3>12 DEF s, r
  <2> QED BY <2>3, <2>4
<1>4. S = Nat
  <2>1. S \in SUBSET Nat
    OBVIOUS
  <2> HIDE DEF S
  <2> QED BY <1>2, <1>3, <2>1, NumberInduction
<1>5. \A k \in 0..n : OK(g[k])
  BY <1>4
<1> QED BY <1>5 DEF g

(* All that is read is made of what takes fewer tokens.                     *)
LEMMA ReadsAreMade ==
    ASSUME NEW f, NEW tokens, NEW d, NEW n \in Nat, Len(tokens) = n, NEW i \in 1..n + 1,
           ReadEquations(f, tokens, d), NEW r \in ReadsAt(f[i], n), r.query # Invalid
    PROVE  /\ r.index - i \in 1..n
           /\ Made(f, tokens, d, r.query, r.index - i)
<1> DEFINE x == f[i]
           OK(y) == y.query # Invalid => Made(f, tokens, d, y.query, y.index - i)
<1>1. /\ RoundsOf(x.all, "all", f, tokens, x.unary)
      /\ RoundsOf(x.any, "any", f, tokens, x.all[n])
      /\ GoodReads(x, i, n)
  BY DEF ReadEquations
<1>2. RoundsAt("all", x) = x.all /\ RoundsAt("any", x) = x.any
  BY DEF RoundsAt
<1>3. OK(x.unary)
  BY UnaryIsMade
<1>4. \A k \in 0..n : OK(x.all[k])
  <2>1. WellRead(x.unary, i, n)
    BY <1>1 DEF GoodReads
  <2> QED BY <1>1, <1>2, <1>3, <2>1, LoopIsMade
<1>5. \A k \in 0..n : OK(x.any[k])
  <2>1. WellRead(x.all[n], i, n) /\ OK(x.all[n])
    BY <1>1, <1>4 DEF GoodReads
  <2> QED BY <1>1, <1>2, <2>1, LoopIsMade
<1> HIDE DEF OK
<1>6. OK(r) /\ WellRead(r, i, n)
  BY <1>1, <1>3, <1>4, <1>5 DEF ReadsAt, GoodReads
<1> QED BY <1>6 DEF WellRead, OK

(* A part of a text.                                                        *)
LEMMA PartOfText ==
    ASSUME NEW V, NEW text \in Seq(V), NEW a \in 1..Len(text) + 1, NEW b \in a - 1..Len(text)
    PROVE  /\ SubSeq(text, a, b) \in Seq(V)
           /\ Len(SubSeq(text, a, b)) = b - a + 1
           /\ \A k \in 1..b - a + 1 : SubSeq(text, a, b)[k] = text[a + k - 1]
<1>1. \A k \in 1..Len(text) : text[k] \in V
  OBVIOUS
<1>2. SubSeq(text, a, b) = [k \in 1..b - a + 1 |-> text[a + k - 1]]
  OBVIOUS
<1> DEFINE p == [k \in 1..b - a + 1 |-> text[a + k - 1]]
<1>3. b - a + 1 \in Nat
  OBVIOUS
<1>4. \A k \in 1..b - a + 1 : a + k - 1 \in 1..Len(text)
  OBVIOUS
<1>5. p \in [1..b - a + 1 -> V]
  BY <1>1, <1>4
<1>6. p \in Seq(V) /\ Len(p) = b - a + 1
  BY <1>3, <1>5
<1> QED BY <1>2, <1>6

(* The first and the last number of a set.                                  *)
LEMMA LeastAndGreatest ==
    ASSUME NEW S, NEW n \in Nat, S \subseteq 1..n, S # {}
    PROVE  /\ Min(S) \in S /\ \A k \in S : Min(S) <= k
           /\ Max(S) \in S /\ \A k \in S : k <= Max(S)
<1>1. \E m \in S : \A k \in S : m <= k
  <2>1. S \in SUBSET Nat
    OBVIOUS
  <2> QED BY <2>1, Smallest
<1>2. \E m \in S : \A k \in S : k <= m
  <2>1. S \in SUBSET (0..n)
    OBVIOUS
  <2> QED BY <2>1, Greatest
<1> QED BY <1>1, <1>2 DEF Min, Max

\* Tokens whose texts are texts.
Readable(tokens) == Len(tokens) \in Nat /\ \A i \in 1..Len(tokens) : tokens[i].text \in Seq(Runes)

(* What is left of a text without the quotes around it is a text.           *)
LEMMA TrimmedIs ==
    ASSUME NEW text \in Seq(Runes)
    PROVE  TrimQuotes(text) \in Seq(Runes)
<1> DEFINE inner == {k \in 1..Len(text) : text[k] # Quote}
<1>1. CASE inner = {}
  BY <1>1 DEF TrimQuotes
<1>2. CASE inner # {}
  <2>1. /\ Min(inner) \in inner /\ Max(inner) \in inner
        /\ \A k \in inner : Min(inner) <= k
    <3>1. Len(text) \in Nat /\ inner \subseteq 1..Len(text)
      OBVIOUS
    <3> HIDE DEF inner
    <3> QED BY <1>2, <3>1, LeastAndGreatest
  <2>2. TrimQuotes(text) = SubSeq(text, Min(inner), Max(inner))
    BY <1>2 DEF TrimQuotes
  <2> DEFINE a == Min(inner)
             b == Max(inner)
  <2>3. a \in 1..Len(text) + 1 /\ b \in a - 1..Len(text)
    <3>1. a \in 1..Len(text) /\ b \in 1..Len(text) /\ a <= b
      BY <2>1
    <3> HIDE DEF a, b
    <3> QED BY <3>1
  <2> HIDE DEF a, b
  <2> QED BY <2>2, <2>3, PartOfText DEF a, b
<1> QED BY <1>1, <1>2

(* The loops of what is read.                                               *)
LEMMA ReadsLoop ==
    ASSUME NEW f, NEW tokens, NEW d, NEW n \in Nat, Len(tokens) = n, ReadEquations(f, tokens, d),
           NEW i \in 1..n + 1
    PROVE  /\ Looped(f[i].all, "all", f, tokens, f[i].unary, i, n)
           /\ Looped(f[i].any, "any", f, tokens, f[i].all[n], i, n)
           /\ GoodReads(f[i], i, n)
<1> DEFINE x == f[i]
<1>1. /\ RoundsOf(x.all, "all", f, tokens, x.unary)
      /\ RoundsOf(x.any, "any", f, tokens, x.all[n])
      /\ GoodReads(x, i, n)
      /\ GoodAfter(f, i, n)
  BY DEF ReadEquations, GoodAfter
<1>2. WellRead(x.unary, i, n) /\ WellRead(x.all[n], i, n)
  BY <1>1 DEF GoodReads
<1> HIDE DEF x
<1>3. Looped(x.all, "all", f, tokens, x.unary, i, n)
  BY <1>1, <1>2, LoopIs
<1>4. Looped(x.any, "any", f, tokens, x.all[n], i, n)
  BY <1>1, <1>2, LoopIs
<1> QED BY <1>1, <1>3, <1>4 DEF x

-----------------------------------------------------------------------------
(* What is written is read.                                                 *)

(* Quotes in a text: none, one or two.                                      *)
LEMMA FewQuotes ==
    ASSUME NEW e, NEW p, NEW q, NEW n \in Nat, NEW k \in 1..n + 1
    PROVE  /\ (\A j \in 1..n : e[j] # Quote) => ~Quoted(e, k)
           /\ p \in 1..n /\ (\A j \in 1..n : e[j] = Quote <=> j = p) => (Quoted(e, k) <=> p < k)
           /\ p \in 1..n /\ q \in p + 1..n /\ (\A j \in 1..n : e[j] = Quote <=> j = p \/ j = q) =>
                (Quoted(e, k) <=> p < k /\ k <= q)
<1> DEFINE S == Quotes(e, 1, k)
           c == Cardinality(S)
<1>0. \A j : j \in S <=> j \in 1..k - 1 /\ e[j] = Quote
  BY DEF Quotes
<1>1. Quoted(e, k) <=> c % 2 = 1
  BY DEF Quoted, InQuote, Quotes
<1>2. \A j : j \in 1..k - 1 <=> j \in 1..n /\ j < k
  OBVIOUS
<1>3. S = {} => c = 0
  BY FS_EmptySet
<1>4. \A x : S = {x} => c = 1
  BY FS_Singleton
<1>5. ASSUME NEW x, NEW y, x # y, S = {x, y} PROVE c = 2
  <2>1. IsFiniteSet({x}) /\ Cardinality({x}) = 1
    BY FS_Singleton
  <2>2. Cardinality({x} \cup {y}) = 1 + 1
    BY <2>1, <1>5, FS_AddElement
  <2>3. {x} \cup {y} = {x, y}
    OBVIOUS
  <2> QED BY <2>2, <2>3, <1>5
<1> HIDE DEF S, c
<1>6. /\ c = 0 => ~Quoted(e, k)
      /\ c = 1 => Quoted(e, k)
      /\ c = 2 => ~Quoted(e, k)
  BY <1>1
<1>7. ASSUME \A j \in 1..n : e[j] # Quote PROVE ~Quoted(e, k)
  <2>1. S = {}
    BY <1>0, <1>2, <1>7
  <2> QED BY <2>1, <1>3, <1>6
<1>8. ASSUME p \in 1..n, \A j \in 1..n : e[j] = Quote <=> j = p
      PROVE  Quoted(e, k) <=> p < k
  <2>1. CASE p < k
    <3>1. S = {p}
      BY <1>0, <1>2, <1>8, <2>1
    <3> QED BY <3>1, <1>4, <1>6, <2>1
  <2>2. CASE ~(p < k)
    <3>1. S = {}
      BY <1>0, <1>2, <1>8, <2>2
    <3> QED BY <3>1, <1>3, <1>6, <2>2
  <2> QED BY <2>1, <2>2
<1>9. ASSUME p \in 1..n, q \in p + 1..n, \A j \in 1..n : e[j] = Quote <=> j = p \/ j = q
      PROVE  Quoted(e, k) <=> p < k /\ k <= q
  <2>0. q \in 1..n /\ p < q
    BY <1>9
  <2>1. CASE k <= p
    <3>1. S = {}
      BY <1>0, <1>2, <1>9, <2>1, <2>0
    <3> QED BY <3>1, <1>3, <1>6, <2>1, <1>9
  <2>2. CASE p < k /\ k <= q
    <3>1. S = {p}
      BY <1>0, <1>2, <1>9, <2>2, <2>0
    <3> QED BY <3>1, <1>4, <1>6, <2>2
  <2>3. CASE q < k
    <3>1. S = {p, q}
      BY <1>0, <1>2, <1>9, <2>3, <2>0
    <3>2. p # q
      BY <2>0
    <3>3. c = 2
      BY <3>1, <3>2, <1>5
    <3> QED BY <3>3, <1>6, <2>3, <2>0
  <2>4. k <= p \/ (p < k /\ k <= q) \/ q < k
    BY <2>0, <1>9
  <2> QED BY <2>1, <2>2, <2>3, <2>4
<1> QED BY <1>7, <1>8, <1>9

\* An expression that no space or parenthesis outside quotes divides.
Undivided(e) ==
  /\ e \in Seq(Runes) /\ Len(e) > 0
  /\ ~Quoted(e, Len(e) + 1)
  /\ \A k \in 1..Len(e) : e[k] \in Spaces \cup Parentheses => Quoted(e, k)

(* It is one token.                                                         *)
LEMMA OneToken ==
    ASSUME NEW e, Undivided(e)
    PROVE  /\ ~Refused(Lex(e)) /\ Len(Lex(e)) = 1
           /\ Lex(e)[1].text = e /\ Lex(e)[1].kind = KindOf(e)
<1> DEFINE tokens == Lex(e)
           n == Len(e)
           begins == Begins(e)
           number(k) == Cardinality({j \in begins : j <= k})
<1>1. e \in Seq(Runes) /\ n \in Nat /\ n > 0
  BY DEF Undivided
<1>2. LexCutsOutsideQuotes(e)
  BY <1>1, LexingIsExactForAnyText
<1>3. \A k \in 1..n : ~Blank(e, k) /\ ~Paren(e, k)
  BY DEF Undivided, Blank, Paren
<1>4. begins = {1}
  <2>1. \A k \in 1..n : k # 1 => k - 1 \in 1..n
    BY <1>1
  <2>2. 1 \in 1..n
    BY <1>1
  <2> HIDE DEF n
  <2> QED BY <2>1, <2>2, <1>3 DEF Begins, n
<1>5. number(1) = 1 /\ Cardinality(begins) = 1
  <2>1. {j \in {1} : j <= 1} = {1}
    OBVIOUS
  <2> HIDE DEF begins
  <2> QED BY <2>1, <1>4, FS_Singleton
<1>6. ~Refused(tokens)
  BY <1>2 DEF LexCutsOutsideQuotes, Undivided
<1>7. /\ Len(tokens) = Cardinality(begins)
      /\ \A k \in begins : \E f \in k + 1..n + 1 :
           /\ tokens[number(k)].text = SubSeq(e, k, f - 1)
           /\ f <= n => Blank(e, f) \/ f \in begins
           /\ KindIs(tokens[number(k)].text, tokens[number(k)].kind)
  <2> HIDE DEF tokens
  <2> QED BY <1>2, <1>6
        DEF LexCutsOutsideQuotes, tokens, Begins, Blank, Paren, KindIs
<1> HIDE DEF number, begins, tokens
<1>8. PICK f \in 2..n + 1 : /\ tokens[1].text = SubSeq(e, 1, f - 1)
                            /\ f <= n => Blank(e, f) \/ f \in begins
                            /\ KindIs(tokens[1].text, tokens[1].kind)
  <2>1. 1 \in begins
    BY <1>4
  <2>2. \E f \in 1 + 1..n + 1 :
           /\ tokens[number(1)].text = SubSeq(e, 1, f - 1)
           /\ f <= n => Blank(e, f) \/ f \in begins
           /\ KindIs(tokens[number(1)].text, tokens[number(1)].kind)
    BY <2>1, <1>7
  <2>3. 1 + 1 = 2
    OBVIOUS
  <2> QED BY <2>2, <2>3, <1>5
<1>9. f = n + 1
  <2>1. ~(f <= n)
    <3> SUFFICES ASSUME f <= n PROVE FALSE
      OBVIOUS
    <3>1. f \in 1..n /\ f # 1
      BY <1>1
    <3> QED BY <3>1, <1>3, <1>4, <1>8
  <2> QED BY <2>1, <1>1
<1>10. tokens[1].text = e
  <2>1. SubSeq(e, 1, n) = e
    BY <1>1
  <2>2. f - 1 = n
    BY <1>1, <1>9
  <2> QED BY <2>1, <2>2, <1>8
<1>11. tokens[1].kind = KindOf(e)
  <2>1. e[1] \notin Parentheses
    <3>1. 1 \in 1..n
      BY <1>1
    <3>2. ~Quoted(e, 1)
      BY QuoteStays DEF Quoted
    <3> QED BY <3>1, <3>2 DEF Undivided
  <2> QED BY <2>1, <1>8, <1>10 DEF KindIs, KindOf
<1> QED BY <1>5, <1>6, <1>7, <1>10, <1>11 DEF tokens

(* An expression that is one atom is read as that atom.                     *)
LEMMA AtomIsRead ==
    ASSUME NEW e, NEW d, Undivided(e), KindOf(e) = "atom"
    PROVE  Parse(e, d) = AtomQuery(e, d)
<1> DEFINE tokens == Lex(e)
           f == Reads(tokens, d)
           a == AtomQuery(e, d)
           r == f[1].any[1]
<1>1. ~Refused(tokens) /\ Len(tokens) = 1 /\ tokens[1].text = e /\ tokens[1].kind = "atom"
  BY OneToken
<1>2. tokens # <<>>
  BY <1>1
<1> HIDE DEF tokens
<1>3. ReadEquations(f, tokens, d)
  BY <1>1, ReadsAre
<1> HIDE DEF f
<1>4. f[1].unary = Read(a, 2)
  <2>1. KindAt(tokens, 1) = "atom"
    BY <1>1 DEF KindAt
  <2>2. 1 \in 1..Len(tokens) + 1
    BY <1>1
  <2>3. f[1].unary = ParseUnary(f, tokens, 1, d)
    BY <2>2, <1>3 DEF ReadEquations
  <2> QED BY <2>1, <2>3, <1>1 DEF ParseUnary, ParsePrimary
<1>5. \A b \in {"all", "any"} : Over(b, tokens, Read(a, 2))
  <2>1. KindAt(tokens, 2) = "end"
    BY <1>1 DEF KindAt
  <2>2. Read(a, 2).index = 2
    BY DEF Read
  <2> QED BY <2>1, <2>2 DEF Over, Joining
<1>6. f[1].all[1] = Read(a, 2)
  <2>1. 1 \in 1..1 + 1 /\ 0 \in 0..1 /\ 1 \in Nat
    OBVIOUS
  <2>2. Looped(f[1].all, "all", f, tokens, f[1].unary, 1, 1)
    BY <2>1, <1>1, <1>3, ReadsLoop
  <2>3. f[1].all[0] = Read(a, 2)
    BY <2>2, <1>4 DEF Looped
  <2>4. Over("all", tokens, f[1].all[0])
    BY <2>3, <1>5
  <2>5. f[1].all[1] = f[1].all[0]
    BY <2>1, <2>2, <2>4 DEF Looped
  <2> QED BY <2>3, <2>5
<1>7. r = Read(a, 2)
  <2>1. 1 \in 1..1 + 1 /\ 0 \in 0..1 /\ 1 \in Nat
    OBVIOUS
  <2>2. Looped(f[1].any, "any", f, tokens, f[1].all[1], 1, 1)
    BY <2>1, <1>1, <1>3, ReadsLoop
  <2>3. f[1].any[0] = Read(a, 2)
    BY <2>2, <1>6 DEF Looped
  <2>4. Over("any", tokens, f[1].any[0])
    BY <2>3, <1>5
  <2>5. f[1].any[1] = f[1].any[0]
    BY <2>1, <2>2, <2>4 DEF Looped
  <2> QED BY <2>3, <2>5
<1>8. Reads(tokens, d)[1].any[Len(tokens)] = Read(a, 2) /\ Len(tokens) + 1 = 2
  BY <1>1, <1>7 DEF f
<1>9. Parse(e, d) = IF a = Invalid THEN Invalid ELSE a
  <2> DEFINE x == Reads(tokens, d)[1].any[Len(tokens)]
  <2>1. Parse(e, d) = IF Refused(tokens) THEN Invalid
                      ELSE IF tokens = <<>> THEN NoQuery
                      ELSE IF x.query = Invalid \/ x.index # Len(tokens) + 1 THEN Invalid
                      ELSE x.query
    BY DEF Parse, tokens
  <2>2. x.query = a /\ x.index = Len(tokens) + 1
    BY <1>8 DEF Read
  <2> HIDE DEF x, a
  <2> QED BY <2>1, <2>2, <1>1, <1>2
<1> QED BY <1>9

\* The query for a text that is asked of a field.
Reading(field, text) ==
  IF field = <<>> \/ text = <<>> THEN Invalid
  ELSE IF text[1] = Quote
  THEN IF Len(text) < 2 \/ Last(text) # Quote THEN Invalid
       ELSE Phrase(field, TrimQuotes(text), 0)
  ELSE IF Last(text) = "*" /\ Len(text) > 1 THEN Prefix(field, Front(text))
  ELSE Match(field, text, "OR")

\* A word: no space, parenthesis or quote is in it.
IsWord(s) == \A k \in 1..Len(s) : s[k] \notin Spaces \cup Parentheses /\ s[k] # Quote

\* A word without a colon.
IsName(s) == s \in Seq(Runes) /\ s # <<>> /\ IsWord(s) /\ \A k \in 1..Len(s) : s[k] # ":"

Quoteless(s) == s \in Seq(Runes) /\ \A k \in 1..Len(s) : s[k] # Quote

InQuotes(text) == <<Quote>> \o text \o <<Quote>>

AtField(field, text) == field \o <<":">> \o text

(* Colons and quotes are no spaces or parentheses.                          *)
LEMMA ColonsAndQuotes ==
    /\ ":" \notin Spaces \cup Parentheses /\ ":" # Quote
    /\ Quote \notin Spaces \cup Parentheses
<1>1. ":" \notin Spaces
  <2>1. ":" \in Closing
    BY Zenon DEF Closing
  <2> QED BY <2>1, RunesAssumption
<1>2. Quote \notin Spaces
  BY LexerAssumption
<1>3. ":" \notin Parentheses
  BY DEF Parentheses
<1>4. Quote \notin Parentheses
  BY Zenon DEF Quote, Parentheses
<1>5. ":" # Quote
  BY Zenon DEF Quote
<1> QED BY <1>1, <1>2, <1>3, <1>4, <1>5

(* A text in quotes.                                                        *)
LEMMA InQuotesIs ==
    ASSUME NEW text \in Seq(Runes), Quote \in Runes
    PROVE  /\ InQuotes(text) \in Seq(Runes)
           /\ Len(InQuotes(text)) = Len(text) + 2
           /\ InQuotes(text)[1] = Quote
           /\ InQuotes(text)[Len(text) + 2] = Quote
           /\ \A k \in 2..Len(text) + 1 : InQuotes(text)[k] = text[k - 1]
<1> DEFINE a == <<Quote>>
           b == a \o text
           n == Len(text)
<1>1. a \in Seq(Runes) /\ Len(a) = 1 /\ a[1] = Quote
  OBVIOUS
<1>2. n \in Nat
  OBVIOUS
<1> HIDE DEF a, n
<1>3. /\ b \in Seq(Runes) /\ Len(b) = 1 + n
      /\ \A k \in 1..1 + n : b[k] = IF k <= 1 THEN a[k] ELSE text[k - 1]
  <2>1. /\ b \in Seq(Runes) /\ Len(b) = Len(a) + Len(text)
        /\ \A k \in 1..Len(a) + Len(text) : b[k] = IF k <= Len(a) THEN a[k] ELSE text[k - Len(a)]
    BY ONLY <1>1, text \in Seq(Runes), Joined
  <2> QED BY <2>1, <1>1 DEF n
<1> HIDE DEF b
<1>4. /\ b \o a \in Seq(Runes) /\ Len(b \o a) = 1 + n + 1
      /\ \A k \in 1..1 + n + 1 : (b \o a)[k] = IF k <= 1 + n THEN b[k] ELSE a[k - (1 + n)]
  <2>1. /\ b \o a \in Seq(Runes) /\ Len(b \o a) = Len(b) + Len(a)
        /\ \A k \in 1..Len(b) + Len(a) : (b \o a)[k] = IF k <= Len(b) THEN b[k] ELSE a[k - Len(b)]
    BY ONLY <1>1, <1>3, Joined
  <2> QED BY <2>1, <1>1, <1>3
<1>5. InQuotes(text) = b \o a
  BY DEF InQuotes, a, b
<1> DEFINE t == InQuotes(text)
<1> HIDE DEF t
<1>6. \A k \in 1..1 + n + 1 : t[k] = IF k <= 1 + n THEN IF k <= 1 THEN a[k] ELSE text[k - 1]
                                     ELSE a[k - (1 + n)]
  BY <1>3, <1>4, <1>5, <1>2 DEF t
<1>7. /\ t[1] = Quote /\ t[n + 2] = Quote
      /\ \A k \in 2..n + 1 : t[k] = text[k - 1]
  BY <1>6, <1>1, <1>2
<1>8. t \in Seq(Runes) /\ Len(t) = n + 2
  BY <1>4, <1>5, <1>2 DEF t
<1> QED BY <1>7, <1>8 DEF t, n

(* A field and a text with a colon between them.                            *)
LEMMA AtFieldIs ==
    ASSUME NEW field \in Seq(Runes), NEW text \in Seq(Runes), ":" \in Runes
    PROVE  /\ AtField(field, text) \in Seq(Runes)
           /\ Len(AtField(field, text)) = Len(field) + 1 + Len(text)
           /\ \A k \in 1..Len(field) : AtField(field, text)[k] = field[k]
           /\ AtField(field, text)[Len(field) + 1] = ":"
           /\ \A k \in 1..Len(text) : AtField(field, text)[Len(field) + 1 + k] = text[k]
<1> DEFINE a == <<":">>
           b == field \o a
           m == Len(field)
           n == Len(text)
<1>1. a \in Seq(Runes) /\ Len(a) = 1 /\ a[1] = ":"
  OBVIOUS
<1>2. n \in Nat /\ m \in Nat
  OBVIOUS
<1> HIDE DEF a, n, m
<1>3. /\ b \in Seq(Runes) /\ Len(b) = m + 1
      /\ \A k \in 1..m + 1 : b[k] = IF k <= m THEN field[k] ELSE a[k - m]
  BY <1>1, Joined DEF m
<1> HIDE DEF b
<1>4. /\ b \o text \in Seq(Runes) /\ Len(b \o text) = m + 1 + n
      /\ \A k \in 1..m + 1 + n : (b \o text)[k] = IF k <= m + 1 THEN b[k] ELSE text[k - (m + 1)]
  <2>1. /\ b \o text \in Seq(Runes) /\ Len(b \o text) = Len(b) + Len(text)
        /\ \A k \in 1..Len(b) + Len(text) :
             (b \o text)[k] = IF k <= Len(b) THEN b[k] ELSE text[k - Len(b)]
    BY ONLY <1>3, text \in Seq(Runes), Joined
  <2> QED BY <2>1, <1>3 DEF n
<1>5. AtField(field, text) = b \o text
  BY DEF AtField, a, b
<1> DEFINE t == AtField(field, text)
<1> HIDE DEF t
<1>6. \A k \in 1..m + 1 + n : t[k] = IF k <= m + 1 THEN IF k <= m THEN field[k] ELSE a[k - m]
                                     ELSE text[k - (m + 1)]
  BY <1>3, <1>4, <1>5, <1>2 DEF t
<1>7. /\ \A k \in 1..m : t[k] = field[k]
      /\ t[m + 1] = ":"
      /\ \A k \in 1..n : t[m + 1 + k] = text[k]
  BY <1>6, <1>1, <1>2
<1>8. t \in Seq(Runes) /\ Len(t) = m + 1 + n
  BY <1>4, <1>5, <1>2 DEF t
<1> QED BY <1>7, <1>8 DEF t, n, m

(* What stands before the first colon is the field.                         *)
LEMMA AtomWithField ==
    ASSUME NEW field, IsName(field), NEW text \in Seq(Runes), ":" \in Runes, NEW d
    PROVE  AtomQuery(AtField(field, text), d) = Reading(field, text)
<1> DEFINE v == AtField(field, text)
           m == Len(field)
           n == Len(text)
           colons == {k \in 1..Len(v) : v[k] = ":"}
<1>1. field \in Seq(Runes)
  BY DEF IsName
<1>2. m \in Nat /\ n \in Nat
  BY <1>1
<1>3. /\ v \in Seq(Runes) /\ Len(v) = m + 1 + n
      /\ \A k \in 1..m : v[k] = field[k]
      /\ v[m + 1] = ":"
      /\ \A k \in 1..n : v[m + 1 + k] = text[k]
  BY <1>1, AtFieldIs
<1>4. \A k \in 1..m : field[k] # ":"
  BY DEF IsName
<1> HIDE DEF v, m, n
<1>5. m + 1 \in colons /\ \A k \in colons : m + 1 <= k
  BY <1>2, <1>3, <1>4
<1>6. colons # {} /\ Min(colons) = m + 1
  <2>1. colons \subseteq 1..m + 1 + n /\ m + 1 + n \in Nat
    BY <1>2, <1>3
  <2> HIDE DEF colons
  <2>2. Min(colons) \in colons /\ \A k \in colons : Min(colons) <= k
    BY <1>5, <2>1, LeastAndGreatest
  <2>3. Min(colons) <= m + 1 /\ m + 1 <= Min(colons) /\ Min(colons) \in 1..m + 1 + n
    BY <1>5, <2>1, <2>2
  <2> QED BY <1>2, <1>5, <2>3
<1>7. SubSeq(v, 1, m) = field
  <2>1. 1 \in 1..Len(v) + 1 /\ m \in 1 - 1..Len(v)
    BY <1>2, <1>3
  <2>2. /\ Len(SubSeq(v, 1, m)) = m - 1 + 1 /\ SubSeq(v, 1, m) \in Seq(Runes)
        /\ \A k \in 1..m - 1 + 1 : SubSeq(v, 1, m)[k] = v[1 + k - 1]
    BY <1>3, <2>1, PartOfText
  <2>3. m - 1 + 1 = m /\ \A k \in 1..m : 1 + k - 1 = k
    BY <1>2
  <2>4. Len(SubSeq(v, 1, m)) = m /\ \A k \in 1..m : SubSeq(v, 1, m)[k] = field[k]
    BY <1>3, <2>2, <2>3
  <2> QED BY <1>1, <2>2, <2>4 DEF m
<1>8. SubSeq(v, m + 2, Len(v)) = text
  <2> DEFINE w == SubSeq(v, m + 2, m + 1 + n)
  <2>1. m + 2 \in 1..Len(v) + 1 /\ m + 1 + n \in (m + 2) - 1..Len(v)
    BY <1>2, <1>3
  <2>2. /\ Len(w) = (m + 1 + n) - (m + 2) + 1 /\ w \in Seq(Runes)
        /\ \A k \in 1..(m + 1 + n) - (m + 2) + 1 : w[k] = v[m + 2 + k - 1]
    BY <1>3, <2>1, PartOfText
  <2>3. (m + 1 + n) - (m + 2) + 1 = n /\ \A k \in 1..n : m + 2 + k - 1 = m + 1 + k
    BY <1>2
  <2> HIDE DEF w
  <2>4. Len(w) = n /\ \A k \in 1..n : w[k] = text[k]
    BY <1>3, <2>2, <2>3
  <2>5. w = text
    BY <2>2, <2>4 DEF n
  <2> QED BY <1>3, <2>5 DEF w
<1>9. Min(colons) - 1 = m /\ Min(colons) + 1 = m + 2
  BY <1>2, <1>6
<1> DEFINE f2 == IF colons = {} THEN d ELSE SubSeq(v, 1, Min(colons) - 1)
           t2 == IF colons = {} THEN v ELSE SubSeq(v, Min(colons) + 1, Len(v))
<1>10. f2 = field /\ t2 = text
  BY <1>6, <1>7, <1>8, <1>9
<1>11. AtomQuery(v, d) = Reading(f2, t2)
  BY DEF AtomQuery, Reading
<1> QED BY <1>10, <1>11 DEF v

(* Without a colon, all of it is asked of the default field.                *)
LEMMA AtomWithoutField ==
    ASSUME NEW text \in Seq(Runes), \A k \in 1..Len(text) : text[k] # ":", NEW d
    PROVE  AtomQuery(text, d) = Reading(d, text)
<1> DEFINE colons == {k \in 1..Len(text) : text[k] = ":"}
<1>1. colons = {}
  OBVIOUS
<1> QED BY <1>1 DEF AtomQuery, Reading

(* Text in quotes is read as a phrase.                                      *)
LEMMA ReadingQuoted ==
    ASSUME NEW field, field # <<>>, NEW text, Quoteless(text), Quote \in Runes
    PROVE  Reading(field, InQuotes(text)) = Phrase(field, text, 0)
<1> DEFINE t == InQuotes(text)
           n == Len(text)
           inner == {k \in 1..Len(t) : t[k] # Quote}
<1>1. text \in Seq(Runes) /\ n \in Nat /\ \A k \in 1..n : text[k] # Quote
  BY DEF Quoteless
<1>2. /\ t \in Seq(Runes) /\ Len(t) = n + 2 /\ t[1] = Quote /\ t[n + 2] = Quote
      /\ \A k \in 2..n + 1 : t[k] = text[k - 1]
  BY <1>1, InQuotesIs
<1> HIDE DEF t, n
<1>3. inner = 2..n + 1
  BY <1>1, <1>2
<1>4. TrimQuotes(t) = IF inner = {} THEN <<>> ELSE SubSeq(t, Min(inner), Max(inner))
  BY DEF TrimQuotes
<1>5. TrimQuotes(t) = text
  <2>1. CASE n = 0
    <3>1. inner = {}
      BY <1>3, <2>1
    <3>2. text = <<>>
      BY <1>1, <2>1 DEF n
    <3> QED BY <1>4, <3>1, <3>2
  <2>2. CASE n > 0
    <3>1. inner # {} /\ inner \subseteq 1..n + 2
      <4>1. 2 \in inner
        BY <1>1, <1>3, <2>2
      <4> QED BY <4>1, <1>2
    <3>2. Min(inner) = 2 /\ Max(inner) = n + 1
      <4> HIDE DEF inner
      <4>0. n + 2 \in Nat
        BY <1>1
      <4>1. /\ Min(inner) \in inner /\ \A k \in inner : Min(inner) <= k
            /\ Max(inner) \in inner /\ \A k \in inner : k <= Max(inner)
        BY <3>1, <4>0, LeastAndGreatest
      <4>2. 2 \in inner /\ n + 1 \in inner
        BY <1>1, <1>3, <2>2
      <4>3. Min(inner) \in 2..n + 1 /\ Min(inner) <= 2
        BY <4>1, <4>2, <1>3
      <4>4. Max(inner) \in 2..n + 1 /\ n + 1 <= Max(inner)
        BY <4>1, <4>2, <1>3
      <4> QED BY <4>3, <4>4, <1>1
    <3> DEFINE w == SubSeq(t, 2, n + 1)
    <3>3. 2 \in 1..Len(t) + 1 /\ n + 1 \in 2 - 1..Len(t)
      BY <1>1, <1>2
    <3>4. /\ Len(w) = (n + 1) - 2 + 1 /\ w \in Seq(Runes)
          /\ \A k \in 1..(n + 1) - 2 + 1 : w[k] = t[2 + k - 1]
      BY <1>2, <3>3, PartOfText
    <3>5. (n + 1) - 2 + 1 = n /\ \A k \in 1..n : 2 + k - 1 = k + 1 /\ k + 1 \in 2..n + 1 /\ k + 1 - 1 = k
      BY <1>1
    <3> HIDE DEF w
    <3>6. Len(w) = n /\ \A k \in 1..n : w[k] = text[k]
      BY <1>2, <3>4, <3>5
    <3>7. w = text
      BY <1>1, <3>4, <3>6 DEF n
    <3> QED BY <1>4, <3>1, <3>2, <3>7 DEF w
  <2> QED BY <2>1, <2>2, <1>1
<1>6. t # <<>> /\ ~(Len(t) < 2) /\ Last(t) = Quote
  BY <1>1, <1>2 DEF Last
<1> QED BY <1>2, <1>5, <1>6 DEF Reading, t

(* A word is read as a prefix or as a match.                                *)
LEMMA ReadingWord ==
    ASSUME NEW field, field # <<>>, NEW text \in Seq(Runes), IsWord(text), text # <<>>
    PROVE  Reading(field, text) = IF Last(text) = "*" /\ Len(text) > 1
                                  THEN Prefix(field, Front(text)) ELSE Match(field, text, "OR")
<1>1. 1 \in 1..Len(text)
  OBVIOUS
<1>2. text[1] # Quote
  BY <1>1 DEF IsWord
<1> QED BY <1>2 DEF Reading

(* What is written of a field in quotes is not divided.                     *)
LEMMA UndividedQuotes ==
    ASSUME NEW text, Quoteless(text), Quote \in Runes, ":" \in Runes
    PROVE  /\ Undivided(InQuotes(text))
           /\ KindOf(InQuotes(text)) = "atom"
           /\ \A field : IsName(field) =>
                /\ Undivided(AtField(field, InQuotes(text)))
                /\ KindOf(AtField(field, InQuotes(text))) = "atom"
<1> DEFINE t == InQuotes(text)
           n == Len(text)
<1>1. text \in Seq(Runes) /\ n \in Nat /\ \A k \in 1..n : text[k] # Quote
  BY DEF Quoteless
<1>2. /\ t \in Seq(Runes) /\ Len(t) = n + 2 /\ t[1] = Quote /\ t[n + 2] = Quote
      /\ \A k \in 2..n + 1 : t[k] = text[k - 1]
  BY <1>1, InQuotesIs
<1> HIDE DEF t, n
<1>3. \A k \in 1..n + 2 : t[k] = Quote <=> k = 1 \/ k = n + 2
  <2> TAKE k \in 1..n + 2
  <2>1. k \in 2..n + 1 => k - 1 \in 1..n
    BY <1>1
  <2>2. k = 1 \/ k = n + 2 \/ k \in 2..n + 1
    BY <1>1
  <2>3. k \in 2..n + 1 => k # 1 /\ k # n + 2
    BY <1>1
  <2> QED BY <2>1, <2>2, <2>3, <1>1, <1>2
<1>4. Undivided(t)
  <2>0. n + 2 \in Nat /\ 1 \in 1..n + 2 /\ n + 2 \in 1 + 1..n + 2
    BY <1>1
  <2>1. ASSUME NEW k \in 1..n + 2 + 1
        PROVE  Quoted(t, k) <=> 1 < k /\ k <= n + 2
    BY <2>0, <1>3, FewQuotes
  <2>2. ~Quoted(t, Len(t) + 1)
    <3>1. n + 2 + 1 \in 1..n + 2 + 1 /\ ~(n + 2 + 1 <= n + 2)
      BY <1>1
    <3> QED BY <3>1, <2>1, <1>2
  <2>3. ASSUME NEW k \in 1..Len(t), t[k] \in Spaces \cup Parentheses
        PROVE  Quoted(t, k)
    <3>1. k # 1
      BY <2>3, <1>2, ColonsAndQuotes
    <3>2. k \in 1..n + 2 + 1 /\ 1 < k /\ k <= n + 2
      BY <3>1, <1>1, <1>2
    <3> QED BY <3>2, <2>1
  <2>4. Len(t) > 0
    BY <1>1, <1>2
  <2> QED BY <2>2, <2>3, <2>4, <1>2 DEF Undivided
<1>5. KindOf(t) = "atom"
  <2>1. Len(t) # 1
    BY <1>1, <1>2
  <2> QED BY <2>1 DEF KindOf
<1>6. ASSUME NEW field, IsName(field)
      PROVE  Undivided(AtField(field, t)) /\ KindOf(AtField(field, t)) = "atom"
  <2> DEFINE v == AtField(field, t)
             m == Len(field)
  <2>1. /\ field \in Seq(Runes) /\ m \in Nat
        /\ \A k \in 1..m : field[k] \notin Spaces \cup Parentheses /\ field[k] # Quote
    BY <1>6 DEF IsName, IsWord
  <2>2. /\ v \in Seq(Runes) /\ Len(v) = m + 1 + Len(t)
        /\ \A k \in 1..m : v[k] = field[k]
        /\ v[m + 1] = ":"
        /\ \A k \in 1..Len(t) : v[m + 1 + k] = t[k]
    BY <2>1, <1>2, AtFieldIs
  <2> HIDE DEF v, m
  <2>3. Len(v) = m + n + 3 /\ m + n + 3 \in Nat
    BY <2>1, <2>2, <1>1, <1>2
  <2>4. \A k \in m + 2..m + n + 3 : k - (m + 1) \in 1..n + 2 /\ v[k] = t[k - (m + 1)]
    <3> TAKE k \in m + 2..m + n + 3
    <3>1. k - (m + 1) \in 1..n + 2 /\ m + 1 + (k - (m + 1)) = k
      BY <2>1, <1>1
    <3> QED BY <3>1, <2>2, <1>2
  <2>5. \A k \in 1..m + n + 3 : v[k] = Quote <=> k = m + 2 \/ k = m + n + 3
    <3> TAKE k \in 1..m + n + 3
    <3>1. CASE k \in 1..m
      <4>1. v[k] # Quote
        BY <3>1, <2>1, <2>2
      <4>2. k # m + 2 /\ k # m + n + 3
        BY <3>1, <2>1, <1>1
      <4> QED BY <4>1, <4>2
    <3>2. CASE k = m + 1
      <4>1. k # m + 2 /\ k # m + n + 3
        BY <3>2, <2>1, <1>1
      <4> QED BY <4>1, <3>2, <2>2, ColonsAndQuotes
    <3>3. CASE k \in m + 2..m + n + 3
      <4>1. /\ k - (m + 1) = 1 <=> k = m + 2
            /\ k - (m + 1) = n + 2 <=> k = m + n + 3
        BY <3>3, <2>1, <1>1
      <4> QED BY <4>1, <3>3, <2>4, <1>3
    <3> QED BY <3>1, <3>2, <3>3, <2>1, <1>1
  <2>6. ASSUME NEW k \in 1..m + n + 3 + 1
        PROVE  Quoted(v, k) <=> m + 2 < k /\ k <= m + n + 3
    <3>1. m + 2 \in 1..m + n + 3 /\ m + n + 3 \in m + 2 + 1..m + n + 3
      BY <2>1, <1>1
    <3> DEFINE p == m + 2
               last == m + n + 3
    <3>2. p \in 1..last /\ last \in p + 1..last /\ last \in Nat /\ k \in 1..last + 1
      BY <3>1, <2>3
    <3>3. \A j \in 1..last : v[j] = Quote <=> j = p \/ j = last
      BY <2>5
    <3>4. Quoted(v, k) <=> p < k /\ k <= last
      <4> HIDE DEF p, last
      <4> QED BY <3>2, <3>3, FewQuotes
    <3> QED BY <3>4
  <2>7. ~Quoted(v, Len(v) + 1)
    <3>1. m + n + 3 + 1 \in 1..m + n + 3 + 1 /\ ~(m + n + 3 + 1 <= m + n + 3)
      BY <2>3
    <3> QED BY <3>1, <2>3, <2>6
  <2>8. ASSUME NEW k \in 1..Len(v), v[k] \in Spaces \cup Parentheses
        PROVE  Quoted(v, k)
    <3>1. k \notin 1..m /\ k # m + 1
      BY <2>8, <2>1, <2>2, ColonsAndQuotes
    <3>2. k # m + 2
      <4>1. m + 2 \in 1..m + n + 3
        BY <2>1, <1>1
      <4>2. v[m + 2] = Quote
        BY <4>1, <2>5
      <4> QED BY <4>2, <2>8, ColonsAndQuotes
    <3>3. k \in 1..m + n + 3 + 1 /\ m + 2 < k /\ k <= m + n + 3
      BY <3>1, <3>2, <2>1, <2>3, <1>1
    <3> QED BY <3>3, <2>6
  <2>9. Len(v) > 0 /\ Len(v) # 1
    BY <2>1, <2>3, <1>1
  <2> QED BY <2>2, <2>7, <2>8, <2>9 DEF Undivided, KindOf, v
<1> QED BY <1>4, <1>5, <1>6 DEF t

(* Nor is a word, after a field or by itself.                               *)
LEMMA UndividedWord ==
    ASSUME NEW text \in Seq(Runes), IsWord(text), text # <<>>
    PROVE  /\ Undivided(text)
           /\ ":" \in Runes => \A field : IsName(field) =>
                /\ Undivided(AtField(field, text))
                /\ KindOf(AtField(field, text)) = "atom"
<1>1. ASSUME NEW w \in Seq(Runes), IsWord(w), w # <<>>
      PROVE  Undivided(w)
  <2>1. Len(w) \in Nat /\ Len(w) > 0 /\ Len(w) + 1 \in 1..Len(w) + 1
    BY <1>1
  <2>2. ~Quoted(w, Len(w) + 1)
    <3>1. \A k \in 1..Len(w) : w[k] # Quote
      BY <1>1 DEF IsWord
    <3> QED BY <3>1, <2>1, FewQuotes
  <2>3. \A k \in 1..Len(w) : w[k] \notin Spaces \cup Parentheses
    BY <1>1 DEF IsWord
  <2> QED BY <2>1, <2>2, <2>3 DEF Undivided
<1>2. ASSUME NEW field, IsName(field), ":" \in Runes
      PROVE  Undivided(AtField(field, text)) /\ KindOf(AtField(field, text)) = "atom"
  <2> DEFINE v == AtField(field, text)
             m == Len(field)
             n == Len(text)
  <2>1. /\ field \in Seq(Runes) /\ m \in Nat /\ n \in Nat /\ n > 0
        /\ \A k \in 1..m : field[k] \notin Spaces \cup Parentheses /\ field[k] # Quote
        /\ \A k \in 1..n : text[k] \notin Spaces \cup Parentheses /\ text[k] # Quote
    BY <1>2 DEF IsName, IsWord
  <2>2. /\ v \in Seq(Runes) /\ Len(v) = m + 1 + n
        /\ \A k \in 1..m : v[k] = field[k]
        /\ v[m + 1] = ":"
        /\ \A k \in 1..n : v[m + 1 + k] = text[k]
    BY <2>1, <1>2, AtFieldIs
  <2> HIDE DEF v, m, n
  <2>3. IsWord(v)
    <3> SUFFICES ASSUME NEW k \in 1..Len(v)
                 PROVE  v[k] \notin Spaces \cup Parentheses /\ v[k] # Quote
      BY DEF IsWord
    <3>1. CASE k \in 1..m
      BY <3>1, <2>1, <2>2
    <3>2. CASE k = m + 1
      BY <3>2, <2>2, ColonsAndQuotes
    <3>3. CASE k \in m + 2..m + 1 + n
      <4>1. k - (m + 1) \in 1..n /\ m + 1 + (k - (m + 1)) = k
        BY <3>3, <2>1
      <4>2. v[k] = text[k - (m + 1)]
        BY <4>1, <2>2
      <4> QED BY <4>1, <4>2, <2>1
    <3> QED BY <3>1, <3>2, <3>3, <2>1, <2>2
  <2>4. v # <<>> /\ Len(v) # 1
    BY <2>1, <2>2
  <2>5. Undivided(v)
    BY <1>1, <2>2, <2>3, <2>4
  <2> QED BY <2>4, <2>5 DEF KindOf, v
<1> QED BY <1>1, <1>2

(* What is written with a quote left open is refused.                       *)
LEMMA OpenIsRefused ==
    ASSUME NEW field, IsName(field), NEW text, Quoteless(text), Quote \in Runes, ":" \in Runes,
           NEW d
    PROVE  Parse(field \o <<":", Quote>> \o text, d) = Invalid
<1> DEFINE a == <<":", Quote>>
           b == field \o a
           v == b \o text
           m == Len(field)
           n == Len(text)
<1>1. /\ field \in Seq(Runes) /\ m \in Nat /\ text \in Seq(Runes) /\ n \in Nat
      /\ \A k \in 1..m : field[k] # Quote
      /\ \A k \in 1..n : text[k] # Quote
  BY DEF IsName, IsWord, Quoteless
<1>2. a \in Seq(Runes) /\ Len(a) = 2 /\ a[1] = ":" /\ a[2] = Quote
  OBVIOUS
<1> HIDE DEF a, m, n
<1>3. /\ b \in Seq(Runes) /\ Len(b) = m + 2
      /\ \A k \in 1..m + 2 : b[k] = IF k <= m THEN field[k] ELSE a[k - m]
  <2>1. /\ b \in Seq(Runes) /\ Len(b) = Len(field) + Len(a)
        /\ \A k \in 1..Len(field) + Len(a) :
             b[k] = IF k <= Len(field) THEN field[k] ELSE a[k - Len(field)]
    BY ONLY <1>1, <1>2, Joined
  <2> QED BY <2>1, <1>2 DEF m
<1> HIDE DEF b
<1>4. /\ v \in Seq(Runes) /\ Len(v) = m + 2 + n
      /\ \A k \in 1..m + 2 + n : v[k] = IF k <= m + 2 THEN b[k] ELSE text[k - (m + 2)]
  <2>1. /\ v \in Seq(Runes) /\ Len(v) = Len(b) + Len(text)
        /\ \A k \in 1..Len(b) + Len(text) :
             v[k] = IF k <= Len(b) THEN b[k] ELSE text[k - Len(b)]
    BY ONLY <1>1, <1>3, Joined
  <2> QED BY <2>1, <1>3 DEF n
<1> HIDE DEF v
<1>5. \A k \in 1..m + 2 + n : v[k] = Quote <=> k = m + 2
  <2> TAKE k \in 1..m + 2 + n
  <2>1. CASE k \in 1..m
    <3>1. k \in 1..m + 2 /\ k <= m /\ k <= m + 2 /\ k # m + 2
      BY <2>1, <1>1
    <3> QED BY <3>1, <2>1, <1>1, <1>3, <1>4
  <2>2. CASE k = m + 1
    <3>1. k \in 1..m + 2 /\ ~(k <= m) /\ k <= m + 2 /\ k # m + 2 /\ k - m = 1
      BY <2>2, <1>1
    <3> QED BY <3>1, <1>2, <1>3, <1>4, ColonsAndQuotes
  <2>3. CASE k = m + 2
    <3>1. k \in 1..m + 2 /\ ~(k <= m) /\ k <= m + 2 /\ k - m = 2
      BY <2>3, <1>1
    <3> QED BY <3>1, <2>3, <1>2, <1>3, <1>4
  <2>4. CASE k \in m + 3..m + 2 + n
    <3>1. ~(k <= m + 2) /\ k # m + 2 /\ k - (m + 2) \in 1..n
      BY <2>4, <1>1
    <3> QED BY <3>1, <1>1, <1>4
  <2> QED BY <2>1, <2>2, <2>3, <2>4, <1>1
<1>6. Quoted(v, Len(v) + 1)
  <2>1. m + 2 + n \in Nat /\ m + 2 \in 1..m + 2 + n
    BY <1>1
  <2>2. m + 2 + n + 1 \in 1..m + 2 + n + 1 /\ m + 2 < m + 2 + n + 1
    BY <1>1
  <2>3. Quoted(v, m + 2 + n + 1) <=> m + 2 < m + 2 + n + 1
    BY ONLY <2>1, <2>2, <1>5, FewQuotes
  <2> QED BY <2>2, <2>3, <1>4
<1>7. Refused(Lex(v))
  BY <1>4, <1>6, LexingIsExactForAnyText DEF LexCutsOutsideQuotes
<1> QED BY <1>7 DEF Parse, v, b, a

(* Fields, phrases, prefixes and words are read as written, whatever they   *)
(* are: names are the words without a colon, as a field or as default.      *)
THEOREM WritingIsReadForAnyText ==
    ASSUME NEW field, IsName(field), NEW text, Quoteless(text), {":", Quote} \subseteq Runes,
           NEW default, default # <<>>
    PROVE  ReadsWhatIsWritten(field, text, default)
<1> DEFINE Plain(s) == \A k \in DOMAIN s :
                         s[k] \notin Spaces \cup Parentheses \cup {Quote}
           quoted == <<Quote>> \o text \o <<Quote>>
           word(f) == IF Last(text) = "*" /\ Len(text) > 1
                      THEN Prefix(f, Front(text)) ELSE Match(f, text, "OR")
           colon == Contains(text, ":")
<1>1. text \in Seq(Runes) /\ field \in Seq(Runes) /\ field # <<>> /\ ":" \in Runes /\ Quote \in Runes
  BY DEF Quoteless, IsName
<1>2. quoted = InQuotes(text) /\ quoted \in Seq(Runes)
  BY <1>1, InQuotesIs DEF InQuotes
<1>3. Parse(field \o <<":">> \o quoted, default) = Phrase(field, text, 0)
  <2>1. Undivided(AtField(field, quoted)) /\ KindOf(AtField(field, quoted)) = "atom"
    BY <1>1, <1>2, UndividedQuotes
  <2>2. AtomQuery(AtField(field, quoted), default) = Reading(field, quoted)
    BY <1>1, <1>2, AtomWithField
  <2>3. Reading(field, quoted) = Phrase(field, text, 0)
    BY <1>1, <1>2, ReadingQuoted
  <2>4. Parse(AtField(field, quoted), default) = Phrase(field, text, 0)
    BY <2>1, <2>2, <2>3, AtomIsRead
  <2> QED BY <2>4 DEF AtField
<1>4. Parse(field \o <<":", Quote>> \o text, default) = Invalid
  BY <1>1, OpenIsRefused
<1>5. ASSUME ~colon
      PROVE  Parse(quoted, default) = Phrase(default, text, 0)
  <2>1. \A k \in 1..Len(text) : text[k] # ":"
    BY <1>5 DEF Contains
  <2>2. \A k \in 1..Len(quoted) : quoted[k] # ":"
    <3> TAKE k \in 1..Len(quoted)
    <3>1. /\ Len(quoted) = Len(text) + 2 /\ Len(text) \in Nat
          /\ quoted[1] = Quote /\ quoted[Len(text) + 2] = Quote
          /\ \A j \in 2..Len(text) + 1 : quoted[j] = text[j - 1]
      BY <1>1, <1>2, InQuotesIs
    <3> HIDE DEF quoted
    <3>2. k = 1 \/ k = Len(text) + 2 \/ (k \in 2..Len(text) + 1 /\ k - 1 \in 1..Len(text))
      BY <3>1
    <3> QED BY <3>1, <3>2, <2>1, ColonsAndQuotes
  <2>3. AtomQuery(quoted, default) = Reading(default, quoted)
    BY <2>2, <1>2, AtomWithoutField
  <2>4. Reading(default, quoted) = Phrase(default, text, 0)
    BY <1>1, <1>2, ReadingQuoted
  <2>5. Undivided(quoted) /\ KindOf(quoted) = "atom"
    BY <1>1, <1>2, UndividedQuotes
  <2> QED BY <2>3, <2>4, <2>5, AtomIsRead
<1>6. ASSUME Plain(text), text # <<>>
      PROVE  /\ Parse(field \o <<":">> \o text, default) = word(field)
             /\ ~colon /\ KindOf(text) = "atom" => Parse(text, default) = word(default)
  <2>1. IsWord(text)
    <3>1. DOMAIN text = 1..Len(text)
      BY <1>1
    <3> QED BY <3>1, <1>6 DEF IsWord
  <2>2. Reading(field, text) = word(field) /\ Reading(default, text) = word(default)
    BY <1>1, <1>6, <2>1, ReadingWord
  <2>3. Parse(AtField(field, text), default) = word(field)
    <3>1. Undivided(AtField(field, text)) /\ KindOf(AtField(field, text)) = "atom"
      BY <1>1, <1>6, <2>1, UndividedWord
    <3>2. AtomQuery(AtField(field, text), default) = Reading(field, text)
      BY <1>1, AtomWithField
    <3> QED BY <3>1, <3>2, <2>2, AtomIsRead
  <2>4. ASSUME ~colon, KindOf(text) = "atom"
        PROVE  Parse(text, default) = word(default)
    <3>1. Undivided(text)
      BY <1>1, <1>6, <2>1, UndividedWord
    <3>2. \A k \in 1..Len(text) : text[k] # ":"
      BY <2>4 DEF Contains
    <3>3. AtomQuery(text, default) = Reading(default, text)
      BY <1>1, <3>2, AtomWithoutField
    <3> QED BY <3>1, <3>3, <2>2, <2>4, AtomIsRead
  <2> QED BY <2>3, <2>4 DEF AtField
<1> QED BY <1>3, <1>4, <1>5, <1>6 DEF ReadsWhatIsWritten
=============================================================================
