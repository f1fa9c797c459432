------------------------- MODULE Operations_proofs -------------------------
(***************************************************************************)
(* The operations that keep no state do what they promise on every input.  *)
(*                                                                         *)
(* Each invariant of Operations says what the answer to a call is, and a   *)
(* call is made on an input of the constants: so each follows from a       *)
(* theorem about the operator for all inputs. The Viterbi labels are       *)
(* optimal because no path scores above the score of its last state, and   *)
(* the path of the labels attains it. Fragments lie in order and apart     *)
(* because their groups of matches do, by more than a fragment; each       *)
(* match is then tagged when its window is written. Queries nest: they     *)
(* are taken from a finite set that holds with each query its clauses,     *)
(* and by induction over its levels each scores the documents that         *)
(* satisfy it, by the sum of their weights, and no other; the hits are     *)
(* then those documents, ranked and cut. What the parser reads are such    *)
(* queries, too; by induction over the length of a part of the tokens,     *)
(* the grammar gives that part exactly the meanings of the reads that      *)
(* begin with its first token and end with its last, so the whole has one  *)
(* meaning or none.                                                        *)
(***************************************************************************)
EXTENDS Operations, Parts_proofs

Score == Int \cup {NegInf}
NotAbove(a, b) == ~Above(a, b)

(* Scores are ordered, and adding a score keeps their order.                *)
LEMMA LogPlusIsScore ==
    ASSUME NEW a \in Score, NEW b \in Score
    PROVE  /\ LogPlus(a, b) \in Score
           /\ LogPlus(a, b) # NegInf => a # NegInf /\ b # NegInf
BY SegmentationAssumption DEF Score, LogPlus

(* No score is above itself.                                               *)
LEMMA NotAboveItself ==
    ASSUME NEW a \in Score
    PROVE  NotAbove(a, a)
BY SegmentationAssumption DEF Score, Above, NotAbove

(* Not being above passes on.                                              *)
LEMMA NotAboveFollows ==
    ASSUME NEW a \in Score, NEW b \in Score, NEW c \in Score, NotAbove(a, b), NotAbove(b, c)
    PROVE  NotAbove(a, c)
<1>1. CASE a = NegInf \/ b = NegInf
  BY <1>1 DEF Above, NotAbove
<1>2. CASE a # NegInf /\ b # NegInf
  <2>1. c # NegInf
    BY <1>2 DEF Above, NotAbove
  <2>2. a \in Int /\ b \in Int /\ c \in Int
    BY <1>2, <2>1 DEF Score
  <2>3. ~(a > b) /\ ~(b > c)
    BY <1>2, <2>1 DEF Above, NotAbove
  <2>4. ~(a > c)
    BY <2>2, <2>3
  <2> QED BY <2>4, <2>1 DEF Above, NotAbove
<1> QED BY <1>1, <1>2

(* Of two scores one is not above the other.                               *)
LEMMA NotAboveOrBack ==
    ASSUME NEW a \in Score, NEW b \in Score, Above(a, b)
    PROVE  NotAbove(b, a)
<1>1. CASE b = NegInf
  BY <1>1 DEF Above, NotAbove
<1>2. CASE b # NegInf
  <2>1. a # NegInf /\ a > b
    BY <1>2 DEF Above
  <2>2. a \in Int /\ b \in Int
    BY <1>2, <2>1 DEF Score
  <2>3. ~(b > a)
    BY <2>1, <2>2
  <2> QED BY <2>1, <2>3 DEF Above, NotAbove
<1> QED BY <1>1, <1>2

(* Adding the same to both keeps their order.                              *)
LEMMA NotAbovePlus ==
    ASSUME NEW a \in Score, NEW b \in Score, NEW c \in Score, NotAbove(a, b)
    PROVE  NotAbove(LogPlus(a, c), LogPlus(b, c))
<1>1. CASE a = NegInf \/ c = NegInf
  <2>1. LogPlus(a, c) = NegInf
    BY <1>1 DEF LogPlus
  <2> QED BY <2>1 DEF Above, NotAbove
<1>2. CASE a # NegInf /\ c # NegInf
  <2>1. b # NegInf /\ ~(a > b)
    BY <1>2 DEF Above, NotAbove
  <2>2. a \in Int /\ b \in Int /\ c \in Int
    BY <1>2, <2>1 DEF Score
  <2>3. LogPlus(a, c) = a + c /\ LogPlus(b, c) = b + c
    BY <1>2, <2>1 DEF LogPlus
  <2>4. ~(a + c > b + c) /\ a + c \in Int /\ b + c \in Int
    BY <2>1, <2>2
  <2>5. b + c # NegInf
    BY <2>4, SegmentationAssumption
  <2> QED BY <2>3, <2>4, <2>5 DEF Above, NotAbove
<1> QED BY <1>1, <1>2

\* A model gives every state a score.
Scored(m) ==
  /\ \A s \in States : m.start[s] \in Score
  /\ \A s, t \in States : m.transition[s][t] \in Score
  /\ \A r \in Runes, s \in States : Emission(m, r, s) \in Score

(* The best predecessor is a state that none is above.                      *)
LEMMA BestPreviousIsBest ==
    ASSUME NEW m, NEW scores, NEW s \in States,
           \A p \in States : scores[p] \in Score /\ m.transition[p][s] \in Score
    PROVE  /\ BestPrevious(m, scores, s) \in States
           /\ \A p \in States : NotAbove(LogPlus(scores[p], m.transition[p][s]),
                                         LogPlus(scores[BestPrevious(m, scores, s)],
                                                 m.transition[BestPrevious(m, scores, s)][s]))
<1> DEFINE score(p) == LogPlus(scores[p], m.transition[p][s])
           at(k) == score(StateOrder[k])
           best(k, l) == IF Above(score(StateOrder[l]), score(StateOrder[k])) THEN l ELSE k
           a == best(1, 2)
           b == best(a, 3)
           c == best(b, 4)
<1>1. BestPrevious(m, scores, s) = StateOrder[c]
  BY DEF BestPrevious
<1>2. \A k \in 1..4 : StateOrder[k] \in States
  BY DEF StateOrder, States
<1>3. \A p \in States : \E k \in 1..4 : StateOrder[k] = p
  <2>1. StateOrder[1] = "B" /\ StateOrder[2] = "M" /\ StateOrder[3] = "E" /\ StateOrder[4] = "S"
    BY DEF StateOrder
  <2> QED BY <2>1 DEF States
<1>4. \A k \in 1..4 : at(k) \in Score
  BY <1>2, LogPlusIsScore
<1>5. ASSUME NEW k \in 1..4, NEW l \in 1..4
      PROVE  /\ best(k, l) \in 1..4
             /\ NotAbove(at(k), at(best(k, l)))
             /\ NotAbove(at(l), at(best(k, l)))
  <2> HIDE DEF score
  <2>1. CASE Above(at(l), at(k))
    <3>1. best(k, l) = l
      BY <2>1
    <3>2. NotAbove(at(k), at(l)) /\ NotAbove(at(l), at(l))
      BY <2>1, <1>4, NotAboveOrBack, NotAboveItself
    <3> QED BY <3>1, <3>2
  <2>2. CASE ~Above(at(l), at(k))
    <3>1. best(k, l) = k
      BY <2>2
    <3>2. NotAbove(at(l), at(k)) /\ NotAbove(at(k), at(k))
      BY <2>2, <1>4, NotAboveItself DEF NotAbove
    <3> QED BY <3>1, <3>2
  <2> QED BY <2>1, <2>2
<1> HIDE DEF at, best
<1>6. a \in 1..4 /\ NotAbove(at(1), at(a)) /\ NotAbove(at(2), at(a))
  BY <1>5
<1> HIDE DEF a
<1>7. b \in 1..4 /\ NotAbove(at(a), at(b)) /\ NotAbove(at(3), at(b))
  BY <1>5, <1>6
<1> HIDE DEF b
<1>8. c \in 1..4 /\ NotAbove(at(b), at(c)) /\ NotAbove(at(4), at(c))
  BY <1>5, <1>7
<1> HIDE DEF c
<1>9. NotAbove(at(a), at(c))
  BY <1>4, <1>6, <1>7, <1>8, NotAboveFollows
<1>10. NotAbove(at(3), at(c))
  BY <1>4, <1>7, <1>8, NotAboveFollows
<1>11. NotAbove(at(1), at(c)) /\ NotAbove(at(2), at(c))
  BY <1>4, <1>6, <1>8, <1>9, NotAboveFollows
<1>12. \A k \in 1..4 : NotAbove(at(k), at(c))
  <2>1. \A k \in 1..4 : k = 1 \/ k = 2 \/ k = 3 \/ k = 4
    OBVIOUS
  <2> QED BY <2>1, <1>8, <1>10, <1>11
<1>13. ASSUME NEW p \in States
       PROVE  NotAbove(score(p), score(StateOrder[c]))
  <2>1. PICK k \in 1..4 : StateOrder[k] = p
    BY <1>3
  <2>2. NotAbove(at(k), at(c))
    BY <1>12
  <2> HIDE DEF score
  <2> QED BY <2>1, <2>2 DEF at
<1> QED BY <1>1, <1>2, <1>8, <1>13

-----------------------------------------------------------------------------
(* The scores, the labels and the score of a path.                          *)

ScoreAt(m, text, scores, k) ==
  IF k = 1 THEN [s \in States |-> LogPlus(m.start[s], Emission(m, text[1], s))]
  ELSE Column(m, scores[k - 1], text[k])

ScoresOf(scores, m, text) == scores = [k \in 1..Len(text) |-> ScoreAt(m, text, scores, k)]

LabelAt(m, scores, n, label, k) ==
  IF k = n THEN IF Above(scores[n]["S"], scores[n]["E"]) THEN "S" ELSE "E"
  ELSE BestPrevious(m, scores[k], label[k + 1])

LabelsOf(label, m, scores, n) == label = [k \in 1..n |-> LabelAt(m, scores, n, label, k)]

PathAt(m, text, path, upTo, k) ==
  LogPlus(IF k = 1 THEN m.start[path[1]]
          ELSE LogPlus(upTo[k - 1], m.transition[path[k - 1]][path[k]]),
          Emission(m, text[k], path[k]))

PathOf(upTo, m, text, path) == upTo = [k \in 1..Len(text) |-> PathAt(m, text, path, upTo, k)]

(* A column of scores: each is the best over the states before.             *)
LEMMA ColumnIs ==
    ASSUME NEW m, NEW scores, NEW r \in Runes, Scored(m), \A p \in States : scores[p] \in Score
    PROVE  /\ Column(m, scores, r) \in [States -> Score]
           /\ \A s \in States :
                /\ BestPrevious(m, scores, s) \in States
                /\ Column(m, scores, r)[s] =
                     LogPlus(LogPlus(scores[BestPrevious(m, scores, s)],
                                     m.transition[BestPrevious(m, scores, s)][s]), Emission(m, r, s))
                /\ \A p \in States :
                     NotAbove(LogPlus(LogPlus(scores[p], m.transition[p][s]), Emission(m, r, s)),
                              Column(m, scores, r)[s])
<1>1. ASSUME NEW s \in States
      PROVE  /\ BestPrevious(m, scores, s) \in States
             /\ Column(m, scores, r)[s] =
                  LogPlus(LogPlus(scores[BestPrevious(m, scores, s)],
                                  m.transition[BestPrevious(m, scores, s)][s]), Emission(m, r, s))
             /\ Column(m, scores, r)[s] \in Score
             /\ \A p \in States :
                  NotAbove(LogPlus(LogPlus(scores[p], m.transition[p][s]), Emission(m, r, s)),
                           Column(m, scores, r)[s])
  <2> DEFINE b == BestPrevious(m, scores, s)
             e == Emission(m, r, s)
             sum(p) == LogPlus(scores[p], m.transition[p][s])
  <2>1. \A p \in States : scores[p] \in Score /\ m.transition[p][s] \in Score
    BY DEF Scored
  <2>2. b \in States /\ \A p \in States : NotAbove(sum(p), sum(b))
    BY <2>1, BestPreviousIsBest
  <2>3. Column(m, scores, r)[s] = LogPlus(sum(b), e)
    BY DEF Column
  <2>4. \A p \in States : sum(p) \in Score
    BY <2>1, LogPlusIsScore
  <2>5. e \in Score
    BY DEF Scored
  <2> HIDE DEF b, e, sum
  <2>6. LogPlus(sum(b), e) \in Score
    BY <2>2, <2>4, <2>5, LogPlusIsScore
  <2>7. \A p \in States : NotAbove(LogPlus(sum(p), e), LogPlus(sum(b), e))
    BY <2>2, <2>4, <2>5, NotAbovePlus
  <2> QED BY <2>2, <2>3, <2>6, <2>7 DEF sum, b, e
<1>2. Column(m, scores, r) = [s \in States |-> Column(m, scores, r)[s]]
  BY DEF Column
<1>3. Column(m, scores, r) \in [States -> Score]
  BY <1>1, <1>2
<1> QED BY <1>1, <1>3

\* What the scores and the labels of a text are.
ScoresAre(scores, m, text) ==
  /\ scores \in [1..Len(text) -> [States -> Score]]
  /\ \A s \in States : scores[1][s] = LogPlus(m.start[s], Emission(m, text[1], s))
  /\ \A k \in 2..Len(text) : scores[k] = Column(m, scores[k - 1], text[k])

LabelsAre(label, m, scores, n) ==
  /\ label \in [1..n -> States]
  /\ label[n] = IF Above(scores[n]["S"], scores[n]["E"]) THEN "S" ELSE "E"
  /\ \A k \in 1..n - 1 : label[k] = BestPrevious(m, scores[k], label[k + 1])

(* The scores exist.                                                       *)
LEMMA ScoresExist ==
    ASSUME NEW m, NEW text \in Seq(Runes), text # <<>>, Scored(m)
    PROVE  \E scores : ScoresOf(scores, m, text)
<1> DEFINE n == Len(text)
           V == [States -> Score]
           v1 == [s \in States |-> LogPlus(m.start[s], Emission(m, text[1], s))]
           step == [k \in 2..n |-> [c \in V |-> Column(m, c, text[k])]]
<1>1. n \in Nat \ {0} /\ \A k \in 1..n : text[k] \in Runes
  OBVIOUS
<1>2. v1 \in V
  <2>1. 1 \in 1..n
    BY <1>1
  <2>2. \A s \in States : m.start[s] \in Score /\ Emission(m, text[1], s) \in Score
    BY <2>1, <1>1 DEF Scored
  <2> QED BY <2>2, LogPlusIsScore
<1> HIDE DEF n
<1>3. ASSUME NEW k \in 2..n, NEW c \in V
      PROVE  Column(m, c, text[k]) \in V
  <2>1. text[k] \in Runes
    BY <1>1
  <2>2. \A p \in States : c[p] \in Score
    OBVIOUS
  <2> QED BY <2>1, <2>2, ColumnIs
<1>4. step \in [2..n -> [V -> V]]
  <2> HIDE DEF V
  <2> QED BY <1>3
<1>5. PICK f \in [1..n -> V] : f[1] = v1 /\ \A k \in 2..n : f[k] = step[k][f[k - 1]]
  <2> HIDE DEF V, v1, step
  <2>1. Chains(n, V, v1, step)
    BY <1>1, <1>2, <1>4 DEF Chains
  <2>2. \E f : ChainOf(f, n, V, v1, step)
    BY <2>1, ChainFunction
  <2> QED BY <2>2 DEF ChainOf
<1>6. ASSUME NEW k \in 1..n
      PROVE  f[k] = ScoreAt(m, text, f, k)
  <2>1. CASE k = 1
    BY <2>1, <1>5 DEF ScoreAt
  <2>2. CASE k # 1
    <3>1. k \in 2..n /\ k - 1 \in 1..n
      BY <2>2, <1>1
    <3>2. f[k - 1] \in V
      BY <3>1
    <3> HIDE DEF V, v1
    <3>3. step[k][f[k - 1]] = Column(m, f[k - 1], text[k])
      BY <3>1, <3>2
    <3> QED BY <3>1, <3>3, <1>5, <2>2 DEF ScoreAt
  <2> QED BY <2>1, <2>2
<1>7. f = [k \in 1..n |-> f[k]]
  OBVIOUS
<1>8. ScoresOf(f, m, text)
  <2> HIDE DEF V, v1, step
  <2> QED BY <1>6, <1>7 DEF ScoresOf, n
<1> QED BY <1>8

(* Scores are scores.                                                      *)
LEMMA ScoresAreScores ==
    ASSUME NEW m, NEW text \in Seq(Runes), text # <<>>, Scored(m), NEW scores, ScoresOf(scores, m, text)
    PROVE  ScoresAre(scores, m, text)
<1> DEFINE n == Len(text)
           V == [States -> Score]
           S == {k \in Nat : k + 1 <= n => scores[k + 1] \in V}
<1>1. n \in Nat \ {0} /\ (\A k \in 1..n : text[k] \in Runes) /\ 1 \in 1..n
  OBVIOUS
<1> HIDE DEF n
<1>2. scores = [k \in 1..n |-> ScoreAt(m, text, scores, k)]
  BY DEF ScoresOf, n
<1>3. scores[1] = [s \in States |-> LogPlus(m.start[s], Emission(m, text[1], s))]
  BY <1>1, <1>2 DEF ScoreAt
<1>4. scores[1] \in V
  <2>1. \A s \in States : m.start[s] \in Score /\ Emission(m, text[1], s) \in Score
    BY <1>1 DEF Scored
  <2> QED BY <2>1, <1>3, LogPlusIsScore
<1>5. ASSUME NEW k \in 2..n
      PROVE  scores[k] = Column(m, scores[k - 1], text[k]) /\ k \in 1..n /\ k - 1 \in 1..n
  <2>1. k \in 1..n /\ k # 1 /\ k - 1 \in 1..n
    BY <1>1
  <2> QED BY <2>1, <1>2 DEF ScoreAt
<1>6. 0 \in S
  BY <1>4
<1>7. ASSUME NEW k \in S
      PROVE  k + 1 \in S
  <2> SUFFICES ASSUME (k + 1) + 1 <= n PROVE scores[(k + 1) + 1] \in V
    OBVIOUS
  <2>1. (k + 1) + 1 \in 2..n /\ ((k + 1) + 1) - 1 = k + 1 /\ k + 1 <= n
    BY <1>1
  <2>2. scores[k + 1] \in V
    BY <2>1
  <2>3. scores[(k + 1) + 1] = Column(m, scores[k + 1], text[(k + 1) + 1])
    <3> HIDE DEF S, V
    <3> QED BY <2>1, <1>5
  <2>4. text[(k + 1) + 1] \in Runes
    BY <2>1, <1>1
  <2>5. \A p \in States : scores[k + 1][p] \in Score
    BY <2>2
  <2>6. Column(m, scores[k + 1], text[(k + 1) + 1]) \in V
    BY <2>4, <2>5, ColumnIs
  <2> QED BY <2>3, <2>6
<1>8. S = Nat
  <2>1. S \in SUBSET Nat
    OBVIOUS
  <2> HIDE DEF S
  <2> QED BY <1>6, <1>7, <2>1, NumberInduction
<1>9. ASSUME NEW k \in 1..n
      PROVE  scores[k] \in V
  <2>1. k - 1 \in Nat /\ (k - 1) + 1 = k /\ k <= n
    BY <1>1
  <2>2. k - 1 \in S
    <3> HIDE DEF S
    <3> QED BY <2>1, <1>8
  <2> QED BY <2>1, <2>2
<1>10. scores \in [1..n -> V]
  <2>1. DOMAIN scores = 1..n /\ scores = [k \in 1..n |-> scores[k]]
    BY <1>2
  <2> HIDE DEF V
  <2> QED BY <2>1, <1>9
<1>11. \A s \in States : scores[1][s] = LogPlus(m.start[s], Emission(m, text[1], s))
  BY <1>3
<1> QED BY <1>5, <1>10, <1>11 DEF ScoresAre, n

(* The labels exist.                                                       *)
LEMMA LabelsExist ==
    ASSUME NEW m, NEW n \in Nat \ {0}, Scored(m), NEW scores \in [1..n -> [States -> Score]]
    PROVE  \E label : LabelsOf(label, m, scores, n)
<1> DEFINE v1 == IF Above(scores[n]["S"], scores[n]["E"]) THEN "S" ELSE "E"
           step == [j \in 2..n |-> [s \in States |-> BestPrevious(m, scores[n + 1 - j], s)]]
<1>1. v1 \in States
  BY DEF States
<1>2. ASSUME NEW j \in 2..n, NEW s \in States
      PROVE  BestPrevious(m, scores[n + 1 - j], s) \in States
  <2>1. n + 1 - j \in 1..n
    OBVIOUS
  <2>2. \A p \in States : scores[n + 1 - j][p] \in Score /\ m.transition[p][s] \in Score
    BY <2>1 DEF Scored
  <2> QED BY <2>2, BestPreviousIsBest
<1>3. step \in [2..n -> [States -> States]]
  BY <1>2
<1>4. PICK f \in [1..n -> States] : f[1] = v1 /\ \A j \in 2..n : f[j] = step[j][f[j - 1]]
  <2> HIDE DEF v1, step
  <2>1. Chains(n, States, v1, step)
    BY <1>1, <1>3 DEF Chains
  <2>2. \E f : ChainOf(f, n, States, v1, step)
    BY <2>1, ChainFunction
  <2> QED BY <2>2 DEF ChainOf
<1> DEFINE label == [k \in 1..n |-> f[n + 1 - k]]
<1>5. ASSUME NEW k \in 1..n
      PROVE  f[n + 1 - k] = LabelAt(m, scores, n, label, k)
  <2>1. CASE k = n
    <3>1. n + 1 - k = 1
      BY <2>1
    <3> QED BY <3>1, <2>1, <1>4 DEF LabelAt
  <2>2. CASE k # n
    <3>1. /\ n + 1 - k \in 2..n /\ (n + 1 - k) - 1 \in 1..n /\ n + 1 - (n + 1 - k) = k
          /\ k + 1 \in 1..n /\ n + 1 - (k + 1) = (n + 1 - k) - 1
      BY <2>2
    <3>2. label[k + 1] = f[(n + 1 - k) - 1]
      BY <3>1
    <3>3. f[(n + 1 - k) - 1] \in States
      BY <3>1
    <3>4. step[n + 1 - k][f[(n + 1 - k) - 1]] = BestPrevious(m, scores[k], f[(n + 1 - k) - 1])
      BY <3>1, <3>3
    <3>5. f[n + 1 - k] = BestPrevious(m, scores[k], label[k + 1])
      <4> HIDE DEF step, label, v1
      <4> QED BY <3>1, <3>2, <3>4, <1>4
    <3> HIDE DEF label
    <3> QED BY <3>5, <2>2 DEF LabelAt
  <2> QED BY <2>1, <2>2
<1>6. LabelsOf(label, m, scores, n)
  BY <1>5 DEF LabelsOf
<1> QED BY <1>6

(* Labels are labels.                                                      *)
LEMMA LabelsAreLabels ==
    ASSUME NEW m, NEW n \in Nat \ {0}, Scored(m), NEW scores \in [1..n -> [States -> Score]],
           NEW label, LabelsOf(label, m, scores, n)
    PROVE  LabelsAre(label, m, scores, n)
<1> DEFINE S == {j \in Nat : j + 1 <= n => label[n - j] \in States}
<1>1. label = [k \in 1..n |-> LabelAt(m, scores, n, label, k)]
  BY DEF LabelsOf
<1>2. label[n] = IF Above(scores[n]["S"], scores[n]["E"]) THEN "S" ELSE "E"
  <2>1. n \in 1..n
    OBVIOUS
  <2> QED BY <2>1, <1>1 DEF LabelAt
<1>3. ASSUME NEW k \in 1..n - 1
      PROVE  label[k] = BestPrevious(m, scores[k], label[k + 1]) /\ k \in 1..n
  <2>1. k \in 1..n /\ k # n
    OBVIOUS
  <2> QED BY <2>1, <1>1 DEF LabelAt
<1>4. 0 \in S
  BY <1>2 DEF States
<1>5. ASSUME NEW j \in S
      PROVE  j + 1 \in S
  <2> SUFFICES ASSUME (j + 1) + 1 <= n PROVE label[n - (j + 1)] \in States
    OBVIOUS
  <2> DEFINE k == n - (j + 1)
  <2>1. k \in 1..n - 1 /\ k + 1 = n - j /\ j + 1 <= n /\ k \in 1..n
    OBVIOUS
  <2>2. label[k + 1] \in States
    BY <2>1
  <2> HIDE DEF k, S
  <2>3. \A p \in States, s \in States : scores[k][p] \in Score /\ m.transition[p][s] \in Score
    BY <2>1 DEF Scored
  <2>4. BestPrevious(m, scores[k], label[k + 1]) \in States
    BY <2>2, <2>3, BestPreviousIsBest
  <2>5. label[k] \in States
    BY <2>1, <2>4, <1>3
  <2> QED BY <2>5 DEF k
<1>6. S = Nat
  <2>1. S \in SUBSET Nat
    OBVIOUS
  <2> HIDE DEF S
  <2> QED BY <1>4, <1>5, <2>1, NumberInduction
<1>7. ASSUME NEW k \in 1..n
      PROVE  label[k] \in States
  <2>1. n - k \in Nat /\ (n - k) + 1 <= n /\ n - (n - k) = k
    OBVIOUS
  <2>2. n - k \in S
    <3> HIDE DEF S
    <3> QED BY <2>1, <1>6
  <2> QED BY <2>1, <2>2
<1>8. label \in [1..n -> States]
  <2>1. DOMAIN label = 1..n /\ label = [k \in 1..n |-> label[k]]
    BY <1>1
  <2> QED BY <2>1, <1>7
<1> QED BY <1>2, <1>3, <1>8 DEF LabelsAre

(* What Viterbi computes.                                                  *)
LEMMA ViterbiIs ==
    ASSUME NEW m, NEW text \in Seq(Runes), text # <<>>, Scored(m)
    PROVE  \E scores : /\ ScoresAre(scores, m, text)
                       /\ LabelsAre(Viterbi(m, text), m, scores, Len(text))
<1> DEFINE n == Len(text)
           sc == CHOOSE scores : ScoresOf(scores, m, text)
           lab == CHOOSE label : LabelsOf(label, m, sc, n)
<1>1. n \in Nat \ {0}
  OBVIOUS
<1>2. ScoresOf(sc, m, text)
  BY ScoresExist
<1> HIDE DEF sc
<1>3. ScoresAre(sc, m, text)
  BY <1>2, ScoresAreScores
<1>4. sc \in [1..n -> [States -> Score]]
  BY <1>3 DEF ScoresAre
<1> HIDE DEF n
<1>5. LabelsOf(lab, m, sc, n)
  BY <1>1, <1>4, LabelsExist
<1>6. Viterbi(m, text) = [k \in 1..n |-> lab[k]]
  BY Zenon DEF Viterbi, ScoresOf, ScoreAt, LabelsOf, LabelAt, sc, n
<1> HIDE DEF lab
<1>7. LabelsAre(lab, m, sc, n)
  BY <1>1, <1>4, <1>5, LabelsAreLabels
<1>8. Viterbi(m, text) = lab
  <2>1. lab \in [1..n -> States]
    BY <1>7 DEF LabelsAre
  <2>2. lab = [k \in 1..n |-> lab[k]]
    BY <2>1
  <2> QED BY <2>2, <1>6
<1>9. LabelsAre(Viterbi(m, text), m, sc, n)
  BY <1>7, <1>8
<1> QED BY <1>3, <1>9 DEF n

\* What the scores of a path are.
PathIs(upTo, m, text, path) ==
  /\ upTo \in [1..Len(text) -> Score]
  /\ upTo[1] = LogPlus(m.start[path[1]], Emission(m, text[1], path[1]))
  /\ \A k \in 2..Len(text) :
       upTo[k] = LogPlus(LogPlus(upTo[k - 1], m.transition[path[k - 1]][path[k]]),
                         Emission(m, text[k], path[k]))

(* The scores of a path exist.                                             *)
LEMMA PathExists ==
    ASSUME NEW m, NEW text \in Seq(Runes), text # <<>>, Scored(m), NEW path \in [1..Len(text) -> States]
    PROVE  \E upTo : PathOf(upTo, m, text, path)
<1> DEFINE n == Len(text)
           v1 == LogPlus(m.start[path[1]], Emission(m, text[1], path[1]))
           add(k, v) == LogPlus(LogPlus(v, m.transition[path[k - 1]][path[k]]), Emission(m, text[k], path[k]))
           step == [k \in 2..n |-> [v \in Score |-> add(k, v)]]
<1>1. n \in Nat \ {0} /\ (\A k \in 1..n : text[k] \in Runes /\ path[k] \in States) /\ 1 \in 1..n
  OBVIOUS
<1> HIDE DEF n
<1>2. v1 \in Score
  <2>1. m.start[path[1]] \in Score /\ Emission(m, text[1], path[1]) \in Score
    BY <1>1 DEF Scored
  <2> QED BY <2>1, LogPlusIsScore
<1>3. ASSUME NEW k \in 2..n, NEW v \in Score
      PROVE  add(k, v) \in Score
  <2>1. k \in 1..n /\ k - 1 \in 1..n
    BY <1>1
  <2>2. m.transition[path[k - 1]][path[k]] \in Score /\ Emission(m, text[k], path[k]) \in Score
    BY <2>1, <1>1 DEF Scored
  <2> QED BY <2>2, LogPlusIsScore
<1> HIDE DEF v1, add
<1>4. step \in [2..n -> [Score -> Score]]
  BY <1>3
<1>5. PICK f \in [1..n -> Score] : f[1] = v1 /\ \A k \in 2..n : f[k] = step[k][f[k - 1]]
  <2> HIDE DEF step
  <2>1. Chains(n, Score, v1, step)
    BY <1>1, <1>2, <1>4 DEF Chains
  <2>2. \E f : ChainOf(f, n, Score, v1, step)
    BY <2>1, ChainFunction
  <2> QED BY <2>2 DEF ChainOf
<1>6. ASSUME NEW k \in 1..n
      PROVE  f[k] = PathAt(m, text, path, f, k)
  <2>1. CASE k = 1
    BY <2>1, <1>5 DEF PathAt, v1
  <2>2. CASE k # 1
    <3>1. k \in 2..n /\ k - 1 \in 1..n
      BY <2>2, <1>1
    <3>2. f[k - 1] \in Score
      BY <3>1
    <3>3. step[k][f[k - 1]] = add(k, f[k - 1])
      BY <3>1, <3>2
    <3>4. f[k] = add(k, f[k - 1])
      BY <3>1, <3>3, <1>5
    <3> QED BY <3>4, <2>2 DEF PathAt, add
  <2> QED BY <2>1, <2>2
<1>7. f = [k \in 1..n |-> f[k]]
  OBVIOUS
<1>8. PathOf(f, m, text, path)
  <2> HIDE DEF step
  <2> QED BY <1>6, <1>7 DEF PathOf, n
<1> QED BY <1>8

(* The scores of a path are scores.                                        *)
LEMMA PathIsScores ==
    ASSUME NEW m, NEW text \in Seq(Runes), text # <<>>, Scored(m), NEW path \in [1..Len(text) -> States],
           NEW upTo, PathOf(upTo, m, text, path)
    PROVE  PathIs(upTo, m, text, path)
<1> DEFINE n == Len(text)
           S == {k \in Nat : k + 1 <= n => upTo[k + 1] \in Score}
<1>1. n \in Nat \ {0} /\ (\A k \in 1..n : text[k] \in Runes /\ path[k] \in States) /\ 1 \in 1..n
  OBVIOUS
<1> HIDE DEF n
<1>2. upTo = [k \in 1..n |-> PathAt(m, text, path, upTo, k)]
  BY DEF PathOf, n
<1>3. upTo[1] = LogPlus(m.start[path[1]], Emission(m, text[1], path[1]))
  BY <1>1, <1>2 DEF PathAt
<1>4. upTo[1] \in Score
  <2>1. m.start[path[1]] \in Score /\ Emission(m, text[1], path[1]) \in Score
    BY <1>1 DEF Scored
  <2> QED BY <2>1, <1>3, LogPlusIsScore
<1>5. ASSUME NEW k \in 2..n
      PROVE  /\ upTo[k] = LogPlus(LogPlus(upTo[k - 1], m.transition[path[k - 1]][path[k]]),
                                  Emission(m, text[k], path[k]))
             /\ k \in 1..n /\ k - 1 \in 1..n
             /\ m.transition[path[k - 1]][path[k]] \in Score /\ Emission(m, text[k], path[k]) \in Score
  <2>1. k \in 1..n /\ k # 1 /\ k - 1 \in 1..n
    BY <1>1
  <2>2. upTo[k] = LogPlus(LogPlus(upTo[k - 1], m.transition[path[k - 1]][path[k]]),
                          Emission(m, text[k], path[k]))
    BY <2>1, <1>2 DEF PathAt
  <2>3. m.transition[path[k - 1]][path[k]] \in Score /\ Emission(m, text[k], path[k]) \in Score
    BY <2>1, <1>1 DEF Scored
  <2> QED BY <2>1, <2>2, <2>3
<1>6. 0 \in S
  BY <1>4
<1>7. ASSUME NEW k \in S
      PROVE  k + 1 \in S
  <2> SUFFICES ASSUME (k + 1) + 1 <= n PROVE upTo[(k + 1) + 1] \in Score
    OBVIOUS
  <2> DEFINE l == (k + 1) + 1
  <2>1. l \in 2..n /\ l - 1 = k + 1 /\ k + 1 <= n
    BY <1>1
  <2>2. upTo[l - 1] \in Score
    BY <2>1
  <2> HIDE DEF l, S
  <2>3. upTo[l] \in Score
    BY <2>1, <2>2, <1>5, LogPlusIsScore
  <2> QED BY <2>3 DEF l
<1>8. S = Nat
  <2>1. S \in SUBSET Nat
    OBVIOUS
  <2> HIDE DEF S
  <2> QED BY <1>6, <1>7, <2>1, NumberInduction
<1>9. ASSUME NEW k \in 1..n
      PROVE  upTo[k] \in Score
  <2>1. k - 1 \in Nat /\ (k - 1) + 1 = k /\ k <= n
    BY <1>1
  <2>2. k - 1 \in S
    <3> HIDE DEF S
    <3> QED BY <2>1, <1>8
  <2> QED BY <2>1, <2>2
<1>10. upTo \in [1..n -> Score]
  <2>1. DOMAIN upTo = 1..n /\ upTo = [k \in 1..n |-> upTo[k]]
    BY <1>2
  <2> QED BY <2>1, <1>9
<1> QED BY <1>3, <1>5, <1>10 DEF PathIs, n

(* No path scores above the score of its last state.                        *)
LEMMA NoPathIsAbove ==
    ASSUME NEW m, NEW text \in Seq(Runes), text # <<>>, Scored(m), NEW path \in [1..Len(text) -> States],
           NEW scores, ScoresAre(scores, m, text), NEW upTo, PathIs(upTo, m, text, path)
    PROVE  NotAbove(upTo[Len(text)], scores[Len(text)][path[Len(text)]])
<1> DEFINE n == Len(text)
           S == {k \in Nat : k + 1 <= n => NotAbove(upTo[k + 1], scores[k + 1][path[k + 1]])}
<1>1. n \in Nat \ {0} /\ (\A k \in 1..n : text[k] \in Runes /\ path[k] \in States) /\ 1 \in 1..n
  OBVIOUS
<1>2. /\ \A k \in 1..n : upTo[k] \in Score /\ scores[k] \in [States -> Score]
      /\ upTo[1] = LogPlus(m.start[path[1]], Emission(m, text[1], path[1]))
      /\ \A s \in States : scores[1][s] = LogPlus(m.start[s], Emission(m, text[1], s))
      /\ \A k \in 2..n : scores[k] = Column(m, scores[k - 1], text[k])
      /\ \A k \in 2..n : upTo[k] = LogPlus(LogPlus(upTo[k - 1], m.transition[path[k - 1]][path[k]]),
                                           Emission(m, text[k], path[k]))
  BY DEF ScoresAre, PathIs
<1> HIDE DEF n
<1>3. 0 \in S
  <2>1. upTo[1] = scores[1][path[1]] /\ upTo[1] \in Score
    BY <1>1, <1>2
  <2> QED BY <2>1, NotAboveItself
<1>4. ASSUME NEW j \in S
      PROVE  j + 1 \in S
  <2> SUFFICES ASSUME (j + 1) + 1 <= n
               PROVE  NotAbove(upTo[(j + 1) + 1], scores[(j + 1) + 1][path[(j + 1) + 1]])
    OBVIOUS
  <2> DEFINE k == (j + 1) + 1
             s == path[k]
             p == path[k - 1]
             t == m.transition[p][s]
             e == Emission(m, text[k], s)
             a == upTo[k - 1]
             c == scores[k - 1]
  <2>1. k \in 2..n /\ k - 1 = j + 1 /\ j + 1 <= n /\ k \in 1..n /\ k - 1 \in 1..n
    BY <1>1
  <2>2. NotAbove(a, c[p])
    BY <2>1
  <2> HIDE DEF k, S
  <2>3. s \in States /\ p \in States /\ text[k] \in Runes /\ a \in Score /\ c \in [States -> Score]
    BY <2>1, <1>1, <1>2
  <2>4. scores[k] = Column(m, c, text[k]) /\ upTo[k] = LogPlus(LogPlus(a, t), e)
    BY <2>1, <1>2
  <2>5. t \in Score /\ e \in Score
    BY <2>3 DEF Scored
  <2>6. scores[k] \in [States -> Score]
    BY <2>1, <1>2
  <2>7. NotAbove(LogPlus(LogPlus(c[p], t), e), scores[k][s])
    <3>1. \A q \in States : c[q] \in Score
      BY <2>3
    <3> HIDE DEF c, s, p
    <3> QED BY <2>3, <2>4, <3>1, ColumnIs
  <2>8. scores[k][s] \in Score /\ c[p] \in Score
    BY <2>3, <2>6
  <2> HIDE DEF t, e, a, c, s, p
  <2>9. NotAbove(LogPlus(a, t), LogPlus(c[p], t)) /\ LogPlus(a, t) \in Score /\ LogPlus(c[p], t) \in Score
    BY <2>2, <2>3, <2>5, <2>8, NotAbovePlus, LogPlusIsScore
  <2>10. /\ NotAbove(LogPlus(LogPlus(a, t), e), LogPlus(LogPlus(c[p], t), e))
         /\ LogPlus(LogPlus(a, t), e) \in Score /\ LogPlus(LogPlus(c[p], t), e) \in Score
    BY <2>5, <2>9, NotAbovePlus, LogPlusIsScore
  <2>11. NotAbove(upTo[k], scores[k][s])
    BY <2>4, <2>7, <2>8, <2>10, NotAboveFollows
  <2> QED BY <2>11 DEF k, s
<1>5. S = Nat
  <2>1. S \in SUBSET Nat
    OBVIOUS
  <2> HIDE DEF S
  <2> QED BY <1>3, <1>4, <2>1, NumberInduction
<1>6. n - 1 \in Nat /\ (n - 1) + 1 = n
  BY <1>1
<1>7. n - 1 \in S
  <2> HIDE DEF S
  <2> QED BY <1>5, <1>6
<1> QED BY <1>6, <1>7 DEF n

(* The path of the labels has the score of its last state.                  *)
LEMMA LabelsAttain ==
    ASSUME NEW m, NEW text \in Seq(Runes), text # <<>>, Scored(m), NEW label,
           NEW scores, ScoresAre(scores, m, text), LabelsAre(label, m, scores, Len(text)),
           NEW upTo, PathIs(upTo, m, text, label)
    PROVE  upTo[Len(text)] = scores[Len(text)][label[Len(text)]]
<1> DEFINE n == Len(text)
           S == {k \in Nat : k + 1 <= n => upTo[k + 1] = scores[k + 1][label[k + 1]]}
<1>1. n \in Nat \ {0} /\ (\A k \in 1..n : text[k] \in Runes) /\ 1 \in 1..n
  OBVIOUS
<1>2. /\ \A k \in 1..n : upTo[k] \in Score /\ scores[k] \in [States -> Score]
      /\ upTo[1] = LogPlus(m.start[label[1]], Emission(m, text[1], label[1]))
      /\ \A s \in States : scores[1][s] = LogPlus(m.start[s], Emission(m, text[1], s))
      /\ \A k \in 2..n : scores[k] = Column(m, scores[k - 1], text[k])
      /\ \A k \in 2..n : upTo[k] = LogPlus(LogPlus(upTo[k - 1], m.transition[label[k - 1]][label[k]]),
                                           Emission(m, text[k], label[k]))
      /\ \A k \in 1..n : label[k] \in States
      /\ \A k \in 1..n - 1 : label[k] = BestPrevious(m, scores[k], label[k + 1])
  BY DEF ScoresAre, PathIs, LabelsAre
<1> HIDE DEF n
<1>3. 0 \in S
  BY <1>1, <1>2
<1>4. ASSUME NEW j \in S
      PROVE  j + 1 \in S
  <2> SUFFICES ASSUME (j + 1) + 1 <= n
               PROVE  upTo[(j + 1) + 1] = scores[(j + 1) + 1][label[(j + 1) + 1]]
    OBVIOUS
  <2> DEFINE i == j + 1
             k == i + 1
             s == label[k]
             p == label[i]
             c == scores[i]
  <2>1. /\ k \in 2..n /\ k - 1 = i /\ i <= n /\ k \in 1..n /\ i \in 1..n /\ i \in 1..n - 1
    BY <1>1
  <2>2. upTo[i] = c[p]
    BY <2>1
  <2> HIDE DEF i, S
  <2>3. s \in States /\ p \in States /\ text[k] \in Runes /\ c \in [States -> Score]
    BY <2>1, <1>1, <1>2
  <2>4. p = BestPrevious(m, c, s)
    BY <2>1, <1>2
  <2>5. scores[k] = Column(m, c, text[k])
        /\ upTo[k] = LogPlus(LogPlus(upTo[i], m.transition[p][s]), Emission(m, text[k], s))
    BY <2>1, <1>2
  <2>6. \A q \in States : c[q] \in Score
    BY <2>3
  <2> HIDE DEF c, s, p, k
  <2>7. Column(m, c, text[k])[s] =
          LogPlus(LogPlus(c[BestPrevious(m, c, s)], m.transition[BestPrevious(m, c, s)][s]),
                  Emission(m, text[k], s))
    BY <2>3, <2>6, ColumnIs
  <2>8. upTo[k] = scores[k][s]
    BY <2>2, <2>4, <2>5, <2>7
  <2> QED BY <2>8 DEF i, k, s
<1>5. S = Nat
  <2>1. S \in SUBSET Nat
    OBVIOUS
  <2> HIDE DEF S
  <2> QED BY <1>3, <1>4, <2>1, NumberInduction
<1>6. n - 1 \in Nat /\ (n - 1) + 1 = n
  BY <1>1
<1>7. n - 1 \in S
  <2> HIDE DEF S
  <2> QED BY <1>5, <1>6
<1> QED BY <1>6, <1>7 DEF n

(* A path that has a score at all steps only where the model lets it.       *)
LEMMA ScoredPathSteps ==
    ASSUME NEW m, NEW text \in Seq(Runes), text # <<>>, Scored(m), NEW path \in [1..Len(text) -> States],
           NEW upTo, PathIs(upTo, m, text, path), upTo[Len(text)] # NegInf
    PROVE  \A k \in 1..Len(text) - 1 : m.transition[path[k]][path[k + 1]] # NegInf
<1> DEFINE n == Len(text)
           S == {j \in Nat : j + 1 <= n => upTo[n - j] # NegInf}
<1>1. n \in Nat \ {0} /\ (\A k \in 1..n : text[k] \in Runes /\ path[k] \in States)
  OBVIOUS
<1>2. /\ \A k \in 1..n : upTo[k] \in Score
      /\ \A k \in 2..n : upTo[k] = LogPlus(LogPlus(upTo[k - 1], m.transition[path[k - 1]][path[k]]),
                                           Emission(m, text[k], path[k]))
  BY DEF PathIs
<1> HIDE DEF n
<1>3. ASSUME NEW k \in 2..n, upTo[k] # NegInf
      PROVE  upTo[k - 1] # NegInf /\ m.transition[path[k - 1]][path[k]] # NegInf
  <2> DEFINE a == upTo[k - 1]
             t == m.transition[path[k - 1]][path[k]]
             e == Emission(m, text[k], path[k])
  <2>1. k \in 1..n /\ k - 1 \in 1..n
    BY <1>1
  <2>2. a \in Score /\ t \in Score /\ e \in Score
    BY <2>1, <1>1, <1>2 DEF Scored
  <2>3. upTo[k] = LogPlus(LogPlus(a, t), e)
    BY <1>2
  <2> HIDE DEF a, t, e
  <2>4. LogPlus(a, t) # NegInf
    BY <2>2, <2>3, <1>3, LogPlusIsScore
  <2>5. a # NegInf /\ t # NegInf
    BY <2>2, <2>4, LogPlusIsScore
  <2> QED BY <2>5 DEF a, t
<1>4. 0 \in S
  BY <1>1 DEF n
<1>5. ASSUME NEW j \in S
      PROVE  j + 1 \in S
  <2> SUFFICES ASSUME (j + 1) + 1 <= n PROVE upTo[n - (j + 1)] # NegInf
    OBVIOUS
  <2>1. n - j \in 2..n /\ (n - j) - 1 = n - (j + 1) /\ j + 1 <= n
    BY <1>1
  <2>2. upTo[n - j] # NegInf
    BY <2>1
  <2>3. upTo[(n - j) - 1] # NegInf
    <3> HIDE DEF S
    <3> QED BY <2>1, <2>2, <1>3
  <2> QED BY <2>1, <2>3
<1>6. S = Nat
  <2>1. S \in SUBSET Nat
    OBVIOUS
  <2> HIDE DEF S
  <2> QED BY <1>4, <1>5, <2>1, NumberInduction
<1>7. ASSUME NEW k \in 1..n - 1
      PROVE  m.transition[path[k]][path[k + 1]] # NegInf
  <2>1. n - (k + 1) \in Nat /\ (n - (k + 1)) + 1 <= n /\ n - (n - (k + 1)) = k + 1
        /\ k + 1 \in 2..n /\ (k + 1) - 1 = k
    BY <1>1
  <2>2. n - (k + 1) \in S
    <3> HIDE DEF S
    <3> QED BY <2>1, <1>6
  <2>3. upTo[k + 1] # NegInf
    BY <2>1, <2>2
  <2> HIDE DEF S
  <2>4. m.transition[path[(k + 1) - 1]][path[k + 1]] # NegInf
    BY <2>1, <2>3, <1>3
  <2> QED BY <2>1, <2>4
<1> QED BY <1>7 DEF n

(* The default model with trained emissions gives scores, and lets a label  *)
(* follow another only where that is legal.                                *)
LEMMA ModelIsScored ==
    ASSUME NEW trained, \A r \in DOMAIN trained : trained[r] \in [States -> Int \cup {NegInf}]
    PROVE  /\ Scored(Model(trained))
           /\ \A s, t \in States : Model(trained).transition[s][t] # NegInf => t \in LegalAfter(s)
<1> DEFINE m == Model(trained)
<1>1. /\ m.start = DefaultStart /\ m.transition = DefaultTransition
      /\ m.trained = trained /\ m.unknown = DefaultUnknown
  BY DEF Model
<1> HIDE DEF m
<1>2. \A s \in States : m.start[s] \in Score
  BY <1>1 DEF DefaultStart, States, Score
<1>3. \A s, t \in States : /\ m.transition[s][t] \in Score
                           /\ m.transition[s][t] # NegInf => t \in LegalAfter(s)
  BY <1>1 DEF DefaultTransition, Score
<1>4. ASSUME NEW r, NEW s \in States
      PROVE  Emission(m, r, s) \in Score
  <2>1. CASE r \in DOMAIN m.trained
    BY <2>1, <1>1 DEF Emission, Score
  <2>2. CASE r \notin DOMAIN m.trained
    <3>1. DefaultUnknown[s] \in Score
      BY DEF DefaultUnknown, States, Score
    <3> QED BY <2>2, <3>1, <1>1 DEF Emission
  <2> QED BY <2>1, <2>2
<1> QED BY <1>2, <1>3, <1>4 DEF Scored, m

(* The labels of Viterbi are a legal path of the highest score.             *)
THEOREM LabelsAreBest ==
    ASSUME NEW trained, \A r \in DOMAIN trained : trained[r] \in [States -> Int \cup {NegInf}],
           NEW text \in Seq(Runes), text # <<>>
    PROVE  ViterbiIsOptimal(Model(trained), text)
<1> DEFINE m == Model(trained)
           n == Len(text)
           found == Viterbi(m, text)
           up(path) == CHOOSE upTo : PathOf(upTo, m, text, path)
<1>1. Scored(m) /\ \A s, t \in States : m.transition[s][t] # NegInf => t \in LegalAfter(s)
  BY ModelIsScored
<1> HIDE DEF m
<1>2. PICK scores : ScoresAre(scores, m, text) /\ LabelsAre(found, m, scores, n)
  BY <1>1, ViterbiIs
<1> HIDE DEF found
<1>3. ASSUME NEW path \in [1..n -> States]
      PROVE  PathIs(up(path), m, text, path)
  <2>1. PathOf(up(path), m, text, path)
    BY <1>1, PathExists
  <2> QED BY <2>1, <1>1, PathIsScores
<1> HIDE DEF up
<1>4. n \in Nat \ {0} /\ n \in 1..n
  OBVIOUS
<1>5. found \in [1..n -> States]
  BY <1>2 DEF LabelsAre
<1>6. up(found)[n] = scores[n][found[n]]
  BY <1>1, <1>2, <1>3, <1>5, LabelsAttain
<1>7. found[n] = IF Above(scores[n]["S"], scores[n]["E"]) THEN "S" ELSE "E"
  BY <1>2 DEF LabelsAre
<1>8. \A s \in States : scores[n][s] \in Score
  <2>1. scores \in [1..n -> [States -> Score]]
    BY <1>2 DEF ScoresAre
  <2> HIDE DEF n
  <2> QED BY <2>1, <1>4
<1>9. ASSUME NEW path \in [1..n -> States], path[n] \in {"E", "S"}
      PROVE  ~Above(up(path)[n], up(found)[n])
  <2>1. NotAbove(up(path)[n], scores[n][path[n]])
    BY <1>1, <1>2, <1>3, NoPathIsAbove
  <2>2. {"E", "S"} \subseteq States
    BY DEF States
  <2>3. NotAbove(scores[n][path[n]], scores[n][found[n]])
    <3>1. CASE Above(scores[n]["S"], scores[n]["E"])
      BY <3>1, <2>2, <1>7, <1>8, <1>9, NotAboveOrBack, NotAboveItself
    <3>2. CASE ~Above(scores[n]["S"], scores[n]["E"])
      BY <3>2, <2>2, <1>7, <1>8, <1>9, NotAboveItself DEF NotAbove
    <3> QED BY <3>1, <3>2
  <2>4. up(path)[n] \in Score /\ found[n] \in States
    <3>1. up(path) \in [1..n -> Score]
      BY <1>3 DEF PathIs
    <3> HIDE DEF n
    <3> QED BY <3>1, <1>4, <1>5
  <2>5. NotAbove(up(path)[n], scores[n][found[n]])
    BY <2>1, <2>2, <2>3, <2>4, <1>8, <1>9, NotAboveFollows
  <2> QED BY <2>5, <1>6 DEF NotAbove
<1>10. ASSUME up(found)[n] # NegInf, NEW k \in 1..n - 1
       PROVE  found[k + 1] \in LegalAfter(found[k])
  <2>1. m.transition[found[k]][found[k + 1]] # NegInf
    BY <1>1, <1>3, <1>5, <1>10, ScoredPathSteps
  <2>2. k \in 1..n /\ k + 1 \in 1..n
    BY <1>4
  <2>3. found[k] \in States /\ found[k + 1] \in States
    <3> HIDE DEF n
    <3> QED BY <2>2, <1>5
  <2> QED BY <2>1, <2>3, <1>1
<1>11. found[n] \in {"E", "S"}
  BY <1>7
<1>12. ViterbiIsOptimal(m, text) <=>
         \A f \in {Viterbi(m, text)} : \A best \in {up(f)[n]} :
           /\ f[n] \in {"E", "S"}
           /\ \A p \in {q \in [1..n -> States] : q[n] \in {"E", "S"}} : ~Above(up(p)[n], best)
           /\ best # NegInf => \A k \in 1..n - 1 : f[k + 1] \in LegalAfter(f[k])
  BY Zenon DEF ViterbiIsOptimal, up, PathOf, PathAt, n
<1> HIDE DEF n
<1>13. /\ found[n] \in {"E", "S"}
       /\ \A p \in {q \in [1..n -> States] : q[n] \in {"E", "S"}} : ~Above(up(p)[n], up(found)[n])
       /\ up(found)[n] # NegInf => \A k \in 1..n - 1 : found[k + 1] \in LegalAfter(found[k])
  BY <1>9, <1>10, <1>11
<1>14. ViterbiIsOptimal(m, text)
  BY <1>12, <1>13 DEF found
<1> QED BY <1>14 DEF m

-----------------------------------------------------------------------------
(* What a filter keeps.                                                    *)

KeptAt(upTo, s, S, k) ==
  IF k = 0 THEN <<>> ELSE IF s[k] \in S THEN Append(upTo[k - 1], s[k]) ELSE upTo[k - 1]

KeptBy(upTo, s, S) == upTo = [k \in 0..Len(s) |-> KeptAt(upTo, s, S, k)]

\* K holds the elements of s at the places g, which are those up to k where
\* s is in S.
Picks(g, K, s, S, k) ==
  /\ Len(K) \in Nat
  /\ g \in [1..Len(K) -> 1..k]
  /\ \A i, j \in 1..Len(K) : i < j => g[i] < g[j]
  /\ \A i \in 1..Len(K) : K[i] = s[g[i]]
  /\ \A j \in 1..k : (s[j] \in S) <=> \E i \in 1..Len(K) : g[i] = j

(* The filter is a function of how far it has come.                        *)
LEMMA KeptIsRecursive ==
    ASSUME NEW V, NEW s \in Seq(V), NEW S
    PROVE  \E upTo : /\ KeptBy(upTo, s, S) /\ Kept(s, S) = upTo[Len(s)]
                     /\ \A k \in 0..Len(s) : upTo[k] \in Seq(V)
<1> DEFINE n == Len(s)
           W == Seq(V)
           step == [k \in 1..n |-> [v \in W |-> IF s[k] \in S THEN Append(v, s[k]) ELSE v]]
<1>1. n \in Nat /\ <<>> \in W
  OBVIOUS
<1>2. \A k \in 1..n : s[k] \in V
  OBVIOUS
<1>3. Stepwise(n, W, <<>>, step)
  <2>1. ASSUME NEW k \in 1..n, NEW v \in W
        PROVE  (IF s[k] \in S THEN Append(v, s[k]) ELSE v) \in W
    <3>1. Append(v, s[k]) \in W
      BY <1>2
    <3> QED BY <3>1
  <2> HIDE DEF W
  <2>2. step \in [1..n -> [W -> W]]
    BY <2>1
  <2> HIDE DEF step, n
  <2> QED BY <1>1, <2>2 DEF Stepwise
<1>4. PICK f : Follows(f, n, W, <<>>, step)
  <2> HIDE DEF n, W, step
  <2> QED BY <1>3, StepwiseFunction
<1>5. f \in [0..n -> W] /\ f[0] = <<>> /\ \A k \in 1..n : f[k] = step[k][f[k - 1]]
  <2> HIDE DEF n, W, step
  <2> QED BY <1>4 DEF Follows
<1>6. KeptBy(f, s, S)
  <2> HIDE DEF W
  <2>1. f = [k \in 0..n |-> f[k]]
    BY <1>5
  <2>2. ASSUME NEW k \in 0..n
        PROVE  f[k] = KeptAt(f, s, S, k)
    <3>1. CASE k = 0
      BY <3>1, <1>5 DEF KeptAt
    <3>2. CASE k # 0
      <4>1. k \in 1..n /\ k - 1 \in 0..n
        BY <3>2, <1>1
      <4>2. f[k - 1] \in W
        BY <4>1, <1>5
      <4>3. f[k] = step[k][f[k - 1]]
        BY <4>1, <1>5
      <4>4. step[k][f[k - 1]] = IF s[k] \in S THEN Append(f[k - 1], s[k]) ELSE f[k - 1]
        BY <4>1, <4>2
      <4> QED BY <3>2, <4>3, <4>4 DEF KeptAt
    <3> QED BY <3>1, <3>2
  <2> QED BY <2>1, <2>2, Zenon DEF KeptBy
<1> DEFINE h == CHOOSE upTo : KeptBy(upTo, s, S)
<1>7. KeptBy(h, s, S)
  BY <1>6
<1>8. Kept(s, S) = h[n]
  BY Zenon DEF Kept, KeptBy, KeptAt
<1> HIDE DEF h
<1>9. \A k \in 0..n : h[k] \in W
  <2> DEFINE T == {k \in Nat : k <= n => h[k] \in W}
  <2>0. \A k \in 0..n : h[k] = KeptAt(h, s, S, k)
    BY <1>7 DEF KeptBy
  <2>1. 0 \in T
    <3>1. 0 \in 0..n /\ h[0] = <<>>
      BY <2>0, <1>1 DEF KeptAt
    <3> QED BY <3>1, <1>1
  <2>2. ASSUME NEW k \in T
        PROVE  k + 1 \in T
    <3> SUFFICES ASSUME k + 1 <= n PROVE h[k + 1] \in W
      OBVIOUS
    <3>1. k + 1 \in 1..n /\ k + 1 \in 0..n /\ (k + 1) - 1 = k /\ k + 1 # 0 /\ h[k] \in W
      BY <1>1
    <3>2. h[k + 1] = IF s[k + 1] \in S THEN Append(h[k], s[k + 1]) ELSE h[k]
      BY <3>1, <2>0 DEF KeptAt
    <3>3. Append(h[k], s[k + 1]) \in W
      BY <3>1, <1>2
    <3> QED BY <3>1, <3>2, <3>3
  <2>3. T = Nat
    <3>1. T \in SUBSET Nat
      OBVIOUS
    <3> HIDE DEF T
    <3> QED BY <2>1, <2>2, <3>1, NumberInduction
  <2> QED BY <2>3
<1> QED BY <1>7, <1>8, <1>9

(* One element more.                                                       *)
LEMMA PicksMore ==
    ASSUME NEW V, NEW s \in Seq(V), NEW S, NEW k \in 1..Len(s), NEW K \in Seq(V), NEW g,
           Picks(g, K, s, S, k - 1), s[k] \in S
    PROVE  \E h : Picks(h, Append(K, s[k]), s, S, k)
<1> DEFINE M == Append(K, s[k])
           n == Len(K)
           h == [i \in 1..n + 1 |-> IF i <= n THEN g[i] ELSE k]
<1>1. /\ n \in Nat /\ k \in Nat /\ g \in [1..n -> 1..k - 1]
      /\ \A i, j \in 1..n : i < j => g[i] < g[j]
      /\ \A i \in 1..n : K[i] = s[g[i]]
      /\ \A j \in 1..k - 1 : (s[j] \in S) <=> \E i \in 1..n : g[i] = j
  BY DEF Picks
<1>2. s[k] \in V
  OBVIOUS
<1>3. /\ Len(M) = n + 1 /\ M[n + 1] = s[k]
      /\ \A i \in 1..n : M[i] = K[i]
  BY <1>2
<1> HIDE DEF M, n
<1>4. /\ \A i \in 1..n : i \in 1..n + 1 /\ h[i] = g[i]
      /\ n + 1 \in 1..n + 1 /\ h[n + 1] = k
      /\ \A i \in 1..n + 1 : i \in 1..n \/ i = n + 1
  BY <1>1
<1>5. \A i \in 1..n : g[i] \in 1..k - 1 /\ g[i] \in 1..k /\ g[i] < k
  BY <1>1
<1>6. h \in [1..n + 1 -> 1..k]
  BY <1>1, <1>5
<1> HIDE DEF h
<1>7. ASSUME NEW i \in 1..n + 1, NEW j \in 1..n + 1, i < j
      PROVE  h[i] < h[j]
  <2>1. i \in 1..n
    BY <1>1, <1>7
  <2>2. CASE j \in 1..n
    BY <2>1, <2>2, <1>1, <1>4, <1>7
  <2>3. CASE j = n + 1
    BY <2>1, <2>3, <1>4, <1>5
  <2> QED BY <2>2, <2>3, <1>4
<1>8. \A i \in 1..n + 1 : M[i] = s[h[i]]
  BY <1>1, <1>3, <1>4
<1>9. ASSUME NEW j \in 1..k
      PROVE  (s[j] \in S) <=> \E i \in 1..n + 1 : h[i] = j
  <2>1. CASE j = k
    BY <2>1, <1>4
  <2>2. CASE j # k
    <3>1. j \in 1..k - 1
      BY <2>2, <1>1
    <3>2. (s[j] \in S) <=> \E i \in 1..n : g[i] = j
      BY <3>1, <1>1
    <3> QED BY <3>2, <2>2, <1>4
  <2> QED BY <2>1, <2>2
<1>10. Picks(h, M, s, S, k)
  <2>1. n + 1 \in Nat
    BY <1>1
  <2> QED BY <2>1, <1>3, <1>6, <1>7, <1>8, <1>9 DEF Picks
<1> QED BY <1>10 DEF M

(* The elements that are kept are those of the set, in their order.         *)
LEMMA KeptIs ==
    ASSUME NEW V, NEW s \in Seq(V), NEW S
    PROVE  Kept(s, S) \in Seq(V) /\ \E g : Picks(g, Kept(s, S), s, S, Len(s))
<1> DEFINE n == Len(s)
<1>1. PICK f : /\ KeptBy(f, s, S) /\ Kept(s, S) = f[n]
               /\ \A k \in 0..n : f[k] \in Seq(V)
  BY KeptIsRecursive
<1>2. \A k \in 0..n : f[k] = KeptAt(f, s, S, k)
  BY <1>1 DEF KeptBy
<1>3. n \in Nat
  OBVIOUS
<1> DEFINE T == {k \in Nat : k <= n => \E g : Picks(g, f[k], s, S, k)}
<1>4. 0 \in T
  <2>1. f[0] = <<>>
    BY <1>2, <1>3 DEF KeptAt
  <2> DEFINE none == [i \in 1..0 |-> 0]
  <2>2. Len(f[0]) = 0 /\ 1..0 = {} /\ none \in [1..0 -> 1..0]
    BY <2>1
  <2> HIDE DEF none
  <2>3. Picks(none, f[0], s, S, 0)
    BY <2>2 DEF Picks
  <2> QED BY <2>3
<1>5. ASSUME NEW k \in T
      PROVE  k + 1 \in T
  <2> SUFFICES ASSUME k + 1 <= n PROVE \E g : Picks(g, f[k + 1], s, S, k + 1)
    OBVIOUS
  <2>1. k + 1 \in 1..n /\ k \in 0..n /\ k + 1 \in 0..n /\ (k + 1) - 1 = k /\ k + 1 # 0 /\ k \in Nat
    BY <1>3
  <2>2. PICK g : Picks(g, f[k], s, S, k)
    BY <2>1
  <2>3. f[k] \in Seq(V)
    BY <2>1, <1>1
  <2>4. f[k + 1] = IF s[k + 1] \in S THEN Append(f[k], s[k + 1]) ELSE f[k]
    BY <2>1, <1>2 DEF KeptAt
  <2>5. CASE s[k + 1] \in S
    <3> DEFINE K == f[k]
               l == k + 1
    <3>1. Picks(g, K, s, S, l - 1) /\ l \in 1..Len(s) /\ K \in Seq(V) /\ s[l] \in S
      BY <2>1, <2>2, <2>3, <2>5
    <3> HIDE DEF K, l
    <3>2. \E h : Picks(h, Append(K, s[l]), s, S, l)
      BY <3>1, PicksMore
    <3> QED BY <3>2, <2>4, <2>5 DEF K, l
  <2>6. CASE s[k + 1] \notin S
    <3>1. f[k + 1] = f[k]
      BY <2>4, <2>6
    <3> DEFINE K == f[k]
    <3>2. /\ Len(K) \in Nat /\ g \in [1..Len(K) -> 1..k]
          /\ \A i, j \in 1..Len(K) : i < j => g[i] < g[j]
          /\ \A i \in 1..Len(K) : K[i] = s[g[i]]
          /\ \A j \in 1..k : (s[j] \in S) <=> \E i \in 1..Len(K) : g[i] = j
      BY <2>2 DEF Picks
    <3> HIDE DEF K
    <3>3. \A i \in 1..Len(K) : g[i] \in 1..k /\ g[i] \in 1..k + 1 /\ g[i] # k + 1
      BY <3>2, <2>1
    <3>4. g \in [1..Len(K) -> 1..k + 1]
      BY <3>2, <3>3
    <3>5. ASSUME NEW j \in 1..k + 1
          PROVE  (s[j] \in S) <=> \E i \in 1..Len(K) : g[i] = j
      <4>1. CASE j = k + 1
        BY <4>1, <2>6, <3>3
      <4>2. CASE j # k + 1
        <5>1. j \in 1..k
          BY <4>2, <2>1
        <5> QED BY <5>1, <3>2
      <4> QED BY <4>1, <4>2
    <3>6. Picks(g, K, s, S, k + 1)
      BY <3>2, <3>4, <3>5 DEF Picks
    <3> QED BY <3>1, <3>6 DEF K
  <2> QED BY <2>5, <2>6
<1>6. T = Nat
  <2>1. T \in SUBSET Nat
    OBVIOUS
  <2> HIDE DEF T
  <2> QED BY <1>4, <1>5, <2>1, NumberInduction
<1>7. n \in 0..n /\ n \in T
  BY <1>3, <1>6
<1> QED BY <1>1, <1>7

-----------------------------------------------------------------------------
(* Matches.                                                                *)

\* The tokens lie in the text in order and apart, each on whole runes.
TokensLie(tokens, text) ==
  /\ tokens \in Seq(ElementsOf(tokens))
  /\ \A k \in 1..Len(tokens) :
       /\ tokens[k].start \in Boundaries(text) /\ tokens[k].end \in Boundaries(text)
       /\ tokens[k].start < tokens[k].end
  /\ \A k, l \in 1..Len(tokens) : k < l => tokens[k].end <= tokens[l].start

(* The tokens of the standard tokenizer lie in order and apart.             *)
LEMMA StandardTokensLie ==
    ASSUME NEW text \in Seq(Runes)
    PROVE  TokensLie(StandardTokenize(text), text)
<1> DEFINE L == Len(text)
           skip == Places(text, Spaces)
           span == [i \in 1..L |-> <<StandardSpan(text, i)>>]
<1>1. PICK s : StandardTokenize(text) = TokensOf(text, s) /\ Scanned(s, 1, L + 1, skip, span)
  BY StandardScans, Zenon
<1>2. Tiles(s, 1, L + 1, skip)
  <2> HIDE DEF L, skip, span
  <2> QED BY <1>1 DEF Scanned
<1> DEFINE toks == TokensOf(text, s)
<1>3. /\ Len(toks) = Len(s) /\ Len(s) \in Nat
      /\ \A n \in 1..Len(s) :
           /\ s[n].first \in 1..L + 1 /\ s[n].end \in 1..L + 1
           /\ s[n].first < s[n].end
           /\ toks[n].start = Offset(text, s[n].first)
           /\ toks[n].end = Offset(text, s[n].end)
  <2> HIDE DEF skip
  <2> QED BY <1>2, TokensHold
<1>4. \A m, n \in 1..Len(s) : m < n => s[m].end <= s[n].first
  BY <1>2 DEF Tiles
<1>5. toks \in Seq(ElementsOf(toks))
  <2>1. toks = [n \in 1..Len(s) |-> toks[n]]
    BY DEF TokensOf
  <2> HIDE DEF toks
  <2>2. \A n \in 1..Len(s) : toks[n] \in ElementsOf(toks)
    BY <1>3 DEF ElementsOf
  <2>3. toks \in [1..Len(s) -> ElementsOf(toks)]
    BY <2>1, <2>2
  <2> QED BY <2>3, <1>3, SequenceOf
<1> HIDE DEF toks
<1>6. ASSUME NEW n \in 1..Len(toks)
      PROVE  /\ toks[n].start \in Boundaries(text) /\ toks[n].end \in Boundaries(text)
             /\ toks[n].start < toks[n].end
  BY <1>3, OffsetsRise DEF Boundaries
<1>7. ASSUME NEW m \in 1..Len(toks), NEW n \in 1..Len(toks), m < n
      PROVE  toks[m].end <= toks[n].start
  <2> DEFINE a == s[m].end
             b == s[n].first
  <2>1. a \in 1..L + 1 /\ b \in 1..L + 1 /\ a <= b
        /\ toks[m].end = Offset(text, a) /\ toks[n].start = Offset(text, b)
    BY <1>3, <1>4, <1>7
  <2> HIDE DEF a, b
  <2>2. Offset(text, a) \in Nat /\ Offset(text, b) \in Nat
    BY <2>1, OffsetsRise
  <2>3. CASE a = b
    BY <2>1, <2>2, <2>3
  <2>4. CASE a # b
    <3>1. a < b
      BY <2>1, <2>4
    <3>2. Offset(text, a) < Offset(text, b)
      BY <2>1, <3>1, OffsetsRise
    <3> QED BY <2>1, <2>2, <3>2
  <2> QED BY <2>3, <2>4
<1>8. TokensLie(toks, text)
  BY <1>5, <1>6, <1>7 DEF TokensLie
<1> QED BY <1>1, <1>8 DEF toks

(* Filters leave tokens where they are.                                    *)
LEMMA LowercaseTokensLie ==
    ASSUME NEW text, NEW tokens, TokensLie(tokens, text)
    PROVE  TokensLie(LowercaseFilter(tokens), text)
<1> DEFINE t == LowercaseFilter(tokens)
           n == Len(tokens)
<1>0. tokens \in Seq(ElementsOf(tokens))
  BY DEF TokensLie
<1>1. n \in Nat /\ t = [k \in 1..n |-> [tokens[k] EXCEPT !.term = LowerText(@)]]
  BY <1>0 DEF LowercaseFilter
<1>2. Len(t) = n
  BY <1>1
<1>3. ASSUME NEW k \in 1..n
      PROVE  t[k].start = tokens[k].start /\ t[k].end = tokens[k].end
  <2>1. t[k] = [tokens[k] EXCEPT !.term = LowerText(@)]
    BY <1>1
  <2> HIDE DEF t
  <2> QED BY <2>1
<1>4. t \in Seq(ElementsOf(t))
  <2>1. t = [k \in 1..n |-> t[k]]
    BY <1>1
  <2> HIDE DEF t
  <2>2. \A k \in 1..n : t[k] \in ElementsOf(t)
    BY <1>2 DEF ElementsOf
  <2>3. t \in [1..n -> ElementsOf(t)]
    BY <2>1, <2>2
  <2> QED BY <2>3, <1>1, SequenceOf
<1> HIDE DEF t
<1> QED BY <1>2, <1>3, <1>4 DEF TokensLie, t

(* Tokens that are kept of some that lie in a text lie in it.              *)
LEMMA KeptTokensLie ==
    ASSUME NEW text, NEW tokens, TokensLie(tokens, text), NEW S
    PROVE  TokensLie(Kept(tokens, S), text)
<1> DEFINE K == Kept(tokens, S)
           V == ElementsOf(tokens)
<1>1. tokens \in Seq(V)
  BY DEF TokensLie
<1>2. K \in Seq(V) /\ \E g : Picks(g, K, tokens, S, Len(tokens))
  <2> HIDE DEF V
  <2> QED BY <1>1, KeptIs
<1>3. PICK g : Picks(g, K, tokens, S, Len(tokens))
  BY <1>2
<1>4. /\ Len(K) \in Nat
      /\ \A i \in 1..Len(K) : g[i] \in 1..Len(tokens) /\ K[i] = tokens[g[i]]
      /\ \A i, j \in 1..Len(K) : i < j => g[i] < g[j]
  BY <1>3 DEF Picks
<1>5. K \in Seq(ElementsOf(K))
  <2> HIDE DEF K, V
  <2>1. K \in [1..Len(K) -> V]
    BY <1>2
  <2>2. K \in [1..Len(K) -> ElementsOf(K)]
    BY <2>1 DEF ElementsOf
  <2> QED BY <2>2, <1>4, SequenceOf
<1> HIDE DEF K
<1> QED BY <1>4, <1>5 DEF TokensLie, K

\* The matches lie in the text in order and apart, each on whole runes.
MatchesLie(matches, text) ==
  /\ matches \in Seq([from : Nat, to : Nat])
  /\ \A k \in 1..Len(matches) :
       /\ matches[k].from \in Boundaries(text) /\ matches[k].to \in Boundaries(text)
       /\ matches[k].from < matches[k].to
  /\ \A k, l \in 1..Len(matches) : k < l => matches[k].to <= matches[l].from

(* The matches of a text lie in order and apart, so that sorting them would *)
(* change nothing.                                                         *)
LEMMA MatchesAreApart ==
    ASSUME NEW text \in Seq(Runes), NEW wanted
    PROVE  MatchesLie(MatchesOf(text, wanted), text)
<1> DEFINE all == Analyze(text)
           S == {all[k] : k \in {j \in 1..Len(all) : all[j].term \in wanted}}
           t == Kept(all, S)
           m == MatchesOf(text, wanted)
<1>1. TokensLie(all, text)
  BY StandardTokensLie, LowercaseTokensLie, KeptTokensLie DEF Analyze, StopWordFilter
<1>2. TokensLie(t, text)
  <2> HIDE DEF all, S
  <2> QED BY <1>1, KeptTokensLie
<1>3. m = [k \in 1..Len(t) |-> [from |-> t[k].start, to |-> t[k].end]]
  BY Zenon DEF MatchesOf
<1> HIDE DEF all, S, t, m
<1>4. Len(t) \in Nat
  <2>1. t \in Seq(ElementsOf(t))
    BY <1>2 DEF TokensLie
  <2> QED BY <2>1
<1>5. ASSUME NEW k \in 1..Len(t)
      PROVE  /\ m[k] = [from |-> t[k].start, to |-> t[k].end]
             /\ m[k].from = t[k].start /\ m[k].to = t[k].end
             /\ t[k].start \in Nat /\ t[k].end \in Nat
  <2>1. m[k] = [from |-> t[k].start, to |-> t[k].end]
    BY <1>3
  <2>2. t[k].start \in Boundaries(text) /\ t[k].end \in Boundaries(text)
    BY <1>2 DEF TokensLie
  <2>3. \A b \in Boundaries(text) : b \in Nat
    BY OffsetsRise DEF Boundaries
  <2> QED BY <2>1, <2>2, <2>3
<1>6. m \in Seq([from : Nat, to : Nat]) /\ Len(m) = Len(t)
  <2> DEFINE M == [from : Nat, to : Nat]
  <2>1. ASSUME NEW k \in 1..Len(t)
        PROVE  [from |-> t[k].start, to |-> t[k].end] \in M
    BY <1>5
  <2> HIDE DEF M
  <2>2. m \in [1..Len(t) -> M]
    BY <1>3, <2>1
  <2>3. m \in Seq(M) /\ Len(m) = Len(t)
    BY <2>2, <1>4, SequenceOf
  <2> QED BY <2>3 DEF M
<1>7. MatchesLie(m, text)
  BY <1>2, <1>5, <1>6 DEF MatchesLie, TokensLie
<1> QED BY <1>7 DEF m

-----------------------------------------------------------------------------
(* Windows.                                                                *)

(* A set of natural numbers up to a bound has a highest and a lowest.       *)
LEMMA HighestIs ==
    ASSUME NEW n \in Nat, NEW S \in SUBSET (0..n), S # {}
    PROVE  Highest(S) \in S /\ \A x \in S : x <= Highest(S)
<1>1. \E m \in S : \A k \in S : k <= m
  BY Greatest
<1> QED BY <1>1 DEF Highest

(* The lowest of some numbers is one of them, and none is below it.        *)
LEMMA LowestIs ==
    ASSUME NEW S \in SUBSET Nat, S # {}
    PROVE  Lowest(S) \in S /\ \A x \in S : Lowest(S) <= x
<1>1. \E m \in S : \A k \in S : m <= k
  BY Smallest
<1> QED BY <1>1 DEF Lowest

Widest == Highest({Width[r] : r \in Runes}) - 1

(* No rune is wider than the widest.                                       *)
LEMMA WidestIs ==
    ASSUME Runes # {}
    PROVE  Widest \in Nat /\ \A r \in Runes : Width[r] <= Widest + 1
<1> DEFINE S == {Width[r] : r \in Runes}
<1>1. S \in SUBSET (0..4) /\ S # {} /\ \A x \in S : x \in 1..4
  BY RunesAssumption
<1>2. Highest(S) \in S /\ \A x \in S : x <= Highest(S)
  <2> HIDE DEF S
  <2> QED BY <1>1, HighestIs
<1>3. Widest = Highest(S) - 1
  BY DEF Widest
<1>4. Highest(S) \in 1..4
  BY <1>1, <1>2
<1>5. \A r \in Runes : Width[r] \in S /\ Width[r] \in 1..4
  BY RunesAssumption
<1> DEFINE h == Highest(S)
<1>6. h \in 1..4 /\ \A x \in S : x <= h
  BY <1>2, <1>4
<1> HIDE DEF h, S
<1>7. \A r \in Runes : Width[r] <= (h - 1) + 1
  BY <1>5, <1>6
<1> QED BY <1>3, <1>6, <1>7 DEF h

Down(text, x) == Highest({b \in Boundaries(text) : b <= x})
Up(text, x) == Lowest({b \in Boundaries(text) : b >= x})

(* The boundaries of a text go from 0 to its length.                        *)
LEMMA BoundariesAre ==
    ASSUME NEW text \in Seq(Runes)
    PROVE  /\ Bytes(text) \in Nat
           /\ 0 \in Boundaries(text) /\ Bytes(text) \in Boundaries(text)
           /\ \A b \in Boundaries(text) : b \in Nat /\ b <= Bytes(text)
<1> DEFINE n == Len(text)
<1>1. n \in Nat /\ 1 \in 1..n + 1 /\ n + 1 \in 1..n + 1
  OBVIOUS
<1>2. Offset(text, 1) = 0 /\ \A k \in 1..n + 1 : Offset(text, k) \in Nat
  BY OffsetIsRecursive, OffsetsRise
<1>3. ASSUME NEW k \in 1..n + 1
      PROVE  Offset(text, k) <= Offset(text, n + 1)
  <2>1. CASE k = n + 1
    BY <2>1, <1>1, <1>2
  <2>2. CASE k # n + 1
    <3>1. k < n + 1
      BY <2>2, <1>1
    <3>2. Offset(text, k) < Offset(text, n + 1)
      BY <3>1, <1>1, OffsetsRise
    <3> QED BY <3>2, <1>1, <1>2
  <2> QED BY <2>1, <2>2
<1> QED BY <1>1, <1>2, <1>3 DEF Boundaries, Bytes

(* Rounding to whole runes moves a place by less than a rune.               *)
LEMMA RoundingDown ==
    ASSUME NEW text \in Seq(Runes), text # <<>>, NEW x \in Nat, x <= Bytes(text)
    PROVE  /\ Down(text, x) \in Boundaries(text) /\ Down(text, x) <= x
           /\ x - Down(text, x) <= Widest
           /\ \A b \in Boundaries(text) : b <= x => b <= Down(text, x)
<1> DEFINE S == {b \in Boundaries(text) : b <= x}
           d == Down(text, x)
           B == Bytes(text)
           n == Len(text)
<1>0. S \in SUBSET (0..x) /\ S # {}
  BY BoundariesAre
<1>1. d \in S /\ \A b \in S : b <= d
  <2> HIDE DEF S
  <2> QED BY <1>0, HighestIs DEF S, Down
<1> HIDE DEF d
<1>2. n \in Nat /\ n > 0 /\ B = Offset(text, n + 1) /\ Runes # {}
  <2>1. text[1] \in Runes
    OBVIOUS
  <2> QED BY <2>1 DEF Bytes
<1>3. PICK k \in 1..n + 1 : d = Offset(text, k)
  BY <1>1 DEF Boundaries
<1>4. d \in Nat /\ B \in Nat /\ Widest \in Nat
  BY <1>1, <1>2, BoundariesAre, WidestIs
<1> HIDE DEF B
<1>5. CASE k = n + 1
  <2>1. d = B
    BY <1>2, <1>3, <1>5
  <2>2. x - d <= Widest
    <3>1. x <= B
      BY DEF B
    <3> QED BY <3>1, <2>1, <1>4
  <2> QED BY <1>1, <2>2 DEF d
<1>6. CASE k # n + 1
  <2>1. k \in 1..n /\ k + 1 \in 1..n + 1
    BY <1>2, <1>6
  <2>2. Offset(text, k + 1) = d + Width[text[k]]
    BY <1>3, <2>1, OffsetIsRecursive
  <2>3. text[k] \in Runes
    BY <2>1
  <2> DEFINE w == Width[text[k]]
             e == Offset(text, k + 1)
  <2>4. w \in Nat /\ w <= Widest + 1 /\ w > 0
    <3>1. \A r \in Runes : Width[r] <= Widest + 1
      BY <1>2, WidestIs
    <3>2. \A r \in Runes : Width[r] \in Nat /\ Width[r] > 0
      BY RunesAssumption
    <3> QED BY <2>3, <3>1, <3>2
  <2>5. e \in Boundaries(text) /\ e = d + w
    BY <2>1, <2>2 DEF Boundaries
  <2> HIDE DEF w, e
  <2>6. ~(e <= x)
    <3> SUFFICES ASSUME e <= x PROVE FALSE
      OBVIOUS
    <3>1. e \in S
      BY <2>5
    <3>2. e <= d
      BY <3>1, <1>1
    <3> QED BY <3>2, <2>4, <2>5, <1>4
  <2>7. x - d <= Widest
    BY <2>4, <2>5, <2>6, <1>4
  <2> QED BY <1>1, <2>7 DEF d
<1> QED BY <1>5, <1>6

(* Rounding up ends at the first boundary that is not before               *)
(* (highlighter.go, widening to whole runes).                              *)
LEMMA RoundingUp ==
    ASSUME NEW text \in Seq(Runes), text # <<>>, NEW x \in Nat, x <= Bytes(text)
    PROVE  /\ Up(text, x) \in Boundaries(text) /\ x <= Up(text, x)
           /\ Up(text, x) - x <= Widest
           /\ \A b \in Boundaries(text) : x <= b => Up(text, x) <= b
<1> DEFINE S == {b \in Boundaries(text) : b >= x}
           u == Up(text, x)
           n == Len(text)
<1>0. S \in SUBSET Nat /\ S # {}
  BY BoundariesAre
<1>1. u \in S /\ \A b \in S : u <= b
  <2> HIDE DEF S
  <2> QED BY <1>0, LowestIs DEF S, Up
<1> HIDE DEF u
<1>2. n \in Nat /\ n > 0 /\ Runes # {}
  <2>1. text[1] \in Runes
    OBVIOUS
  <2> QED BY <2>1
<1>3. PICK k \in 1..n + 1 : u = Offset(text, k)
  BY <1>1 DEF Boundaries
<1>4. u \in Nat /\ Widest \in Nat /\ x <= u
  BY <1>1, <1>2, BoundariesAre, WidestIs
<1>5. CASE k = 1
  <2>1. u = 0
    BY <1>3, <1>5, OffsetIsRecursive
  <2>2. u - x <= Widest
    BY <2>1, <1>4
  <2> QED BY <1>1, <1>4, <2>2 DEF u
<1>6. CASE k # 1
  <2>1. k - 1 \in 1..n /\ k - 1 \in 1..n + 1 /\ (k - 1) + 1 = k
    BY <1>2, <1>6
  <2> DEFINE w == Width[text[k - 1]]
             e == Offset(text, k - 1)
  <2>2. u = e + w
    BY <1>3, <2>1, OffsetIsRecursive
  <2>3. text[k - 1] \in Runes
    BY <2>1
  <2>4. w \in Nat /\ w <= Widest + 1 /\ w > 0
    <3>1. \A r \in Runes : Width[r] <= Widest + 1
      BY <1>2, WidestIs
    <3>2. \A r \in Runes : Width[r] \in Nat /\ Width[r] > 0
      BY RunesAssumption
    <3> QED BY <2>3, <3>1, <3>2
  <2>5. e \in Boundaries(text) /\ e \in Nat
    BY <2>1, OffsetsRise DEF Boundaries
  <2> HIDE DEF w, e
  <2>6. ~(e >= x)
    <3> SUFFICES ASSUME e >= x PROVE FALSE
      OBVIOUS
    <3>1. e \in S
      BY <2>5
    <3>2. u <= e
      BY <3>1, <1>1
    <3> QED BY <3>2, <2>2, <2>4, <2>5
  <2>7. u - x <= Widest
    BY <2>2, <2>4, <2>5, <2>6, <1>4
  <2> QED BY <1>1, <1>4, <2>7 DEF u
<1> QED BY <1>5, <1>6

\* The window around a group before it is widened to whole runes.
RawWindow(B, group, size) ==
  LET length == group.to - group.from
      half   == IF size > length THEN (size - length) \div 2 ELSE 0
      start  == IF group.from > half THEN group.from - half ELSE 0
      end    == IF start + size < group.to THEN group.to ELSE start + size
      over   == end > B
  IN  [first |-> IF ~over THEN start ELSE IF B > size THEN B - size ELSE 0,
       last  |-> IF over THEN B ELSE end]

\* A group of matches in a text of B bytes.
Inside(group, B) ==
  /\ group.from \in Nat /\ group.to \in Nat /\ B \in Nat
  /\ group.from < group.to /\ group.to <= B

\* The window contains the group, is in the text and is as long as it should be.
Frames(first, last, from, to, size, B) ==
  /\ first \in Nat /\ last \in Nat /\ last <= B
  /\ first <= from /\ to <= last
  /\ last - first >= size \/ last - first >= B
  /\ last - first <= size \/ last - first <= to - from

(* The window before rounding frames its group; it begins behind any match  *)
(* that is more than size bytes before the group, and ends before any that  *)
(* is more than size bytes behind.                                         *)
LEMMA RawWindowFrames ==
    ASSUME NEW group, NEW B, Inside(group, B), NEW size \in Nat \ {0}
    PROVE  /\ Frames(RawWindow(B, group, size).first, RawWindow(B, group, size).last,
                     group.from, group.to, size, B)
           /\ \A x \in Nat : group.from - x > size => x < RawWindow(B, group, size).first
           /\ \A x \in Nat : x <= B /\ x - group.to > size => RawWindow(B, group, size).last < x
<1> DEFINE a == group.from
           b == group.to
           length == b - a
           half == IF size > length THEN (size - length) \div 2 ELSE 0
           start == IF a > half THEN a - half ELSE 0
           end == IF start + size < b THEN b ELSE start + size
           over == end > B
           w == RawWindow(B, group, size)
<1>1. a \in Nat /\ b \in Nat /\ B \in Nat /\ a < b /\ b <= B /\ size \in Nat /\ size > 0
  BY DEF Inside
<1>2. /\ w.first = IF ~over THEN start ELSE IF B > size THEN B - size ELSE 0
      /\ w.last = IF over THEN B ELSE end
  BY DEF RawWindow
<1> HIDE DEF w, a, b
<1>3. length \in Nat /\ length > 0
  BY <1>1
<1>4. half \in Nat /\ (size > length => half <= size - length /\ half < size) /\ (size <= length => half = 0)
  <2>1. CASE size > length
    <3> DEFINE d == size - length
    <3>1. d \in Nat /\ d > 0
      BY <2>1, <1>1, <1>3
    <3> HIDE DEF d
    <3>2. d \div 2 \in Nat /\ d \div 2 <= d
      BY <3>1
    <3>3. half = d \div 2
      BY <2>1 DEF d
    <3> HIDE DEF half
    <3>4. half \in Nat /\ half <= size - length
      BY <3>2, <3>3 DEF d
    <3> HIDE DEF length
    <3> QED BY <2>1, <3>4, <1>1, <1>3
  <2>2. CASE ~(size > length)
    <3>1. half = 0
      BY <2>2
    <3> QED BY <3>1, <2>2, <1>1, <1>3
  <2> QED BY <2>1, <2>2
<1> HIDE DEF half
<1>5. /\ start \in Nat /\ start <= a
      /\ b <= start + size \/ (start = a /\ size <= length)
  <2>1. CASE a > half
    <3>1. start = a - half
      BY <2>1
    <3> QED BY <2>1, <3>1, <1>1, <1>3, <1>4
  <2>2. CASE ~(a > half)
    <3>1. start = 0 /\ a <= half
      BY <2>2, <1>1, <1>4
    <3>2. CASE size > length
      BY <3>1, <3>2, <1>1, <1>3, <1>4
    <3>3. CASE ~(size > length)
      BY <3>1, <3>3, <1>1, <1>3, <1>4
    <3> QED BY <3>2, <3>3
  <2> QED BY <2>1, <2>2
<1>6. ASSUME NEW x \in Nat, a - x > size
      PROVE  x < start
  <2>1. CASE a > half
    BY <2>1, <1>1, <1>3, <1>4, <1>6
  <2>2. CASE ~(a > half)
    BY <2>2, <1>1, <1>3, <1>4, <1>6
  <2> QED BY <2>1, <2>2
<1> HIDE DEF start
<1>7. /\ end \in Nat /\ end >= b /\ end - start >= size
      /\ end = start + size \/ (end = b /\ start = a)
  <2>1. CASE start + size < b
    BY <2>1, <1>1, <1>5
  <2>2. CASE ~(start + size < b)
    BY <2>2, <1>1, <1>5
  <2> QED BY <2>1, <2>2
<1> HIDE DEF end
<1>8. CASE ~over
  <2>1. w.first = start /\ w.last = end /\ end <= B
    BY <1>1, <1>2, <1>7, <1>8
  <2>2. Frames(start, end, a, b, size, B)
    BY <2>1, <1>1, <1>5, <1>7 DEF Frames
  <2>3. ASSUME NEW x \in Nat, x <= B, x - b > size
        PROVE  end < x
    BY <2>3, <1>1, <1>5, <1>7
  <2> QED BY <2>1, <2>2, <2>3, <1>6 DEF a, b, w
<1>9. CASE over
  <2> DEFINE f == IF B > size THEN B - size ELSE 0
  <2>1. w.first = f /\ w.last = B /\ end > B
    BY <1>2, <1>9
  <2>2. end = start + size
    BY <2>1, <1>1, <1>7
  <2>3. f \in Nat /\ f <= a /\ B - f <= size /\ (B - f >= size \/ B - f >= B)
    <3>1. CASE B > size
      BY <3>1, <2>1, <2>2, <1>1, <1>5
    <3>2. CASE ~(B > size)
      BY <3>2, <2>1, <2>2, <1>1, <1>5
    <3> QED BY <3>1, <3>2
  <2>4. ASSUME NEW x \in Nat, a - x > size
        PROVE  x < f
    BY <2>4, <1>1
  <2> HIDE DEF f
  <2>5. Frames(f, B, a, b, size, B)
    BY <2>3, <1>1 DEF Frames
  <2>6. ASSUME NEW x \in Nat, x <= B, x - b > size
        PROVE  B < x
    BY <2>6, <2>1, <2>2, <1>1, <1>5
  <2> QED BY <2>1, <2>4, <2>5, <2>6 DEF a, b, w
<1> QED BY <1>8, <1>9

(* The fragment of a group is its window, widened to whole runes.           *)
LEMMA FragmentIsRounded ==
    ASSUME NEW text, NEW group, NEW size
    PROVE  FragmentBounds(text, group, size) =
             [from |-> Down(text, RawWindow(Bytes(text), group, size).first),
              to   |-> Up(text, RawWindow(Bytes(text), group, size).last)]
<1> DEFINE length == group.to - group.from
           half == IF size > length THEN (size - length) \div 2 ELSE 0
           start == IF group.from > half THEN group.from - half ELSE 0
           end == IF start + size < group.to THEN group.to ELSE start + size
           over == end > Bytes(text)
           first == IF ~over THEN start ELSE IF Bytes(text) > size THEN Bytes(text) - size ELSE 0
           last == IF over THEN Bytes(text) ELSE end
<1>1. FragmentBounds(text, group, size) = [from |-> Down(text, first), to |-> Up(text, last)]
  BY Zenon DEF FragmentBounds, Down, Up
<1>2. RawWindow(Bytes(text), group, size) = [first |-> first, last |-> last]
  BY Zenon DEF RawWindow
<1> HIDE DEF first, last
<1>3. RawWindow(Bytes(text), group, size).first = first /\ RawWindow(Bytes(text), group, size).last = last
  BY <1>2
<1> QED BY <1>1, <1>3

-----------------------------------------------------------------------------
(* Groups.                                                                 *)

MatchRecords == [from : Nat, to : Nat]

\* A match is added to the last group or begins one.
Joins(groups, match, size) ==
  IF match.from - groups[Len(groups)].to <= size
  THEN [groups EXCEPT ![Len(groups)].to = match.to]
  ELSE Append(groups, match)

GroupsAt(matches, size, upTo, k) ==
  IF k = 1 THEN <<matches[1]>> ELSE Joins(upTo[k - 1], matches[k], size)

GroupedBy(upTo, matches, size) == upTo = [k \in 1..Len(matches) |-> GroupsAt(matches, size, upTo, k)]

\* The groups lie more than size bytes apart, and the last one ends where the
\* last match does.
Grouped(groups, text, size, to) ==
  /\ groups \in Seq(MatchRecords) /\ groups # <<>>
  /\ \A k \in 1..Len(groups) :
       /\ groups[k].from \in Boundaries(text) /\ groups[k].to \in Boundaries(text)
       /\ groups[k].from < groups[k].to
  /\ \A k \in 2..Len(groups) : groups[k].from - groups[k - 1].to > size
  /\ groups[Len(groups)].to = to

(* A group that grows is a group.                                          *)
LEMMA JoinsInto ==
    ASSUME NEW groups \in Seq(MatchRecords), groups # <<>>, NEW to \in Nat
    PROVE  LET g == [groups EXCEPT ![Len(groups)].to = to]
           IN  /\ g \in Seq(MatchRecords) /\ Len(g) = Len(groups)
               /\ \A k \in 1..Len(groups) : g[k].from = groups[k].from
               /\ \A k \in 1..Len(groups) : g[k].to = IF k = Len(groups) THEN to ELSE groups[k].to
<1> DEFINE n == Len(groups)
           g == [groups EXCEPT ![n].to = to]
           e == [groups[n] EXCEPT !.to = to]
<1>1. n \in Nat /\ n \in 1..n /\ groups \in [1..n -> MatchRecords]
  OBVIOUS
<1>2. groups[n] \in MatchRecords
  BY <1>1
<1>3. e \in MatchRecords /\ e.from = groups[n].from /\ e.to = to
  BY <1>2 DEF MatchRecords
<1>4. g = [k \in 1..n |-> IF k = n THEN e ELSE groups[k]]
  BY <1>1
<1> HIDE DEF e, n, g
<1>5. \A k \in 1..n : (IF k = n THEN e ELSE groups[k]) \in MatchRecords
  BY <1>1, <1>3
<1>6. g \in [1..n -> MatchRecords] /\ \A k \in 1..n : g[k] = IF k = n THEN e ELSE groups[k]
  BY <1>4, <1>5
<1>7. g \in Seq(MatchRecords) /\ Len(g) = n
  BY <1>1, <1>6, SequenceOf
<1>8. \A k \in 1..n : g[k].from = groups[k].from /\ g[k].to = IF k = n THEN to ELSE groups[k].to
  BY <1>3, <1>6
<1> QED BY <1>7, <1>8 DEF g, n

(* Joining a match to groups leaves groups.                                *)
LEMMA JoinsRecords ==
    ASSUME NEW groups \in Seq(MatchRecords), groups # <<>>, NEW match \in MatchRecords, NEW size
    PROVE  Joins(groups, match, size) \in Seq(MatchRecords) /\ Joins(groups, match, size) # <<>>
<1>1. match.to \in Nat
  BY DEF MatchRecords
<1> DEFINE g == [groups EXCEPT ![Len(groups)].to = match.to]
<1>2. g \in Seq(MatchRecords) /\ Len(g) = Len(groups)
  BY <1>1, JoinsInto
<1> HIDE DEF g
<1>3. g # <<>>
  BY <1>2
<1>4. Append(groups, match) \in Seq(MatchRecords) /\ Append(groups, match) # <<>>
  OBVIOUS
<1>5. Joins(groups, match, size) = g \/ Joins(groups, match, size) = Append(groups, match)
  BY DEF Joins, g
<1> QED BY <1>2, <1>3, <1>4, <1>5

(* The next match leaves the groups apart.                                  *)
LEMMA JoinsGroups ==
    ASSUME NEW text \in Seq(Runes), NEW groups, NEW size \in Nat, NEW to, Grouped(groups, text, size, to),
           NEW match \in MatchRecords, to <= match.from, match.from < match.to,
           match.from \in Boundaries(text), match.to \in Boundaries(text)
    PROVE  Grouped(Joins(groups, match, size), text, size, match.to)
<1> DEFINE n == Len(groups)
           B == Boundaries(text)
<1>1. /\ groups \in Seq(MatchRecords) /\ groups # <<>>
      /\ \A k \in 1..n : groups[k].from \in B /\ groups[k].to \in B /\ groups[k].from < groups[k].to
      /\ \A k \in 2..n : groups[k].from - groups[k - 1].to > size
      /\ groups[n].to = to
  BY DEF Grouped
<1>2. n \in Nat /\ n \in 1..n /\ n > 0
  BY <1>1
<1>3. match.from \in Nat /\ match.to \in Nat /\ \A b \in B : b \in Nat
  BY BoundariesAre DEF MatchRecords
<1>4. CASE match.from - groups[n].to <= size
  <2> DEFINE g == [groups EXCEPT ![n].to = match.to]
  <2>1. Joins(groups, match, size) = g
    BY <1>4 DEF Joins
  <2>2. /\ g \in Seq(MatchRecords) /\ Len(g) = n
        /\ \A k \in 1..n : g[k].from = groups[k].from
        /\ \A k \in 1..n : g[k].to = IF k = n THEN match.to ELSE groups[k].to
    BY <1>1, <1>3, JoinsInto
  <2> HIDE DEF g, n, B
  <2>3. g # <<>>
    BY <2>2, <1>2
  <2>4. ASSUME NEW k \in 1..n
        PROVE  g[k].from \in B /\ g[k].to \in B /\ g[k].from < g[k].to
    <3>1. CASE k = n
      <4>1. g[k].from = groups[n].from /\ g[k].to = match.to
        BY <2>2, <3>1
      <4>2. groups[n].from \in B /\ groups[n].from < to /\ groups[n].to = to /\ groups[n].to \in B
        BY <1>1, <1>2
      <4> DEFINE f == groups[n].from
                 l == match.from
                 m == match.to
      <4>3. f \in Nat /\ to \in Nat /\ l \in Nat /\ m \in Nat /\ f < to /\ to <= l /\ l < m
        BY <4>2, <1>3
      <4> HIDE DEF f, l, m
      <4>4. f < m
        BY <4>3
      <4> QED BY <4>1, <4>2, <4>4 DEF B, f, m
    <3>2. CASE k # n
      BY <3>2, <2>2, <1>1
    <3> QED BY <3>1, <3>2
  <2>5. ASSUME NEW k \in 2..n
        PROVE  g[k].from - g[k - 1].to > size
    <3>1. k \in 1..n /\ k - 1 \in 1..n /\ k - 1 # n
      BY <1>2
    <3> QED BY <3>1, <2>2, <1>1
  <2>6. g[n].to = match.to
    BY <1>2, <2>2
  <2>7. Grouped(g, text, size, match.to)
    BY <2>2, <2>3, <2>4, <2>5, <2>6 DEF Grouped, B
  <2> QED BY <2>1, <2>7
<1>5. CASE ~(match.from - groups[n].to <= size)
  <2> DEFINE g == Append(groups, match)
  <2>1. Joins(groups, match, size) = g
    BY <1>5 DEF Joins
  <2>2. /\ g \in Seq(MatchRecords) /\ Len(g) = n + 1 /\ g[n + 1] = match
        /\ \A k \in 1..n : g[k] = groups[k]
    BY <1>1
  <2> HIDE DEF g, n, B
  <2>3. g # <<>>
    BY <2>2, <1>2
  <2>4. \A k \in 1..n + 1 : k \in 1..n \/ k = n + 1
    BY <1>2
  <2>5. ASSUME NEW k \in 1..n + 1
        PROVE  g[k].from \in B /\ g[k].to \in B /\ g[k].from < g[k].to
    BY <2>2, <2>4, <1>1 DEF B
  <2>6. ASSUME NEW k \in 2..n + 1
        PROVE  g[k].from - g[k - 1].to > size
    <3>1. CASE k = n + 1
      <4>1. k - 1 = n
        BY <3>1, <1>2
      <4>2. g[k] = match /\ g[k - 1] = groups[n]
        BY <4>1, <3>1, <2>2, <1>2
      <4>3. groups[n].to \in Nat
        BY <1>1, <1>2, <1>3
      <4>4. match.from - groups[n].to > size
        BY <4>3, <1>3, <1>5 DEF n
      <4> QED BY <4>2, <4>4
    <3>2. CASE k # n + 1
      <4>1. k \in 2..n /\ k \in 1..n /\ k - 1 \in 1..n
        BY <3>2, <1>2
      <4> QED BY <4>1, <2>2, <1>1
    <3> QED BY <3>1, <3>2
  <2>7. Grouped(g, text, size, match.to)
    BY <2>2, <2>3, <2>5, <2>6 DEF Grouped, B
  <2> QED BY <2>1, <2>7
<1> QED BY <1>4, <1>5

(* The groups are a function of how far the matches are read.               *)
LEMMA GroupsAreRecursive ==
    ASSUME NEW matches \in Seq(MatchRecords), matches # <<>>, NEW size
    PROVE  \E upTo : GroupedBy(upTo, matches, size) /\ GroupMatches(matches, size) = upTo[Len(matches)]
<1> DEFINE n == Len(matches)
           V == {g \in Seq(MatchRecords) : g # <<>>}
           v1 == <<matches[1]>>
           step == [k \in 2..n |-> [v \in V |-> Joins(v, matches[k], size)]]
<1>1. n \in Nat \ {0} /\ \A k \in 1..n : matches[k] \in MatchRecords
  OBVIOUS
<1>2. v1 \in V
  <2>1. 1 \in 1..n
    BY <1>1
  <2> QED BY <2>1, <1>1
<1> HIDE DEF n
<1>3. ASSUME NEW k \in 2..n, NEW v \in V
      PROVE  Joins(v, matches[k], size) \in V
  <2>1. matches[k] \in MatchRecords
    BY <1>1
  <2> QED BY <2>1, JoinsRecords
<1>4. step \in [2..n -> [V -> V]]
  <2> HIDE DEF V
  <2> QED BY <1>3
<1>5. PICK f \in [1..n -> V] : f[1] = v1 /\ \A k \in 2..n : f[k] = step[k][f[k - 1]]
  <2> HIDE DEF V, v1, step
  <2>1. Chains(n, V, v1, step)
    BY <1>1, <1>2, <1>4 DEF Chains
  <2>2. \E f : ChainOf(f, n, V, v1, step)
    BY <2>1, ChainFunction
  <2> QED BY <2>2 DEF ChainOf
<1>6. ASSUME NEW k \in 1..n
      PROVE  f[k] = GroupsAt(matches, size, f, k)
  <2>1. CASE k = 1
    BY <2>1, <1>5 DEF GroupsAt
  <2>2. CASE k # 1
    <3>1. k \in 2..n /\ k - 1 \in 1..n
      BY <2>2, <1>1
    <3>2. f[k - 1] \in V
      BY <3>1
    <3> HIDE DEF V, v1
    <3>3. step[k][f[k - 1]] = Joins(f[k - 1], matches[k], size)
      BY <3>1, <3>2
    <3> QED BY <3>1, <3>3, <1>5, <2>2 DEF GroupsAt
  <2> QED BY <2>1, <2>2
<1>7. f = [k \in 1..n |-> f[k]]
  OBVIOUS
<1>8. GroupedBy(f, matches, size)
  <2> HIDE DEF V, v1, step
  <2> QED BY <1>6, <1>7 DEF GroupedBy, n
<1>9. GroupMatches(matches, size) = (CHOOSE upTo : GroupedBy(upTo, matches, size))[n]
  BY Zenon DEF GroupMatches, GroupedBy, GroupsAt, Joins, n
<1> DEFINE h == CHOOSE upTo : GroupedBy(upTo, matches, size)
<1>10. GroupedBy(h, matches, size)
  BY <1>8
<1> QED BY <1>9, <1>10 DEF n

(* The groups of matches that lie in order and apart are apart by more than *)
(* the size of a fragment.                                                 *)
LEMMA GroupsAreApart ==
    ASSUME NEW text \in Seq(Runes), NEW matches, MatchesLie(matches, text), matches # <<>>, NEW size \in Nat
    PROVE  Grouped(GroupMatches(matches, size), text, size, matches[Len(matches)].to)
<1> DEFINE n == Len(matches)
<1>1. /\ matches \in Seq(MatchRecords)
      /\ \A k \in 1..n : /\ matches[k].from \in Boundaries(text) /\ matches[k].to \in Boundaries(text)
                         /\ matches[k].from < matches[k].to
      /\ \A k, l \in 1..n : k < l => matches[k].to <= matches[l].from
  BY DEF MatchesLie, MatchRecords
<1>2. PICK f : GroupedBy(f, matches, size) /\ GroupMatches(matches, size) = f[n]
  BY <1>1, GroupsAreRecursive
<1>3. \A k \in 1..n : f[k] = GroupsAt(matches, size, f, k)
  BY <1>2 DEF GroupedBy
<1>4. n \in Nat /\ n > 0 /\ \A k \in 1..n : matches[k] \in MatchRecords
  BY <1>1
<1> DEFINE S == {k \in Nat : k + 1 <= n => Grouped(f[k + 1], text, size, matches[k + 1].to)}
<1> HIDE DEF n
<1>5. 0 \in S
  <2>1. 1 \in 1..n /\ f[1] = <<matches[1]>>
    BY <1>3, <1>4 DEF GroupsAt
  <2> DEFINE g == <<matches[1]>>
  <2>2. g \in Seq(MatchRecords) /\ Len(g) = 1 /\ g[1] = matches[1] /\ g # <<>>
    BY <2>1, <1>4
  <2> HIDE DEF g
  <2>3. Grouped(g, text, size, matches[1].to)
    BY <2>1, <2>2, <1>1 DEF Grouped
  <2>4. 0 + 1 = 1
    OBVIOUS
  <2>5. Grouped(f[0 + 1], text, size, matches[0 + 1].to)
    BY <2>1, <2>3, <2>4 DEF g
  <2> QED BY <2>5
<1>6. ASSUME NEW k \in S
      PROVE  k + 1 \in S
  <2> SUFFICES ASSUME (k + 1) + 1 <= n PROVE Grouped(f[(k + 1) + 1], text, size, matches[(k + 1) + 1].to)
    OBVIOUS
  <2> DEFINE l == k + 1
  <2>1. k \in Nat /\ l \in 1..n /\ l + 1 \in 1..n /\ l + 1 # 1 /\ (l + 1) - 1 = l /\ l < l + 1
    BY <1>4
  <2>2. Grouped(f[l], text, size, matches[l].to)
    BY <2>1 DEF S
  <2> HIDE DEF l
  <2>3. f[l + 1] = Joins(f[l], matches[l + 1], size)
    BY <2>1, <1>3 DEF GroupsAt
  <2>4. matches[l].to <= matches[l + 1].from
    BY <2>1, <1>1
  <2>5. Grouped(f[l + 1], text, size, matches[l + 1].to)
    BY <2>1, <2>2, <2>3, <2>4, <1>1, <1>4, JoinsGroups
  <2> QED BY <2>5 DEF l
<1>7. S = Nat
  <2>1. S \in SUBSET Nat
    OBVIOUS
  <2> HIDE DEF S
  <2> QED BY <1>5, <1>6, <2>1, NumberInduction
<1>8. n - 1 \in S /\ (n - 1) + 1 = n
  <2>1. n - 1 \in Nat /\ (n - 1) + 1 = n
    BY <1>4
  <2> HIDE DEF S
  <2> QED BY <2>1, <1>7
<1>9. Grouped(f[n], text, size, matches[n].to)
  BY <1>8, <1>4
<1> QED BY <1>2, <1>9 DEF n

-----------------------------------------------------------------------------
(* Fragments.                                                              *)

\* A fragment fits its group: on whole runes, around the group, neither
\* shorter nor longer than it should be.
FitsGroup(from, to, group, text, size) ==
  /\ from \in Boundaries(text) /\ to \in Boundaries(text)
  /\ from <= group.from /\ group.to <= to
  /\ to - from >= size \/ to - from >= Bytes(text)
  /\ to - from <= size + 2 * Widest \/ to - from <= (group.to - group.from) + 2 * Widest

(* The fragment of a group fits it.                                        *)
LEMMA FragmentFitsGroup ==
    ASSUME NEW text \in Seq(Runes), text # <<>>, NEW group, Inside(group, Bytes(text)),
           NEW size \in Nat \ {0}
    PROVE  FitsGroup(FragmentBounds(text, group, size).from, FragmentBounds(text, group, size).to,
                     group, text, size)
<1> DEFINE B == Bytes(text)
           f == RawWindow(B, group, size).first
           l == RawWindow(B, group, size).last
           d == Down(text, f)
           u == Up(text, l)
           a == group.from
           b == group.to
           W == Widest
<1>1. Frames(f, l, a, b, size, B)
  BY RawWindowFrames
<1>2. FragmentBounds(text, group, size).from = d /\ FragmentBounds(text, group, size).to = u
  BY FragmentIsRounded
<1> HIDE DEF f, l
<1>3. /\ f \in Nat /\ l \in Nat /\ l <= B /\ f <= a /\ b <= l
      /\ l - f >= size \/ l - f >= B
      /\ l - f <= size \/ l - f <= b - a
  BY <1>1 DEF Frames
<1>4. a \in Nat /\ b \in Nat /\ B \in Nat /\ a < b /\ b <= B /\ size \in Nat
  BY DEF Inside
<1>5. f <= B /\ l <= B
  <2> HIDE DEF a, b, B
  <2> QED BY <1>3, <1>4
<1>6. d \in Boundaries(text) /\ d <= f /\ f - d <= W
  <2> HIDE DEF W
  <2> QED BY <1>3, <1>5, RoundingDown DEF W
<1>7. u \in Boundaries(text) /\ l <= u /\ u - l <= W
  <2> HIDE DEF W
  <2> QED BY <1>3, <1>5, RoundingUp DEF W
<1>8. W \in Nat /\ d \in Nat /\ u \in Nat
  <2>1. text[1] \in Runes
    OBVIOUS
  <2> QED BY <2>1, <1>6, <1>7, WidestIs, BoundariesAre
<1> HIDE DEF a, b, B, d, u, W
<1>9. /\ d <= a /\ b <= u
      /\ u - d >= size \/ u - d >= B
      /\ u - d <= size + 2 * W \/ u - d <= (b - a) + 2 * W
  <2>1. d <= a /\ b <= u
    BY <1>3, <1>4, <1>6, <1>7, <1>8
  <2>2. u - d >= l - f /\ u - d <= (l - f) + 2 * W
    BY <1>3, <1>6, <1>7, <1>8
  <2> DEFINE x == l - f
             y == u - d
             z == 2 * W
             v == b - a
  <2>3. x \in Int /\ y \in Int /\ z \in Int /\ v \in Int
    BY <1>3, <1>4, <1>8
  <2>4. (x >= size \/ x >= B) /\ (x <= size \/ x <= v) /\ y >= x /\ y <= x + z
    BY <1>3, <2>2
  <2> HIDE DEF x, y, z, v
  <2>5. (y >= size \/ y >= B) /\ (y <= size + z \/ y <= v + z)
    BY <2>3, <2>4, <1>4
  <2> QED BY <2>1, <2>5 DEF x, y, z, v
<1> QED BY <1>2, <1>6, <1>7, <1>9 DEF FitsGroup, a, b, B, d, u, W

(* The fragments of groups that are apart follow each other.                *)
LEMMA FragmentsFollow ==
    ASSUME NEW text \in Seq(Runes), text # <<>>, NEW size \in Nat \ {0},
           NEW g, Inside(g, Bytes(text)), NEW h, Inside(h, Bytes(text)), h.from - g.to > size
    PROVE  /\ FragmentBounds(text, g, size).from <= FragmentBounds(text, h, size).from
           /\ FragmentBounds(text, g, size).to <= FragmentBounds(text, h, size).to
<1> DEFINE B == Bytes(text)
           f(x) == RawWindow(B, x, size).first
           l(x) == RawWindow(B, x, size).last
<1>1. /\ g.from \in Nat /\ g.to \in Nat /\ g.from < g.to /\ g.to <= B
      /\ h.from \in Nat /\ h.to \in Nat /\ h.from < h.to /\ h.to <= B
      /\ B \in Nat /\ size \in Nat
  BY DEF Inside
<1>2. Frames(f(g), l(g), g.from, g.to, size, B) /\ Frames(f(h), l(h), h.from, h.to, size, B)
  BY RawWindowFrames
<1>3. g.to < f(h)
  BY <1>1, RawWindowFrames
<1>4. l(g) < h.from
  <2>1. h.from <= B
    <3> HIDE DEF B
    <3> QED BY <1>1
  <2> QED BY <2>1, <1>1, RawWindowFrames
<1>5. /\ \A x : FragmentBounds(text, x, size).from = Down(text, f(x))
      /\ \A x : FragmentBounds(text, x, size).to = Up(text, l(x))
  BY FragmentIsRounded
<1> HIDE DEF f, l
<1>6. /\ f(g) \in Nat /\ l(g) \in Nat /\ f(h) \in Nat /\ l(h) \in Nat
      /\ l(g) <= B /\ l(h) <= B /\ f(g) <= g.from /\ f(h) <= h.from /\ h.to <= l(h)
  BY <1>2 DEF Frames
<1>7. f(g) <= f(h) /\ l(g) <= l(h) /\ f(g) <= B /\ f(h) <= B
  <2> DEFINE a == g.from
             b == g.to
             c == h.from
             d == h.to
             p == f(g)
             q == f(h)
             r == l(g)
             s == l(h)
  <2>1. /\ a \in Nat /\ b \in Nat /\ c \in Nat /\ d \in Nat /\ B \in Nat
        /\ p \in Nat /\ q \in Nat /\ r \in Nat /\ s \in Nat
        /\ a < b /\ b <= B /\ c < d /\ d <= B
        /\ p <= a /\ q <= c /\ d <= s /\ b < q /\ r < c
    BY <1>1, <1>3, <1>4, <1>6
  <2> HIDE DEF a, b, c, d, p, q, r, s, B
  <2>2. p <= q /\ r <= s /\ p <= B /\ q <= B
    BY <2>1
  <2> QED BY <2>2 DEF p, q, r, s
<1>8. Down(text, f(g)) <= Down(text, f(h))
  <2>1. Down(text, f(g)) \in Boundaries(text) /\ Down(text, f(g)) <= f(g)
    BY <1>6, <1>7, RoundingDown
  <2>2. Down(text, f(g)) \in Nat
    BY <2>1, BoundariesAre
  <2>3. Down(text, f(g)) <= f(h)
    BY <2>1, <2>2, <1>6, <1>7
  <2> QED BY <2>1, <2>3, <1>6, <1>7, RoundingDown
<1>9. Up(text, l(g)) <= Up(text, l(h))
  <2>1. Up(text, l(h)) \in Boundaries(text) /\ l(h) <= Up(text, l(h))
    BY <1>6, RoundingUp
  <2>2. Up(text, l(h)) \in Nat
    BY <2>1, BoundariesAre
  <2>3. l(g) <= Up(text, l(h))
    BY <2>1, <2>2, <1>6, <1>7
  <2> QED BY <2>1, <2>3, <1>6, RoundingUp
<1> QED BY <1>5, <1>8, <1>9

(* The higher and the lower of two numbers.                                *)
LEMMA OfTwo ==
    ASSUME NEW a \in Int, NEW b \in Int
    PROVE  /\ Highest({a, b}) \in Int /\ a <= Highest({a, b}) /\ b <= Highest({a, b})
           /\ Lowest({a, b}) \in Int /\ Lowest({a, b}) <= a /\ Lowest({a, b}) <= b
<1>1. \E m \in {a, b} : \A k \in {a, b} : k <= m
  <2>1. CASE a <= b
    BY <2>1
  <2>2. CASE ~(a <= b)
    BY <2>2
  <2> QED BY <2>1, <2>2
<1>2. \E m \in {a, b} : \A k \in {a, b} : m <= k
  <2>1. CASE a <= b
    BY <2>1
  <2>2. CASE ~(a <= b)
    BY <2>2
  <2> QED BY <2>1, <2>2
<1>3. Highest({a, b}) \in {a, b} /\ \A k \in {a, b} : k <= Highest({a, b})
  BY <1>1 DEF Highest
<1>4. Lowest({a, b}) \in {a, b} /\ \A k \in {a, b} : Lowest({a, b}) <= k
  BY <1>2 DEF Lowest
<1> QED BY <1>3, <1>4

\* The fragments are the windows of the first groups, with the matches in
\* each.
FragmentsOf(fragments, matches, text, size, maxFragments) ==
  LET groups == GroupMatches(matches, size)
  IN  /\ Len(fragments) \in Nat /\ Len(fragments) > 0
      /\ Len(fragments) <= maxFragments /\ Len(fragments) <= Len(groups)
      /\ \A k \in 1..Len(fragments) :
           LET window == FragmentBounds(text, groups[k], size)
           IN  /\ fragments[k].from = window.from /\ fragments[k].to = window.to
               /\ fragments[k].pieces = Render(matches, window)

(* What Extract returns.                                                   *)
LEMMA ExtractIs ==
    ASSUME NEW text \in Seq(Runes), NEW wanted, NEW size \in Nat \ {0}, NEW maxFragments \in Nat \ {0}
    PROVE  /\ MatchesOf(text, wanted) = <<>> => Extract(text, wanted, size, maxFragments) = <<>>
           /\ MatchesOf(text, wanted) # <<>> =>
                FragmentsOf(Extract(text, wanted, size, maxFragments), MatchesOf(text, wanted),
                            text, size, maxFragments)
<1> DEFINE matches == MatchesOf(text, wanted)
           groups == GroupMatches(matches, size)
           count == IF Len(groups) > maxFragments THEN maxFragments ELSE Len(groups)
           win(k) == FragmentBounds(text, groups[k], size)
           ex == Extract(text, wanted, size, maxFragments)
<1>1. ex = IF matches = <<>> THEN <<>>
           ELSE [k \in 1..count |-> [from |-> win(k).from, to |-> win(k).to, pieces |-> Render(matches, win(k))]]
  BY Zenon DEF Extract
<1>2. MatchesLie(matches, text)
  BY MatchesAreApart
<1> HIDE DEF matches
<1>3. ASSUME matches # <<>>
      PROVE  FragmentsOf(ex, matches, text, size, maxFragments)
  <2>1. Grouped(groups, text, size, matches[Len(matches)].to)
    BY <1>2, <1>3, GroupsAreApart
  <2>2. Len(groups) \in Nat /\ Len(groups) > 0
    <3>1. groups \in Seq(MatchRecords) /\ groups # <<>>
      BY <2>1 DEF Grouped
    <3> HIDE DEF groups
    <3> QED BY <3>1
  <2>3. count \in Nat /\ count > 0 /\ count <= maxFragments /\ count <= Len(groups)
    <3> HIDE DEF groups
    <3> QED BY <2>2
  <2> HIDE DEF groups, count, win
  <2>4. ex = [k \in 1..count |-> [from |-> win(k).from, to |-> win(k).to, pieces |-> Render(matches, win(k))]]
    BY <1>1, <1>3
  <2> HIDE DEF ex
  <2>5. Len(ex) = count
    BY <2>3, <2>4
  <2>6. ASSUME NEW k \in 1..count
        PROVE  ex[k].from = win(k).from /\ ex[k].to = win(k).to /\ ex[k].pieces = Render(matches, win(k))
    <3>1. ex[k] = [from |-> win(k).from, to |-> win(k).to, pieces |-> Render(matches, win(k))]
      BY <2>4
    <3> QED BY <3>1
  <2> QED BY <2>3, <2>5, <2>6 DEF FragmentsOf, groups, win
<1> QED BY <1>1, <1>3 DEF matches, ex

(* Fragments lie in the text on whole runes, around their groups of         *)
(* matches, neither shorter nor longer than asked for, in the order of the  *)
(* text (fragmentBounds and Extract).                                      *)
THEOREM FragmentsFitAnyText ==
    ASSUME NEW text \in Seq(Runes), NEW wanted, NEW size \in Nat \ {0}, NEW maxFragments \in Nat \ {0}
    PROVE  FragmentsFitText(text, wanted, size, maxFragments)
<1> DEFINE matches == MatchesOf(text, wanted)
           fragments == Extract(text, wanted, size, maxFragments)
           groups == GroupMatches(matches, size)
           B == Bytes(text)
           Fit(k) ==
             /\ {fragments[k].from, fragments[k].to} \subseteq Boundaries(text)
             /\ fragments[k].from <= groups[k].from /\ groups[k].to <= fragments[k].to
             /\ fragments[k].to - fragments[k].from >= Lowest({size, B})
             /\ fragments[k].to - fragments[k].from <=
                  Highest({size, groups[k].to - groups[k].from}) + 2 * Widest
             /\ k > 1 => /\ fragments[k - 1].from <= fragments[k].from
                         /\ fragments[k - 1].to <= fragments[k].to
<1>1. /\ matches = <<>> => fragments = <<>>
      /\ matches # <<>> => FragmentsOf(fragments, matches, text, size, maxFragments)
  BY ExtractIs
<1>2. FragmentsFitText(text, wanted, size, maxFragments) <=>
        /\ matches = <<>> <=> fragments = <<>>
        /\ Len(fragments) <= maxFragments
        /\ \A k \in 1..Len(fragments) : Fit(k)
  BY Zenon DEF FragmentsFitText, Widest
<1>3. MatchesLie(matches, text)
  BY MatchesAreApart
<1> HIDE DEF matches, fragments
<1>4. CASE matches = <<>>
  <2>1. fragments = <<>>
    BY <1>1, <1>4
  <2>2. Len(fragments) = 0 /\ 0 <= maxFragments /\ 1..0 = {}
    BY <2>1
  <2> HIDE DEF Fit
  <2> QED BY <1>2, <1>4, <2>1, <2>2
<1>5. CASE matches # <<>>
  <2>1. FragmentsOf(fragments, matches, text, size, maxFragments)
    BY <1>1, <1>5
  <2>2. /\ Len(fragments) \in Nat /\ Len(fragments) > 0
        /\ Len(fragments) <= maxFragments /\ Len(fragments) <= Len(groups)
        /\ \A k \in 1..Len(fragments) :
             /\ fragments[k].from = FragmentBounds(text, groups[k], size).from
             /\ fragments[k].to = FragmentBounds(text, groups[k], size).to
    BY <2>1 DEF FragmentsOf
  <2>3. Grouped(groups, text, size, matches[Len(matches)].to)
    BY <1>3, <1>5, GroupsAreApart
  <2>4. text # <<>>
    <3>1. 1 \in 1..Len(matches)
      <4>1. matches \in Seq(MatchRecords)
        BY <1>3 DEF MatchesLie, MatchRecords
      <4> QED BY <4>1, <1>5
    <3>2. matches[1].from \in Boundaries(text) /\ matches[1].to \in Boundaries(text)
          /\ matches[1].from < matches[1].to
      BY <3>1, <1>3 DEF MatchesLie
    <3>3. ASSUME text = <<>>
          PROVE  \A b \in Boundaries(text) : b = 0
      <4>1. Bytes(text) = 0
        <5>1. Len(text) + 1 = 1
          BY <3>3
        <5> QED BY <5>1, OffsetIsRecursive DEF Bytes
      <4> QED BY <4>1, BoundariesAre
    <3> QED BY <3>2, <3>3
  <2> HIDE DEF groups
  <2>5. ASSUME NEW k \in 1..Len(groups)
        PROVE  Inside(groups[k], B)
    <3>1. groups[k].from \in Boundaries(text) /\ groups[k].to \in Boundaries(text)
          /\ groups[k].from < groups[k].to
      BY <2>3 DEF Grouped
    <3> QED BY <3>1, BoundariesAre DEF Inside
  <2>6. ASSUME NEW k \in 1..Len(fragments)
        PROVE  Fit(k)
    <3> DEFINE from == fragments[k].from
               to == fragments[k].to
               v == groups[k].to - groups[k].from
               L == Lowest({size, B})
               H == Highest({size, v})
    <3>1. k \in 1..Len(groups) /\ Len(groups) \in Nat
      <4>1. Len(groups) \in Nat
        <5>1. groups \in Seq(MatchRecords)
          BY <2>3 DEF Grouped
        <5> QED BY <5>1
      <4> QED BY <4>1, <2>2
    <3>2. from = FragmentBounds(text, groups[k], size).from /\ to = FragmentBounds(text, groups[k], size).to
      BY <2>2
    <3>3. FitsGroup(from, to, groups[k], text, size)
      BY <2>4, <2>5, <3>1, <3>2, FragmentFitsGroup
    <3> HIDE DEF from, to
    <3>4. /\ from \in Boundaries(text) /\ to \in Boundaries(text)
          /\ from <= groups[k].from /\ groups[k].to <= to
          /\ to - from >= size \/ to - from >= B
          /\ to - from <= size + 2 * Widest \/ to - from <= v + 2 * Widest
      BY <3>3 DEF FitsGroup
    <3>5. groups[k].from \in Nat /\ groups[k].to \in Nat /\ B \in Nat /\ v \in Int
      <4>1. Inside(groups[k], B)
        BY <2>5, <3>1
      <4> QED BY <4>1 DEF Inside
    <3>6. from \in Nat /\ to \in Nat /\ Widest \in Nat
      <4>1. text[1] \in Runes
        BY <2>4
      <4> QED BY <4>1, <3>4, WidestIs, BoundariesAre
    <3> HIDE DEF v, B
    <3>7. /\ H \in Int /\ size <= H /\ v <= H
          /\ L \in Int /\ L <= size /\ L <= B
      <4>1. size \in Int /\ v \in Int /\ B \in Int
        BY <3>5
      <4>2. Highest({size, v}) \in Int /\ size <= Highest({size, v}) /\ v <= Highest({size, v})
        BY <4>1, OfTwo
      <4>3. Lowest({size, B}) \in Int /\ Lowest({size, B}) <= size /\ Lowest({size, B}) <= B
        BY <4>1, OfTwo
      <4> QED BY <4>2, <4>3
    <3> HIDE DEF H, L
    <3>8. to - from >= L /\ to - from <= H + 2 * Widest
      <4> DEFINE y == to - from
                 z == 2 * Widest
      <4>1. y \in Int /\ z \in Int /\ (y >= size \/ y >= B) /\ (y <= size + z \/ y <= v + z)
        BY <3>4, <3>6
      <4> HIDE DEF y, z
      <4>2. y >= L /\ y <= H + z
        BY <4>1, <3>5, <3>7
      <4> QED BY <4>2 DEF y, z
    <3>9. ASSUME k > 1
          PROVE  fragments[k - 1].from <= from /\ fragments[k - 1].to <= to
      <4>1. k \in 2..Len(groups) /\ k - 1 \in 1..Len(groups) /\ k - 1 \in 1..Len(fragments)
        BY <3>1, <3>9, <2>2
      <4>2. groups[k].from - groups[k - 1].to > size
        BY <4>1, <2>3 DEF Grouped
      <4>3. Inside(groups[k], Bytes(text)) /\ Inside(groups[k - 1], Bytes(text))
        BY <4>1, <3>1, <2>5 DEF B
      <4>4. /\ FragmentBounds(text, groups[k - 1], size).from <= FragmentBounds(text, groups[k], size).from
            /\ FragmentBounds(text, groups[k - 1], size).to <= FragmentBounds(text, groups[k], size).to
        <5> DEFINE g == groups[k - 1]
                   h == groups[k]
        <5>1. Inside(g, Bytes(text)) /\ Inside(h, Bytes(text)) /\ h.from - g.to > size
          BY <4>2, <4>3
        <5> HIDE DEF g, h
        <5>2. /\ FragmentBounds(text, g, size).from <= FragmentBounds(text, h, size).from
              /\ FragmentBounds(text, g, size).to <= FragmentBounds(text, h, size).to
          BY <5>1, <2>4, FragmentsFollow
        <5> QED BY <5>2 DEF g, h
      <4>5. /\ fragments[k - 1].from = FragmentBounds(text, groups[k - 1], size).from
            /\ fragments[k - 1].to = FragmentBounds(text, groups[k - 1], size).to
        BY <4>1, <2>2
      <4> QED BY <3>2, <4>4, <4>5
    <3> QED BY <3>4, <3>8, <3>9 DEF Fit, from, to, v, L, H
  <2>7. fragments # <<>> /\ Len(fragments) <= maxFragments
    BY <2>2
  <2> HIDE DEF Fit
  <2> QED BY <1>2, <1>5, <2>6, <2>7
<1> QED BY <1>4, <1>5

-----------------------------------------------------------------------------
(* Rendering.                                                              *)

InRange(match, window) == match.from >= window.from /\ match.to <= window.to

SpanOf(match) == <<match.from, match.to>>

\* The matches inside lie in the window in order and apart, and are all that
\* lie in it.
Within(inside, matches, window) ==
  /\ inside \in Seq(MatchRecords)
  /\ \A k \in 1..Len(inside) :
       /\ window.from <= inside[k].from /\ inside[k].from < inside[k].to
       /\ inside[k].to <= window.to
  /\ \A k \in 2..Len(inside) : inside[k - 1].to <= inside[k].from
  /\ \A k \in 1..Len(inside) : \E j \in 1..Len(matches) :
       InRange(matches[j], window) /\ inside[k] = matches[j]
  /\ \A j \in 1..Len(matches) : InRange(matches[j], window) =>
       \E k \in 1..Len(inside) : inside[k] = matches[j]

(* The matches in range (matchesInRange).                                  *)
LEMMA InRangeAre ==
    ASSUME NEW text, NEW matches, MatchesLie(matches, text), NEW window
    PROVE  Within(MatchesInRange(matches, window), matches, window)
<1> DEFINE n == Len(matches)
           S == {matches[k] : k \in {j \in 1..n : InRange(matches[j], window)}}
           K == Kept(matches, S)
<1>1. MatchesInRange(matches, window) = K
  BY Zenon DEF MatchesInRange, InRange
<1>2. /\ matches \in Seq(MatchRecords)
      /\ \A k \in 1..n : matches[k].from < matches[k].to
      /\ \A k, l \in 1..n : k < l => matches[k].to <= matches[l].from
  BY DEF MatchesLie, MatchRecords
<1>3. \A j \in 1..n : (matches[j] \in S) <=> InRange(matches[j], window)
  OBVIOUS
<1>4. K \in Seq(MatchRecords) /\ \E g : Picks(g, K, matches, S, n)
  <2> HIDE DEF S
  <2> QED BY <1>2, KeptIs
<1> HIDE DEF S, K
<1>5. PICK g : Picks(g, K, matches, S, n)
  BY <1>4
<1>6. /\ Len(K) \in Nat
      /\ \A i \in 1..Len(K) : g[i] \in 1..n /\ K[i] = matches[g[i]]
      /\ \A i, j \in 1..Len(K) : i < j => g[i] < g[j]
      /\ \A j \in 1..n : (matches[j] \in S) <=> \E i \in 1..Len(K) : g[i] = j
  BY <1>5 DEF Picks
<1>7. \A k \in 1..Len(K) : \E j \in 1..n : InRange(matches[j], window) /\ K[k] = matches[j]
  BY <1>3, <1>6
<1>8. \A j \in 1..n : InRange(matches[j], window) => \E k \in 1..Len(K) : K[k] = matches[j]
  BY <1>3, <1>6
<1>9. ASSUME NEW k \in 1..Len(K)
      PROVE  window.from <= K[k].from /\ K[k].from < K[k].to /\ K[k].to <= window.to
  <2>1. PICK j \in 1..n : InRange(matches[j], window) /\ K[k] = matches[j]
    BY <1>7
  <2>2. matches[j].from >= window.from /\ matches[j].to <= window.to
    BY <2>1 DEF InRange
  <2> QED BY <2>1, <2>2, <1>2
<1>10. ASSUME NEW k \in 2..Len(K)
       PROVE  K[k - 1].to <= K[k].from
  <2>1. k \in 1..Len(K) /\ k - 1 \in 1..Len(K) /\ k - 1 < k
    BY <1>6
  <2>2. g[k - 1] < g[k] /\ g[k - 1] \in 1..n /\ g[k] \in 1..n
    BY <2>1, <1>6
  <2>3. matches[g[k - 1]].to <= matches[g[k]].from
    BY <2>2, <1>2
  <2> QED BY <2>1, <2>3, <1>6
<1>11. Within(K, matches, window)
  BY <1>4, <1>7, <1>8, <1>9, <1>10 DEF Within
<1> QED BY <1>1, <1>11

Pieces == [from : Nat, to : Nat, tagged : BOOLEAN]

\* The next match is drawn, unless it begins before the cursor.
Draws(drawn, match) ==
  IF match.from < drawn.cursor THEN drawn
  ELSE [pieces |-> drawn.pieces \o <<Piece(drawn.cursor, match.from, FALSE),
                                     Piece(match.from, match.to, TRUE)>>,
        cursor |-> match.to]

RenderAt(inside, window, upTo, k) ==
  IF k = 0 THEN [pieces |-> <<>>, cursor |-> window.from] ELSE Draws(upTo[k - 1], inside[k])

RenderedBy(upTo, inside, window) ==
  upTo = [k \in 0..Len(inside) |-> RenderAt(inside, window, upTo, k)]

(* Pieces stay pieces.                                                     *)
LEMMA TwoMore ==
    ASSUME NEW V, NEW s \in Seq(V), NEW a \in V, NEW b \in V
    PROVE  /\ s \o <<a, b>> \in Seq(V)
           /\ Len(s \o <<a, b>>) = Len(s) + 2
           /\ (s \o <<a, b>>)[Len(s) + 1] = a
           /\ (s \o <<a, b>>)[Len(s) + 2] = b
           /\ \A k \in 1..Len(s) : (s \o <<a, b>>)[k] = s[k]
<1> DEFINE t == <<a, b>>
<1>1. t \in Seq(V) /\ Len(t) = 2 /\ t[1] = a /\ t[2] = b
  OBVIOUS
<1> HIDE DEF t
<1> DEFINE n == Len(s)
           c == s \o t
<1>2. n \in Nat
  OBVIOUS
<1>3. c \in Seq(V) /\ Len(c) = n + 2 /\ \A k \in 1..n + 2 : c[k] = IF k <= n THEN s[k] ELSE t[k - n]
  <2>1. /\ c \in Seq(V) /\ Len(c) = n + Len(t)
        /\ \A k \in 1..n + Len(t) : c[k] = IF k <= n THEN s[k] ELSE t[k - n]
    BY <1>1, Joined
  <2> HIDE DEF n, c
  <2> QED BY <2>1, <1>1
<1> HIDE DEF n, c
<1>4. /\ n + 1 \in 1..n + 2 /\ ~(n + 1 <= n) /\ (n + 1) - n = 1
      /\ n + 2 \in 1..n + 2 /\ ~(n + 2 <= n) /\ (n + 2) - n = 2
      /\ \A k \in 1..n : k \in 1..n + 2 /\ k <= n
  BY <1>2
<1>5. c[n + 1] = a /\ c[n + 2] = b /\ \A k \in 1..n : c[k] = s[k]
  BY <1>1, <1>3, <1>4
<1> QED BY <1>3, <1>5 DEF c, n, t

Drawings == [pieces : Seq(Pieces), cursor : Nat]

(* Drawing a match leaves a drawing.                                       *)
LEMMA DrawsPieces ==
    ASSUME NEW drawn \in Drawings, NEW match \in MatchRecords
    PROVE  Draws(drawn, match) \in Drawings
<1>1. drawn.pieces \in Seq(Pieces) /\ drawn.cursor \in Nat /\ match.from \in Nat /\ match.to \in Nat
  BY DEF Drawings, MatchRecords
<1> DEFINE a == Piece(drawn.cursor, match.from, FALSE)
           b == Piece(match.from, match.to, TRUE)
           s == drawn.pieces \o <<a, b>>
<1>2. a \in Pieces /\ b \in Pieces
  BY <1>1 DEF Piece, Pieces
<1> HIDE DEF a, b
<1>3. s \in Seq(Pieces)
  BY <1>1, <1>2, TwoMore
<1> HIDE DEF s
<1>4. [pieces |-> s, cursor |-> match.to] \in Drawings
  BY <1>1, <1>3 DEF Drawings
<1> QED BY <1>4 DEF Draws, s, a, b

(* The drawing is a function of how many matches are drawn.                 *)
LEMMA RenderIsRecursive ==
    ASSUME NEW inside \in Seq(MatchRecords), NEW window, window.from \in Nat
    PROVE  \E upTo : /\ RenderedBy(upTo, inside, window)
                     /\ \A matches : MatchesInRange(matches, window) = inside =>
                          Render(matches, window) =
                            Append(upTo[Len(inside)].pieces,
                                   Piece(upTo[Len(inside)].cursor, window.to, FALSE))
<1> DEFINE n == Len(inside)
           V == Drawings
           v0 == [pieces |-> <<>>, cursor |-> window.from]
           step == [k \in 1..n |-> [v \in V |-> Draws(v, inside[k])]]
<1>1. n \in Nat /\ \A k \in 1..n : inside[k] \in MatchRecords
  OBVIOUS
<1>2. v0 \in V
  BY DEF Drawings
<1> HIDE DEF n, v0
<1>3. step \in [1..n -> [V -> V]]
  BY <1>1, DrawsPieces
<1>4. PICK f : Follows(f, n, V, v0, step)
  <2> HIDE DEF V, step
  <2>1. Stepwise(n, V, v0, step)
    BY <1>1, <1>2, <1>3 DEF Stepwise
  <2> QED BY <2>1, StepwiseFunction
<1>5. f \in [0..n -> V] /\ f[0] = v0 /\ \A k \in 1..n : f[k] = step[k][f[k - 1]]
  <2> HIDE DEF V, step
  <2> QED BY <1>4 DEF Follows
<1>6. ASSUME NEW k \in 0..n
      PROVE  f[k] = RenderAt(inside, window, f, k)
  <2>1. CASE k = 0
    BY <2>1, <1>5 DEF RenderAt, v0
  <2>2. CASE k # 0
    <3>1. k \in 1..n /\ k - 1 \in 0..n
      BY <2>2, <1>1
    <3>2. f[k - 1] \in V
      BY <3>1, <1>5
    <3>3. step[k][f[k - 1]] = Draws(f[k - 1], inside[k])
      BY <3>1, <3>2
    <3> QED BY <3>1, <3>3, <1>5, <2>2 DEF RenderAt
  <2> QED BY <2>1, <2>2
<1>7. RenderedBy(f, inside, window)
  <2>1. f = [k \in 0..n |-> f[k]]
    BY <1>5
  <2> QED BY <2>1, <1>6, Zenon DEF RenderedBy, n
<1> DEFINE h == CHOOSE upTo : RenderedBy(upTo, inside, window)
<1>8. RenderedBy(h, inside, window)
  BY <1>7
<1>9. ASSUME NEW matches, MatchesInRange(matches, window) = inside
      PROVE  Render(matches, window) = Append(h[n].pieces, Piece(h[n].cursor, window.to, FALSE))
  BY <1>9, Zenon DEF Render, RenderedBy, RenderAt, Draws, n
<1> HIDE DEF h
<1> QED BY <1>8, <1>9 DEF n

\* Where the k-th piece of plain text begins and ends.
Before(inside, window, k) == IF k = 1 THEN window.from ELSE inside[k - 1].to
After(inside, window, k) == IF k = Len(inside) + 1 THEN window.to ELSE inside[k].from

\* Plain text and matches alternate.
Alternate(pieces, inside, window, k) ==
  \A j \in 1..k :
    /\ pieces[2 * j - 1] = Piece(Before(inside, window, j), inside[j].from, FALSE)
    /\ pieces[2 * j] = Piece(inside[j].from, inside[j].to, TRUE)

Drawn(drawn, inside, window, k) ==
  /\ drawn.pieces \in Seq(Pieces) /\ Len(drawn.pieces) = 2 * k
  /\ drawn.cursor = Before(inside, window, k + 1)
  /\ Alternate(drawn.pieces, inside, window, k)

(* No match is passed over, and each is drawn behind the text before it.    *)
LEMMA DrawsMatch ==
    ASSUME NEW matches, NEW inside, NEW window, window.from \in Nat, Within(inside, matches, window),
           NEW k \in Nat, k + 1 <= Len(inside), NEW drawn, Drawn(drawn, inside, window, k)
    PROVE  Drawn(Draws(drawn, inside[k + 1]), inside, window, k + 1)
<1> DEFINE l == k + 1
           m == inside[l]
           c == drawn.cursor
           s == drawn.pieces
           a == Piece(c, m.from, FALSE)
           b == Piece(m.from, m.to, TRUE)
           t == s \o <<a, b>>
<1>1. inside \in Seq(MatchRecords) /\ Len(inside) \in Nat
  BY DEF Within
<1>2. l \in Nat /\ l \in 1..Len(inside) /\ l - 1 = k /\ (l + 1) - 1 = l /\ l # 0 /\ l + 1 # 1
  BY <1>1
<1>3. m \in MatchRecords /\ m.from \in Nat /\ m.to \in Nat
  <2>1. m \in MatchRecords
    BY <1>1, <1>2
  <2> HIDE DEF m
  <2> QED BY <2>1 DEF MatchRecords
<1>4. s \in Seq(Pieces) /\ Len(s) = 2 * k /\ c = Before(inside, window, l) /\ Alternate(s, inside, window, k)
  BY DEF Drawn
<1>5. c \in Nat /\ c <= m.from
  <2>1. CASE l = 1
    <3>1. c = window.from
      BY <2>1, <1>4 DEF Before
    <3>2. window.from <= inside[l].from
      BY <1>2 DEF Within
    <3> QED BY <3>1, <3>2
  <2>2. CASE l # 1
    <3>1. c = inside[l - 1].to
      BY <2>2, <1>4 DEF Before
    <3>2. l \in 2..Len(inside) /\ l - 1 \in 1..Len(inside)
      BY <2>2, <1>1, <1>2
    <3>3. inside[l - 1].to <= inside[l].from
      BY <3>2 DEF Within
    <3>4. inside[l - 1] \in MatchRecords
      BY <3>2, <1>1
    <3>5. inside[l - 1].to \in Nat
      BY <3>4 DEF MatchRecords
    <3> QED BY <3>1, <3>3, <3>5
  <2> QED BY <2>1, <2>2
<1> HIDE DEF m, c, s, l
<1>6. a \in Pieces /\ b \in Pieces
  BY <1>3, <1>5 DEF Piece, Pieces
<1> HIDE DEF a, b
<1>7. /\ t \in Seq(Pieces) /\ Len(t) = Len(s) + 2
      /\ t[Len(s) + 1] = a /\ t[Len(s) + 2] = b
      /\ \A i \in 1..Len(s) : t[i] = s[i]
  BY <1>4, <1>6, TwoMore
<1> HIDE DEF t
<1>8. Draws(drawn, m) = [pieces |-> t, cursor |-> m.to]
  <2>1. ~(m.from < c)
    BY <1>3, <1>5
  <2> QED BY <2>1 DEF Draws, t, a, b, c, s
<1>9. Len(t) = 2 * l /\ t[2 * l - 1] = a /\ t[2 * l] = b
  <2>1. 2 * k + 2 = 2 * l /\ 2 * k + 1 = 2 * l - 1
    BY DEF l
  <2> QED BY <2>1, <1>4, <1>7
<1>10. Alternate(t, inside, window, l)
  <2> SUFFICES ASSUME NEW j \in 1..l
               PROVE  /\ t[2 * j - 1] = Piece(Before(inside, window, j), inside[j].from, FALSE)
                      /\ t[2 * j] = Piece(inside[j].from, inside[j].to, TRUE)
    BY DEF Alternate
  <2>1. CASE j = l
    BY <2>1, <1>4, <1>9 DEF a, b, m
  <2>2. CASE j # l
    <3>1. j \in 1..k
      BY <2>2, <1>2
    <3>2. 2 * j - 1 \in 1..2 * k /\ 2 * j \in 1..2 * k
      BY <3>1
    <3>3. t[2 * j - 1] = s[2 * j - 1] /\ t[2 * j] = s[2 * j]
      BY <3>2, <1>4, <1>7
    <3> QED BY <3>1, <3>3, <1>4 DEF Alternate
  <2> QED BY <2>1, <2>2
<1>11. Before(inside, window, l + 1) = m.to
  BY <1>2 DEF Before, m
<1> DEFINE r == Draws(drawn, m)
<1>12. r.pieces = t /\ r.cursor = m.to
  BY <1>8
<1> HIDE DEF r
<1>13. Drawn(r, inside, window, l)
  BY <1>7, <1>9, <1>10, <1>11, <1>12 DEF Drawn
<1> QED BY <1>13 DEF r, l, m

(* The pieces that Render returns.                                          *)
LEMMA RenderIs ==
    ASSUME NEW matches, NEW window, window.from \in Nat, window.to \in Nat, window.from <= window.to,
           Within(MatchesInRange(matches, window), matches, window)
    PROVE  LET inside == MatchesInRange(matches, window)
               n == Len(inside)
               p == Render(matches, window)
           IN  /\ Len(p) = 2 * n + 1
               /\ \A j \in 1..n : p[2 * j] = Piece(inside[j].from, inside[j].to, TRUE)
               /\ \A j \in 1..n + 1 : p[2 * j - 1] =
                    Piece(Before(inside, window, j), After(inside, window, j), FALSE)
<1> DEFINE inside == MatchesInRange(matches, window)
           n == Len(inside)
           p == Render(matches, window)
<1>1. Within(inside, matches, window)
  OBVIOUS
<1>2. inside \in Seq(MatchRecords)
  BY <1>1 DEF Within
<1>3. PICK f : /\ RenderedBy(f, inside, window)
               /\ \A m : MatchesInRange(m, window) = inside =>
                    Render(m, window) =
                      Append(f[n].pieces, Piece(f[n].cursor, window.to, FALSE))
  <2> HIDE DEF inside
  <2> QED BY <1>2, RenderIsRecursive
<1>4. p = Append(f[n].pieces, Piece(f[n].cursor, window.to, FALSE))
  BY <1>3
<1> HIDE DEF inside, p
<1>5. n \in Nat
  BY <1>2
<1>6. \A k \in 0..n : f[k] = RenderAt(inside, window, f, k)
  BY <1>3 DEF RenderedBy
<1> DEFINE S == {k \in Nat : k <= n => Drawn(f[k], inside, window, k)}
<1> HIDE DEF n
<1>7. 0 \in S
  <2>1. f[0] = [pieces |-> <<>>, cursor |-> window.from]
    BY <1>5, <1>6 DEF RenderAt
  <2>2. f[0].pieces = <<>> /\ f[0].cursor = window.from
    BY <2>1
  <2>3. <<>> \in Seq(Pieces) /\ Len(<<>>) = 0 /\ 2 * 0 = 0 /\ 1..0 = {} /\ 0 + 1 = 1
    OBVIOUS
  <2>4. Alternate(<<>>, inside, window, 0)
    BY <2>3 DEF Alternate
  <2>5. f[0].cursor = Before(inside, window, 0 + 1)
    BY <2>2, <2>3 DEF Before
  <2>6. Drawn(f[0], inside, window, 0)
    BY <2>2, <2>3, <2>4, <2>5 DEF Drawn
  <2> QED BY <2>6
<1>8. ASSUME NEW k \in S
      PROVE  k + 1 \in S
  <2> SUFFICES ASSUME k + 1 <= n PROVE Drawn(f[k + 1], inside, window, k + 1)
    OBVIOUS
  <2>1. k \in Nat /\ k + 1 \in 0..n /\ k + 1 # 0 /\ (k + 1) - 1 = k /\ k <= n
    BY <1>5
  <2>2. Drawn(f[k], inside, window, k)
    BY <2>1
  <2>3. f[k + 1] = Draws(f[k], inside[k + 1])
    BY <2>1, <1>6 DEF RenderAt
  <2>4. Drawn(Draws(f[k], inside[k + 1]), inside, window, k + 1)
    BY <2>1, <2>2, <1>1, DrawsMatch DEF n
  <2> QED BY <2>3, <2>4
<1>9. S = Nat
  <2>1. S \in SUBSET Nat
    OBVIOUS
  <2> HIDE DEF S
  <2> QED BY <1>7, <1>8, <2>1, NumberInduction
<1>10. Drawn(f[n], inside, window, n)
  BY <1>5, <1>9
<1> DEFINE s == f[n].pieces
           last == Piece(Before(inside, window, n + 1), window.to, FALSE)
<1>11. /\ s \in Seq(Pieces) /\ Len(s) = 2 * n /\ Alternate(s, inside, window, n)
       /\ p = Append(s, last)
  BY <1>4, <1>10 DEF Drawn
<1> HIDE DEF s, last
<1>12. Len(p) = 2 * n + 1 /\ p[2 * n + 1] = last /\ \A i \in 1..2 * n : p[i] = s[i]
  <2>1. \A i \in 1..Len(s) : Append(s, last)[i] = s[i]
    BY <1>11
  <2>2. Len(Append(s, last)) = Len(s) + 1 /\ Append(s, last)[Len(s) + 1] = last
    BY <1>11
  <2> QED BY <2>1, <2>2, <1>11
<1>13. ASSUME NEW j \in 1..n
       PROVE  /\ p[2 * j] = Piece(inside[j].from, inside[j].to, TRUE)
              /\ p[2 * j - 1] = Piece(Before(inside, window, j), After(inside, window, j), FALSE)
  <2>1. 2 * j \in 1..2 * n /\ 2 * j - 1 \in 1..2 * n /\ j # n + 1
    BY <1>5
  <2>2. After(inside, window, j) = inside[j].from
    BY <2>1 DEF After, n
  <2>3. /\ s[2 * j - 1] = Piece(Before(inside, window, j), inside[j].from, FALSE)
        /\ s[2 * j] = Piece(inside[j].from, inside[j].to, TRUE)
    BY <1>11 DEF Alternate
  <2> QED BY <2>1, <2>2, <2>3, <1>12
<1>14. p[2 * (n + 1) - 1] = Piece(Before(inside, window, n + 1), After(inside, window, n + 1), FALSE)
  <2>1. 2 * (n + 1) - 1 = 2 * n + 1
    BY <1>5
  <2>2. After(inside, window, n + 1) = window.to
    BY DEF After, n
  <2> QED BY <2>1, <2>2, <1>12 DEF last
<1>15. \A j \in 1..n + 1 : j \in 1..n \/ j = n + 1
  BY <1>5
<1>16. \A j \in 1..n + 1 : p[2 * j - 1] =
         Piece(Before(inside, window, j), After(inside, window, j), FALSE)
  BY <1>13, <1>14, <1>15
<1> QED BY <1>12, <1>13, <1>16 DEF p, n, inside

(* There are as many even numbers as there are matches.                     *)
LEMMA EvenNumbers ==
    ASSUME NEW n \in Nat
    PROVE  Cardinality({2 * j : j \in 1..n}) = n
<1> DEFINE E == {2 * j : j \in 1..n}
           g == [j \in 1..n |-> 2 * j]
<1>1. g \in Bijection(1..n, E)
  <2>1. g \in [1..n -> E] /\ \A e \in E : \E j \in 1..n : g[j] = e
    OBVIOUS
  <2>2. \A i, j \in 1..n : g[i] = g[j] => i = j
    OBVIOUS
  <2> HIDE DEF g, E
  <2> QED BY <2>1, <2>2 DEF Bijection, Injection, Surjection, IsInjective
<1>2. IsFiniteSet(1..n) /\ Cardinality(1..n) = n
  BY UpToNumber
<1> HIDE DEF g, E
<1>3. Cardinality(E) = Cardinality(1..n)
  BY <1>1, <1>2, FS_Bijection DEF ExistsBijection
<1> QED BY <1>2, <1>3 DEF E

\* What RenderingIsExact says of the pieces of one fragment.
Rendered(p, matches, from, to) ==
  /\ p[1].from = from /\ p[Len(p)].to = to
  /\ \A n \in 1..Len(p) : p[n].from <= p[n].to
  /\ \A n \in 2..Len(p) : p[n].from = p[n - 1].to
  /\ {<<p[n].from, p[n].to>> : n \in {j \in 1..Len(p) : p[j].tagged}} =
       {<<matches[n].from, matches[n].to>> :
          n \in {j \in 1..Len(matches) : /\ matches[j].from >= from
                                         /\ matches[j].to <= to}}
  /\ Cardinality({n \in 1..Len(p) : p[n].tagged}) * 2 + 1 = Len(p)

(* A window is rendered whole, and each match in it is tagged once.         *)
LEMMA WindowIsRendered ==
    ASSUME NEW matches, NEW window, window.from \in Nat, window.to \in Nat, window.from <= window.to,
           Within(MatchesInRange(matches, window), matches, window)
    PROVE  Rendered(Render(matches, window), matches, window.from, window.to)
<1> DEFINE inside == MatchesInRange(matches, window)
           n == Len(inside)
           p == Render(matches, window)
           B(j) == Before(inside, window, j)
           A(j) == After(inside, window, j)
<1>1. /\ Len(p) = 2 * n + 1
      /\ \A j \in 1..n : p[2 * j] = Piece(inside[j].from, inside[j].to, TRUE)
      /\ \A j \in 1..n + 1 : p[2 * j - 1] = Piece(B(j), A(j), FALSE)
  BY RenderIs
<1>2. Within(inside, matches, window)
  OBVIOUS
<1> HIDE DEF inside, p
<1>3. /\ n \in Nat
      /\ \A j \in 1..n : /\ inside[j].from \in Nat /\ inside[j].to \in Nat
                         /\ window.from <= inside[j].from /\ inside[j].from < inside[j].to
                         /\ inside[j].to <= window.to
      /\ \A j \in 2..n : inside[j - 1].to <= inside[j].from
  <2>1. inside \in Seq(MatchRecords)
    BY <1>2 DEF Within
  <2>2. \A j \in 1..n : inside[j] \in MatchRecords
    BY <2>1
  <2>3. \A j \in 1..n : inside[j].from \in Nat /\ inside[j].to \in Nat
    BY <2>2 DEF MatchRecords
  <2>4. /\ \A j \in 1..n : /\ window.from <= inside[j].from /\ inside[j].from < inside[j].to
                           /\ inside[j].to <= window.to
        /\ \A j \in 2..n : inside[j - 1].to <= inside[j].from
    BY <1>2, Zenon DEF Within
  <2>5. n \in Nat
    BY <2>1
  <2> HIDE DEF n
  <2> QED BY <2>3, <2>4, <2>5, Zenon DEF n
<1>4. /\ \A j \in 1..n : p[2 * j].from = inside[j].from /\ p[2 * j].to = inside[j].to /\ p[2 * j].tagged = TRUE
      /\ \A j \in 1..n + 1 : p[2 * j - 1].from = B(j) /\ p[2 * j - 1].to = A(j) /\ p[2 * j - 1].tagged = FALSE
  <2>2. ASSUME NEW j \in 1..n
        PROVE  p[2 * j].from = inside[j].from /\ p[2 * j].to = inside[j].to /\ p[2 * j].tagged = TRUE
    <3>1. p[2 * j] = Piece(inside[j].from, inside[j].to, TRUE)
      BY <1>1
    <3> DEFINE x == p[2 * j]
               a == inside[j].from
               b == inside[j].to
    <3>2. x = Piece(a, b, TRUE)
      BY <3>1
    <3> HIDE DEF x, a, b
    <3>3. x.from = a /\ x.to = b /\ x.tagged = TRUE
      BY <3>2 DEF Piece
    <3> QED BY <3>3 DEF x, a, b
  <2>3. ASSUME NEW j \in 1..n + 1
        PROVE  p[2 * j - 1].from = B(j) /\ p[2 * j - 1].to = A(j) /\ p[2 * j - 1].tagged = FALSE
    <3>1. p[2 * j - 1] = Piece(B(j), A(j), FALSE)
      BY <1>1
    <3> DEFINE x == p[2 * j - 1]
               a == B(j)
               b == A(j)
    <3>2. x = Piece(a, b, FALSE)
      BY <3>1
    <3> HIDE DEF x, a, b
    <3>3. x.from = a /\ x.to = b /\ x.tagged = FALSE
      BY <3>2 DEF Piece
    <3> QED BY <3>3 DEF x, a, b
  <2> HIDE DEF n, A, B
  <2> QED BY <2>2, <2>3
<1>5. /\ B(1) = window.from /\ A(n + 1) = window.to
      /\ \A j \in 2..n + 1 : B(j) = inside[j - 1].to
      /\ \A j \in 1..n : A(j) = inside[j].from
  <2>1. \A j \in 2..n + 1 : j # 1
    OBVIOUS
  <2>2. \A j \in 1..n : j # n + 1
    BY <1>3
  <2> QED BY <2>1, <2>2 DEF Before, After
<1> HIDE DEF n, A, B
\* Each place among the pieces is that of a text or of a match.
<1>6. ASSUME NEW i \in 1..2 * n + 1
      PROVE  (\E j \in 1..n : i = 2 * j) \/ (\E j \in 1..n + 1 : i = 2 * j - 1)
  <2>1. \E j \in Nat : i = 2 * j \/ i = 2 * j - 1
    <3> DEFINE h == (i + 1) \div 2
    <3>1. h \in Nat /\ (i = 2 * h \/ i = 2 * h - 1)
      BY <1>3
    <3> QED BY <3>1
  <2>2. PICK j \in Nat : i = 2 * j \/ i = 2 * j - 1
    BY <2>1
  <2>3. i \in Int /\ 1 <= i /\ i <= 2 * n + 1
    BY <1>3
  <2>4. CASE i = 2 * j
    <3>1. j \in 1..n
      BY <2>3, <2>4, <1>3
    <3> QED BY <3>1, <2>4
  <2>5. CASE i = 2 * j - 1
    <3>1. j \in 1..n + 1
      BY <2>3, <2>5, <1>3
    <3> QED BY <3>1, <2>5
  <2> QED BY <2>2, <2>4, <2>5
<1>7. p[1].from = window.from /\ p[Len(p)].to = window.to
  <2>1. 2 * 1 - 1 = 1 /\ 1 \in 1..n + 1 /\ n + 1 \in 1..n + 1 /\ 2 * (n + 1) - 1 = 2 * n + 1
    BY <1>3
  <2>2. p[2 * 1 - 1].from = B(1) /\ p[2 * (n + 1) - 1].to = A(n + 1)
    BY <2>1, <1>4
  <2> QED BY <2>1, <2>2, <1>1, <1>5
<1>8. ASSUME NEW j \in 1..n + 1
      PROVE  B(j) <= A(j)
  <2>1. CASE j = 1 /\ j = n + 1
    BY <2>1, <1>5
  <2>2. CASE j = 1 /\ j # n + 1
    <3>1. j \in 1..n
      BY <2>2, <1>3
    <3> QED BY <3>1, <2>2, <1>3, <1>5
  <2>3. CASE j # 1 /\ j = n + 1
    <3>1. j \in 2..n + 1 /\ j - 1 \in 1..n
      BY <2>3, <1>3
    <3> QED BY <3>1, <2>3, <1>3, <1>5
  <2>4. CASE j # 1 /\ j # n + 1
    <3>1. j \in 2..n + 1 /\ j \in 2..n /\ j \in 1..n
      BY <2>4, <1>3
    <3> QED BY <3>1, <1>3, <1>5
  <2> QED BY <2>1, <2>2, <2>3, <2>4
<1>9. ASSUME NEW i \in 1..Len(p)
      PROVE  p[i].from <= p[i].to
  <2>1. (\E j \in 1..n : i = 2 * j) \/ (\E j \in 1..n + 1 : i = 2 * j - 1)
    BY <1>1, <1>6 DEF n
  <2>2. ASSUME NEW j \in 1..n
        PROVE  p[2 * j].from <= p[2 * j].to
    <3>1. p[2 * j].from = inside[j].from /\ p[2 * j].to = inside[j].to
      BY <1>4
    <3>2. inside[j].from \in Nat /\ inside[j].to \in Nat /\ inside[j].from < inside[j].to
      BY <1>3
    <3> QED BY <3>1, <3>2
  <2>3. ASSUME NEW j \in 1..n + 1
        PROVE  p[2 * j - 1].from <= p[2 * j - 1].to
    BY <1>4, <1>8
  <2> QED BY <2>1, <2>2, <2>3
<1>10. ASSUME NEW i \in 2..Len(p)
       PROVE  p[i].from = p[i - 1].to
  <2>1. i \in 1..2 * n + 1 /\ i > 1
    BY <1>1, <1>3 DEF n
  <2>2. (\E j \in 1..n : i = 2 * j) \/ (\E j \in 1..n + 1 : i = 2 * j - 1)
    BY <2>1, <1>6
  <2>3. CASE \E j \in 1..n : i = 2 * j
    <3>1. PICK j \in 1..n : i = 2 * j
      BY <2>3
    <3>2. j \in 1..n + 1
      BY <1>3
    <3>3. p[2 * j].from = inside[j].from /\ p[2 * j - 1].to = inside[j].from
      BY <3>2, <1>4, <1>5
    <3> QED BY <3>1, <3>3
  <2>4. CASE \E j \in 1..n + 1 : i = 2 * j - 1
    <3>1. PICK j \in 1..n + 1 : i = 2 * j - 1
      BY <2>4
    <3>2. j \in 2..n + 1 /\ j - 1 \in 1..n /\ 2 * j - 2 = 2 * (j - 1) /\ i - 1 = 2 * (j - 1)
      BY <3>1, <2>1, <1>3
    <3>3. p[2 * j - 1].from = inside[j - 1].to
      BY <3>2, <1>4, <1>5
    <3>4. p[2 * (j - 1)].to = inside[j - 1].to
      BY <3>2, <1>4
    <3> QED BY <3>1, <3>2, <3>3, <3>4
  <2> QED BY <2>2, <2>3, <2>4
<1>11. {i \in 1..Len(p) : p[i].tagged} = {2 * j : j \in 1..n}
  <2>1. ASSUME NEW j \in 1..n
        PROVE  2 * j \in 1..2 * n + 1
    BY <1>3
  <2>2. ASSUME NEW i \in 1..Len(p), p[i].tagged
        PROVE  \E j \in 1..n : i = 2 * j
    <3>1. (\E j \in 1..n : i = 2 * j) \/ (\E j \in 1..n + 1 : i = 2 * j - 1)
      BY <1>1, <1>6 DEF n
    <3>2. ASSUME NEW j \in 1..n + 1, i = 2 * j - 1
          PROVE  FALSE
      <4>1. p[2 * j - 1].tagged = FALSE
        BY <1>4
      <4> QED BY <4>1, <2>2, <3>2
    <3> QED BY <3>1, <3>2
  <2>3. Len(p) = 2 * n + 1
    BY <1>1 DEF n
  <2>4. \A j \in 1..n : p[2 * j].tagged
    BY <1>4
  <2> QED BY <2>1, <2>2, <2>3, <2>4
<1>12. Cardinality({i \in 1..Len(p) : p[i].tagged}) * 2 + 1 = Len(p)
  <2>1. Cardinality({i \in 1..Len(p) : p[i].tagged}) = n
    BY <1>3, <1>11, EvenNumbers
  <2>2. Len(p) = 2 * n + 1
    BY <1>1 DEF n
  <2> QED BY <2>1, <2>2, <1>3
<1> DEFINE tagged == {<<p[i].from, p[i].to>> : i \in {j \in 1..Len(p) : p[j].tagged}}
           ranged == {j \in 1..Len(matches) : matches[j].from >= window.from /\ matches[j].to <= window.to}
           wanted == {<<matches[i].from, matches[i].to>> : i \in ranged}
<1>13. /\ \A k \in 1..n : \E j \in 1..Len(matches) : InRange(matches[j], window) /\ inside[k] = matches[j]
       /\ \A j \in 1..Len(matches) : InRange(matches[j], window) => \E k \in 1..n : inside[k] = matches[j]
  BY <1>2 DEF Within, n
<1>14. tagged = wanted
  <2>1. tagged = {<<p[2 * j].from, p[2 * j].to>> : j \in 1..n}
    <3>1. \A x : x \in tagged => \E j \in 1..n : x = <<p[2 * j].from, p[2 * j].to>>
      BY <1>11
    <3>2. \A j \in 1..n : <<p[2 * j].from, p[2 * j].to>> \in tagged
      BY <1>11
    <3> QED BY <3>1, <3>2
  <2> HIDE DEF tagged
  <2>2. ASSUME NEW j \in 1..n
        PROVE  <<p[2 * j].from, p[2 * j].to>> = <<inside[j].from, inside[j].to>>
    BY <1>4
  <2>3. tagged \subseteq wanted
    <3> SUFFICES ASSUME NEW j \in 1..n PROVE <<inside[j].from, inside[j].to>> \in wanted
      BY <2>1, <2>2
    <3>1. PICK i \in 1..Len(matches) : InRange(matches[i], window) /\ inside[j] = matches[i]
      BY <1>13
    <3>2. i \in ranged
      BY <3>1 DEF InRange
    <3> HIDE DEF ranged
    <3> QED BY <3>1, <3>2
  <2>4. wanted \subseteq tagged
    <3> SUFFICES ASSUME NEW i \in ranged PROVE <<matches[i].from, matches[i].to>> \in tagged
      OBVIOUS
    <3>1. i \in 1..Len(matches) /\ InRange(matches[i], window)
      BY DEF InRange
    <3>2. PICK j \in 1..n : inside[j] = matches[i]
      BY <3>1, <1>13
    <3> HIDE DEF ranged
    <3> QED BY <2>1, <2>2, <3>2
  <2> QED BY <2>3, <2>4
<1> QED BY <1>7, <1>9, <1>10, <1>12, <1>14, Zenon DEF Rendered, tagged, ranged, wanted, InRange, p

(* Every fragment is its part of the text, unchanged and whole, with each   *)
(* match in it tagged once (render).                                       *)
THEOREM RenderingIsExactForAnyText ==
    ASSUME NEW text \in Seq(Runes), NEW wanted, NEW size \in Nat \ {0}, NEW maxFragments \in Nat \ {0}
    PROVE  RenderingIsExact(text, wanted, size, maxFragments)
<1> DEFINE matches == MatchesOf(text, wanted)
           fragments == Extract(text, wanted, size, maxFragments)
           groups == GroupMatches(matches, size)
<1>1. /\ matches = <<>> => fragments = <<>>
      /\ matches # <<>> => FragmentsOf(fragments, matches, text, size, maxFragments)
  BY ExtractIs
<1>2. MatchesLie(matches, text)
  BY MatchesAreApart
<1>3. FragmentsFitText(text, wanted, size, maxFragments)
  BY FragmentsFitAnyText
<1>4. \A k \in 1..Len(fragments) :
        /\ {fragments[k].from, fragments[k].to} \subseteq Boundaries(text)
        /\ fragments[k].from <= groups[k].from /\ groups[k].to <= fragments[k].to
  BY <1>3, Zenon DEF FragmentsFitText
<1>5. RenderingIsExact(text, wanted, size, maxFragments) <=>
        \A k \in 1..Len(fragments) :
          Rendered(fragments[k].pieces, matches, fragments[k].from, fragments[k].to)
  <2>1. RenderingIsExact(text, wanted, size, maxFragments) <=>
          \A m \in {matches}, f \in {fragments} : \A k \in 1..Len(f) :
            Rendered(f[k].pieces, m, f[k].from, f[k].to)
    BY DEF RenderingIsExact, Rendered
  <2> HIDE DEF matches, fragments
  <2> QED BY <2>1, Zenon
<1> HIDE DEF matches, fragments
<1>6. CASE matches = <<>>
  <2>1. fragments = <<>>
    BY <1>1, <1>6
  <2>2. 1..Len(fragments) = {}
    BY <2>1
  <2> QED BY <1>5, <2>2
<1>7. CASE matches # <<>>
  <2> SUFFICES ASSUME NEW k \in 1..Len(fragments)
               PROVE  Rendered(fragments[k].pieces, matches, fragments[k].from, fragments[k].to)
    BY <1>5
  <2>1. FragmentsOf(fragments, matches, text, size, maxFragments)
    BY <1>1, <1>7
  <2> DEFINE window == FragmentBounds(text, groups[k], size)
  <2>2. /\ fragments[k].from = window.from /\ fragments[k].to = window.to
        /\ fragments[k].pieces = Render(matches, window)
        /\ Len(fragments) <= Len(groups) /\ Len(fragments) \in Nat
    BY <2>1 DEF FragmentsOf
  <2>3. Grouped(groups, text, size, matches[Len(matches)].to)
    BY <1>2, <1>7, GroupsAreApart
  <2> HIDE DEF window, groups
  <2>4. k \in 1..Len(groups)
    <3>1. groups \in Seq(MatchRecords)
      BY <2>3 DEF Grouped
    <3>2. Len(groups) \in Nat
      BY <3>1
    <3> QED BY <3>2, <2>2
  <2>5. /\ groups[k].from \in Boundaries(text) /\ groups[k].to \in Boundaries(text)
        /\ groups[k].from < groups[k].to
    BY <2>3, <2>4 DEF Grouped
  <2>6. /\ window.from \in Boundaries(text) /\ window.to \in Boundaries(text)
        /\ window.from <= groups[k].from /\ groups[k].to <= window.to
    BY <1>4, <2>2
  <2>7. window.from \in Nat /\ window.to \in Nat /\ window.from <= window.to
    <3>1. /\ groups[k].from \in Nat /\ groups[k].to \in Nat
          /\ window.from \in Nat /\ window.to \in Nat
      BY <2>5, <2>6, BoundariesAre
    <3> QED BY <3>1, <2>5, <2>6
  <2>8. Within(MatchesInRange(matches, window), matches, window)
    BY <1>2, InRangeAre
  <2>9. Rendered(Render(matches, window), matches, window.from, window.to)
    BY <2>7, <2>8, WindowIsRendered
  <2> QED BY <2>2, <2>9
<1> QED BY <1>6, <1>7

-----------------------------------------------------------------------------
(* Sums over finite sets.                                                   *)

SumAt(f, w, s) ==
  IF s = {} THEN 0 ELSE w[CHOOSE x \in s : TRUE] + f[s \ {CHOOSE x \in s : TRUE}]

SumOf(f, w, S) == f = [s \in SUBSET S |-> SumAt(f, w, s)]

\* f gives the sum of w over each subset of S.
Sums(f, w, S) ==
  /\ f \in [SUBSET S -> Int]
  /\ f[{}] = 0
  /\ \A T \in SUBSET S : \A x \in S \ T : f[T \cup {x}] = f[T] + w[x]

(* A set without one of its elements is smaller.                            *)
LEMMA Smaller ==
    ASSUME NEW S, IsFiniteSet(S), NEW s \in SUBSET S, NEW x \in s
    PROVE  /\ s \ {x} \in SUBSET S /\ Cardinality(s) \in Nat /\ Cardinality(s \ {x}) \in Nat
           /\ Cardinality(s \ {x}) < Cardinality(s)
           /\ Cardinality(s) <= Cardinality(S)
<1>1. IsFiniteSet(s) /\ Cardinality(s) <= Cardinality(S)
  BY FS_Subset
<1>2. Cardinality(s) \in Nat
  BY <1>1, FS_CardinalityType
<1>3. IsFiniteSet(s \ {x}) /\ Cardinality(s \ {x}) = Cardinality(s) - 1
  BY <1>1, FS_RemoveElement
<1>4. Cardinality(s \ {x}) \in Nat
  BY <1>3, FS_CardinalityType
<1> QED BY <1>1, <1>2, <1>3, <1>4

(* The sum is a function of the set, whatever element is added first.       *)
LEMMA SumIsFunction ==
    ASSUME NEW S, IsFiniteSet(S), NEW w, \A x \in S : w[x] \in Int
    PROVE  \E f : Sums(f, w, S) /\ SumFunctionOnSet(w, S) = f[S]
<1> DEFINE D == SUBSET S
           m == [s \in D |-> Cardinality(s)]
           G == [s \in D |-> [f \in [D -> Int] |-> SumAt(f, w, s)]]
           N == Cardinality(S) + 1
           any(s) == CHOOSE x \in s : TRUE
<1>1. Cardinality(S) \in Nat /\ N \in Nat
  BY FS_CardinalityType
<1>2. \A s \in D : IsFiniteSet(s) /\ Cardinality(s) \in Nat /\ Cardinality(s) < N
  BY <1>1, FS_Subset, FS_CardinalityType
<1>3. ASSUME NEW s \in D, s # {}
      PROVE  any(s) \in s /\ w[any(s)] \in Int /\ s \ {any(s)} \in D /\ m[s \ {any(s)}] < m[s]
  <2>1. any(s) \in s
    BY <1>3
  <2>2. s \ {any(s)} \in SUBSET S /\ Cardinality(s \ {any(s)}) < Cardinality(s)
    BY <2>1, Smaller
  <2> QED BY <2>1, <2>2
<1>4. \A s \in D : \A f : SumAt(f, w, s) = IF s = {} THEN 0 ELSE w[any(s)] + f[s \ {any(s)}]
  BY DEF SumAt
<1> HIDE DEF any
<1>5. Descends(G, D, Int, m, N)
  <2>1. Int # {} /\ m \in [D -> Nat] /\ \A s \in D : m[s] < N
    BY <1>2
  <2>2. G \in [D -> [[D -> Int] -> Int]]
    <3>1. ASSUME NEW s \in D, NEW f \in [D -> Int]
          PROVE  SumAt(f, w, s) \in Int
      <4>1. CASE s = {}
        BY <4>1, <1>4
      <4>2. CASE s # {}
        <5>1. w[any(s)] \in Int /\ f[s \ {any(s)}] \in Int
          BY <4>2, <1>3
        <5>2. SumAt(f, w, s) = w[any(s)] + f[s \ {any(s)}]
          BY <4>2, <1>4
        <5> QED BY <5>1, <5>2
      <4> QED BY <4>1, <4>2
    <3> HIDE DEF D
    <3> QED BY <3>1
  <2>3. ASSUME NEW s \in D, NEW f \in [D -> Int], NEW g \in [D -> Int],
               \A e \in D : m[e] < m[s] => f[e] = g[e]
        PROVE  G[s][f] = G[s][g]
    <3>1. SumAt(f, w, s) = SumAt(g, w, s)
      <4>1. CASE s = {}
        BY <4>1, <1>4
      <4>2. CASE s # {}
        <5>1. f[s \ {any(s)}] = g[s \ {any(s)}]
          BY <4>2, <1>3, <2>3
        <5> QED BY <5>1, <4>2, <1>4
      <4> QED BY <4>1, <4>2
    <3> HIDE DEF D
    <3> QED BY <3>1
  <2> HIDE DEF D, m, G, N
  <2> QED BY <2>1, <2>2, <2>3, <1>1 DEF Descends
<1>6. PICK f \in [D -> Int] : \A s \in D : f[s] = G[s][f]
  <2> HIDE DEF D, m, G, N
  <2> QED BY <1>5, Recursion
<1>7. \A s \in D : f[s] = SumAt(f, w, s)
  <2> HIDE DEF D
  <2> QED BY <1>6
<1>8. SumOf(f, w, S)
  <2>1. f = [s \in SUBSET S |-> f[s]]
    BY <1>6
  <2> QED BY <2>1, <1>7 DEF SumOf
<1>9. \A g : SumOf(g, w, S) => g = f
  <2> SUFFICES ASSUME NEW g, SumOf(g, w, S) PROVE g = f
    OBVIOUS
  <2>1. g = [s \in SUBSET S |-> SumAt(g, w, s)]
    BY DEF SumOf
  <2>2. f = [s \in SUBSET S |-> SumAt(f, w, s)]
    BY <1>8 DEF SumOf
  <2> DEFINE E == {s \in D : g[s] = f[s]}
  <2>3. ASSUME NEW s \in D, \A e \in D : m[e] < m[s] => e \in E
        PROVE  s \in E
    <3>1. SumAt(f, w, s) = SumAt(g, w, s)
      <4>1. CASE s = {}
        BY <4>1, <1>4
      <4>2. CASE s # {}
        <5>1. f[s \ {any(s)}] = g[s \ {any(s)}]
          BY <4>2, <1>3, <2>3
        <5> QED BY <5>1, <4>2, <1>4
      <4> QED BY <4>1, <4>2
    <3>2. g[s] = SumAt(g, w, s)
      BY <2>1
    <3> QED BY <3>1, <3>2, <1>7
  <2>4. D \subseteq E
    <3>1. \A s \in D : m[s] \in Nat
      BY <1>2
    <3> HIDE DEF D, E, m
    <3> QED BY <2>3, <3>1, MeasureInduction
  <2> QED BY <2>1, <2>2, <2>4
<1>10. SumFunctionOnSet(w, S) = f[S]
  <2>1. SumFunctionOnSet(w, S) = (CHOOSE g : SumOf(g, w, S))[S]
    BY Zenon DEF SumFunctionOnSet, FoldFunctionOnSet, MapThenFoldSet, SumOf, SumAt
  <2>2. (CHOOSE g : SumOf(g, w, S)) = f
    BY <1>8, <1>9
  <2> QED BY <2>1, <2>2
<1>11. f[{}] = 0
  BY <1>4, <1>7
<1> DEFINE E == {s \in D : \A x \in s : f[s] = f[s \ {x}] + w[x]}
<1>12. ASSUME NEW s \in D, \A e \in D : m[e] < m[s] => e \in E
       PROVE  s \in E
  <2> SUFFICES ASSUME NEW x \in s PROVE f[s] = f[s \ {x}] + w[x]
    OBVIOUS
  <2> DEFINE c == any(s)
             r == s \ {c}
             t == s \ {x}
             b == s \ {c, x}
  <2>1. s # {} /\ c \in s /\ w[c] \in Int /\ r \in D /\ m[r] < m[s]
    BY <1>3
  <2>2. f[s] = w[c] + f[r]
    BY <2>1, <1>4, <1>7
  <2>3. t \in D /\ m[t] < m[s] /\ w[x] \in Int /\ b \in D
    BY Smaller
  <2>4. f[r] \in Int /\ f[t] \in Int /\ f[b] \in Int
    BY <2>1, <2>3, <1>6
  <2>5. CASE c = x
    BY <2>1, <2>2, <2>3, <2>4, <2>5
  <2>6. CASE c # x
    <3>1. x \in r /\ r \ {x} = b /\ c \in t /\ t \ {c} = b
      BY <2>1, <2>6
    <3>2. r \in E /\ t \in E
      <4> HIDE DEF E, r, t
      <4> QED BY <2>1, <2>3, <1>12
    <3>3. f[r] = f[b] + w[x] /\ f[t] = f[b] + w[c]
      <4> HIDE DEF r, t, b, c
      <4> QED BY <3>1, <3>2
    <3>4. f[s] = f[t] + w[x]
      <4> HIDE DEF r, t, b, c
      <4> QED BY <2>1, <2>2, <2>3, <2>4, <3>3
    <3> QED BY <3>4
  <2> QED BY <2>5, <2>6
<1>13. D \subseteq E
  <2>1. \A s \in D : m[s] \in Nat
    BY <1>2
  <2> HIDE DEF D, E, m
  <2> QED BY <1>12, <2>1, MeasureInduction
<1>14. ASSUME NEW T \in SUBSET S, NEW x \in S \ T
       PROVE  f[T \cup {x}] = f[T] + w[x]
  <2>1. T \cup {x} \in D /\ x \in T \cup {x} /\ (T \cup {x}) \ {x} = T
    OBVIOUS
  <2>2. T \cup {x} \in E
    BY <2>1, <1>13
  <2>3. f[T \cup {x}] = f[(T \cup {x}) \ {x}] + w[x]
    BY <2>1, <2>2
  <2> QED BY <2>1, <2>3
<1>15. Sums(f, w, S)
  BY <1>6, <1>11, <1>14 DEF Sums
<1> QED BY <1>10, <1>15

(* A set as a sequence: each element once.                                  *)
Enumerates(order, S) ==
  /\ Len(order) \in Nat /\ order \in [1..Len(order) -> S]
  /\ \A k, l \in 1..Len(order) : order[k] = order[l] => k = l
  /\ \A x \in S : \E k \in 1..Len(order) : order[k] = x

(* A finite set as a list has each member once.                             *)
LEMMA SetToSeqIs ==
    ASSUME NEW S, IsFiniteSet(S)
    PROVE  Enumerates(SetToSeq(S), S) /\ Len(SetToSeq(S)) = Cardinality(S)
<1> DEFINE n == Cardinality(S)
           f == SetToSeq(S)
<1>1. n \in Nat /\ ExistsBijection(1..n, S)
  BY FS_CardinalityType
<1>2. PICK g : g \in Bijection(1..n, S)
  BY <1>1, Zenon DEF ExistsBijection
<1>3. g \in [1..n -> S] /\ IsInjective(g)
  BY <1>2 DEF Bijection, Injection, IsInjective
<1>4. f \in [1..n -> S] /\ IsInjective(f)
  BY <1>3 DEF SetToSeq
<1> HIDE DEF f, n
<1>5. f \in Injection(1..n, S)
  BY <1>4 DEF Injection, IsInjective
<1>6. IsFiniteSet(1..n) /\ Cardinality(1..n) = n
  BY <1>1, UpToNumber
<1>7. f \in Surjection(1..n, S)
  BY <1>5, <1>6, FS_Injection, Zenon DEF n
<1>8. Len(f) = n
  BY <1>1, <1>4, SequenceOf
<1>9. \A k, l \in 1..n : f[k] = f[l] => k = l
  BY <1>5 DEF Injection, IsInjective
<1>10. \A x \in S : \E k \in 1..n : f[k] = x
  BY <1>7 DEF Surjection
<1>11. Enumerates(f, S)
  BY <1>1, <1>4, <1>8, <1>9, <1>10 DEF Enumerates
<1> QED BY <1>8, <1>11 DEF f, n

-----------------------------------------------------------------------------
(* Adding up scores.                                                        *)

\* Maps from some of the hits in I to numbers.
ScoreMaps(I) == UNION {[A -> Int] : A \in SUBSET I}

(* What maps documents to numbers is a map of scores.                       *)
LEMMA ScoreMapsAre ==
    ASSUME NEW I, NEW A \in SUBSET I, NEW s, s = [id \in A |-> s[id]], \A id \in A : s[id] \in Int
    PROVE  s \in ScoreMaps(I)
<1>1. s \in [A -> Int]
  OBVIOUS
<1> QED BY <1>1 DEF ScoreMaps

(* A map of scores gives a number for every document.                       *)
LEMMA ScoresInMaps ==
    ASSUME NEW I, NEW s \in ScoreMaps(I)
    PROVE  /\ DOMAIN s \subseteq I /\ s = [id \in DOMAIN s |-> s[id]]
           /\ \A id \in DOMAIN s : s[id] \in Int
           /\ \A id : ScoreOf(s, id) \in Int
<1>1. PICK A \in SUBSET I : s \in [A -> Int]
  BY DEF ScoreMaps
<1>2. DOMAIN s = A
  BY <1>1
<1> QED BY <1>1, <1>2 DEF ScoreOf

(* No scores are a map of scores, of no document.                           *)
LEMMA NoScoresAre ==
    ASSUME NEW I
    PROVE  /\ NoScores \in ScoreMaps(I) /\ DOMAIN NoScores = {}
           /\ \A id : ScoreOf(NoScores, id) = 0
<1>1. NoScores \in [{} -> Int] /\ DOMAIN NoScores = {}
  BY DEF NoScores
<1>2. {} \in SUBSET I
  OBVIOUS
<1>3. NoScores \in ScoreMaps(I)
  BY <1>1, <1>2 DEF ScoreMaps
<1> QED BY <1>1, <1>3 DEF ScoreOf

\* The scores s are those of a and b added up.
AddsUp(s, a, b) == \A id : ScoreOf(s, id) = ScoreOf(a, id) + ScoreOf(b, id)

(* Two maps of scores add up, document by document.                         *)
LEMMA AddedIs ==
    ASSUME NEW I, NEW a \in ScoreMaps(I), NEW b \in ScoreMaps(I)
    PROVE  /\ Added(a, b) \in ScoreMaps(I)
           /\ DOMAIN Added(a, b) = DOMAIN a \cup DOMAIN b
           /\ AddsUp(Added(a, b), a, b)
<1> DEFINE A == DOMAIN a \cup DOMAIN b
           s == Added(a, b)
<1>1. /\ DOMAIN a \subseteq I /\ DOMAIN b \subseteq I
      /\ \A id : ScoreOf(a, id) \in Int /\ ScoreOf(b, id) \in Int
  BY ScoresInMaps
<1>2. s = [id \in A |-> ScoreOf(a, id) + ScoreOf(b, id)]
  BY DEF Added
<1>3. DOMAIN s = A /\ \A id \in A : s[id] = ScoreOf(a, id) + ScoreOf(b, id) /\ s[id] \in Int
  BY <1>1, <1>2
<1>4. s \in [A -> Int] /\ A \in SUBSET I
  BY <1>1, <1>2
<1>5. s \in ScoreMaps(I)
  <2> HIDE DEF A, s
  <2> QED BY <1>4 DEF ScoreMaps
<1>6. ASSUME NEW id
      PROVE  ScoreOf(s, id) = ScoreOf(a, id) + ScoreOf(b, id)
  <2>1. CASE id \in A
    <3>1. ScoreOf(s, id) = s[id]
      BY <2>1, <1>3 DEF ScoreOf
    <3> QED BY <3>1, <2>1, <1>3
  <2>2. CASE id \notin A
    <3>1. ScoreOf(s, id) = 0 /\ ScoreOf(a, id) = 0 /\ ScoreOf(b, id) = 0
      BY <2>2, <1>3 DEF ScoreOf
    <3> QED BY <3>1
  <2> QED BY <2>1, <2>2
<1>7. AddsUp(s, a, b)
  BY <1>6 DEF AddsUp
<1> QED BY <1>3, <1>5, <1>7

(* What is left of scores for some documents is as it was.                  *)
LEMMA OnlyIs ==
    ASSUME NEW I, NEW a \in ScoreMaps(I), NEW ids
    PROVE  /\ Only(a, ids) \in ScoreMaps(I)
           /\ DOMAIN Only(a, ids) = DOMAIN a \cap ids
           /\ \A id \in DOMAIN a \cap ids : Only(a, ids)[id] = a[id]
           /\ \A id \in ids : ScoreOf(Only(a, ids), id) = ScoreOf(a, id)
<1> DEFINE A == DOMAIN a \cap ids
           s == Only(a, ids)
<1>1. DOMAIN a \subseteq I /\ \A id \in DOMAIN a : a[id] \in Int
  BY ScoresInMaps
<1>2. s = [id \in A |-> a[id]]
  BY DEF Only
<1>3. DOMAIN s = A /\ \A id \in A : s[id] = a[id]
  BY <1>2
<1>4. s \in [A -> Int] /\ A \in SUBSET I
  BY <1>1, <1>2
<1>5. s \in ScoreMaps(I)
  <2> HIDE DEF A, s
  <2> QED BY <1>4 DEF ScoreMaps
<1>6. \A id \in ids : ScoreOf(s, id) = ScoreOf(a, id)
  BY <1>3 DEF ScoreOf
<1> QED BY <1>3, <1>5, <1>6

\* The scores of the first k maps added up.
Accumulates(upTo, maps, order, I) ==
  /\ upTo \in [0..Len(order) -> ScoreMaps(I)]
  /\ upTo[0] = NoScores
  /\ \A k \in 1..Len(order) : upTo[k] = Added(upTo[k - 1], maps[order[k]])

TotalAt(upTo, maps, order, k) ==
  IF k = 0 THEN NoScores ELSE Added(upTo[k - 1], maps[order[k]])

TotalOf(upTo, maps, order) == upTo = [k \in 0..Len(order) |-> TotalAt(upTo, maps, order, k)]

Continues(g, n, V, v0, step) ==
  /\ g = [k \in 0..n |-> g[k]]
  /\ g[0] = v0
  /\ \A k \in 1..n : g[k - 1] \in V => g[k] = step[k][g[k - 1]]

(* A function that is given at 0 and from each value to the next is the      *)
(* only one.                                                                *)
LEMMA StepwiseUnique ==
    ASSUME NEW n, NEW V, NEW v0, NEW step, Stepwise(n, V, v0, step),
           NEW f, Follows(f, n, V, v0, step),
           NEW g, Continues(g, n, V, v0, step)
    PROVE  g = f
<1>0. g = [k \in 0..n |-> g[k]] /\ g[0] = v0 /\ \A k \in 1..n : g[k - 1] \in V => g[k] = step[k][g[k - 1]]
  BY Zenon DEF Continues
<1>1. /\ n \in Nat /\ v0 \in V /\ step \in [1..n -> [V -> V]]
      /\ f \in [0..n -> V] /\ f[0] = v0 /\ \A k \in 1..n : f[k] = step[k][f[k - 1]]
  BY DEF Stepwise, Follows
<1> DEFINE T == {k \in Nat : k <= n => g[k] = f[k]}
<1>2. 0 \in T
  BY <1>0, <1>1
<1>3. ASSUME NEW k \in T
      PROVE  k + 1 \in T
  <2> SUFFICES ASSUME k + 1 <= n PROVE g[k + 1] = f[k + 1]
    OBVIOUS
  <2>1. k + 1 \in 1..n /\ (k + 1) - 1 = k /\ k \in 0..n
    BY <1>1
  <2>2. g[k] = f[k] /\ f[k] \in V
    BY <2>1, <1>1
  <2>3. g[k + 1] = step[k + 1][g[k]]
    BY <2>1, <2>2, <1>0
  <2> QED BY <2>1, <2>2, <2>3, <1>1
<1>4. T = Nat
  <2>1. T \in SUBSET Nat
    OBVIOUS
  <2> HIDE DEF T
  <2> QED BY <1>2, <1>3, <2>1, NumberInduction
<1>5. ASSUME NEW k \in 0..n
      PROVE  g[k] = f[k]
  <2>1. k \in Nat /\ k <= n
    BY <1>1
  <2> QED BY <2>1, <1>4
<1>6. f = [k \in 0..n |-> f[k]]
  BY <1>1
<1> QED BY <1>0, <1>5, <1>6

(* The loop over all maps is a function of how far it has come.             *)
LEMMA TotalIsRecursive ==
    ASSUME NEW I, NEW maps, IsFiniteSet(DOMAIN maps), \A t \in DOMAIN maps : maps[t] \in ScoreMaps(I)
    PROVE  \E order, upTo : /\ Enumerates(order, DOMAIN maps)
                            /\ Accumulates(upTo, maps, order, I)
                            /\ Total(maps) = upTo[Len(order)]
<1> DEFINE order == SetToSeq(DOMAIN maps)
           n == Len(order)
           W == ScoreMaps(I)
           step == [k \in 1..n |-> [v \in W |-> Added(v, maps[order[k]])]]
<1>1. Enumerates(order, DOMAIN maps)
  BY SetToSeqIs
<1>2. n \in Nat /\ NoScores \in W /\ \A k \in 1..n : maps[order[k]] \in W
  BY <1>1, NoScoresAre DEF Enumerates
<1> HIDE DEF order, n
<1>3. Stepwise(n, W, NoScores, step)
  <2>1. \A k \in 1..n, v \in W : Added(v, maps[order[k]]) \in W
    BY <1>2, AddedIs
  <2> HIDE DEF W
  <2>2. step \in [1..n -> [W -> W]]
    BY <2>1
  <2> HIDE DEF step
  <2> QED BY <1>2, <2>2 DEF Stepwise
<1>4. PICK f : Follows(f, n, W, NoScores, step)
  <2> HIDE DEF W, step
  <2> QED BY <1>3, StepwiseFunction
<1>5. f \in [0..n -> W] /\ f[0] = NoScores /\ \A k \in 1..n : f[k] = step[k][f[k - 1]]
  <2> HIDE DEF W, step
  <2> QED BY <1>4 DEF Follows
<1>6. \A k \in 1..n : k \in 0..n /\ k - 1 \in 0..n /\ k # 0
  BY <1>2
<1>7. \A k \in 1..n : f[k] = Added(f[k - 1], maps[order[k]])
  <2> HIDE DEF W
  <2> QED BY <1>5, <1>6
<1>8. TotalOf(f, maps, order)
  <2>1. f = [k \in 0..n |-> f[k]]
    BY <1>5
  <2>2. ASSUME NEW k \in 0..n
        PROVE  f[k] = TotalAt(f, maps, order, k)
    <3>1. CASE k = 0
      BY <3>1, <1>5 DEF TotalAt
    <3>2. CASE k # 0
      <4>1. k \in 1..n
        BY <3>2, <1>2
      <4> QED BY <4>1, <3>2, <1>7 DEF TotalAt
    <3> QED BY <3>1, <3>2
  <2> HIDE DEF W
  <2>3. [k \in 0..n |-> f[k]] = [k \in 0..n |-> TotalAt(f, maps, order, k)]
    BY <2>2, Zenon
  <2>4. f = [k \in 0..n |-> TotalAt(f, maps, order, k)]
    BY <2>1, <2>3, Zenon
  <2> QED BY <2>4, Zenon DEF TotalOf, n
<1>9. ASSUME NEW g, TotalOf(g, maps, order)
      PROVE  g = f
  <2>1. g = [k \in 0..n |-> TotalAt(g, maps, order, k)]
    BY <1>9, Zenon DEF TotalOf, n
  <2>2. \A k \in 0..n : g[k] = TotalAt(g, maps, order, k)
    BY <2>1
  <2>3. g = [k \in 0..n |-> g[k]]
    BY <2>1
  <2>4. g[0] = NoScores
    BY <2>2, <1>2 DEF TotalAt
  <2>5. ASSUME NEW k \in 1..n, g[k - 1] \in W
        PROVE  g[k] = step[k][g[k - 1]]
    <3>1. g[k] = Added(g[k - 1], maps[order[k]])
      BY <2>2, <1>6 DEF TotalAt
    <3> HIDE DEF W
    <3> QED BY <3>1, <2>5
  <2> HIDE DEF W, step
  <2>6. Continues(g, n, W, NoScores, step)
    BY <2>3, <2>4, <2>5 DEF Continues
  <2> QED BY <2>6, <1>3, <1>4, StepwiseUnique
<1>10. Total(maps) = f[n]
  <2>1. Total(maps) = (CHOOSE g : TotalOf(g, maps, order))[n]
    BY Zenon DEF Total, TotalOf, TotalAt, order, n
  <2>2. (CHOOSE g : TotalOf(g, maps, order)) = f
    BY <1>8, <1>9
  <2> QED BY <2>1, <2>2
<1>11. Accumulates(f, maps, order, I)
  BY <1>5, <1>7 DEF Accumulates, n
<1> QED BY <1>1, <1>10, <1>11 DEF n

(* The total has the hits of all maps.                                      *)
LEMMA TotalIs ==
    ASSUME NEW I, NEW maps, IsFiniteSet(DOMAIN maps), \A t \in DOMAIN maps : maps[t] \in ScoreMaps(I)
    PROVE  /\ Total(maps) \in ScoreMaps(I)
           /\ \A id : id \in DOMAIN Total(maps) <=> \E t \in DOMAIN maps : id \in DOMAIN maps[t]
<1>1. PICK order, upTo : /\ Enumerates(order, DOMAIN maps)
                         /\ Accumulates(upTo, maps, order, I)
                         /\ Total(maps) = upTo[Len(order)]
  BY TotalIsRecursive
<1> DEFINE n == Len(order)
<1>2. /\ n \in Nat /\ \A k \in 1..n : order[k] \in DOMAIN maps
      /\ \A t \in DOMAIN maps : \E k \in 1..n : order[k] = t
      /\ \A k \in 0..n : upTo[k] \in ScoreMaps(I)
      /\ upTo[0] = NoScores
      /\ \A k \in 1..n : upTo[k] = Added(upTo[k - 1], maps[order[k]])
  BY <1>1 DEF Enumerates, Accumulates
<1> HIDE DEF n
<1> SUFFICES ASSUME NEW id
             PROVE  id \in DOMAIN upTo[n] <=> \E t \in DOMAIN maps : id \in DOMAIN maps[t]
  <2>1. n \in 0..n
    BY <1>2
  <2> QED BY <1>1, <1>2, <2>1 DEF n
<1> DEFINE T == {k \in Nat : k <= n =>
                   (id \in DOMAIN upTo[k] <=> \E j \in 1..k : id \in DOMAIN maps[order[j]])}
<1>3. 0 \in T
  <2>1. DOMAIN upTo[0] = {}
    BY <1>2, NoScoresAre
  <2> QED BY <2>1
<1>4. ASSUME NEW k \in T
      PROVE  k + 1 \in T
  <2> SUFFICES ASSUME k + 1 <= n
               PROVE  id \in DOMAIN upTo[k + 1] <=> \E j \in 1..k + 1 : id \in DOMAIN maps[order[j]]
    OBVIOUS
  <2>1. k + 1 \in 1..n /\ (k + 1) - 1 = k /\ k \in 0..n /\ k <= n /\ k \in Nat
    BY <1>2
  <2>2. upTo[k + 1] = Added(upTo[k], maps[order[k + 1]]) /\ maps[order[k + 1]] \in ScoreMaps(I)
    BY <2>1, <1>2
  <2>3. DOMAIN upTo[k + 1] = DOMAIN upTo[k] \cup DOMAIN maps[order[k + 1]]
    <3> DEFINE a == upTo[k]
               b == maps[order[k + 1]]
    <3>1. a \in ScoreMaps(I) /\ b \in ScoreMaps(I) /\ upTo[k + 1] = Added(a, b)
      BY <2>1, <2>2, <1>2
    <3> HIDE DEF a, b
    <3>2. DOMAIN Added(a, b) = DOMAIN a \cup DOMAIN b
      BY <3>1, AddedIs
    <3> QED BY <3>1, <3>2 DEF a, b
  <2>4. id \in DOMAIN upTo[k] <=> \E j \in 1..k : id \in DOMAIN maps[order[j]]
    BY <2>1
  <2>5. \A j : j \in 1..k + 1 <=> (j \in 1..k \/ j = k + 1)
    BY <2>1
  <2> QED BY <2>3, <2>4, <2>5
<1>5. T = Nat
  <2>1. T \in SUBSET Nat
    OBVIOUS
  <2> HIDE DEF T
  <2> QED BY <1>3, <1>4, <2>1, NumberInduction
<1>6. id \in DOMAIN upTo[n] <=> \E j \in 1..n : id \in DOMAIN maps[order[j]]
  <2>1. n \in T /\ n <= n
    BY <1>2, <1>5
  <2> QED BY <2>1
<1> QED BY <1>2, <1>6

(* The total of a hit is the sum over the maps that have it.                *)
LEMMA TotalAdds ==
    ASSUME NEW I, NEW maps, IsFiniteSet(DOMAIN maps), \A t \in DOMAIN maps : maps[t] \in ScoreMaps(I),
           NEW id, NEW M, M = {t \in DOMAIN maps : id \in DOMAIN maps[t]},
           NEW w, \A t \in M : w[t] = maps[t][id]
    PROVE  ScoreOf(Total(maps), id) = SumFunctionOnSet(w, M)
<1>1. PICK order, upTo : /\ Enumerates(order, DOMAIN maps)
                         /\ Accumulates(upTo, maps, order, I)
                         /\ Total(maps) = upTo[Len(order)]
  BY TotalIsRecursive
<1> DEFINE n == Len(order)
<1>2. /\ n \in Nat /\ \A k \in 1..n : order[k] \in DOMAIN maps
      /\ \A k, l \in 1..n : order[k] = order[l] => k = l
      /\ \A t \in DOMAIN maps : \E k \in 1..n : order[k] = t
      /\ \A k \in 0..n : upTo[k] \in ScoreMaps(I)
      /\ upTo[0] = NoScores
      /\ \A k \in 1..n : upTo[k] = Added(upTo[k - 1], maps[order[k]])
  BY <1>1 DEF Enumerates, Accumulates
<1> HIDE DEF n
<1>3. IsFiniteSet(M)
  BY FS_Subset
<1>4. \A t \in M : w[t] \in Int
  BY ScoresInMaps
<1>5. PICK f : Sums(f, w, M) /\ SumFunctionOnSet(w, M) = f[M]
  BY <1>3, <1>4, SumIsFunction
<1>6. f[{}] = 0 /\ f \in [SUBSET M -> Int] /\ \A S \in SUBSET M : \A x \in M \ S : f[S \cup {x}] = f[S] + w[x]
  BY <1>5 DEF Sums
<1> DEFINE seen(k) == {order[j] : j \in 1..k} \cap M
           T == {k \in Nat : k <= n => ScoreOf(upTo[k], id) = f[seen(k)]}
<1>7. 0 \in T
  <2>1. ScoreOf(upTo[0], id) = 0
    BY <1>2, NoScoresAre
  <2>2. seen(0) = {}
    OBVIOUS
  <2> HIDE DEF seen
  <2> QED BY <2>1, <2>2, <1>6
<1>8. ASSUME NEW k \in T
      PROVE  k + 1 \in T
  <2> SUFFICES ASSUME k + 1 <= n
               PROVE  ScoreOf(upTo[k + 1], id) = f[seen(k + 1)]
    OBVIOUS
  <2> DEFINE x == order[k + 1]
  <2>1. k + 1 \in 1..n /\ (k + 1) - 1 = k /\ k \in 0..n /\ k <= n /\ k \in Nat
    BY <1>2
  <2>2. upTo[k + 1] = Added(upTo[k], maps[x]) /\ maps[x] \in ScoreMaps(I) /\ x \in DOMAIN maps
    BY <2>1, <1>2
  <2>3. ScoreOf(upTo[k + 1], id) = ScoreOf(upTo[k], id) + ScoreOf(maps[x], id)
    <3> DEFINE a == upTo[k]
               b == maps[x]
    <3>1. a \in ScoreMaps(I) /\ b \in ScoreMaps(I) /\ upTo[k + 1] = Added(a, b)
      BY <2>1, <2>2, <1>2
    <3> HIDE DEF a, b
    <3>2. AddsUp(Added(a, b), a, b)
      BY <3>1, AddedIs
    <3>3. ScoreOf(Added(a, b), id) = ScoreOf(a, id) + ScoreOf(b, id)
      BY <3>2 DEF AddsUp
    <3> QED BY <3>1, <3>3 DEF a, b
  <2>4. ScoreOf(upTo[k], id) = f[seen(k)] /\ seen(k) \in SUBSET M
    BY <2>1
  <2>5. \A j : j \in 1..k + 1 <=> (j \in 1..k \/ j = k + 1)
    BY <2>1
  <2>6. \A j \in 1..k : order[j] # x
    BY <2>1, <1>2
  <2>7. f[seen(k)] \in Int
    BY <2>4, <1>6
  <2>8. CASE x \in M
    <3>1. seen(k + 1) = seen(k) \cup {x} /\ x \in M \ seen(k)
      BY <2>5, <2>6, <2>8
    <3>2. ScoreOf(maps[x], id) = w[x]
      BY <2>8 DEF ScoreOf
    <3> HIDE DEF seen, x
    <3>3. f[seen(k) \cup {x}] = f[seen(k)] + w[x]
      BY <3>1, <2>4, <1>6
    <3> QED BY <3>1, <3>2, <3>3, <2>3, <2>4
  <2>9. CASE x \notin M
    <3>1. seen(k + 1) = seen(k)
      BY <2>5, <2>9
    <3>2. ScoreOf(maps[x], id) = 0
      BY <2>2, <2>9 DEF ScoreOf
    <3> HIDE DEF seen, x
    <3> QED BY <3>1, <3>2, <2>3, <2>4, <2>7
  <2> QED BY <2>8, <2>9
<1>9. T = Nat
  <2>1. T \in SUBSET Nat
    OBVIOUS
  <2> HIDE DEF T
  <2> QED BY <1>7, <1>8, <2>1, NumberInduction
<1>10. seen(n) = M
  BY <1>2
<1>11. ScoreOf(upTo[n], id) = f[seen(n)]
  <2> HIDE DEF seen
  <2>1. n \in Nat /\ n <= n
    BY <1>2
  <2>2. n \in T
    <3> HIDE DEF T
    <3> QED BY <2>1, <1>9
  <2> QED BY <2>1, <2>2
<1> HIDE DEF seen
<1> QED BY <1>1, <1>5, <1>10, <1>11 DEF n

\* g[k] is the sum of the first k numbers w[1], w[2] and so on.
Running(g, w, n) ==
  /\ g \in [0..n -> Int]
  /\ g[0] = 0
  /\ \A k \in 1..n : g[k] = g[k - 1] + w[k]

(* A sum over 1..n, added up in order.                                      *)
LEMMA SumInOrder ==
    ASSUME NEW n \in Nat, NEW w, \A k \in 1..n : w[k] \in Int
    PROVE  \E g : Running(g, w, n) /\ SumFunctionOnSet(w, 1..n) = g[n]
<1> DEFINE S == 1..n
<1>1. IsFiniteSet(S)
  BY UpToNumber
<1>2. PICK f : Sums(f, w, S) /\ SumFunctionOnSet(w, S) = f[S]
  <2> HIDE DEF S
  <2>1. \A k \in S : w[k] \in Int
    BY DEF S
  <2> QED BY <1>1, <2>1, SumIsFunction
<1>3. f[{}] = 0 /\ f \in [SUBSET S -> Int] /\ \A T \in SUBSET S : \A x \in S \ T : f[T \cup {x}] = f[T] + w[x]
  BY <1>2 DEF Sums
<1> DEFINE g == [k \in 0..n |-> f[1..k]]
<1>4. \A k \in 0..n : 1..k \in SUBSET S
  OBVIOUS
<1>5. g \in [0..n -> Int]
  <2>1. \A k \in 0..n : f[1..k] \in Int
    <3> HIDE DEF S
    <3> QED BY <1>3, <1>4
  <2> QED BY <2>1
<1>6. g[0] = 0
  <2>1. 1..0 = {} /\ 0 \in 0..n
    OBVIOUS
  <2>2. g[0] = f[1..0]
    BY <2>1
  <2> HIDE DEF S
  <2> QED BY <2>1, <2>2, <1>3
<1>7. ASSUME NEW k \in 1..n
      PROVE  g[k] = g[k - 1] + w[k]
  <2>1. k \in 0..n /\ k - 1 \in 0..n /\ 1..k - 1 \in SUBSET S /\ k \in S \ (1..k - 1) /\ 1..k = (1..k - 1) \cup {k}
    OBVIOUS
  <2>2. f[(1..k - 1) \cup {k}] = f[1..k - 1] + w[k]
    <3> HIDE DEF S
    <3> QED BY <2>1, <1>3
  <2>3. g[k] = f[1..k] /\ g[k - 1] = f[1..k - 1]
    BY <2>1
  <2> QED BY <2>1, <2>2, <2>3
<1>8. g[n] = f[S]
  OBVIOUS
<1>9. Running(g, w, n)
  BY <1>5, <1>6, <1>7 DEF Running
<1> QED BY <1>2, <1>8, <1>9

-----------------------------------------------------------------------------
(* The lists of clauses of a boolean query.                                 *)

\* The hits of two maps, with the sum of their scores.
Both(a, b) == [id \in DOMAIN a \cap DOMAIN b |-> a[id] + b[id]]

(* Scores of the documents in both of two maps are scores.                  *)
LEMMA BothIs ==
    ASSUME NEW I, NEW a \in ScoreMaps(I), NEW b \in ScoreMaps(I)
    PROVE  Both(a, b) \in ScoreMaps(I)
<1> DEFINE A == DOMAIN a \cap DOMAIN b
           s == Both(a, b)
<1>1. /\ DOMAIN a \subseteq I
      /\ \A id \in DOMAIN a : a[id] \in Int
      /\ \A id \in DOMAIN b : b[id] \in Int
  BY ScoresInMaps
<1>2. s = [id \in A |-> a[id] + b[id]]
  BY DEF Both
<1>3. s \in [A -> Int] /\ A \in SUBSET I
  BY <1>1, <1>2
<1>4. s \in ScoreMaps(I)
  <2> HIDE DEF A, s
  <2> QED BY <1>3 DEF ScoreMaps
<1> QED BY <1>2, <1>4

(* A sequence that is not empty.                                            *)
LEMMA Nonempty ==
    ASSUME NEW V, NEW s \in Seq(V), s # <<>>
    PROVE  /\ Len(s) \in Nat /\ Len(s) \in Nat \ {0} /\ 1 \in 1..Len(s) /\ Len(s) \in 1..Len(s)
           /\ \A k \in 1..Len(s) : s[k] \in V
OBVIOUS

RequiredAt(upTo, must, k) == IF k = 1 THEN must[1] ELSE Both(upTo[k - 1], must[k])

RequiredOf(upTo, must) == upTo = [k \in 1..Len(must) |-> RequiredAt(upTo, must, k)]

(* The required clauses are run through one after the other.                *)
LEMMA RequiredIsRecursive ==
    ASSUME NEW I, NEW must \in Seq(ScoreMaps(I)), must # <<>>
    PROVE  \E upTo : RequiredOf(upTo, must) /\ Required(must) = upTo[Len(must)]
<1> DEFINE n == Len(must)
           W == ScoreMaps(I)
           step == [k \in 2..n |-> [v \in W |-> Both(v, must[k])]]
<1>1. n \in Nat \ {0} /\ 1 \in 1..n /\ \A k \in 1..n : must[k] \in W
  BY Nonempty
<1> HIDE DEF n
<1>2. Chains(n, W, must[1], step)
  <2>1. \A k \in 2..n, v \in W : Both(v, must[k]) \in W
    <3> SUFFICES ASSUME NEW k \in 2..n, NEW v \in W PROVE Both(v, must[k]) \in W
      OBVIOUS
    <3>1. must[k] \in W
      BY <1>1
    <3> QED BY <3>1, BothIs
  <2> HIDE DEF W
  <2>2. step \in [2..n -> [W -> W]]
    BY <2>1
  <2> HIDE DEF step
  <2> QED BY <1>1, <2>2 DEF Chains
<1>3. PICK f : ChainOf(f, n, W, must[1], step)
  <2> HIDE DEF W, step
  <2> QED BY <1>2, ChainFunction
<1>4. f \in [1..n -> W] /\ f[1] = must[1] /\ \A k \in 2..n : f[k] = step[k][f[k - 1]]
  <2> HIDE DEF W, step
  <2> QED BY <1>3 DEF ChainOf
<1>5. RequiredOf(f, must)
  <2>1. f = [k \in 1..n |-> f[k]]
    BY <1>4
  <2>2. ASSUME NEW k \in 1..n
        PROVE  f[k] = RequiredAt(f, must, k)
    <3>1. CASE k = 1
      BY <3>1, <1>4 DEF RequiredAt
    <3>2. CASE k # 1
      <4>1. k \in 2..n /\ k - 1 \in 1..n
        BY <3>2, <1>1
      <4>2. f[k - 1] \in W /\ f[k] = step[k][f[k - 1]]
        BY <4>1, <1>4
      <4>3. f[k] = Both(f[k - 1], must[k])
        <5> HIDE DEF W
        <5> QED BY <4>1, <4>2
      <4> QED BY <4>3, <3>2 DEF RequiredAt
    <3> QED BY <3>1, <3>2
  <2> HIDE DEF W
  <2>3. [k \in 1..n |-> f[k]] = [k \in 1..n |-> RequiredAt(f, must, k)]
    BY <2>2, Zenon
  <2>4. f = [k \in 1..n |-> RequiredAt(f, must, k)]
    BY <2>1, <2>3, Zenon
  <2> QED BY <2>4, Zenon DEF RequiredOf, n
<1> DEFINE g == CHOOSE upTo : RequiredOf(upTo, must)
<1>6. RequiredOf(g, must)
  BY <1>5, Zenon
<1>7. Required(must) = g[n]
  BY Zenon DEF Required, RequiredOf, RequiredAt, Both, n
<1> QED BY <1>6, <1>7, Zenon DEF n

(* The candidates after the required clauses are the hits of all of them,   *)
(* with the sum of their scores.                                            *)
LEMMA RequiredIs ==
    ASSUME NEW I, NEW must \in Seq(ScoreMaps(I)), must # <<>>
    PROVE  /\ Required(must) \in ScoreMaps(I)
           /\ \A id : id \in DOMAIN Required(must) <=> \A k \in 1..Len(must) : id \in DOMAIN must[k]
<1> DEFINE n == Len(must)
           W == ScoreMaps(I)
<1>1. PICK upTo : RequiredOf(upTo, must) /\ Required(must) = upTo[n]
  BY RequiredIsRecursive
<1>2. \A k \in 1..n : upTo[k] = RequiredAt(upTo, must, k)
  BY <1>1 DEF RequiredOf
<1>3. n \in Nat /\ 1 \in 1..n /\ n \in 1..n /\ \A k \in 1..n : must[k] \in W
  BY Nonempty
<1> HIDE DEF n
<1> DEFINE OK(k) == /\ upTo[k] \in W
                    /\ \A id : id \in DOMAIN upTo[k] <=> \A j \in 1..k : id \in DOMAIN must[j]
           T == {k \in Nat : k + 1 <= n => OK(k + 1)}
<1>4. 0 \in T
  <2>1. upTo[1] = must[1]
    BY <1>2, <1>3 DEF RequiredAt
  <2>2. \A j : j \in 1..1 <=> j = 1
    OBVIOUS
  <2>3. OK(1)
    <3> HIDE DEF W
    <3> QED BY <2>1, <2>2, <1>3
  <2> HIDE DEF OK
  <2> QED BY <2>3
<1>5. ASSUME NEW k \in T
      PROVE  k + 1 \in T
  <2> SUFFICES ASSUME (k + 1) + 1 <= n PROVE OK((k + 1) + 1)
    OBVIOUS
  <2> DEFINE i == k + 1
             a == upTo[i]
             b == must[i + 1]
  <2>1. k \in Nat /\ i \in 1..n /\ i + 1 \in 1..n /\ (i + 1) - 1 = i /\ i + 1 # 1 /\ i <= n /\ i \in Nat
    BY <1>3
  <2>2. OK(i)
    <3> HIDE DEF OK
    <3> QED BY <2>1
  <2>3. upTo[i + 1] = Both(a, b)
    BY <2>1, <1>2 DEF RequiredAt
  <2>4. a \in W /\ b \in W
    <3> HIDE DEF W
    <3> QED BY <2>1, <2>2, <1>3
  <2>5. Both(a, b) \in W /\ DOMAIN Both(a, b) = DOMAIN a \cap DOMAIN b
    <3>1. \A x, y \in W : Both(x, y) \in W
      BY BothIs
    <3> HIDE DEF a, b, W
    <3>2. Both(a, b) \in W
      BY <2>4, <3>1
    <3> QED BY <3>2 DEF Both
  <2>6. \A j : j \in 1..i + 1 <=> (j \in 1..i \/ j = i + 1)
    BY <2>1
  <2>7. \A id : id \in DOMAIN upTo[i + 1] <=> (id \in DOMAIN a /\ id \in DOMAIN b)
    BY <2>3, <2>5
  <2>8. \A id : id \in DOMAIN a <=> \A j \in 1..i : id \in DOMAIN must[j]
    BY <2>2
  <2> HIDE DEF W, a, i
  <2>9. \A id : id \in DOMAIN upTo[i + 1] <=> \A j \in 1..i + 1 : id \in DOMAIN must[j]
    BY <2>6, <2>7, <2>8
  <2>10. OK(i + 1)
    BY <2>9, <2>3, <2>5
  <2> QED BY <2>10 DEF i
<1>6. T = Nat
  <2>1. T \in SUBSET Nat
    OBVIOUS
  <2> HIDE DEF T
  <2> QED BY <1>4, <1>5, <2>1, NumberInduction
<1>7. OK(n)
  <2>1. n - 1 \in Nat /\ (n - 1) + 1 = n /\ n <= n
    BY <1>3
  <2> HIDE DEF OK
  <2>2. n - 1 \in T
    <3> HIDE DEF T
    <3> QED BY <2>1, <1>6
  <2>3. (n - 1) + 1 <= n => OK((n - 1) + 1)
    BY <2>2
  <2> QED BY <2>1, <2>3
<1> QED BY <1>1, <1>7 DEF n

(* The score of a candidate is the sum over the required clauses.           *)
LEMMA RequiredAdds ==
    ASSUME NEW I, NEW must \in Seq(ScoreMaps(I)), must # <<>>,
           NEW id, \A k \in 1..Len(must) : id \in DOMAIN must[k],
           NEW w, \A k \in 1..Len(must) : w[k] = must[k][id]
    PROVE  Required(must)[id] = SumFunctionOnSet(w, 1..Len(must))
<1> DEFINE n == Len(must)
           W == ScoreMaps(I)
<1>1. PICK upTo : RequiredOf(upTo, must) /\ Required(must) = upTo[n]
  BY RequiredIsRecursive
<1>2. \A k \in 1..n : upTo[k] = RequiredAt(upTo, must, k)
  BY <1>1 DEF RequiredOf
<1>3. n \in Nat /\ 1 \in 1..n /\ n \in 1..n /\ \A k \in 1..n : must[k] \in W
  BY Nonempty
<1> HIDE DEF n
<1>4. \A k \in 1..n : id \in DOMAIN must[k] /\ w[k] = must[k][id] /\ w[k] \in Int
  <2>1. \A k \in 1..n : id \in DOMAIN must[k] /\ w[k] = must[k][id]
    BY DEF n
  <2> QED BY <2>1, <1>3, ScoresInMaps
<1>5. PICK g : Running(g, w, n) /\ SumFunctionOnSet(w, 1..n) = g[n]
  BY <1>3, <1>4, SumInOrder
<1>6. g \in [0..n -> Int] /\ g[0] = 0 /\ \A k \in 1..n : g[k] = g[k - 1] + w[k]
  BY <1>5 DEF Running
<1> DEFINE OK(k) == id \in DOMAIN upTo[k] /\ upTo[k][id] = g[k]
           T == {k \in Nat : k + 1 <= n => OK(k + 1)}
<1>7. 0 \in T
  <2>1. upTo[1] = must[1]
    BY <1>2, <1>3 DEF RequiredAt
  <2>2. g[1] = g[1 - 1] + w[1] /\ w[1] \in Int /\ 1 - 1 = 0
    BY <1>3, <1>4, <1>6
  <2>3. g[1] = w[1]
    BY <2>2, <1>6
  <2>4. OK(1)
    BY <2>1, <2>3, <1>3, <1>4
  <2> HIDE DEF OK
  <2> QED BY <2>4
<1>8. ASSUME NEW k \in T
      PROVE  k + 1 \in T
  <2> SUFFICES ASSUME (k + 1) + 1 <= n PROVE OK((k + 1) + 1)
    OBVIOUS
  <2> DEFINE i == k + 1
             a == upTo[i]
             b == must[i + 1]
  <2>1. k \in Nat /\ i \in 1..n /\ i + 1 \in 1..n /\ (i + 1) - 1 = i /\ i + 1 # 1 /\ i <= n /\ i \in Nat
    BY <1>3
  <2>2. id \in DOMAIN a /\ a[id] = g[i]
    <3>1. OK(i)
      <4> HIDE DEF OK
      <4> QED BY <2>1
    <3> QED BY <3>1
  <2>3. upTo[i + 1] = Both(a, b)
    BY <2>1, <1>2 DEF RequiredAt
  <2>4. id \in DOMAIN b /\ b[id] = w[i + 1]
    BY <2>1, <1>4
  <2>5. g[i + 1] = g[i] + w[i + 1]
    BY <2>1, <1>6
  <2>6. id \in DOMAIN upTo[i + 1] /\ upTo[i + 1][id] = a[id] + b[id]
    BY <2>2, <2>3, <2>4 DEF Both
  <2>7. OK(i + 1)
    <3> HIDE DEF a, b, i
    <3> QED BY <2>2, <2>4, <2>5, <2>6
  <2> QED BY <2>7 DEF i
<1>9. T = Nat
  <2>1. T \in SUBSET Nat
    OBVIOUS
  <2> HIDE DEF T
  <2> QED BY <1>7, <1>8, <2>1, NumberInduction
<1>10. OK(n)
  <2>1. n - 1 \in Nat /\ (n - 1) + 1 = n /\ n <= n
    BY <1>3
  <2> HIDE DEF OK
  <2>2. n - 1 \in T
    <3> HIDE DEF T
    <3> QED BY <2>1, <1>9
  <2>3. (n - 1) + 1 <= n => OK((n - 1) + 1)
    BY <2>2
  <2> QED BY <2>1, <2>3
<1> QED BY <1>1, <1>5, <1>10 DEF n

BoostedAt(upTo, candidates, should, only, k) ==
  IF k = 0 THEN candidates
  ELSE IF only THEN Only(Added(upTo[k - 1], should[k]), DOMAIN candidates)
  ELSE Added(upTo[k - 1], should[k])

BoostedOf(upTo, candidates, should, only) ==
  upTo = [k \in 0..Len(should) |-> BoostedAt(upTo, candidates, should, only, k)]

(* The optional clauses are run through one after the other.                *)
LEMMA BoostedIsRecursive ==
    ASSUME NEW I, NEW candidates \in ScoreMaps(I), NEW should \in Seq(ScoreMaps(I)), NEW only \in BOOLEAN
    PROVE  \E upTo : /\ BoostedOf(upTo, candidates, should, only)
                     /\ Boosted(candidates, should, only) = upTo[Len(should)]
                     /\ \A k \in 0..Len(should) : upTo[k] \in ScoreMaps(I)
<1> DEFINE n == Len(should)
           W == ScoreMaps(I)
           more(v, k) == IF only THEN Only(Added(v, should[k]), DOMAIN candidates) ELSE Added(v, should[k])
           step == [k \in 1..n |-> [v \in W |-> more(v, k)]]
<1>1. n \in Nat /\ \A k \in 1..n : should[k] \in W
  OBVIOUS
<1> HIDE DEF n
<1>2. ASSUME NEW k \in 1..n, NEW v \in W
      PROVE  more(v, k) \in W
  <2>1. should[k] \in ScoreMaps(I)
    BY <1>1
  <2>2. Added(v, should[k]) \in ScoreMaps(I)
    BY <2>1, AddedIs
  <2>3. Only(Added(v, should[k]), DOMAIN candidates) \in ScoreMaps(I)
    BY <2>2, OnlyIs
  <2> QED BY <2>2, <2>3
<1> HIDE DEF more
<1>3. Stepwise(n, W, candidates, step)
  <2>1. candidates \in W
    OBVIOUS
  <2> HIDE DEF W
  <2>2. step \in [1..n -> [W -> W]]
    BY <1>2
  <2> HIDE DEF step
  <2> QED BY <1>1, <2>1, <2>2 DEF Stepwise
<1>4. PICK f : Follows(f, n, W, candidates, step)
  <2> HIDE DEF W, step
  <2> QED BY <1>3, StepwiseFunction
<1>5. f \in [0..n -> W] /\ f[0] = candidates /\ \A k \in 1..n : f[k] = step[k][f[k - 1]]
  <2> HIDE DEF W, step
  <2> QED BY <1>4 DEF Follows
<1>6. ASSUME NEW k \in 1..n
      PROVE  f[k] = more(f[k - 1], k)
  <2>1. k - 1 \in 0..n
    BY <1>1
  <2>2. f[k - 1] \in W
    BY <2>1, <1>5
  <2> HIDE DEF W
  <2> QED BY <2>2, <1>5
<1>7. BoostedOf(f, candidates, should, only)
  <2>1. f = [k \in 0..n |-> f[k]]
    BY <1>5
  <2>2. ASSUME NEW k \in 0..n
        PROVE  f[k] = BoostedAt(f, candidates, should, only, k)
    <3>1. CASE k = 0
      BY <3>1, <1>5 DEF BoostedAt
    <3>2. CASE k # 0
      <4>1. k \in 1..n
        BY <3>2, <1>1
      <4> QED BY <4>1, <3>2, <1>6 DEF BoostedAt, more
    <3> QED BY <3>1, <3>2
  <2> HIDE DEF W
  <2>3. [k \in 0..n |-> f[k]] = [k \in 0..n |-> BoostedAt(f, candidates, should, only, k)]
    BY <2>2, Zenon
  <2>4. f = [k \in 0..n |-> BoostedAt(f, candidates, should, only, k)]
    BY <2>1, <2>3, Zenon
  <2> QED BY <2>4, Zenon DEF BoostedOf, n
<1>8. ASSUME NEW g, BoostedOf(g, candidates, should, only)
      PROVE  g = f
  <2>1. g = [k \in 0..n |-> BoostedAt(g, candidates, should, only, k)]
    BY <1>8, Zenon DEF BoostedOf, n
  <2>2. \A k \in 0..n : g[k] = BoostedAt(g, candidates, should, only, k)
    BY <2>1
  <2>3. g = [k \in 0..n |-> g[k]]
    BY <2>1
  <2>4. g[0] = candidates
    BY <2>2, <1>1 DEF BoostedAt
  <2>5. ASSUME NEW k \in 1..n, g[k - 1] \in W
        PROVE  g[k] = step[k][g[k - 1]]
    <3>1. k \in 0..n /\ k # 0
      BY <1>1
    <3>2. g[k] = more(g[k - 1], k)
      BY <2>2, <3>1 DEF BoostedAt, more
    <3> HIDE DEF W
    <3> QED BY <3>2, <2>5
  <2> HIDE DEF W, step
  <2>6. Continues(g, n, W, candidates, step)
    BY <2>3, <2>4, <2>5 DEF Continues
  <2> QED BY <2>6, <1>3, <1>4, StepwiseUnique
<1>9. Boosted(candidates, should, only) = f[n]
  <2>1. Boosted(candidates, should, only) = (CHOOSE g : BoostedOf(g, candidates, should, only))[n]
    BY Zenon DEF Boosted, BoostedOf, BoostedAt, n
  <2>2. (CHOOSE g : BoostedOf(g, candidates, should, only)) = f
    BY <1>7, <1>8
  <2> QED BY <2>1, <2>2
<1>10. \A k \in 0..n : f[k] \in ScoreMaps(I)
  BY <1>5
<1> QED BY <1>7, <1>9, <1>10, Zenon DEF n

(* The optional clauses add their hits to the candidates, or, if they may   *)
(* not, none.                                                               *)
LEMMA BoostedIs ==
    ASSUME NEW I, NEW candidates \in ScoreMaps(I), NEW should \in Seq(ScoreMaps(I)), NEW only \in BOOLEAN
    PROVE  /\ Boosted(candidates, should, only) \in ScoreMaps(I)
           /\ \A id : id \in DOMAIN Boosted(candidates, should, only) <=>
                        \/ id \in DOMAIN candidates
                        \/ ~only /\ \E k \in 1..Len(should) : id \in DOMAIN should[k]
<1> DEFINE n == Len(should)
           W == ScoreMaps(I)
<1>1. PICK upTo : /\ BoostedOf(upTo, candidates, should, only)
                  /\ Boosted(candidates, should, only) = upTo[n]
                  /\ \A k \in 0..n : upTo[k] \in W
  BY BoostedIsRecursive
<1>2. \A k \in 0..n : upTo[k] = BoostedAt(upTo, candidates, should, only, k)
  BY <1>1 DEF BoostedOf
<1>3. n \in Nat /\ n \in 0..n /\ 0 \in 0..n /\ \A k \in 1..n : should[k] \in W /\ k \in 0..n /\ k - 1 \in 0..n /\ k # 0
  OBVIOUS
<1> HIDE DEF n
<1> SUFFICES ASSUME NEW id
             PROVE  id \in DOMAIN upTo[n] <=>
                      \/ id \in DOMAIN candidates
                      \/ ~only /\ \E k \in 1..n : id \in DOMAIN should[k]
  BY <1>1, <1>3 DEF n
<1> DEFINE found(k) == \/ id \in DOMAIN candidates
                       \/ ~only /\ \E j \in 1..k : id \in DOMAIN should[j]
           T == {k \in Nat : k <= n => (id \in DOMAIN upTo[k] <=> found(k))}
<1>4. 0 \in T
  <2>1. upTo[0] = candidates
    BY <1>2, <1>3 DEF BoostedAt
  <2> QED BY <2>1
<1>5. ASSUME NEW k \in T
      PROVE  k + 1 \in T
  <2> SUFFICES ASSUME k + 1 <= n PROVE id \in DOMAIN upTo[k + 1] <=> found(k + 1)
    OBVIOUS
  <2> DEFINE a == upTo[k]
             b == should[k + 1]
  <2>1. k \in Nat /\ k + 1 \in 1..n /\ (k + 1) - 1 = k /\ k <= n /\ k + 1 \in 0..n /\ k + 1 # 0 /\ k \in 0..n
    BY <1>3
  <2>2. id \in DOMAIN a <=> found(k)
    BY <2>1
  <2>3. a \in W /\ b \in W
    <3> HIDE DEF W
    <3> QED BY <2>1, <1>1, <1>3
  <2>4. upTo[k + 1] = IF only THEN Only(Added(a, b), DOMAIN candidates) ELSE Added(a, b)
    BY <2>1, <1>2 DEF BoostedAt
  <2> HIDE DEF a, b
  <2>5. DOMAIN Added(a, b) = DOMAIN a \cup DOMAIN b
    BY <2>3, AddedIs
  <2>6. DOMAIN upTo[k + 1] = IF only THEN (DOMAIN a \cup DOMAIN b) \cap DOMAIN candidates ELSE DOMAIN a \cup DOMAIN b
    BY <2>4, <2>5 DEF Only
  <2>7. \A j : j \in 1..k + 1 <=> (j \in 1..k \/ j = k + 1)
    BY <2>1
  <2>8. CASE only
    BY <2>2, <2>6, <2>8
  <2>9. CASE ~only
    <3>1. id \in DOMAIN upTo[k + 1] <=> (id \in DOMAIN a \/ id \in DOMAIN should[k + 1])
      BY <2>6, <2>9 DEF b
    <3> QED BY <3>1, <2>2, <2>7, <2>9
  <2> QED BY <2>8, <2>9
<1>6. T = Nat
  <2>1. T \in SUBSET Nat
    OBVIOUS
  <2> HIDE DEF T
  <2> QED BY <1>4, <1>5, <2>1, NumberInduction
<1>7. id \in DOMAIN upTo[n] <=> found(n)
  <2> HIDE DEF found
  <2>1. n \in Nat /\ n <= n
    BY <1>3
  <2>2. n \in T
    <3> HIDE DEF T
    <3> QED BY <2>1, <1>6
  <2> QED BY <2>1, <2>2
<1> QED BY <1>7

(* They add their score, nothing where they do not find a candidate.        *)
LEMMA BoostedAdds ==
    ASSUME NEW I, NEW candidates \in ScoreMaps(I), NEW should \in Seq(ScoreMaps(I)), NEW only \in BOOLEAN,
           NEW id, only => id \in DOMAIN candidates,
           NEW w, \A k \in 1..Len(should) : w[k] = ScoreOf(should[k], id)
    PROVE  ScoreOf(Boosted(candidates, should, only), id) =
             ScoreOf(candidates, id) + SumFunctionOnSet(w, 1..Len(should))
<1> DEFINE n == Len(should)
           W == ScoreMaps(I)
<1>1. PICK upTo : /\ BoostedOf(upTo, candidates, should, only)
                  /\ Boosted(candidates, should, only) = upTo[n]
                  /\ \A k \in 0..n : upTo[k] \in W
  BY BoostedIsRecursive
<1>2. \A k \in 0..n : upTo[k] = BoostedAt(upTo, candidates, should, only, k)
  BY <1>1 DEF BoostedOf
<1>3. n \in Nat /\ n \in 0..n /\ 0 \in 0..n /\ \A k \in 1..n : should[k] \in W /\ k \in 0..n /\ k - 1 \in 0..n /\ k # 0
  OBVIOUS
<1> HIDE DEF n
<1>4. \A k \in 1..n : w[k] = ScoreOf(should[k], id) /\ w[k] \in Int
  <2>1. \A k \in 1..n : w[k] = ScoreOf(should[k], id)
    BY DEF n
  <2> QED BY <2>1, <1>3, ScoresInMaps
<1>5. PICK g : Running(g, w, n) /\ SumFunctionOnSet(w, 1..n) = g[n]
  BY <1>3, <1>4, SumInOrder
<1>6. g \in [0..n -> Int] /\ g[0] = 0 /\ \A k \in 1..n : g[k] = g[k - 1] + w[k]
  BY <1>5 DEF Running
<1>7. ScoreOf(candidates, id) \in Int
  BY ScoresInMaps
<1> DEFINE OK(k) == ScoreOf(upTo[k], id) = ScoreOf(candidates, id) + g[k]
           T == {k \in Nat : k <= n => OK(k)}
<1>8. 0 \in T
  <2>1. upTo[0] = candidates
    BY <1>2, <1>3 DEF BoostedAt
  <2> QED BY <2>1, <1>6, <1>7
<1>9. ASSUME NEW k \in T
      PROVE  k + 1 \in T
  <2> SUFFICES ASSUME k + 1 <= n PROVE OK(k + 1)
    OBVIOUS
  <2> DEFINE a == upTo[k]
             b == should[k + 1]
  <2>1. k \in Nat /\ k + 1 \in 1..n /\ (k + 1) - 1 = k /\ k <= n /\ k + 1 \in 0..n /\ k + 1 # 0 /\ k \in 0..n
    BY <1>3
  <2>2. ScoreOf(a, id) = ScoreOf(candidates, id) + g[k]
    BY <2>1
  <2>3. a \in W /\ b \in W
    <3> HIDE DEF W
    <3> QED BY <2>1, <1>1, <1>3
  <2>4. upTo[k + 1] = IF only THEN Only(Added(a, b), DOMAIN candidates) ELSE Added(a, b)
    BY <2>1, <1>2 DEF BoostedAt
  <2>5. w[k + 1] = ScoreOf(b, id) /\ w[k + 1] \in Int
    BY <2>1, <1>4
  <2>6. g[k + 1] = g[k] + w[k + 1] /\ g[k] \in Int
    BY <2>1, <1>6
  <2> HIDE DEF a, b
  <2>7. AddsUp(Added(a, b), a, b) /\ Added(a, b) \in ScoreMaps(I)
    BY <2>3, AddedIs
  <2>8. ScoreOf(Added(a, b), id) = ScoreOf(a, id) + ScoreOf(b, id)
    BY <2>7 DEF AddsUp
  <2>9. ScoreOf(upTo[k + 1], id) = ScoreOf(Added(a, b), id)
    <3>1. CASE only
      <4>1. id \in DOMAIN candidates
        BY <3>1
      <4>2. \A ids : id \in ids => ScoreOf(Only(Added(a, b), ids), id) = ScoreOf(Added(a, b), id)
        BY DEF Only, ScoreOf
      <4> QED BY <4>1, <4>2, <3>1, <2>4
    <3>2. CASE ~only
      BY <3>2, <2>4
    <3> QED BY <3>1, <3>2
  <2> QED BY <1>7, <2>2, <2>5, <2>6, <2>8, <2>9
<1>10. T = Nat
  <2>1. T \in SUBSET Nat
    OBVIOUS
  <2> HIDE DEF T
  <2> QED BY <1>8, <1>9, <2>1, NumberInduction
<1>11. OK(n)
  <2> HIDE DEF OK
  <2>1. n \in Nat /\ n <= n
    BY <1>3
  <2>2. n \in T
    <3> HIDE DEF T
    <3> QED BY <2>1, <1>10
  <2> QED BY <2>1, <2>2
<1> QED BY <1>1, <1>5, <1>11 DEF n

-----------------------------------------------------------------------------
(* The order of the hits.                                                   *)

\* R orders the elements of H strictly, one before the other.
Orders(R, H) ==
  /\ \A a \in H : <<a, a>> \notin R
  /\ \A a, b, c \in H : <<a, b>> \in R /\ <<b, c>> \in R => <<a, c>> \in R
  /\ \A a, b \in H : a = b \/ <<a, b>> \in R \/ <<b, a>> \in R

Ahead(R, H, h) == {g \in H : <<g, h>> \in R}
Rank(R, H, h) == Cardinality(Ahead(R, H, h))

\* The elements have the numbers below their number as ranks.
Ranked(R, H) ==
  LET n == Cardinality(H)
  IN  /\ n \in Nat
      /\ \A h \in H : Rank(R, H, h) \in 0..n - 1
      /\ \A a, b \in H : <<a, b>> \in R => Rank(R, H, a) < Rank(R, H, b)
      /\ \A a, b \in H : Rank(R, H, a) = Rank(R, H, b) => a = b
      /\ \A k \in 0..n - 1 : \E h \in H : Rank(R, H, h) = k

(* Every rank is taken once.                                                *)
LEMMA RanksAreTaken ==
    ASSUME NEW H, IsFiniteSet(H), NEW R, Orders(R, H)
    PROVE  Ranked(R, H)
<1> DEFINE n == Cardinality(H)
<1>1. n \in Nat
  BY FS_CardinalityType
<1>2. /\ \A a \in H : <<a, a>> \notin R
      /\ \A a, b, c \in H : <<a, b>> \in R /\ <<b, c>> \in R => <<a, c>> \in R
      /\ \A a, b \in H : a = b \/ <<a, b>> \in R \/ <<b, a>> \in R
  BY DEF Orders
<1>3. \A h \in H : IsFiniteSet(Ahead(R, H, h)) /\ Rank(R, H, h) \in Nat
  <2> SUFFICES ASSUME NEW h \in H
               PROVE  IsFiniteSet(Ahead(R, H, h)) /\ Rank(R, H, h) \in Nat
    OBVIOUS
  <2>1. Ahead(R, H, h) \in SUBSET H
    BY DEF Ahead
  <2>2. IsFiniteSet(Ahead(R, H, h))
    BY <2>1, FS_Subset
  <2> QED BY <2>2, FS_CardinalityType DEF Rank
<1>4. ASSUME NEW a \in H, NEW b \in H, <<a, b>> \in R
      PROVE  Rank(R, H, a) < Rank(R, H, b)
  <2> DEFINE S == Ahead(R, H, a)
             T == Ahead(R, H, b)
             U == S \cup {a}
  <2>1. U \in SUBSET T /\ a \notin S
    BY <1>2, <1>4 DEF Ahead
  <2>2. IsFiniteSet(S) /\ IsFiniteSet(T)
    BY <1>3
  <2> HIDE DEF S, T
  <2>3. Cardinality(U) = Cardinality(S) + 1
    BY <2>1, <2>2, FS_AddElement
  <2> HIDE DEF U
  <2>4. Cardinality(U) <= Cardinality(T)
    BY <2>1, <2>2, FS_Subset
  <2>5. Cardinality(S) \in Nat /\ Cardinality(T) \in Nat
    BY <2>2, FS_CardinalityType
  <2>6. Cardinality(S) < Cardinality(T)
    BY <2>3, <2>4, <2>5
  <2> QED BY <2>6 DEF Rank, S, T
<1>5. ASSUME NEW h \in H
      PROVE  Rank(R, H, h) \in 0..n - 1
  <2> DEFINE S == Ahead(R, H, h)
             U == S \cup {h}
  <2>1. U \in SUBSET H /\ h \notin S
    BY <1>2 DEF Ahead
  <2>2. IsFiniteSet(S) /\ Cardinality(S) \in Nat
    BY <1>3 DEF Rank
  <2> HIDE DEF S
  <2>3. Cardinality(U) = Cardinality(S) + 1
    BY <2>1, <2>2, FS_AddElement
  <2> HIDE DEF U
  <2>4. Cardinality(U) <= n
    BY <2>1, FS_Subset
  <2> HIDE DEF n
  <2>5. Cardinality(S) \in 0..n - 1
    BY <2>2, <2>3, <2>4, <1>1
  <2> QED BY <2>5 DEF Rank, S
<1>6. ASSUME NEW a \in H, NEW b \in H, Rank(R, H, a) = Rank(R, H, b)
      PROVE  a = b
  <2>1. ~(Rank(R, H, a) < Rank(R, H, b)) /\ ~(Rank(R, H, b) < Rank(R, H, a))
    BY <1>3, <1>6
  <2> QED BY <2>1, <1>2, <1>4
<1> DEFINE r == [h \in H |-> Rank(R, H, h)]
           N == 0..n - 1
<1>7. r \in Injection(H, N)
  <2>1. r \in [H -> N]
    BY <1>5
  <2>2. \A a, b \in H : r[a] = r[b] => a = b
    BY <1>6
  <2> HIDE DEF r, N
  <2> QED BY <2>1, <2>2 DEF Injection, IsInjective
<1>8. IsFiniteSet(N) /\ Cardinality(N) = n
  <2>1. 0 \in Int /\ n - 1 \in Int
    BY <1>1
  <2>2. IsFiniteSet(0..n - 1) /\ Cardinality(0..n - 1) = IF 0 > n - 1 THEN 0 ELSE (n - 1) - 0 + 1
    <3> HIDE DEF n
    <3> QED BY <2>1, FS_Interval
  <2> HIDE DEF n
  <2> QED BY <2>2, <1>1 DEF N
<1>9. r \in Surjection(H, N)
  <2> HIDE DEF r, N
  <2> QED BY <1>7, <1>8, FS_Injection
<1>10. ASSUME NEW k \in N
       PROVE  \E h \in H : Rank(R, H, h) = k
  <2>1. \A t \in N : \E s \in H : r[s] = t
    <3> HIDE DEF r, N
    <3> QED BY <1>9 DEF Surjection
  <2> QED BY <2>1
<1> QED BY <1>1, <1>4, <1>5, <1>6, <1>10 DEF Ranked

Hit(scores, id) == [id |-> id, score |-> scores[id]]
HitsOf(scores) == {Hit(scores, id) : id \in DOMAIN scores}

\* Each hit once, by falling score and then by ID.
SortedHits(hits, scores) ==
  /\ ToSet(hits) = HitsOf(scores)
  /\ \A k, l \in DOMAIN hits : k < l => Precedes(hits[k], hits[l])

(* The hits are ordered and complete (hitsFromScores).                      *)
LEMMA HitsAreSorted ==
    ASSUME NEW I, I \subseteq Nat, IsFiniteSet(I), NEW scores \in ScoreMaps(I)
    PROVE  SortedHits(HitsFromScores(scores), scores)
<1> DEFINE H == HitsOf(scores)
           D == DOMAIN scores
           R == {p \in H \X H : Precedes(p[1], p[2])}
           n == Cardinality(H)
<1>1. D \subseteq I /\ \A id \in D : scores[id] \in Int
  BY ScoresInMaps
<1>2. IsFiniteSet(D)
  BY <1>1, FS_Subset
<1>3. IsFiniteSet(H)
  <2> DEFINE f == [id \in D |-> Hit(scores, id)]
  <2>1. f \in [D -> H] /\ \A h \in H : \E id \in D : f[id] = h
    BY DEF HitsOf
  <2>2. f \in Surjection(D, H)
    <3> HIDE DEF f, D, H
    <3> QED BY <2>1 DEF Surjection
  <2> HIDE DEF f, D, H
  <2> QED BY <1>2, <2>2, FS_Surjection
<1>4. \A h \in H : h.id \in D /\ h.score = scores[h.id] /\ h = Hit(scores, h.id) /\ h.id \in Int /\ h.score \in Int
  <2> SUFFICES ASSUME NEW h \in H
               PROVE  h.id \in D /\ h.score = scores[h.id] /\ h = Hit(scores, h.id) /\ h.id \in Int /\ h.score \in Int
    OBVIOUS
  <2>1. PICK id \in D : h = Hit(scores, id)
    BY DEF HitsOf
  <2>2. h.id = id /\ h.score = scores[id]
    BY <2>1 DEF Hit
  <2>3. id \in I /\ scores[id] \in Int
    BY <1>1
  <2>4. id \in Nat
    BY <2>3, Zenon
  <2>5. id \in Int
    BY <2>4
  <2> QED BY <2>1, <2>2, <2>3, <2>5, <1>1
<1>5. \A a, b \in H : <<a, b>> \in R <=> Precedes(a, b)
  OBVIOUS
<1>6. Orders(R, H)
  <2>1. \A a \in H : ~Precedes(a, a)
    BY <1>4 DEF Precedes
  <2>2. \A a, b, c \in H : Precedes(a, b) /\ Precedes(b, c) => Precedes(a, c)
    BY <1>4 DEF Precedes
  <2>3. ASSUME NEW a \in H, NEW b \in H
        PROVE  a = b \/ Precedes(a, b) \/ Precedes(b, a)
    <3>1. CASE a.id = b.id
      BY <3>1, <1>4
    <3>2. CASE a.id # b.id
      <4>1. a.id \in Int /\ b.id \in Int /\ a.score \in Int /\ b.score \in Int
        BY <1>4
      <4> QED BY <3>2, <4>1 DEF Precedes
    <3> QED BY <3>1, <3>2
  <2> HIDE DEF H, R
  <2> QED BY <2>1, <2>2, <2>3, <1>5 DEF Orders
<1>7. Ranked(R, H)
  <2> HIDE DEF H, R
  <2> QED BY <1>3, <1>6, RanksAreTaken
<1>8. /\ n \in Nat
      /\ \A h \in H : Rank(R, H, h) \in 0..n - 1
      /\ \A a, b \in H : <<a, b>> \in R => Rank(R, H, a) < Rank(R, H, b)
      /\ \A a, b \in H : Rank(R, H, a) = Rank(R, H, b) => a = b
      /\ \A k \in 0..n - 1 : \E h \in H : Rank(R, H, h) = k
  BY <1>7 DEF Ranked
<1>9. \A h \in H : Rank(R, H, h) = Cardinality({g \in H : Precedes(g, h)})
  <2>1. \A h \in H : Ahead(R, H, h) = {g \in H : Precedes(g, h)}
    BY <1>5 DEF Ahead
  <2> QED BY <2>1 DEF Rank
<1> DEFINE hits == HitsFromScores(scores)
<1>10. hits = [k \in 1..n |-> CHOOSE h \in H : Cardinality({g \in H : Precedes(g, h)}) = k - 1]
  BY DEF HitsFromScores, HitsOf, Hit
<1> HIDE DEF hits, H, R, n
<1>11. ASSUME NEW k \in 1..n
       PROVE  hits[k] \in H /\ Rank(R, H, hits[k]) = k - 1
  <2>1. k - 1 \in 0..n - 1
    BY <1>8
  <2>2. PICK h \in H : Rank(R, H, h) = k - 1
    BY <2>1, <1>8
  <2>3. h \in H /\ Cardinality({g \in H : Precedes(g, h)}) = k - 1
    BY <2>2, <1>9
  <2>4. hits[k] = CHOOSE x \in H : Cardinality({g \in H : Precedes(g, x)}) = k - 1
    BY <1>10
  <2>5. hits[k] \in H /\ Cardinality({g \in H : Precedes(g, hits[k])}) = k - 1
    BY <2>3, <2>4, Zenon
  <2> QED BY <2>5, <1>9
<1>12. DOMAIN hits = 1..n
  BY <1>10
<1>13. ToSet(hits) = H
  <2>1. ToSet(hits) = {hits[k] : k \in 1..n}
    BY <1>12 DEF ToSet
  <2>2. ASSUME NEW h \in H
        PROVE  \E k \in 1..n : hits[k] = h
    <3>1. Rank(R, H, h) + 1 \in 1..n /\ (Rank(R, H, h) + 1) - 1 = Rank(R, H, h)
      BY <1>8
    <3>2. hits[Rank(R, H, h) + 1] = h
      BY <3>1, <1>8, <1>11
    <3> QED BY <3>1, <3>2
  <2> QED BY <2>1, <2>2, <1>11
<1>14. ASSUME NEW k \in 1..n, NEW l \in 1..n, k < l
       PROVE  Precedes(hits[k], hits[l])
  <2> DEFINE a == hits[k]
             b == hits[l]
  <2>1. a \in H /\ b \in H /\ Rank(R, H, a) = k - 1 /\ Rank(R, H, b) = l - 1
    BY <1>11
  <2>2. Rank(R, H, a) < Rank(R, H, b)
    BY <2>1, <1>14, <1>8
  <2>3. a # b /\ ~(Rank(R, H, b) < Rank(R, H, a))
    BY <2>1, <2>2, <1>8
  <2>4. <<a, b>> \in R
    <3> HIDE DEF a, b
    <3> QED BY <2>1, <2>3, <1>6, <1>8 DEF Orders
  <2> QED BY <2>1, <2>4, <1>5
<1> QED BY <1>12, <1>13, <1>14 DEF SortedHits, H, hits

-----------------------------------------------------------------------------
(* The tokens of a text.                                                    *)

\* Tokens of terms that are not empty, at positions that rise, below N.
Analyzed(tokens, N) ==
  /\ N \in Nat /\ Len(tokens) \in Nat
  /\ tokens \in Seq(ToSet(tokens))
  /\ \A k \in 1..Len(tokens) : /\ tokens[k].term \in Seq(Runes) /\ tokens[k].term # <<>>
                               /\ tokens[k].position \in 0..N - 1
  /\ \A k, l \in 1..Len(tokens) : k < l => tokens[k].position < tokens[l].position

(* A list is a list of its elements.                                        *)
LEMMA SequenceOfElements ==
    ASSUME NEW V, NEW s \in Seq(V)
    PROVE  s \in Seq(ToSet(s)) /\ Len(s) \in Nat /\ \A k \in 1..Len(s) : s[k] \in ToSet(s)
<1>1. DOMAIN s = 1..Len(s) /\ Len(s) \in Nat
  OBVIOUS
<1>2. \A k \in 1..Len(s) : s[k] \in ToSet(s)
  BY <1>1 DEF ToSet
<1>3. s = [k \in 1..Len(s) |-> s[k]]
  OBVIOUS
<1>4. s \in [1..Len(s) -> ToSet(s)]
  BY <1>2, <1>3
<1>5. s \in Seq(ToSet(s))
  BY <1>1, <1>4, SequenceOf
<1> QED BY <1>1, <1>2, <1>5

(* The standard tokenizer numbers its tokens from 0.                        *)
LEMMA StandardIsAnalyzed ==
    ASSUME NEW text \in Seq(Runes)
    PROVE  /\ Analyzed(StandardTokenize(text), Len(StandardTokenize(text)))
           /\ \A k \in 1..Len(StandardTokenize(text)) : StandardTokenize(text)[k].position = k - 1
<1> DEFINE L == Len(text)
           skip == Places(text, Spaces)
           span == [i \in 1..L |-> <<StandardSpan(text, i)>>]
<1>1. L \in Nat
  OBVIOUS
<1>2. PICK s : StandardTokenize(text) = TokensOf(text, s) /\ Scanned(s, 1, L + 1, skip, span)
  BY StandardScans, Zenon
<1> DEFINE toks == TokensOf(text, s)
           n == Len(toks)
<1>3. Tiles(s, 1, L + 1, skip)
  <2> HIDE DEF L, skip, span
  <2> QED BY <1>2 DEF Scanned
<1>4. /\ n = Len(s) /\ n \in Nat
      /\ \A k \in 1..n : /\ toks[k].term = SubSeq(text, s[k].first, s[k].end - 1)
                         /\ s[k].first \in 1..L /\ s[k].end - 1 \in s[k].first..L
                         /\ toks[k].position = k - 1
  <2>1. Tiles(s, 1, Len(text) + 1, skip)
    BY <1>3
  <2> HIDE DEF skip
  <2> QED BY <2>1, TokensHold
<1>5. ASSUME NEW k \in 1..n
      PROVE  toks[k].term \in Seq(Runes) /\ toks[k].term # <<>>
  <2> DEFINE i == s[k].first
             j == s[k].end - 1
  <2>1. toks[k].term = SubSeq(text, i, j) /\ i \in 1..Len(text) /\ j \in i..Len(text)
    BY <1>4
  <2> HIDE DEF toks, i, j
  <2>2. SubSeq(text, i, j) \in Seq(Runes) /\ Len(SubSeq(text, i, j)) = j - i + 1
    BY <2>1, PartOf
  <2>3. j - i + 1 # 0
    BY <2>1
  <2>4. Len(<<>>) = 0
    OBVIOUS
  <2> QED BY <2>1, <2>2, <2>3, <2>4
<1>6. toks \in Seq(ToSet(toks))
  <2>1. toks \in Seq({toks[k] : k \in 1..Len(s)})
    <3>1. DOMAIN toks = 1..Len(s) /\ Len(s) \in Nat /\ toks = [k \in 1..Len(s) |-> toks[k]]
      BY <1>4 DEF TokensOf
    <3> HIDE DEF toks
    <3>2. toks \in [1..Len(s) -> {toks[k] : k \in 1..Len(s)}]
      BY <3>1
    <3> QED BY <3>1, <3>2, SequenceOf
  <2> HIDE DEF toks
  <2> QED BY <2>1, SequenceOfElements
<1> HIDE DEF toks
<1>7. \A k \in 1..n : toks[k].position = k - 1 /\ toks[k].position \in 0..n - 1
  BY <1>4
<1>8. \A k, l \in 1..n : k < l => toks[k].position < toks[l].position
  BY <1>4
<1>9. Analyzed(toks, n)
  BY <1>4, <1>5, <1>6, <1>7, <1>8 DEF Analyzed
<1> QED BY <1>2, <1>7, <1>9 DEF toks

(* Lower case letters.                                                      *)
LEMMA LowerTextIs ==
    ASSUME NEW text \in Seq(Runes)
    PROVE  LowerText(text) \in Seq(Runes) /\ Len(LowerText(text)) = Len(text)
<1>1. \A r \in Runes : Lower(r) \in Runes
  BY RunesAssumption DEF Lower
<1>2. LowerText(text) \in [1..Len(text) -> Runes]
  BY <1>1 DEF LowerText
<1> QED BY <1>2, SequenceOf

(* Lower case leaves tokens at their positions.                             *)
LEMMA LowercaseIsAnalyzed ==
    ASSUME NEW tokens, NEW N, Analyzed(tokens, N)
    PROVE  Analyzed(LowercaseFilter(tokens), N)
<1> DEFINE n == Len(tokens)
           low == LowercaseFilter(tokens)
<1>1. /\ N \in Nat /\ n \in Nat
      /\ \A k \in 1..n : /\ tokens[k].term \in Seq(Runes) /\ tokens[k].term # <<>>
                         /\ tokens[k].position \in 0..N - 1
      /\ \A k, l \in 1..n : k < l => tokens[k].position < tokens[l].position
  BY DEF Analyzed
<1>2. low = [k \in 1..n |-> [tokens[k] EXCEPT !.term = LowerText(@)]]
  BY DEF LowercaseFilter
<1>3. DOMAIN low = 1..n /\ Len(low) = n
  BY <1>1, <1>2
<1>4. ASSUME NEW k \in 1..n
      PROVE  low[k].position = tokens[k].position /\ (low[k].term = LowerText(tokens[k].term) \/ low[k].term = tokens[k].term)
  <2>1. low[k] = [tokens[k] EXCEPT !.term = LowerText(@)]
    BY <1>2
  <2> QED BY <2>1
<1>5. \A k \in 1..n : low[k].term \in Seq(Runes) /\ low[k].term # <<>>
  <2> SUFFICES ASSUME NEW k \in 1..n PROVE low[k].term \in Seq(Runes) /\ low[k].term # <<>>
    OBVIOUS
  <2> DEFINE t == tokens[k].term
  <2>1. t \in Seq(Runes) /\ t # <<>>
    BY <1>1
  <2>2. LowerText(t) \in Seq(Runes) /\ Len(LowerText(t)) = Len(t)
    BY <2>1, LowerTextIs
  <2>3. Len(t) # 0
    BY <2>1
  <2>4. LowerText(t) # <<>>
    BY <2>2, <2>3
  <2> HIDE DEF t
  <2> QED BY <2>1, <2>2, <2>4, <1>4 DEF t
<1> HIDE DEF low
<1>6. low \in Seq(ToSet(low))
  <2>1. low \in [1..n -> {low[k] : k \in 1..n}]
    BY <1>2, <1>3
  <2>2. low \in Seq({low[k] : k \in 1..n})
    BY <1>1, <2>1, SequenceOf
  <2> QED BY <2>2, SequenceOfElements
<1>7. Analyzed(low, N)
  BY <1>1, <1>3, <1>4, <1>5, <1>6 DEF Analyzed
<1> QED BY <1>7 DEF low

(* What is left of tokens keeps their positions.                            *)
LEMMA KeptIsAnalyzed ==
    ASSUME NEW tokens, NEW N, NEW S, Analyzed(tokens, N)
    PROVE  Analyzed(Kept(tokens, S), N)
<1> DEFINE n == Len(tokens)
           K == Kept(tokens, S)
<1>1. /\ N \in Nat /\ n \in Nat /\ tokens \in Seq(ToSet(tokens))
      /\ \A k \in 1..n : /\ tokens[k].term \in Seq(Runes) /\ tokens[k].term # <<>>
                         /\ tokens[k].position \in 0..N - 1
      /\ \A k, l \in 1..n : k < l => tokens[k].position < tokens[l].position
  BY DEF Analyzed
<1>2. K \in Seq(ToSet(tokens))
  BY <1>1, KeptIs
<1>3. PICK g : Picks(g, K, tokens, S, n)
  BY <1>1, KeptIs
<1> HIDE DEF K
<1>4. /\ Len(K) \in Nat
      /\ \A i \in 1..Len(K) : g[i] \in 1..n
      /\ \A i, j \in 1..Len(K) : i < j => g[i] < g[j]
      /\ \A i \in 1..Len(K) : K[i] = tokens[g[i]]
  BY <1>3 DEF Picks
<1>5. K \in Seq(ToSet(K))
  BY <1>2, SequenceOfElements
<1>6. \A i \in 1..Len(K) : /\ K[i].term \in Seq(Runes) /\ K[i].term # <<>>
                           /\ K[i].position \in 0..N - 1
  BY <1>1, <1>4
<1>7. \A i, j \in 1..Len(K) : i < j => K[i].position < K[j].position
  BY <1>1, <1>4
<1>8. Analyzed(K, N)
  BY <1>1, <1>4, <1>5, <1>6, <1>7 DEF Analyzed
<1> QED BY <1>8 DEF K

(* Analysis leaves terms that are not empty at rising positions.            *)
LEMMA AnalyzeIs ==
    ASSUME NEW text \in Seq(Runes)
    PROVE  Analyzed(Analyze(text), Len(StandardTokenize(text)))
<1> DEFINE N == Len(StandardTokenize(text))
           low == LowercaseFilter(StandardTokenize(text))
<1>1. Analyzed(StandardTokenize(text), N)
  BY StandardIsAnalyzed
<1>2. Analyzed(low, N)
  BY <1>1, LowercaseIsAnalyzed
<1> HIDE DEF N, low
<1>3. \A S : Analyzed(Kept(low, S), N)
  BY <1>2, KeptIsAnalyzed
<1>4. \E S : Analyze(text) = Kept(low, S)
  BY DEF Analyze, StopWordFilter, low
<1> QED BY <1>3, <1>4 DEF N

-----------------------------------------------------------------------------
(* The postings of a term.                                                  *)

\* An index of analyzed texts.
IndexOK(ix) ==
  /\ DOMAIN ix \subseteq Nat /\ IsFiniteSet(DOMAIN ix)
  /\ \A id \in DOMAIN ix : \A field \in DOMAIN ix[id] :
       field # <<>> /\ \E N \in Numbers(W32) : Analyzed(ix[id][field], N)

\* The positions p are those of the term among the tokens, in order.
PositionsIn(p, tokens, term, N) ==
  /\ p \in Seq(Numbers(N)) /\ Len(p) \in 0..N
  /\ Increasing(p)
  /\ ElementsOf(p) = {t.position : t \in {u \in ToSet(tokens) : u.term = term}}
  /\ Len(p) = Cardinality({t \in ToSet(tokens) : t.term = term})
  /\ p # <<>> <=> \E t \in ToSet(tokens) : t.term = term

(* The positions of a term are those of its tokens.                         *)
LEMMA PositionsAre ==
    ASSUME NEW tokens, NEW N, Analyzed(tokens, N), NEW term
    PROVE  PositionsIn(PositionsOf(tokens, term), tokens, term, N)
<1> DEFINE n == Len(tokens)
           S == {tokens[k] : k \in {j \in 1..Len(tokens) : tokens[j].term = term}}
           A == {t \in ToSet(tokens) : t.term = term}
           K == Kept(tokens, S)
           m == Len(K)
           p == PositionsOf(tokens, term)
<1>1. n \in Nat /\ N \in Nat /\ tokens \in Seq(ToSet(tokens))
  BY DEF Analyzed
<1>2. ToSet(tokens) = {tokens[k] : k \in 1..n}
  BY <1>1 DEF ToSet
<1>3. S = A
  BY <1>2
<1>4. PICK g : Picks(g, K, tokens, S, n)
  BY <1>1, KeptIs
<1>5. Analyzed(K, N)
  BY KeptIsAnalyzed
<1>6. p = [k \in 1..m |-> K[k].position]
  BY DEF PositionsOf
<1> HIDE DEF K, S, A
<1>7. /\ m \in Nat
      /\ \A k \in 1..m : K[k].position \in 0..N - 1
      /\ \A k, l \in 1..m : k < l => K[k].position < K[l].position
  BY <1>5 DEF Analyzed
<1>8. /\ \A i \in 1..m : g[i] \in 1..n /\ K[i] = tokens[g[i]]
      /\ \A j \in 1..n : (tokens[j] \in S) <=> \E i \in 1..m : g[i] = j
  BY <1>4 DEF Picks
<1>9. \A k \in 1..m : K[k] \in A
  BY <1>3, <1>8
<1>10. ASSUME NEW t \in A
       PROVE  \E k \in 1..m : K[k] = t
  <2>1. PICK j \in 1..n : tokens[j] = t
    BY <1>2 DEF A
  <2>2. tokens[j] \in S
    BY <2>1, <1>3
  <2>3. PICK i \in 1..m : g[i] = j
    BY <2>2, <1>8
  <2> QED BY <2>1, <2>3, <1>8
<1>11. \A k, l \in 1..m : K[k] = K[l] => k = l
  <2> SUFFICES ASSUME NEW k \in 1..m, NEW l \in 1..m, K[k] = K[l], k # l PROVE FALSE
    OBVIOUS
  <2>1. K[k].position \in Int /\ K[l].position = K[k].position
    BY <1>7
  <2>2. k < l \/ l < k
    BY <1>7
  <2> QED BY <2>1, <2>2, <1>7
<1> HIDE DEF m, p
<1>12. Cardinality(A) = m
  <2> DEFINE D == 1..m
             f == [k \in D |-> K[k]]
  <2>1. f \in [D -> A] /\ (\A k, l \in D : f[k] = f[l] => k = l) /\ \A t \in A : \E k \in D : f[k] = t
    BY <1>9, <1>10, <1>11
  <2>2. IsFiniteSet(D) /\ Cardinality(D) = m
    BY <1>7, UpToNumber
  <2> HIDE DEF f, D
  <2>3. f \in Surjection(D, A)
    BY <2>1 DEF Surjection
  <2>4. f \in Injection(D, A)
    BY <2>1 DEF Injection, IsInjective
  <2> QED BY <2>2, <2>3, <2>4, FS_Surjection
<1>13. p \in [1..m -> Numbers(N)] /\ \A k \in 1..m : p[k] = K[k].position
  BY <1>6, <1>7 DEF Numbers
<1>14. p \in Seq(Numbers(N)) /\ Len(p) = m
  BY <1>7, <1>13, SequenceOf
<1>15. Increasing(p)
  BY <1>7, <1>13, <1>14 DEF Increasing
<1>16. m <= N
  <2> DEFINE D == 1..m
             V == Numbers(N)
  <2>1. p \in Injection(D, V)
    <3>1. \A k, l \in 1..m : p[k] = p[l] => k = l
      <4> SUFFICES ASSUME NEW k \in 1..m, NEW l \in 1..m, p[k] = p[l], k # l PROVE FALSE
        OBVIOUS
      <4>1. p[k] \in Int /\ (k < l \/ l < k)
        BY <1>7, <1>13
      <4> QED BY <4>1, <1>15, <1>14 DEF Increasing
    <3> HIDE DEF V
    <3>2. p \in [D -> V]
      BY <1>13 DEF V
    <3> HIDE DEF D
    <3> QED BY <3>1, <3>2 DEF Injection, IsInjective, D
  <2>2. IsFiniteSet(D) /\ Cardinality(D) = m
    BY <1>7, UpToNumber
  <2>3. IsFiniteSet(V) /\ Cardinality(V) = N
    <3>1. 0 \in Int /\ N - 1 \in Int
      BY <1>1
    <3>2. IsFiniteSet(0..N - 1) /\ Cardinality(0..N - 1) = IF 0 > N - 1 THEN 0 ELSE (N - 1) - 0 + 1
      BY <3>1, FS_Interval
    <3> QED BY <3>2, <1>1 DEF Numbers
  <2> HIDE DEF D, V
  <2>4. Cardinality(D) <= Cardinality(V)
    BY <2>1, <2>3, FS_Injection
  <2> QED BY <2>2, <2>3, <2>4
<1>17. ElementsOf(p) = {t.position : t \in A}
  <2>1. ElementsOf(p) = {K[k].position : k \in 1..m}
    BY <1>13, <1>14 DEF ElementsOf
  <2> QED BY <2>1, <1>9, <1>10
<1>18. p # <<>> <=> \E t \in ToSet(tokens) : t.term = term
  <2>1. p # <<>> <=> m # 0
    BY <1>14
  <2>2. m # 0 <=> \E t \in A : TRUE
    <3>1. m # 0 => 1 \in 1..m
      BY <1>7
    <3>2. m = 0 => 1..m = {}
      BY <1>7
    <3> QED BY <3>1, <3>2, <1>9, <1>10
  <2> QED BY <2>1, <2>2 DEF A
<1>19. ElementsOf(p) = {t.position : t \in {u \in ToSet(tokens) : u.term = term}}
  BY <1>17 DEF A
<1>20. Len(p) = Cardinality({t \in ToSet(tokens) : t.term = term})
  BY <1>12, <1>14 DEF A
<1>21. Len(p) \in 0..N
  BY <1>1, <1>7, <1>14, <1>16
<1> QED BY <1>14, <1>15, <1>18, <1>19, <1>20, <1>21 DEF PositionsIn, p

(* Sorting leaves a list as it is that increases.                           *)
LEMMA SortedCopyKeeps ==
    ASSUME NEW M \in Nat, NEW s \in Seq(0..M), Increasing(s)
    PROVE  SortedCopy(s) = s
<1> DEFINE n == Len(s)
           t == SortedCopy(s)
           R == {s[j] : j \in 1..n}
           OK(k, v) == Cardinality({j \in 1..n : s[j] < v}) < k /\ k <= Cardinality({j \in 1..n : s[j] <= v})
<1>1. n \in Nat /\ \A k \in 1..n : s[k] \in Int
  OBVIOUS
<1>2. \A k, l \in 1..n : k < l => s[k] < s[l]
  BY DEF Increasing
<1>3. t = [k \in 1..n |-> CHOOSE v \in R : OK(k, v)]
  BY DEF SortedCopy
<1> HIDE DEF n, t
<1>4. ASSUME NEW j \in 1..n
      PROVE  /\ Cardinality({i \in 1..n : s[i] < s[j]}) = j - 1
             /\ Cardinality({i \in 1..n : s[i] <= s[j]}) = j
  <2>1. \A i \in 1..n : (i < j => s[i] < s[j]) /\ (i = j => s[i] = s[j]) /\ (j < i => s[j] < s[i])
    BY <1>2
  <2>2. \A i \in 1..n : (s[i] < s[j] <=> i < j) /\ (s[i] <= s[j] <=> i <= j)
    <3> SUFFICES ASSUME NEW i \in 1..n PROVE (s[i] < s[j] <=> i < j) /\ (s[i] <= s[j] <=> i <= j)
      OBVIOUS
    <3>1. s[i] \in Int /\ s[j] \in Int
      BY <1>1
    <3>2. (i < j => s[i] < s[j]) /\ (i = j => s[i] = s[j]) /\ (j < i => s[j] < s[i])
      BY <2>1
    <3> QED BY <3>1, <3>2
  <2>3. {i \in 1..n : s[i] < s[j]} = 1..j - 1 /\ {i \in 1..n : s[i] <= s[j]} = 1..j
    <3>1. {i \in 1..n : s[i] < s[j]} = {i \in 1..n : i < j} /\ {i \in 1..n : s[i] <= s[j]} = {i \in 1..n : i <= j}
      BY <2>2
    <3>2. {i \in 1..n : i < j} = 1..j - 1 /\ {i \in 1..n : i <= j} = 1..j
      BY <1>1
    <3> QED BY <3>1, <3>2
  <2>4. j - 1 \in Nat /\ j \in Nat
    OBVIOUS
  <2>5. Cardinality(1..j - 1) = j - 1 /\ Cardinality(1..j) = j
    BY <2>4, UpToNumber
  <2> QED BY <2>3, <2>5
<1>5. \A k, j \in 1..n : OK(k, s[j]) <=> j = k
  <2> SUFFICES ASSUME NEW k \in 1..n, NEW j \in 1..n PROVE OK(k, s[j]) <=> j = k
    OBVIOUS
  <2>1. OK(k, s[j]) <=> j - 1 < k /\ k <= j
    BY <1>4
  <2> QED BY <2>1, <1>1
<1> HIDE DEF OK
<1>6. \A k \in 1..n : t[k] = s[k]
  <2> SUFFICES ASSUME NEW k \in 1..n PROVE t[k] = s[k]
    OBVIOUS
  <2>1. s[k] \in R /\ OK(k, s[k])
    BY <1>5
  <2>2. t[k] = CHOOSE v \in R : OK(k, v)
    BY <1>3
  <2>3. t[k] \in R /\ OK(k, t[k])
    BY <2>1, <2>2, Zenon
  <2>4. PICK j \in 1..n : t[k] = s[j]
    BY <2>3
  <2> QED BY <2>3, <2>4, <1>5
<1>7. s = [k \in 1..n |-> s[k]]
  BY DEF n
<1>9. t = [k \in 1..n |-> t[k]]
  <2> HIDE DEF R
  <2> QED BY <1>3
<1>8. t = s
  BY <1>6, <1>7, <1>9
<1> QED BY <1>8 DEF t

Finds(ix, field, term) == {d \in DOMAIN ix : term \in FieldTerms(ix, d, field)}

(* A field that is indexed holds the tokens of its text.                    *)
LEMMA FieldTokensAre ==
    ASSUME NEW ix, IndexOK(ix), NEW id \in DOMAIN ix, NEW field
    PROVE  /\ field \in DOMAIN ix[id] => FieldTokens(ix, id, field) = ToSet(ix[id][field])
           /\ field \notin DOMAIN ix[id] => FieldTokens(ix, id, field) = {}
           /\ IsFiniteSet(FieldTerms(ix, id, field))
           /\ \A t \in FieldTerms(ix, id, field) : t \in Seq(Runes) /\ t # <<>>
           /\ field = <<>> => FieldTerms(ix, id, field) = {}
<1>1. /\ field \in DOMAIN ix[id] => FieldTokens(ix, id, field) = ToSet(ix[id][field])
      /\ field \notin DOMAIN ix[id] => FieldTokens(ix, id, field) = {}
  BY DEF FieldTokens
<1>2. CASE field \in DOMAIN ix[id]
  <2> DEFINE tokens == ix[id][field]
             n == Len(tokens)
  <2>1. PICK N \in Numbers(W32) : Analyzed(tokens, N)
    BY <1>2 DEF IndexOK
  <2>2. field # <<>>
    BY <1>2 DEF IndexOK
  <2>3. /\ n \in Nat /\ tokens \in Seq(ToSet(tokens))
        /\ \A k \in 1..n : tokens[k].term \in Seq(Runes) /\ tokens[k].term # <<>>
    BY <2>1 DEF Analyzed
  <2>4. ToSet(tokens) = {tokens[k] : k \in 1..n}
    BY <2>3 DEF ToSet
  <2>5. FieldTerms(ix, id, field) = {tokens[k].term : k \in 1..n}
    BY <1>1, <1>2, <2>4 DEF FieldTerms
  <2> DEFINE S == {tokens[k].term : k \in 1..n}
             D == 1..n
             f == [k \in D |-> tokens[k].term]
  <2>6. f \in Surjection(D, S)
    <3>1. f \in [D -> S] /\ \A t \in S : \E k \in D : f[k] = t
      OBVIOUS
    <3> HIDE DEF f, D, S
    <3> QED BY <3>1 DEF Surjection
  <2>7. IsFiniteSet(D)
    BY <2>3, UpToNumber
  <2>8. IsFiniteSet(S)
    <3> HIDE DEF f, D, S
    <3> QED BY <2>6, <2>7, FS_Surjection
  <2> QED BY <1>1, <1>2, <2>2, <2>3, <2>5, <2>8
<1>3. CASE field \notin DOMAIN ix[id]
  <2>1. FieldTerms(ix, id, field) = {}
    BY <1>1, <1>3 DEF FieldTerms
  <2> QED BY <1>1, <1>3, <2>1, FS_EmptySet
<1> QED BY <1>2, <1>3

(* What a term scores in the documents in which it occurs                   *)
(* (scorePostings).                                                         *)
LEMMA PostingsAre ==
    ASSUME NEW ix, IndexOK(ix), NEW field, NEW term
    PROVE  /\ DOMAIN PostingsOf(ix, field, term) = Finds(ix, field, term)
           /\ \A id \in Finds(ix, field, term) :
                /\ field \in DOMAIN ix[id]
                /\ \E N \in Numbers(W32) :
                     PositionsIn(PostingsOf(ix, field, term)[id].positions, ix[id][field], term, N)
                /\ PostingsOf(ix, field, term)[id].frequency =
                     Cardinality({t \in FieldTokens(ix, id, field) : t.term = term})
<1> DEFINE p(id) == PositionsOf(ix[id][field], term)
           P == PostingsOf(ix, field, term)
           D == {d \in Holding(ix, field) : p(d) # <<>>}
<1>1. P = [id \in D |-> NewPosting(id, p(id))]
  BY DEF PostingsOf
<1>2. ASSUME NEW id \in DOMAIN ix, field \in DOMAIN ix[id]
      PROVE  \E N \in Numbers(W32) : PositionsIn(p(id), ix[id][field], term, N)
  <2>1. PICK N \in Numbers(W32) : Analyzed(ix[id][field], N)
    BY <1>2 DEF IndexOK
  <2>2. PositionsIn(p(id), ix[id][field], term, N)
    BY <2>1, PositionsAre
  <2> QED BY <2>2
<1> HIDE DEF p
<1>3. ASSUME NEW id \in DOMAIN ix, field \in DOMAIN ix[id]
      PROVE  id \in D <=> id \in Finds(ix, field, term)
  <2>1. p(id) # <<>> <=> \E t \in ToSet(ix[id][field]) : t.term = term
    BY <1>2, <1>3 DEF PositionsIn
  <2>2. FieldTokens(ix, id, field) = ToSet(ix[id][field])
    BY <1>3 DEF FieldTokens
  <2>3. term \in FieldTerms(ix, id, field) <=> \E t \in ToSet(ix[id][field]) : t.term = term
    BY <2>2 DEF FieldTerms
  <2> QED BY <2>1, <2>3, <1>3 DEF Holding, Finds
<1>4. \A id \in D : id \in DOMAIN ix /\ field \in DOMAIN ix[id]
  BY DEF Holding
<1>5. \A id \in Finds(ix, field, term) : id \in DOMAIN ix /\ field \in DOMAIN ix[id]
  BY DEF Finds, FieldTerms, FieldTokens
<1> HIDE DEF D
<1>6. D = Finds(ix, field, term)
  BY <1>3, <1>4, <1>5
<1> HIDE DEF P
<1>7. DOMAIN P = Finds(ix, field, term)
  BY <1>1, <1>6
<1>8. ASSUME NEW id \in Finds(ix, field, term)
      PROVE  /\ \E N \in Numbers(W32) : PositionsIn(P[id].positions, ix[id][field], term, N)
             /\ P[id].frequency = Cardinality({t \in FieldTokens(ix, id, field) : t.term = term})
  <2>1. id \in DOMAIN ix /\ field \in DOMAIN ix[id]
    BY <1>5
  <2>2. PICK N \in Numbers(W32) : PositionsIn(p(id), ix[id][field], term, N)
    BY <1>2, <2>1
  <2>3. P[id] = NewPosting(id, p(id))
    BY <1>1, <1>6
  <2>4. P[id].frequency = Len(p(id)) % W32 /\ P[id].positions = SortedCopy(p(id))
    BY <2>3 DEF NewPosting
  <2> DEFINE q == p(id)
  <2>5. q \in Seq(Numbers(N)) /\ Len(q) \in 0..N /\ Increasing(q)
    BY <2>2 DEF PositionsIn
  <2>6. W32 \in Nat \ {0} /\ N \in Nat /\ N <= W32 - 1 /\ N \in 0..W32 - 1
    BY WidthsAssumption DEF Numbers
  <2>7. SortedCopy(q) = q
    <3> HIDE DEF q
    <3>1. q \in Seq(0..N)
      <4>1. \A k \in 1..Len(q) : q[k] \in 0..N - 1
        BY <2>5 DEF Numbers
      <4>2. q = [k \in 1..Len(q) |-> q[k]] /\ Len(q) \in Nat
        BY <2>5
      <4>3. q \in [1..Len(q) -> 0..N]
        BY <4>1, <4>2, <2>6
      <4> QED BY <4>2, <4>3, SequenceOf
    <3> QED BY <3>1, <2>5, <2>6, SortedCopyKeeps
  <2>8. Len(q) % W32 = Len(q)
    <3> HIDE DEF q
    <3>1. Len(q) \in 0..W32 - 1 /\ W32 \in Nat
      BY <2>5, <2>6
    <3> QED BY <3>1, SmallRemainder
  <2>9. Len(q) = Cardinality({t \in ToSet(ix[id][field]) : t.term = term})
    BY <2>2 DEF PositionsIn
  <2>10. FieldTokens(ix, id, field) = ToSet(ix[id][field])
    BY <2>1 DEF FieldTokens
  <2> QED BY <2>2, <2>4, <2>7, <2>8, <2>9, <2>10
<1> QED BY <1>5, <1>7, <1>8 DEF P

(* A term scores in each document in which it occurs what it is worth.      *)
LEMMA TermScoresAre ==
    ASSUME NEW ix, IndexOK(ix), NEW field, NEW term
    PROVE  /\ TermScores(ix, field, term) \in ScoreMaps(DOMAIN ix)
           /\ DOMAIN TermScores(ix, field, term) = Finds(ix, field, term)
           /\ \A id \in Finds(ix, field, term) :
                TermScores(ix, field, term)[id] = Worth(ix, id, field, term)
           /\ \A id \in DOMAIN ix : Worth(ix, id, field, term) \in Nat
<1> DEFINE A == DOMAIN ix
           F == Finds(ix, field, term)
           O == {d \in A : term \notin FieldTerms(ix, d, field)}
           P == PostingsOf(ix, field, term)
           s == TermScores(ix, field, term)
           rarity == Cardinality(A) + 1 - Cardinality(DOMAIN P)
           c(id) == Cardinality({t \in FieldTokens(ix, id, field) : t.term = term})
<1>1. IsFiniteSet(A)
  BY DEF IndexOK
<1>2. F \in SUBSET A /\ O = A \ F /\ A \cap F = F
  BY DEF Finds
<1>3. DOMAIN P = F /\ \A id \in F : P[id].frequency = c(id)
  BY PostingsAre
<1>4. s = [id \in DOMAIN P |-> Unit * rarity * P[id].frequency]
  BY DEF TermScores
<1>5. Cardinality(O) = Cardinality(A) - Cardinality(F) /\ Cardinality(F) \in Nat /\ Cardinality(A) \in Nat /\ Cardinality(O) \in Nat
  <2> HIDE DEF A, F, O
  <2>1. IsFiniteSet(A \ F) /\ Cardinality(A \ F) = Cardinality(A) - Cardinality(A \cap F)
    BY <1>1, FS_Difference
  <2>2. IsFiniteSet(F)
    BY <1>1, <1>2, FS_Subset
  <2>3. Cardinality(F) \in Nat /\ Cardinality(A) \in Nat
    BY <1>1, <2>2, FS_CardinalityType
  <2>4. Cardinality(A \ F) \in Nat
    BY <2>1, FS_CardinalityType
  <2> QED BY <1>2, <2>1, <2>3, <2>4
<1>6. rarity = 1 + Cardinality(O)
  <2> HIDE DEF A, F, O, P
  <2> QED BY <1>3, <1>5
<1>7. \A id \in A : c(id) \in Nat
  <2> SUFFICES ASSUME NEW id \in A PROVE c(id) \in Nat
    OBVIOUS
  <2> DEFINE S == {t \in FieldTokens(ix, id, field) : t.term = term}
  <2>1. CASE field \in DOMAIN ix[id]
    <3>1. PICK N \in Numbers(W32) : Analyzed(ix[id][field], N)
      BY <2>1 DEF IndexOK
    <3>2. PositionsIn(PositionsOf(ix[id][field], term), ix[id][field], term, N)
      BY <3>1, PositionsAre
    <3>3. FieldTokens(ix, id, field) = ToSet(ix[id][field])
      BY <2>1 DEF FieldTokens
    <3> QED BY <3>2, <3>3 DEF PositionsIn
  <2>2. CASE field \notin DOMAIN ix[id]
    <3>1. S = {}
      BY <2>2 DEF FieldTokens
    <3>2. Cardinality(S) = 0
      BY <3>1, FS_EmptySet
    <3> QED BY <3>2
  <2> QED BY <2>1, <2>2
<1>8. \A id \in A : Worth(ix, id, field, term) = Unit * (1 + Cardinality(O)) * c(id)
  BY DEF Worth
<1> HIDE DEF c, O, P, s, rarity
<1>9. \A n, m \in Nat : Unit * (1 + n) * m \in Nat
  BY DEF Unit
<1>10. \A id \in A : Worth(ix, id, field, term) \in Nat
  BY <1>5, <1>7, <1>8, <1>9
<1>11. s = [id \in F |-> Unit * rarity * P[id].frequency]
  BY <1>3, <1>4
<1>12. \A id \in F : s[id] = Worth(ix, id, field, term)
  <2> HIDE DEF A, F
  <2> SUFFICES ASSUME NEW id \in F PROVE s[id] = Worth(ix, id, field, term)
    OBVIOUS
  <2>1. s[id] = Unit * rarity * P[id].frequency
    BY <1>11
  <2>2. s[id] = Unit * (1 + Cardinality(O)) * c(id)
    BY <2>1, <1>3, <1>6, Zenon
  <2>3. id \in A
    BY <1>2
  <2> QED BY <2>2, <2>3, <1>8, Zenon
<1>13. DOMAIN s = F
  BY <1>11
<1>14. s \in ScoreMaps(DOMAIN ix)
  <2>1. \A id \in F : s[id] \in Int
    BY <1>2, <1>10, <1>12
  <2>2. s = [id \in F |-> s[id]]
    BY <1>11
  <2> HIDE DEF F
  <2> QED BY <2>1, <2>2, <1>2, ScoreMapsAre
<1> QED BY <1>10, <1>12, <1>13, <1>14 DEF s

-----------------------------------------------------------------------------
(* Queries on one field.                                                    *)

\* What each term scores, where it is found.
TermMaps(maps, ix, field) ==
  \A t \in DOMAIN maps : maps[t] \in ScoreMaps(DOMAIN ix) /\ DOMAIN maps[t] = Finds(ix, field, t)

\* The scores s, each the value v has for it, of the documents found.
ExactScores(s, ix, found, v) ==
  /\ s \in ScoreMaps(DOMAIN ix)
  /\ found \subseteq DOMAIN ix
  /\ DOMAIN s = found
  /\ \A id \in found : s[id] = v[id]

(* The images of finitely many values are finitely many.                    *)
LEMMA ImageIsFinite ==
    ASSUME NEW D, IsFiniteSet(D), NEW f, DOMAIN f = D
    PROVE  IsFiniteSet({f[x] : x \in D})
<1> DEFINE S == {f[x] : x \in D}
           g == [x \in D |-> f[x]]
<1>1. g \in [D -> S] /\ \A y \in S : \E x \in D : g[x] = y
  OBVIOUS
<1> HIDE DEF g, S
<1>2. g \in Surjection(D, S)
  BY <1>1 DEF Surjection
<1> QED BY <1>2, FS_Surjection DEF S

(* The terms of a field are those of its documents, finitely many.          *)
LEMMA TermsAreFinite ==
    ASSUME NEW ix, IndexOK(ix), NEW field
    PROVE  /\ IsFiniteSet(TermsOf(ix, field))
           /\ \A id \in DOMAIN ix : FieldTerms(ix, id, field) \subseteq TermsOf(ix, field)
           /\ \A t \in TermsOf(ix, field) : t \in Seq(Runes)
<1> DEFINE D == DOMAIN ix
           f == [id \in D |-> FieldTerms(ix, id, field)]
           All == {f[id] : id \in D}
           Tokens == UNION {ToSet(ix[id][field]) : id \in Holding(ix, field)}
<1>1. IsFiniteSet(D)
  BY DEF IndexOK
<1>2. \A id \in D : /\ IsFiniteSet(FieldTerms(ix, id, field))
                    /\ \A t \in FieldTerms(ix, id, field) : t \in Seq(Runes)
  BY FieldTokensAre
<1>3. IsFiniteSet(All)
  <2> HIDE DEF D
  <2>1. DOMAIN f = D
    OBVIOUS
  <2> HIDE DEF f
  <2> QED BY <1>1, <2>1, ImageIsFinite
<1>4. \A T \in All : IsFiniteSet(T)
  BY <1>2
<1>5. IsFiniteSet(UNION All)
  <2> HIDE DEF All
  <2> QED BY <1>3, <1>4, FS_UNION
<1>6. TermsOf(ix, field) = {t.term : t \in Tokens}
  BY DEF TermsOf
<1>7. \A t : t \in Tokens <=> \E id \in D : t \in FieldTokens(ix, id, field)
  <2> SUFFICES ASSUME NEW t PROVE t \in Tokens <=> \E id \in D : t \in FieldTokens(ix, id, field)
    OBVIOUS
  <2>1. t \in Tokens <=> \E id \in Holding(ix, field) : t \in ToSet(ix[id][field])
    OBVIOUS
  <2> QED BY <2>1 DEF FieldTokens, Holding
<1> HIDE DEF Tokens
<1>8. \A x : x \in TermsOf(ix, field) <=> \E id \in D : x \in FieldTerms(ix, id, field)
  BY <1>6, <1>7 DEF FieldTerms
<1>9. UNION All = TermsOf(ix, field)
  <2>1. \A x : x \in UNION All <=> \E id \in D : x \in FieldTerms(ix, id, field)
    OBVIOUS
  <2> HIDE DEF All
  <2> QED BY <2>1, <1>8
<1> QED BY <1>2, <1>5, <1>8, <1>9

(* The total over some terms is that over the terms a document has.         *)
LEMMA TermsTotal ==
    ASSUME NEW ix, IndexOK(ix), NEW field, NEW maps, IsFiniteSet(DOMAIN maps),
           TermMaps(maps, ix, field), NEW v,
           \A id \in DOMAIN ix : \A has : has = DOMAIN maps \cap FieldTerms(ix, id, field) =>
             \E w : /\ v[id] = SumFunctionOnSet(w, has)
                    /\ \A t \in has : w[t] = maps[t][id]
    PROVE  ExactScores(Total(maps), ix,
                     {id \in DOMAIN ix : DOMAIN maps \cap FieldTerms(ix, id, field) # {}}, v)
<1> DEFINE I == DOMAIN ix
           T == Total(maps)
           S == {id \in I : DOMAIN maps \cap FieldTerms(ix, id, field) # {}}
<1>1. \A t \in DOMAIN maps : maps[t] \in ScoreMaps(I) /\ DOMAIN maps[t] = Finds(ix, field, t)
  BY DEF TermMaps
<1>2. T \in ScoreMaps(I) /\ \A id : id \in DOMAIN T <=> \E t \in DOMAIN maps : id \in DOMAIN maps[t]
  <2> HIDE DEF I
  <2> QED BY <1>1, TotalIs
<1>3. \A id : \A t \in DOMAIN maps : id \in DOMAIN maps[t] <=> id \in I /\ t \in FieldTerms(ix, id, field)
  BY <1>1 DEF Finds
<1>4. DOMAIN T = S
  <2>1. \A id : id \in DOMAIN T <=> id \in S
    <3> HIDE DEF T, I
    <3> QED BY <1>2, <1>3 DEF I
  <2>2. DOMAIN T \subseteq I
    <3> HIDE DEF T, I
    <3> QED BY <1>2, ScoresInMaps
  <2> HIDE DEF T, S
  <2> QED BY <2>1
<1>5. ASSUME NEW id \in S PROVE T[id] = v[id]
  <2> DEFINE M == {t \in DOMAIN maps : id \in DOMAIN maps[t]}
             has == DOMAIN maps \cap FieldTerms(ix, id, field)
  <2>1. id \in I
    OBVIOUS
  <2>2. M = has
    BY <1>3, <2>1
  <2>3. PICK w : v[id] = SumFunctionOnSet(w, has) /\ \A t \in has : w[t] = maps[t][id]
    BY <2>1
  <2>4. \A t \in M : w[t] = maps[t][id]
    BY <2>2, <2>3
  <2>5. ScoreOf(T, id) = SumFunctionOnSet(w, M)
    <3> DEFINE N == M
    <3>1. N = {t \in DOMAIN maps : id \in DOMAIN maps[t]} /\ \A t \in N : w[t] = maps[t][id]
      BY <2>4
    <3>2. \A t \in DOMAIN maps : maps[t] \in ScoreMaps(I)
      BY <1>1
    <3> HIDE DEF N, I
    <3>3. ScoreOf(Total(maps), id) = SumFunctionOnSet(w, N)
      BY <3>1, <3>2, TotalAdds
    <3> QED BY <3>3 DEF N
  <2>6. ScoreOf(T, id) = T[id]
    <3> HIDE DEF T, S
    <3> QED BY <1>4 DEF ScoreOf
  <2> HIDE DEF M, has, T
  <2> QED BY <2>2, <2>3, <2>5, <2>6
<1> QED BY <1>2, <1>4, <1>5 DEF ExactScores

\* The value of the terms through which a query finds a document.
TermsWorth(ix, q) ==
  [id \in DOMAIN ix |->
     SumFunctionOnSet([t \in MatchedTerms(ix, id, q) |-> Worth(ix, id, q.field, t)],
                      MatchedTerms(ix, id, q))]

MatchedBy(ix, q) == {id \in DOMAIN ix : MatchedTerms(ix, id, q) # {}}

(* The distinct terms of a query are finitely many.                         *)
LEMMA DistinctTermsAre ==
    ASSUME NEW text \in Seq(Runes)
    PROVE  IsFiniteSet(DistinctTerms(text))
<1> DEFINE tokens == Analyze(text)
           n == Len(tokens)
           D == 1..n
           f == [k \in D |-> tokens[k].term]
<1>1. Analyzed(tokens, Len(StandardTokenize(text)))
  BY AnalyzeIs
<1> HIDE DEF tokens
<1>2. n \in Nat /\ tokens \in Seq(ToSet(tokens))
  BY <1>1 DEF Analyzed
<1>3. ToSet(tokens) = {tokens[k] : k \in D}
  BY <1>2 DEF ToSet
<1>4. DistinctTerms(text) = {f[k] : k \in D}
  BY <1>3 DEF DistinctTerms, tokens
<1>5. IsFiniteSet(D) /\ DOMAIN f = D
  BY <1>2, UpToNumber
<1>6. IsFiniteSet({f[k] : k \in D})
  <2> HIDE DEF D, f
  <2> QED BY <1>5, ImageIsFinite
<1> QED BY <1>4, <1>6

(* The scores of some terms, and their total.                               *)
LEMMA TermsTotalIs ==
    ASSUME NEW ix, IndexOK(ix), NEW field, NEW terms, IsFiniteSet(terms)
    PROVE  ExactScores(Total([t \in terms |-> TermScores(ix, field, t)]), ix,
                     {id \in DOMAIN ix : terms \cap FieldTerms(ix, id, field) # {}},
                     [id \in DOMAIN ix |->
                        SumFunctionOnSet([t \in terms \cap FieldTerms(ix, id, field) |-> Worth(ix, id, field, t)],
                                         terms \cap FieldTerms(ix, id, field))])
<1> DEFINE maps == [t \in terms |-> TermScores(ix, field, t)]
           W(id, has) == [t \in has |-> Worth(ix, id, field, t)]
           v == [id \in DOMAIN ix |->
                   SumFunctionOnSet(W(id, terms \cap FieldTerms(ix, id, field)),
                                    terms \cap FieldTerms(ix, id, field))]
<1>1. DOMAIN maps = terms /\ IsFiniteSet(DOMAIN maps)
  OBVIOUS
<1>2. \A t \in terms : /\ TermScores(ix, field, t) \in ScoreMaps(DOMAIN ix)
                       /\ DOMAIN TermScores(ix, field, t) = Finds(ix, field, t)
                       /\ \A id \in Finds(ix, field, t) :
                            TermScores(ix, field, t)[id] = Worth(ix, id, field, t)
  BY TermScoresAre
<1>3. TermMaps(maps, ix, field)
  BY <1>2 DEF TermMaps
<1>4. ASSUME NEW id \in DOMAIN ix, NEW has, has = DOMAIN maps \cap FieldTerms(ix, id, field)
      PROVE  \E w : v[id] = SumFunctionOnSet(w, has) /\ \A t \in has : w[t] = maps[t][id]
  <2>1. has = terms \cap FieldTerms(ix, id, field)
    BY <1>1, <1>4
  <2> DEFINE w == W(id, has)
  <2>2. v[id] = SumFunctionOnSet(w, has)
    BY <2>1
  <2>3. \A t \in has : t \in terms /\ id \in Finds(ix, field, t)
    BY <2>1 DEF Finds
  <2>4. \A t \in has : w[t] = maps[t][id]
    BY <2>3, <1>2
  <2> HIDE DEF w, v, maps
  <2> QED BY <2>2, <2>4
<1> HIDE DEF maps, v
<1>5. ExactScores(Total(maps), ix, {id \in DOMAIN ix : DOMAIN maps \cap FieldTerms(ix, id, field) # {}}, v)
  BY <1>1, <1>3, <1>4, TermsTotal
<1> QED BY <1>1, <1>5 DEF maps, v

(* Match queries find the documents that have one or all of their terms.    *)
LEMMA MatchIs ==
    ASSUME NEW ix, IndexOK(ix), NEW q, q.kind = "match", q.text \in Seq(Runes)
    PROVE  ExactScores(MatchScores(ix, q), ix, MatchedBy(ix, q), TermsWorth(ix, q))
<1> DEFINE terms == DistinctTerms(q.text)
           has(id) == FieldTerms(ix, id, q.field)
           each == [t \in terms |-> TermScores(ix, q.field, t)]
           found == {id \in DOMAIN ix : terms \cap has(id) # {}}
           sum(id, M) == SumFunctionOnSet([t \in M |-> Worth(ix, id, q.field, t)], M)
           v == [id \in DOMAIN ix |-> sum(id, terms \cap has(id))]
           T == Total(each)
<1>1. IsFiniteSet(terms)
  BY DistinctTermsAre
<1>2. ExactScores(T, ix, found, v)
  <2> HIDE DEF terms
  <2> QED BY <1>1, TermsTotalIs
<1>3. ASSUME NEW id \in DOMAIN ix
      PROVE  MatchedTerms(ix, id, q) =
               IF q.operator = "AND" /\ ~(terms \subseteq has(id)) THEN {} ELSE terms \cap has(id)
  BY DEF MatchedTerms
<1>4. \A id \in DOMAIN ix : TermsWorth(ix, q)[id] = sum(id, MatchedTerms(ix, id, q))
  BY DEF TermsWorth
<1>5. \A id \in DOMAIN ix : v[id] = sum(id, terms \cap has(id))
  OBVIOUS
<1>6. CASE q.operator # "AND"
  <2>1. MatchScores(ix, q) = T
    BY <1>6 DEF MatchScores
  <2> HIDE DEF terms, has, T, v, sum
  <2>2. \A id \in DOMAIN ix : MatchedTerms(ix, id, q) = terms \cap has(id)
    BY <1>3, <1>6
  <2>3. MatchedBy(ix, q) = found
    BY <2>2 DEF MatchedBy
  <2>4. \A id \in DOMAIN ix : TermsWorth(ix, q)[id] = v[id]
    BY <2>2, <1>4, <1>5
  <2> HIDE DEF found
  <2> QED BY <2>1, <2>3, <2>4, <1>2 DEF ExactScores
<1>7. CASE q.operator = "AND"
  <2> DEFINE matched(id) == Cardinality({t \in terms : id \in DOMAIN each[t]})
             ids == {id \in DOMAIN T : matched(id) = Cardinality(terms)}
  <2>1. MatchScores(ix, q) = Only(T, ids)
    BY <1>7 DEF MatchScores
  <2>2. \A id \in DOMAIN ix : {t \in terms : id \in DOMAIN each[t]} = terms \cap has(id)
    <3>1. \A t \in terms : DOMAIN TermScores(ix, q.field, t) = Finds(ix, q.field, t)
      BY TermScoresAre
    <3>2. \A t \in terms : \A id \in DOMAIN ix : id \in DOMAIN each[t] <=> t \in has(id)
      BY <3>1 DEF Finds
    <3> HIDE DEF each, terms, has
    <3> QED BY <3>2
  <2>3. ASSUME NEW id \in DOMAIN ix
        PROVE  matched(id) = Cardinality(terms) <=> terms \subseteq has(id)
    <3> DEFINE A == terms
               B == terms \cap has(id)
    <3>1. matched(id) = Cardinality(B)
      BY <2>2
    <3>2. IsFiniteSet(A) /\ B \in SUBSET A
      BY <1>1
    <3>3. A = B <=> A \subseteq has(id)
      <4> HIDE DEF terms, has
      <4> QED OBVIOUS
    <3> HIDE DEF matched, A, B
    <3>4. Cardinality(A) = Cardinality(B) => A = B
      BY <3>2, FS_Subset
    <3>5. Cardinality(A) = Cardinality(B) <=> A \subseteq has(id)
      BY <3>3, <3>4
    <3> QED BY <3>1, <3>5 DEF A
  <2> HIDE DEF terms, has, T, v, sum, matched
  <2>4. DOMAIN T = found /\ T \in ScoreMaps(DOMAIN ix) /\ \A id \in found : T[id] = v[id]
    BY <1>2 DEF ExactScores
  <2>5. ids = {id \in found : terms \subseteq has(id)}
    BY <2>3, <2>4
  <2>6. \A id \in DOMAIN ix : MatchedTerms(ix, id, q) =
          IF ~(terms \subseteq has(id)) THEN {} ELSE terms \cap has(id)
    BY <1>3, <1>7
  <2>7. MatchedBy(ix, q) = ids
    BY <2>5, <2>6 DEF MatchedBy
  <2>8. \A id \in ids : TermsWorth(ix, q)[id] = v[id]
    BY <2>5, <2>6, <1>4, <1>5
  <2>9. /\ Only(T, ids) \in ScoreMaps(DOMAIN ix)
        /\ DOMAIN Only(T, ids) = DOMAIN T \cap ids
        /\ \A id \in DOMAIN T \cap ids : Only(T, ids)[id] = T[id]
    <3> DEFINE I == DOMAIN ix
    <3>1. T \in ScoreMaps(I)
      BY <2>4
    <3> HIDE DEF ids, I
    <3>2. /\ Only(T, ids) \in ScoreMaps(I)
          /\ DOMAIN Only(T, ids) = DOMAIN T \cap ids
          /\ \A id \in DOMAIN T \cap ids : Only(T, ids)[id] = T[id]
      BY <3>1, OnlyIs
    <3> QED BY <3>2 DEF I
  <2>10. DOMAIN T \cap ids = ids /\ ids \subseteq found
    BY <2>4, <2>5
  <2>11. found \subseteq DOMAIN ix
    OBVIOUS
  <2> HIDE DEF ids, found
  <2> QED BY <2>1, <2>4, <2>7, <2>8, <2>9, <2>10, <2>11 DEF ExactScores
<1> QED BY <1>6, <1>7

(* Prefix queries find the documents that have a term with their prefix.    *)
LEMMA PrefixIs ==
    ASSUME NEW ix, IndexOK(ix), NEW q, q.kind = "prefix"
    PROVE  ExactScores(PrefixScores(ix, q), ix, MatchedBy(ix, q), TermsWorth(ix, q))
<1> DEFINE tokens == Analyze(q.prefix)
           prefix == IF tokens = <<>> THEN q.prefix ELSE tokens[1].term
           terms == {t \in TermsOf(ix, q.field) : IsPrefix(prefix, t)}
           has(id) == FieldTerms(ix, id, q.field)
           each == [t \in terms |-> TermScores(ix, q.field, t)]
           found == {id \in DOMAIN ix : terms \cap has(id) # {}}
           sum(id, M) == SumFunctionOnSet([t \in M |-> Worth(ix, id, q.field, t)], M)
           v == [id \in DOMAIN ix |-> sum(id, terms \cap has(id))]
           T == Total(each)
<1>1. IsFiniteSet(terms)
  BY TermsAreFinite, FS_Subset
<1>2. ExactScores(T, ix, found, v)
  <2> HIDE DEF terms
  <2> QED BY <1>1, TermsTotalIs
<1>3. ASSUME NEW id \in DOMAIN ix
      PROVE  MatchedTerms(ix, id, q) = terms \cap has(id)
  <2>1. MatchedTerms(ix, id, q) = {t \in has(id) : IsPrefix(prefix, t)}
    BY DEF MatchedTerms
  <2>2. has(id) \subseteq TermsOf(ix, q.field)
    BY TermsAreFinite
  <2> HIDE DEF prefix, has
  <2> QED BY <2>1, <2>2
<1>4. \A id \in DOMAIN ix : TermsWorth(ix, q)[id] = sum(id, MatchedTerms(ix, id, q))
  BY DEF TermsWorth
<1>5. \A id \in DOMAIN ix : v[id] = sum(id, terms \cap has(id))
  OBVIOUS
<1>6. PrefixScores(ix, q) = T
  BY DEF PrefixScores
<1> HIDE DEF terms, has, T, v, sum
<1>7. MatchedBy(ix, q) = found
  BY <1>3 DEF MatchedBy
<1>8. \A id \in DOMAIN ix : TermsWorth(ix, q)[id] = v[id]
  BY <1>3, <1>4, <1>5
<1> HIDE DEF found
<1> QED BY <1>6, <1>7, <1>8, <1>2 DEF ExactScores

(* The number of edits that are allowed.                                    *)
LEMMA MaxEditsIs ==
    ASSUME NEW n \in Int
    PROVE  MaxEdits(n) \in 1..3 /\ MaxEdits(n) = Max({1, Min({3, n})})
<1> DEFINE m == Min({3, n})
<1>1. m \in Int /\ m = IF n > 3 THEN 3 ELSE n
  <2>1. \A x \in {3, n} : (\A y \in {3, n} : x <= y) <=> x = IF n > 3 THEN 3 ELSE n
    OBVIOUS
  <2>2. (IF n > 3 THEN 3 ELSE n) \in {3, n}
    OBVIOUS
  <2>3. m = CHOOSE x \in {3, n} : \A y \in {3, n} : x <= y
    BY DEF Min
  <2> HIDE DEF m
  <2> QED BY <2>1, <2>2, <2>3
<1> HIDE DEF m
<1>2. Max({1, m}) = IF m < 1 THEN 1 ELSE m
  <2>1. \A x \in {1, m} : (\A y \in {1, m} : x >= y) <=> x = IF m < 1 THEN 1 ELSE m
    BY <1>1
  <2>2. (IF m < 1 THEN 1 ELSE m) \in {1, m}
    OBVIOUS
  <2>3. Max({1, m}) = CHOOSE x \in {1, m} : \A y \in {1, m} : x >= y
    BY DEF Max
  <2> QED BY <2>1, <2>2, <2>3
<1>3. MaxEdits(n) = IF n <= 0 THEN 1 ELSE IF n > 3 THEN 3 ELSE n
  BY DEF MaxEdits
<1>4. MaxEdits(n) = Max({1, m}) /\ MaxEdits(n) \in 1..3
  BY <1>1, <1>2, <1>3
<1> QED BY <1>4 DEF m

(* Up to the cutoff the distance is the edit distance.                      *)
LEMMA DistanceWithin ==
    ASSUME NEW a \in Seq(Runes), NEW b \in Seq(Runes), NEW c \in Nat
    PROVE  /\ EditDistance(a, b) \in Nat
           /\ Levenshtein(a, b, c) <= c <=> EditDistance(a, b) <= c
           /\ EditDistance(a, b) <= c => Levenshtein(a, b, c) = EditDistance(a, b)
<1>1. PICK D : /\ Table(D, a, b)
               /\ Levenshtein(a, b, c) = IF TooFar(D, a, b, c) THEN c + 1 ELSE D[Len(a)][Len(b)]
  BY LevenshteinIs
<1>2. EditDistance(a, b) = D[Len(a)][Len(b)]
  BY <1>1, DistanceIs
<1>3. D[Len(a)][Len(b)] \in Nat
  <2>1. \A i \in 0..Len(a), j \in 0..Len(b) : D[i][j] \in Nat
    BY <1>1, TableEdge
  <2>2. Len(a) \in 0..Len(a) /\ Len(b) \in 0..Len(b)
    OBVIOUS
  <2> QED BY <2>1, <2>2
<1>4. Levenshtein(a, b, c) \in Nat
  BY <1>1, <1>3
<1>5. LevenshteinIsExact(a, b, c)
  BY DistancesAreBest
<1>6. IF EditDistance(a, b) <= c THEN Levenshtein(a, b, c) = EditDistance(a, b)
      ELSE Levenshtein(a, b, c) > c
  BY <1>5 DEF LevenshteinIsExact
<1>7. EditDistance(a, b) \in Nat
  BY <1>2, <1>3
<1> QED BY <1>4, <1>6, <1>7

\* The value of the terms through which a fuzzy query finds a document.
FuzzyWorth(ix, q) ==
  [id \in DOMAIN ix |->
     SumFunctionOnSet(
       [t \in MatchedTerms(ix, id, q) |-> Worth(ix, id, q.field, t) \div
          (1 + EditDistance(Analyze(q.term)[1].term, t))], MatchedTerms(ix, id, q))]

(* Fuzzy queries find the documents with a term near to theirs.             *)
LEMMA FuzzyIs ==
    ASSUME NEW ix, IndexOK(ix), NEW q, q.kind = "fuzzy", q.term \in Seq(Runes), q.maxEdits \in Int
    PROVE  ExactScores(FuzzyScores(ix, q), ix, MatchedBy(ix, q), FuzzyWorth(ix, q))
<1> DEFINE tokens == Analyze(q.term)
           word == tokens[1].term
           cutoff == MaxEdits(q.maxEdits)
           has(id) == FieldTerms(ix, id, q.field)
<1>1. CASE tokens = <<>>
  <2>1. FuzzyScores(ix, q) = NoScores
    BY <1>1 DEF FuzzyScores
  <2>2. \A id \in DOMAIN ix : MatchedTerms(ix, id, q) = {}
    BY <1>1 DEF MatchedTerms
  <2>3. MatchedBy(ix, q) = {}
    BY <2>2 DEF MatchedBy
  <2>4. NoScores \in ScoreMaps(DOMAIN ix) /\ DOMAIN NoScores = {}
    BY NoScoresAre
  <2> QED BY <2>1, <2>3, <2>4 DEF ExactScores
<1>2. CASE tokens # <<>>
  <2> DEFINE distance(t) == Levenshtein(word, t, cutoff)
             terms == {t \in TermsOf(ix, q.field) : distance(t) <= cutoff}
             boosted(t) == [id \in DOMAIN TermScores(ix, q.field, t) |->
                              TermScores(ix, q.field, t)[id] \div (distance(t) + 1)]
             maps == [t \in terms |-> boosted(t)]
             v == FuzzyWorth(ix, q)
  <2>1. FuzzyScores(ix, q) = Total(maps)
    BY <1>2 DEF FuzzyScores
  <2>2. word \in Seq(Runes)
    <3>1. Analyzed(tokens, Len(StandardTokenize(q.term)))
      BY AnalyzeIs
    <3>2. tokens \in Seq(ToSet(tokens)) /\ \A k \in 1..Len(tokens) : tokens[k].term \in Seq(Runes)
      BY <3>1 DEF Analyzed
    <3> HIDE DEF tokens
    <3>3. 1 \in 1..Len(tokens)
      BY <1>2, <3>2, Nonempty
    <3> QED BY <3>2, <3>3
  <2>3. cutoff \in Nat /\ cutoff = Max({1, Min({3, q.maxEdits})})
    <3>1. MaxEdits(q.maxEdits) \in 1..3 /\ MaxEdits(q.maxEdits) = Max({1, Min({3, q.maxEdits})})
      BY MaxEditsIs
    <3> QED BY <3>1
  <2>4. \A t \in TermsOf(ix, q.field) : t \in Seq(Runes)
    BY TermsAreFinite
  <2>5. ASSUME NEW t \in TermsOf(ix, q.field)
        PROVE  /\ EditDistance(word, t) \in Nat
               /\ distance(t) <= cutoff <=> EditDistance(word, t) <= cutoff
               /\ EditDistance(word, t) <= cutoff => distance(t) = EditDistance(word, t)
    <3>1. t \in Seq(Runes)
      BY <2>4
    <3> HIDE DEF word, cutoff
    <3> QED BY <3>1, <2>2, <2>3, DistanceWithin
  <2>6. IsFiniteSet(terms)
    BY TermsAreFinite, FS_Subset
  <2>7. \A id \in DOMAIN ix : MatchedTerms(ix, id, q) = {t \in has(id) : EditDistance(word, t) <= cutoff}
    BY <1>2, <2>3 DEF MatchedTerms
  <2>8. ASSUME NEW id \in DOMAIN ix PROVE MatchedTerms(ix, id, q) = terms \cap has(id)
    <3>1. has(id) \subseteq TermsOf(ix, q.field)
      BY TermsAreFinite
    <3>2. terms = {t \in TermsOf(ix, q.field) : EditDistance(word, t) <= cutoff}
      <4> HIDE DEF distance, word, cutoff
      <4> QED BY <2>5
    <3> HIDE DEF terms, has, word, cutoff
    <3> QED BY <2>7, <3>1, <3>2
  <2>9. ASSUME NEW t \in terms
        PROVE  /\ boosted(t) \in ScoreMaps(DOMAIN ix)
               /\ DOMAIN boosted(t) = Finds(ix, q.field, t)
               /\ \A id \in Finds(ix, q.field, t) :
                    boosted(t)[id] = Worth(ix, id, q.field, t) \div (1 + EditDistance(word, t))
    <3> DEFINE s == TermScores(ix, q.field, t)
               F == Finds(ix, q.field, t)
               e == EditDistance(word, t)
               d == distance(t)
    <3>1. t \in TermsOf(ix, q.field) /\ d <= cutoff
      OBVIOUS
    <3>2. e \in Nat /\ d = e
      BY <2>5, <3>1
    <3>3. /\ DOMAIN s = F
          /\ \A id \in F : s[id] = Worth(ix, id, q.field, t)
          /\ \A id \in DOMAIN ix : Worth(ix, id, q.field, t) \in Nat
      BY TermScoresAre
    <3>4. boosted(t) = [id \in DOMAIN s |-> s[id] \div (d + 1)]
      OBVIOUS
    <3> DEFINE b == boosted(t)
    <3>5. F \in SUBSET DOMAIN ix
      BY DEF Finds
    <3> HIDE DEF s, F, e, d, b, boosted, distance, word, cutoff, terms
    <3>6. b = [id \in F |-> s[id] \div (e + 1)]
      BY <3>2, <3>3, <3>4 DEF b
    <3>7. \A id \in F : b[id] = s[id] \div (e + 1) /\ s[id] \in Nat
      BY <3>3, <3>5, <3>6
    <3>8. \A n \in Nat : n \div (e + 1) \in Int /\ e + 1 = 1 + e
      BY <3>2
    <3>9. \A id \in F : b[id] \in Int /\ b[id] = s[id] \div (1 + e)
      BY <3>7, <3>8
    <3>10. b = [id \in F |-> b[id]]
      BY <3>6
    <3>11. b \in ScoreMaps(DOMAIN ix)
      BY <3>5, <3>9, <3>10, ScoreMapsAre
    <3>12. DOMAIN b = F
      BY <3>6
    <3> QED BY <3>3, <3>9, <3>11, <3>12 DEF b, F, e, s
  <2> HIDE DEF boosted, distance, word, cutoff, terms
  <2>10. DOMAIN maps = terms /\ IsFiniteSet(DOMAIN maps)
    BY <2>6
  <2>11. TermMaps(maps, ix, q.field)
    BY <2>9 DEF TermMaps
  <2>12. ASSUME NEW id \in DOMAIN ix, NEW M, M = DOMAIN maps \cap has(id)
         PROVE  \E w : v[id] = SumFunctionOnSet(w, M) /\ \A t \in M : w[t] = maps[t][id]
    <3> DEFINE w == [t \in M |-> Worth(ix, id, q.field, t) \div (1 + EditDistance(word, t))]
    <3>1. M = MatchedTerms(ix, id, q)
      BY <2>8, <2>10, <2>12
    <3>2. v[id] = SumFunctionOnSet(w, M)
      BY <3>1 DEF FuzzyWorth, word
    <3>3. \A t \in M : t \in terms /\ id \in Finds(ix, q.field, t)
      BY <2>10, <2>12 DEF Finds
    <3>4. \A t \in M : w[t] = maps[t][id]
      BY <3>3, <2>9
    <3> HIDE DEF w, v, maps
    <3> QED BY <3>2, <3>4
  <2>13. MatchedBy(ix, q) = {id \in DOMAIN ix : DOMAIN maps \cap has(id) # {}}
    BY <2>8, <2>10 DEF MatchedBy
  <2>14. ExactScores(Total(maps), ix, {id \in DOMAIN ix : DOMAIN maps \cap has(id) # {}}, v)
    <3> HIDE DEF maps, v
    <3> QED BY <2>10, <2>11, <2>12, TermsTotal
  <2> HIDE DEF maps, v, has
  <2> QED BY <2>1, <2>13, <2>14 DEF v
<1> QED BY <1>1, <1>2

(* Term queries find the documents that have their term.                    *)
LEMMA TermIs ==
    ASSUME NEW ix, IndexOK(ix), NEW field, NEW term
    PROVE  ExactScores(IF field = <<>> \/ term = <<>> THEN NoScores ELSE TermScores(ix, field, term), ix,
                     Finds(ix, field, term), [id \in DOMAIN ix |-> Worth(ix, id, field, term)])
<1>1. Finds(ix, field, term) \subseteq DOMAIN ix
  BY DEF Finds
<1>2. CASE field = <<>> \/ term = <<>>
  <2>1. Finds(ix, field, term) = {}
    BY <1>2, FieldTokensAre DEF Finds
  <2>2. NoScores \in ScoreMaps(DOMAIN ix) /\ DOMAIN NoScores = {}
    BY NoScoresAre
  <2> QED BY <1>2, <2>1, <2>2 DEF ExactScores
<1>3. CASE ~(field = <<>> \/ term = <<>>)
  <2>1. /\ TermScores(ix, field, term) \in ScoreMaps(DOMAIN ix)
        /\ DOMAIN TermScores(ix, field, term) = Finds(ix, field, term)
        /\ \A id \in Finds(ix, field, term) :
             TermScores(ix, field, term)[id] = Worth(ix, id, field, term)
    BY TermScoresAre
  <2> QED BY <1>1, <1>3, <2>1 DEF ExactScores
<1> QED BY <1>2, <1>3

-----------------------------------------------------------------------------
(* Phrases.                                                                 *)

(* A placement depends on the positions, not on their order.                *)
LEMMA PlacementDepends ==
    ASSUME NEW p, NEW r, Len(p) = Len(r), \A k \in 1..Len(p) : ElementsOf(p[k]) = ElementsOf(r[k]),
           NEW relative, NEW slop, PlacementExists(p, relative, slop)
    PROVE  PlacementExists(r, relative, slop)
<1> DEFINE n == Len(p)
           U(x) == UNION {ElementsOf(x[k]) : k \in 1..n}
<1>1. U(p) = U(r)
  OBVIOUS
<1>2. PICK f \in [1..n -> U(p)] :
          /\ \A k \in 1..n : f[k] \in ElementsOf(p[k])
          /\ \A k \in 2..n : f[k] - f[k - 1] >= relative[k] - relative[k - 1]
          /\ f[n] - f[1] - relative[n] <= slop
  BY DEF PlacementExists
<1>3. \A k \in 1..n : f[k] \in ElementsOf(r[k])
  BY <1>2
<1>4. f \in [1..n -> UNION {ElementsOf(r[k]) : k \in 1..n}]
  BY <1>1, <1>2
<1>5. n = Len(r)
  OBVIOUS
<1> HIDE DEF n
<1> QED BY <1>2, <1>3, <1>4, <1>5 DEF PlacementExists

(* Sets of positions, as lists.                                             *)
LEMMA ElementsOfList ==
    ASSUME NEW S, IsFiniteSet(S)
    PROVE  ElementsOf(SetToSeq(S)) = S
<1> DEFINE s == SetToSeq(S)
<1>1. Enumerates(s, S)
  BY SetToSeqIs
<1> HIDE DEF s
<1>2. (\A k \in 1..Len(s) : s[k] \in S) /\ \A x \in S : \E k \in 1..Len(s) : s[k] = x
  BY <1>1 DEF Enumerates
<1> QED BY <1>2 DEF ElementsOf, s

\* The positions of a term in a field of a document.
PlacesOf(ix, id, field, term) ==
  {t.position : t \in {u \in FieldTokens(ix, id, field) : u.term = term}}

\* The texts are short enough for the phrase to end in them.
RoomFor(ix, field, M) ==
  \A id \in DOMAIN ix : field \in DOMAIN ix[id] =>
    \E N \in Numbers(W32) : Analyzed(ix[id][field], N) /\ N + M <= W32

\* How far each word is behind the first.
FromFirst(words) == [k \in 1..Len(words) |-> words[k].position - words[1].position]

(* The words of a phrase are behind the first by numbers that rise.         *)
LEMMA BehindIs ==
    ASSUME NEW words, NEW M, Analyzed(words, M), words # <<>>
    PROVE  /\ Len(words) \in Nat \ {0} /\ M \in Nat
           /\ \A k \in 1..Len(words) : FromFirst(words)[k] \in 0..M - 1
           /\ \A k, l \in 1..Len(words) : k < l => FromFirst(words)[k] < FromFirst(words)[l]
           /\ FromFirst(words)[1] = 0
<1> DEFINE n == Len(words)
           b == FromFirst(words)
<1>1. /\ M \in Nat /\ words \in Seq(ToSet(words))
      /\ \A k \in 1..n : words[k].position \in 0..M - 1
      /\ \A k, l \in 1..n : k < l => words[k].position < words[l].position
  BY DEF Analyzed
<1>2. n \in Nat \ {0} /\ 1 \in 1..n
  BY <1>1, Nonempty
<1>3. b = [k \in 1..n |-> words[k].position - words[1].position]
  BY DEF FromFirst
<1> HIDE DEF n, b
<1>4. \A k \in 1..n : b[k] = words[k].position - words[1].position
  BY <1>3
<1>5. \A k \in 1..n : words[1].position <= words[k].position
  <2> SUFFICES ASSUME NEW k \in 1..n PROVE words[1].position <= words[k].position
    OBVIOUS
  <2>1. words[1].position \in Int /\ words[k].position \in Int
    BY <1>1, <1>2
  <2>2. k = 1 \/ 1 < k
    BY <1>2
  <2> QED BY <2>1, <2>2, <1>1, <1>2
<1>6. \A k \in 1..n : b[k] \in 0..M - 1
  BY <1>1, <1>2, <1>4, <1>5
<1>7. \A k, l \in 1..n : k < l => b[k] < b[l]
  <2> SUFFICES ASSUME NEW k \in 1..n, NEW l \in 1..n, k < l PROVE b[k] < b[l]
    OBVIOUS
  <2>1. words[1].position \in Int /\ words[k].position \in Int /\ words[l].position \in Int
    BY <1>1, <1>2
  <2>2. words[k].position < words[l].position
    BY <1>1
  <2> QED BY <2>1, <2>2, <1>4
<1>8. b[1] = 0
  BY <1>1, <1>2, <1>4
<1> QED BY <1>1, <1>2, <1>6, <1>7, <1>8 DEF n, b

\* A document has every word, at the positions p.
HasWords(ix, field, words, id, p) ==
  /\ \A k \in 1..Len(words) : id \in Finds(ix, field, words[k].term)
  /\ p = [k \in 1..Len(words) |-> PostingsOf(ix, field, words[k].term)[id].positions]

\* They can be looked for among the positions p.
WordsArePlaced(ix, field, words, id, p) ==
  /\ GoodPhrase(p, FromFirst(words))
  /\ Len(p) = Len(words)
  /\ \A k \in 1..Len(words) : ElementsOf(p[k]) = PlacesOf(ix, id, field, words[k].term)
  /\ [k \in 1..Len(words) |-> (words[k].position - words[1].position) % W32] = FromFirst(words)

(* The positions of a document in which every word occurs make a phrase     *)
(* that can be looked for.                                                  *)
LEMMA PhraseIsGood ==
    ASSUME NEW ix, IndexOK(ix), NEW field, NEW words, NEW M, Analyzed(words, M), words # <<>>,
           RoomFor(ix, field, M), NEW id, NEW p, HasWords(ix, field, words, id, p)
    PROVE  WordsArePlaced(ix, field, words, id, p)
<1> DEFINE n == Len(words)
           b == FromFirst(words)
           tokens == ix[id][field]
           post(k) == PostingsOf(ix, field, words[k].term)[id].positions
<1>1. /\ n \in Nat \ {0} /\ M \in Nat /\ 1 \in 1..n
      /\ \A k \in 1..n : b[k] \in 0..M - 1
      /\ \A k, l \in 1..n : k < l => b[k] < b[l]
      /\ b[1] = 0
  <2>1. Len(words) \in Nat \ {0}
    BY BehindIs
  <2>2. 1 \in 1..Len(words)
    BY <2>1
  <2> QED BY <2>1, <2>2, BehindIs
<1>2. \A k \in 1..n : /\ id \in DOMAIN ix /\ field \in DOMAIN ix[id]
                      /\ \E N \in Numbers(W32) : PositionsIn(post(k), tokens, words[k].term, N)
  <2> SUFFICES ASSUME NEW k \in 1..n
               PROVE  /\ id \in DOMAIN ix /\ field \in DOMAIN ix[id]
                      /\ \E N \in Numbers(W32) : PositionsIn(post(k), tokens, words[k].term, N)
    OBVIOUS
  <2>1. id \in Finds(ix, field, words[k].term)
    BY DEF HasWords
  <2>2. id \in DOMAIN ix
    BY <2>1 DEF Finds
  <2>3. /\ field \in DOMAIN ix[id]
        /\ \E N \in Numbers(W32) :
             PositionsIn(PostingsOf(ix, field, words[k].term)[id].positions, ix[id][field], words[k].term, N)
    BY <2>1, PostingsAre
  <2> QED BY <2>2, <2>3
<1>3. id \in DOMAIN ix /\ field \in DOMAIN ix[id]
  BY <1>1, <1>2
<1>4. PICK N \in Numbers(W32) : Analyzed(tokens, N) /\ N + M <= W32
  BY <1>3 DEF RoomFor
<1>5. W32 \in Nat \ {0} /\ N \in Nat /\ M <= W32 /\ N < W32
  <2>1. W32 \in Nat \ {0} /\ N \in Nat /\ N <= W32 - 1
    BY WidthsAssumption DEF Numbers
  <2> QED BY <2>1, <1>1, <1>4
<1>6. FieldTokens(ix, id, field) = ToSet(tokens)
  BY <1>3 DEF FieldTokens
<1>7. \A t \in ToSet(tokens) : t.position \in 0..N - 1
  <2>1. (\A k \in 1..Len(tokens) : tokens[k].position \in 0..N - 1) /\ tokens \in Seq(ToSet(tokens))
    BY <1>4 DEF Analyzed
  <2> QED BY <2>1 DEF ToSet
<1> HIDE DEF tokens, post, b, n
<1>8. ASSUME NEW k \in 1..n
      PROVE  /\ post(k) \in Seq(Numbers(W32)) /\ Increasing(post(k))
             /\ ElementsOf(post(k)) = PlacesOf(ix, id, field, words[k].term)
             /\ \A x \in ElementsOf(post(k)) : x \in 0..N - 1
  <2>1. PICK K \in Numbers(W32) : PositionsIn(post(k), tokens, words[k].term, K)
    BY <1>2
  <2>2. /\ post(k) \in Seq(Numbers(K)) /\ Increasing(post(k))
        /\ ElementsOf(post(k)) = {t.position : t \in {u \in ToSet(tokens) : u.term = words[k].term}}
    BY <2>1 DEF PositionsIn
  <2>3. Numbers(K) \subseteq Numbers(W32)
    <3>1. K \in 0..W32 - 1
      BY DEF Numbers
    <3>2. 0..K - 1 \subseteq 0..W32 - 1
      BY <3>1, <1>5
    <3> QED BY <3>2 DEF Numbers
  <2>4. post(k) \in Seq(Numbers(W32))
    <3> DEFINE s == post(k)
    <3>1. Len(s) \in Nat /\ s = [i \in 1..Len(s) |-> s[i]] /\ \A i \in 1..Len(s) : s[i] \in Numbers(K)
      BY <2>2
    <3> HIDE DEF s
    <3>2. s \in [1..Len(s) -> Numbers(W32)]
      BY <3>1, <2>3
    <3>3. s \in Seq(Numbers(W32))
      BY <3>1, <3>2, SequenceOf
    <3> QED BY <3>3 DEF s
  <2>5. ElementsOf(post(k)) = PlacesOf(ix, id, field, words[k].term)
    BY <2>2, <1>6 DEF PlacesOf
  <2> QED BY <2>2, <2>4, <2>5, <1>7
<1>9. p = [k \in 1..n |-> post(k)]
  BY DEF n, post, HasWords
<1>10. Len(p) = n /\ p # <<>> /\ p \in Seq(Seq(Numbers(W32))) /\ \A k \in 1..n : p[k] = post(k)
  <2> DEFINE V == Seq(Numbers(W32))
  <2>1. \A k \in 1..n : post(k) \in V
    BY <1>8
  <2> HIDE DEF V
  <2>2. p \in [1..n -> V] /\ \A k \in 1..n : p[k] = post(k)
    BY <2>1, <1>9
  <2>3. p \in Seq(V) /\ Len(p) = n
    BY <2>2, <1>1, SequenceOf
  <2>4. p # <<>>
    BY <2>3, <1>1
  <2> QED BY <2>2, <2>3, <2>4 DEF V
<1>11. b = [k \in 1..n |-> words[k].position - words[1].position] /\ DOMAIN b = 1..n
  BY DEF FromFirst, b, n
<1>12. b \in Seq(Numbers(W32)) /\ Len(b) = n
  <2>1. \A k \in 1..n : b[k] \in Numbers(W32)
    <3>1. \A k \in 1..n : b[k] \in 0..W32 - 1
      BY <1>1, <1>5
    <3> QED BY <3>1 DEF Numbers
  <2>2. b \in [1..n -> Numbers(W32)]
    BY <1>11, <2>1
  <2> QED BY <2>2, <1>1, SequenceOf
<1>13. Increasing(b)
  BY <1>1, <1>12 DEF Increasing
<1>14. ASSUME NEW k \in 2..n, NEW x \in ElementsOf(p[k - 1])
       PROVE  x + b[k] - b[k - 1] < W32
  <2>1. k \in 1..n /\ k - 1 \in 1..n
    BY <1>1
  <2>2. x \in 0..N - 1
    BY <2>1, <1>8, <1>10
  <2>3. b[k] \in 0..M - 1 /\ b[k - 1] \in 0..M - 1
    BY <2>1, <1>1
  <2>4. M \in Nat /\ N \in Nat /\ W32 \in Nat /\ N + M <= W32
    BY <1>1, <1>4, <1>5
  <2>5. \A u, v \in 0..M - 1 : x + u - v < W32
    BY <2>2, <2>4
  <2> QED BY <2>3, <2>5
<1>15. GoodPhrase(p, b)
  <2>1. Len(b) = Len(p) /\ p # <<>>
    BY <1>10, <1>12
  <2>2. \A k \in 1..Len(p) : Increasing(p[k])
    BY <1>8, <1>10
  <2>3. \A k \in 2..Len(p) : \A x \in ElementsOf(p[k - 1]) : x + b[k] - b[k - 1] < W32
    BY <1>10, <1>14
  <2> QED BY <2>1, <2>2, <2>3, <1>1, <1>10, <1>12, <1>13 DEF GoodPhrase
<1>16. [k \in 1..n |-> (words[k].position - words[1].position) % W32] = b
  <2>1. \A k \in 1..n : b[k] = words[k].position - words[1].position
    BY <1>11
  <2>2. \A k \in 1..n : b[k] \in 0..W32 - 1
    BY <1>1, <1>5
  <2>3. \A k \in 1..n : b[k] % W32 = b[k]
    BY <2>2, <1>5, SmallRemainder
  <2>4. \A k \in 1..n : (words[k].position - words[1].position) % W32 = words[k].position - words[1].position
    BY <2>1, <2>3
  <2> QED BY <2>4, <1>11
<1> QED BY <1>8, <1>10, <1>15, <1>16 DEF n, b, WordsArePlaced

\* The value of a phrase, half again that of its words.
PhraseWorth(ix, q) ==
  [id \in DOMAIN ix |->
     (3 * SumFunctionOnSet(
            [k \in 1..Len(Analyze(q.text)) |-> Worth(ix, id, q.field, Analyze(q.text)[k].term)],
            1..Len(Analyze(q.text)))) \div 2]

(* Phrase queries find the documents that hold the phrase.                  *)
LEMMA PhraseFinds ==
    ASSUME NEW ix, IndexOK(ix), NEW q, q.kind = "phrase", q.text \in Seq(Runes),
           q.slop \in Numbers(W32),
           RoomFor(ix, q.field, Len(StandardTokenize(q.text))), Analyze(q.text) # <<>>,
           NEW id \in DOMAIN ix, NEW p,
           p = [k \in 1..Len(Analyze(q.text)) |->
                  PostingsOf(ix, q.field, Analyze(q.text)[k].term)[id].positions],
           NEW relative,
           relative = [k \in 1..Len(Analyze(q.text)) |->
                         (Analyze(q.text)[k].position - Analyze(q.text)[1].position) % W32]
    PROVE  HoldsPhrase(ix, id, q) <=>
             /\ \A k \in 1..Len(Analyze(q.text)) : id \in Finds(ix, q.field, Analyze(q.text)[k].term)
             /\ PhrasePositionsMatch(p, relative, q.slop)
<1> DEFINE words == Analyze(q.text)
           n == Len(words)
           places(k) == PlacesOf(ix, id, q.field, words[k].term)
           lists == [k \in 1..n |-> SetToSeq(places(k))]
           All == \A k \in 1..n : id \in Finds(ix, q.field, words[k].term)
<1>1. Analyzed(words, Len(StandardTokenize(q.text)))
  BY AnalyzeIs
<1>2. HoldsPhrase(ix, id, q) <=> PlacementExists(lists, FromFirst(words), q.slop)
  BY DEF HoldsPhrase, PlacesOf, FromFirst
<1>3. n \in Nat \ {0}
  <2>1. words # <<>>
    OBVIOUS
  <2> HIDE DEF words
  <2> QED BY <1>1, <2>1, BehindIs
<1>4. Len(lists) = n /\ \A k \in 1..n : lists[k] = SetToSeq(places(k))
  BY <1>3
<1>5. ASSUME NEW k \in 1..n
      PROVE  /\ IsFiniteSet(places(k))
             /\ id \in Finds(ix, q.field, words[k].term) <=> places(k) # {}
  <2> DEFINE F == FieldTokens(ix, id, q.field)
             term == words[k].term
             S == {u \in F : u.term = term}
  <2>1. id \in Finds(ix, q.field, term) <=> S # {}
    BY DEF Finds, FieldTerms
  <2>2. places(k) = {t.position : t \in S}
    BY DEF PlacesOf
  <2>3. IsFiniteSet(F)
    <3>1. CASE q.field \in DOMAIN ix[id]
      <4> DEFINE tokens == ix[id][q.field]
                 m == Len(tokens)
      <4>1. PICK N \in Numbers(W32) : Analyzed(tokens, N)
        BY <3>1 DEF IndexOK
      <4>2. m \in Nat /\ tokens \in Seq(ToSet(tokens))
        BY <4>1 DEF Analyzed
      <4>3. ToSet(tokens) = {tokens[j] : j \in 1..m} /\ DOMAIN tokens = 1..m
        <5> DEFINE V == ToSet(tokens)
        <5>1. tokens \in Seq(V)
          BY <4>2
        <5> HIDE DEF V, tokens
        <5>2. DOMAIN tokens = 1..m
          BY <5>1
        <5> QED BY <5>2 DEF ToSet
      <4>4. IsFiniteSet(1..m)
        BY <4>2, UpToNumber
      <4>5. IsFiniteSet(ToSet(tokens))
        <5> DEFINE D == 1..m
        <5>1. IsFiniteSet(D) /\ DOMAIN tokens = D
          BY <4>3, <4>4
        <5> HIDE DEF D, tokens
        <5>2. IsFiniteSet({tokens[j] : j \in D})
          BY <5>1, ImageIsFinite
        <5> QED BY <5>2, <4>3 DEF D
      <4> QED BY <3>1, <4>5, FieldTokensAre
    <3>2. CASE q.field \notin DOMAIN ix[id]
      <4>1. F = {}
        BY <3>2 DEF FieldTokens
      <4> QED BY <4>1, FS_EmptySet
    <3> QED BY <3>1, <3>2
  <2>4. IsFiniteSet(S)
    <3> HIDE DEF F, term
    <3> QED BY <2>3, FS_Subset
  <2>5. IsFiniteSet({t.position : t \in S})
    <3> DEFINE f == [t \in S |-> t.position]
    <3>1. DOMAIN f = S /\ {f[t] : t \in S} = {t.position : t \in S}
      OBVIOUS
    <3> HIDE DEF S, f
    <3>2. IsFiniteSet({f[t] : t \in S})
      BY <2>4, <3>1, ImageIsFinite
    <3> QED BY <3>1, <3>2
  <2>6. {t.position : t \in S} # {} <=> S # {}
    OBVIOUS
  <2> HIDE DEF S, places
  <2> QED BY <2>1, <2>2, <2>5, <2>6
<1>6. \A k \in 1..n : ElementsOf(lists[k]) = places(k)
  <2> HIDE DEF places, lists, n
  <2> QED BY <1>4, <1>5, ElementsOfList
<1>7. CASE ~All
  <2>1. PICK k \in 1..n : places(k) = {}
    BY <1>5, <1>7
  <2>2. ElementsOf(lists[k]) = {}
    BY <1>6, <2>1
  <2> HIDE DEF lists, n
  <2>3. ~PlacementExists(lists, FromFirst(words), q.slop)
    BY <1>4, <2>2 DEF PlacementExists
  <2> HIDE DEF All
  <2> QED BY <1>2, <1>7, <2>3 DEF All, n
<1>8. CASE All
  <2>1. /\ GoodPhrase(p, FromFirst(words))
        /\ Len(p) = n
        /\ \A k \in 1..n : ElementsOf(p[k]) = places(k)
        /\ relative = FromFirst(words)
    <3> DEFINE M == Len(StandardTokenize(q.text))
    <3>1. Analyzed(words, M) /\ words # <<>> /\ RoomFor(ix, q.field, M)
      BY <1>1
    <3>2. \A k \in 1..Len(words) : id \in Finds(ix, q.field, words[k].term)
      BY <1>8
    <3>3. p = [k \in 1..Len(words) |-> PostingsOf(ix, q.field, words[k].term)[id].positions]
      OBVIOUS
    <3>4. relative = [k \in 1..Len(words) |-> (words[k].position - words[1].position) % W32]
      OBVIOUS
    <3>5. HasWords(ix, q.field, words, id, p)
      BY <3>2, <3>3 DEF HasWords
    <3>6. WordsArePlaced(ix, q.field, words, id, p)
      <4> HIDE DEF M, words
      <4> QED BY <3>1, <3>5, PhraseIsGood
    <3> HIDE DEF words
    <3> QED BY <3>4, <3>6 DEF WordsArePlaced
  <2>2. PhraseIsExact(p, FromFirst(words), q.slop)
    BY <2>1, PhrasesMatchExactly
  <2>3. PhrasePositionsMatch(p, relative, q.slop) <=> PlacementExists(p, FromFirst(words), q.slop)
    BY <2>1, <2>2 DEF PhraseIsExact
  <2>4. PlacementExists(p, FromFirst(words), q.slop) <=> PlacementExists(lists, FromFirst(words), q.slop)
    <3>1. /\ Len(p) = Len(lists)
          /\ \A k \in 1..Len(p) : ElementsOf(p[k]) = ElementsOf(lists[k])
          /\ \A k \in 1..Len(lists) : ElementsOf(lists[k]) = ElementsOf(p[k])
      BY <1>4, <1>6, <2>1
    <3> DEFINE gaps == FromFirst(words)
               slop == q.slop
    <3> HIDE DEF lists, words, gaps, slop
    <3>2. PlacementExists(p, gaps, slop) => PlacementExists(lists, gaps, slop)
      BY <3>1, PlacementDepends
    <3>3. PlacementExists(lists, gaps, slop) => PlacementExists(p, gaps, slop)
      BY <3>1, PlacementDepends
    <3> QED BY <3>2, <3>3 DEF gaps, slop
  <2> HIDE DEF lists
  <2> QED BY <1>2, <1>8, <2>3, <2>4
<1> QED BY <1>7, <1>8

(* Phrase queries score the documents that hold the phrase.                 *)
LEMMA PhraseIs ==
    ASSUME NEW ix, IndexOK(ix), NEW q, q.kind = "phrase", q.text \in Seq(Runes),
           q.slop \in Numbers(W32), RoomFor(ix, q.field, Len(StandardTokenize(q.text)))
    PROVE  ExactScores(PhraseScores(ix, q), ix, {id \in DOMAIN ix : HoldsPhrase(ix, id, q)},
                     PhraseWorth(ix, q))
<1> DEFINE words == Analyze(q.text)
           n == Len(words)
           I == DOMAIN ix
           found == {id \in I : HoldsPhrase(ix, id, q)}
           v == PhraseWorth(ix, q)
<1>1. Analyzed(words, Len(StandardTokenize(q.text)))
  BY AnalyzeIs
<1>2. CASE words = <<>>
  <2>1. n = 0
    BY <1>2
  <2>2. PhraseScores(ix, q) = NoScores
    BY <2>1 DEF PhraseScores
  <2>3. found = {}
    BY <1>2 DEF HoldsPhrase
  <2>4. NoScores \in ScoreMaps(DOMAIN ix) /\ DOMAIN NoScores = {}
    BY NoScoresAre
  <2> QED BY <2>2, <2>3, <2>4 DEF ExactScores
<1>3. CASE words # <<>>
  <2> DEFINE term(k) == words[k].term
             postings == [k \in 1..n |-> PostingsOf(ix, q.field, words[k].term)]
             relative == [k \in 1..n |-> (words[k].position - words[1].position) % W32]
             p(id) == [k \in 1..n |-> postings[k][id].positions]
             hits == {id \in DOMAIN ix : /\ \A k \in 1..n : id \in DOMAIN postings[k]
                                         /\ PhrasePositionsMatch(p(id), relative, q.slop)}
             maps == [k \in 1..n |-> TermScores(ix, q.field, words[k].term)]
             T == Total(maps)
             s == PhraseScores(ix, q)
  <2>1. n \in Nat \ {0}
    <3> HIDE DEF words
    <3> QED BY <1>1, <1>3, BehindIs
  <2>2. s = [id \in hits |-> (T[id] * 3) \div 2]
    <3>1. n # 0
      BY <2>1
    <3> QED BY <3>1 DEF PhraseScores
  <2>3. ASSUME NEW id \in I
        PROVE  id \in hits <=> HoldsPhrase(ix, id, q)
    <3>1. p(id) = [k \in 1..n |-> PostingsOf(ix, q.field, words[k].term)[id].positions]
      OBVIOUS
    <3>2. HoldsPhrase(ix, id, q) <=>
            /\ \A k \in 1..n : id \in Finds(ix, q.field, words[k].term)
            /\ PhrasePositionsMatch(p(id), relative, q.slop)
      <4> DEFINE pp == p(id)
                 rr == relative
      <4>1. pp = [k \in 1..Len(Analyze(q.text)) |->
                  PostingsOf(ix, q.field, Analyze(q.text)[k].term)[id].positions]
        BY <3>1
      <4>2. rr = [k \in 1..Len(Analyze(q.text)) |->
                         (Analyze(q.text)[k].position - Analyze(q.text)[1].position) % W32]
        OBVIOUS
      <4>3. Analyze(q.text) # <<>>
        BY <1>3
      <4> HIDE DEF pp, rr
      <4>4. HoldsPhrase(ix, id, q) <=>
             /\ \A k \in 1..Len(Analyze(q.text)) : id \in Finds(ix, q.field, Analyze(q.text)[k].term)
             /\ PhrasePositionsMatch(pp, rr, q.slop)
        BY <4>1, <4>2, <4>3, PhraseFinds
      <4> QED BY <4>4 DEF pp, rr
    <3>3. \A k \in 1..n : DOMAIN postings[k] = Finds(ix, q.field, words[k].term)
      BY PostingsAre
    <3> HIDE DEF words, postings, relative, p
    <3> QED BY <3>2, <3>3
  <2>4. hits = found
    <3>1. hits \subseteq I
      OBVIOUS
    <3> HIDE DEF hits
    <3> QED BY <2>3, <3>1
  <2>5. \A k \in 1..n : maps[k] \in ScoreMaps(I) /\ DOMAIN maps[k] = Finds(ix, q.field, term(k))
    BY TermScoresAre
  <2>6. DOMAIN maps = 1..n /\ IsFiniteSet(DOMAIN maps)
    BY <2>1, UpToNumber
  <2>7. T \in ScoreMaps(I)
    <3> HIDE DEF maps, I
    <3> QED BY <2>5, <2>6, TotalIs
  <2>8. ASSUME NEW id \in found
        PROVE  s[id] = v[id] /\ s[id] \in Int
    <3> DEFINE w == [k \in 1..n |-> Worth(ix, id, q.field, words[k].term)]
               sum == SumFunctionOnSet(w, 1..n)
    <3>1. id \in I /\ id \in hits
      BY <2>4
    <3>2. \A k \in 1..n : id \in DOMAIN postings[k]
      BY <3>1
    <3>3. \A k \in 1..n : id \in Finds(ix, q.field, words[k].term)
      BY <3>2, PostingsAre
    <3>4. \A k \in 1..n : maps[k][id] = w[k] /\ id \in DOMAIN maps[k]
      BY <3>3, TermScoresAre
    <3>5. ScoreOf(T, id) = sum
      <4> DEFINE M == 1..n
      <4>1. M = {k \in DOMAIN maps : id \in DOMAIN maps[k]}
        BY <2>6, <3>4
      <4>2. \A k \in M : w[k] = maps[k][id]
        BY <3>4
      <4>3. \A k \in DOMAIN maps : maps[k] \in ScoreMaps(I)
        BY <2>5
      <4> HIDE DEF M, w, maps, I
      <4>4. ScoreOf(Total(maps), id) = SumFunctionOnSet(w, M)
        BY <2>6, <4>1, <4>2, <4>3, TotalAdds
      <4> QED BY <4>4 DEF M
    <3>6. id \in DOMAIN T
      <4>1. 1 \in 1..n
        BY <2>1
      <4>2. 1 \in DOMAIN maps /\ id \in DOMAIN maps[1]
        BY <4>1, <2>6, <3>4
      <4> HIDE DEF maps, I
      <4>3. \A d : d \in DOMAIN T <=> \E k \in DOMAIN maps : d \in DOMAIN maps[k]
        BY <2>5, <2>6, TotalIs
      <4> QED BY <4>2, <4>3
    <3>7. T[id] = sum /\ T[id] \in Int
      <4> HIDE DEF T, sum, I
      <4>1. ScoreOf(T, id) \in Int
        BY <2>7, ScoresInMaps
      <4> QED BY <3>5, <3>6, <4>1 DEF ScoreOf
    <3>8. s[id] = (T[id] * 3) \div 2
      <4> HIDE DEF T, hits, s
      <4> QED BY <2>2, <3>1
    <3>9. v[id] = (3 * sum) \div 2
      BY <3>1 DEF PhraseWorth
    <3> HIDE DEF T, sum, s, v
    <3>10. T[id] * 3 = 3 * sum /\ (T[id] * 3) \div 2 \in Int
      BY <3>7
    <3> QED BY <3>8, <3>9, <3>10
  <2>9. DOMAIN s = found /\ s = [id \in found |-> s[id]]
    <3> HIDE DEF hits, found, T, s
    <3> QED BY <2>2, <2>4
  <2>10. found \in SUBSET I
    OBVIOUS
  <2> HIDE DEF s, found, v, I
  <2>11. s \in ScoreMaps(I)
    BY <2>8, <2>9, <2>10, ScoreMapsAre
  <2> QED BY <2>8, <2>9, <2>10, <2>11 DEF ExactScores, s, found, v, I
<1> QED BY <1>2, <1>3

-----------------------------------------------------------------------------
(* Boolean queries.                                                         *)

\* The documents that the lists of clauses leave, by what each clause finds.
Admits(ix, must, should, mustNot, id) ==
  /\ id \in DOMAIN ix
  /\ \A k \in 1..Len(must) : id \in DOMAIN must[k]
  /\ \A k \in 1..Len(mustNot) : id \notin DOMAIN mustNot[k]
  /\ \/ must # <<>>
     \/ \E k \in 1..Len(should) : id \in DOMAIN should[k]
     \/ should = <<>> /\ mustNot # <<>>

\* What clauses score together.
ClauseSum(clauses, id) ==
  SumFunctionOnSet([k \in 1..Len(clauses) |-> ScoreOf(clauses[k], id)], 1..Len(clauses))

\* The scores s before the excluded documents are left out.
CandidatesAre(s, ix, must, should, mustNot) ==
  /\ s \in ScoreMaps(DOMAIN ix)
  /\ \A id : id \in DOMAIN s <=>
       /\ id \in DOMAIN ix
       /\ \A k \in 1..Len(must) : id \in DOMAIN must[k]
       /\ \/ must # <<>>
          \/ \E k \in 1..Len(should) : id \in DOMAIN should[k]
          \/ should = <<>> /\ mustNot # <<>>
  /\ \A id \in DOMAIN s : s[id] = ClauseSum(must, id) + ClauseSum(should, id)

(* No clauses score nothing.                                                *)
LEMMA NoClauses ==
    ASSUME NEW id
    PROVE  ClauseSum(<<>>, id) = 0
<1> DEFINE w == [k \in 1..Len(<<>>) |-> ScoreOf(<<>>[k], id)]
<1>1. 1..Len(<<>>) = {}
  OBVIOUS
<1>2. ClauseSum(<<>>, id) = SumFunctionOnSet(w, {})
  BY <1>1 DEF ClauseSum
<1> HIDE DEF w
<1>3. IsFiniteSet({}) /\ \A x \in {} : w[x] \in Int
  BY FS_EmptySet
<1>4. PICK f : Sums(f, w, {}) /\ SumFunctionOnSet(w, {}) = f[{}]
  BY <1>3, SumIsFunction
<1> QED BY <1>2, <1>4 DEF Sums

(* What clauses score together is a number.                                 *)
LEMMA SumOfClauses ==
    ASSUME NEW I, NEW clauses \in Seq(ScoreMaps(I)), NEW id
    PROVE  ClauseSum(clauses, id) \in Int
<1> DEFINE n == Len(clauses)
           w == [k \in 1..n |-> ScoreOf(clauses[k], id)]
<1>1. n \in Nat /\ \A k \in 1..n : clauses[k] \in ScoreMaps(I)
  <2> DEFINE V == ScoreMaps(I)
  <2> HIDE DEF V
  <2>1. clauses \in Seq(V)
    BY DEF V
  <2>2. n \in Nat /\ \A k \in 1..n : clauses[k] \in V
    BY <2>1
  <2> QED BY <2>2 DEF V
<1>2. \A k \in 1..n : w[k] \in Int
  <2>1. \A k \in 1..n : ScoreOf(clauses[k], id) \in Int
    BY <1>1, ScoresInMaps
  <2> QED BY <2>1
<1> HIDE DEF w
<1>3. PICK g : Running(g, w, n) /\ SumFunctionOnSet(w, 1..n) = g[n]
  <2> HIDE DEF n
  <2> QED BY <1>1, <1>2, SumInOrder
<1>4. g[n] \in Int
  <2>1. n \in 0..n
    BY <1>1
  <2> HIDE DEF n
  <2> QED BY <1>3, <2>1 DEF Running
<1> QED BY <1>3, <1>4 DEF ClauseSum, w

\* The scores before the excluded documents are left out.
CandidatesOf(ix, must, should, mustNot) ==
  IF must = <<>> /\ should = <<>>
  THEN [id \in (IF mustNot = <<>> THEN {} ELSE DOMAIN ix) |-> 0]
  ELSE Boosted(IF must = <<>> THEN NoScores ELSE Required(must), should, must # <<>>)

(* Required clauses are intersected, and optional ones add to them or are   *)
(* united.                                                                  *)
LEMMA CandidatesAreExact ==
    ASSUME NEW ix, NEW must \in Seq(ScoreMaps(DOMAIN ix)), NEW should \in Seq(ScoreMaps(DOMAIN ix)),
           NEW mustNot
    PROVE  CandidatesAre(CandidatesOf(ix, must, should, mustNot), ix, must, should, mustNot)
<1> DEFINE I == DOMAIN ix
           V == ScoreMaps(I)
           s == CandidatesOf(ix, must, should, mustNot)
<1>0. /\ must \in Seq(V) /\ should \in Seq(V)
      /\ Len(must) \in Nat /\ Len(should) \in Nat
      /\ (\A k \in 1..Len(must) : must[k] \in V) /\ \A k \in 1..Len(should) : should[k] \in V
  <2> HIDE DEF V
  <2>1. must \in Seq(V) /\ should \in Seq(V)
    BY DEF V
  <2> QED BY <2>1
<1>1. /\ \A k \in 1..Len(must) : DOMAIN must[k] \subseteq I
      /\ \A k \in 1..Len(should) : DOMAIN should[k] \subseteq I
  <2> HIDE DEF I
  <2> QED BY <1>0, ScoresInMaps
<1>2. CASE must = <<>> /\ should = <<>>
  <2> DEFINE A == IF mustNot = <<>> THEN {} ELSE I
  <2>1. s = [id \in A |-> 0]
    BY <1>2 DEF CandidatesOf
  <2>2. A \in SUBSET I
    OBVIOUS
  <2>3. Len(must) = 0 /\ Len(should) = 0 /\ 1..0 = {}
    BY <1>2
  <2>4. \A id : ClauseSum(must, id) = 0 /\ ClauseSum(should, id) = 0
    BY <1>2, NoClauses
  <2>5. A = {id \in I : mustNot # <<>>}
    OBVIOUS
  <2> HIDE DEF s, A
  <2>6. DOMAIN s = A /\ s = [id \in A |-> s[id]] /\ \A id \in A : s[id] = 0
    BY <2>1
  <2>7. \A id \in A : s[id] \in Int
    BY <2>6
  <2>8. s \in ScoreMaps(I)
    <3> HIDE DEF I
    <3> QED BY <2>2, <2>6, <2>7, ScoreMapsAre
  <2> QED BY <1>2, <2>3, <2>4, <2>5, <2>6, <2>8 DEF CandidatesAre, s
<1>3. CASE must = <<>> /\ should # <<>>
  <2>1. s = Boosted(NoScores, should, FALSE)
    BY <1>3 DEF CandidatesOf
  <2>2. NoScores \in V /\ DOMAIN NoScores = {} /\ \A id : ScoreOf(NoScores, id) = 0
    BY NoScoresAre
  <2>3. /\ s \in V
        /\ \A id : id \in DOMAIN s <=> \E k \in 1..Len(should) : id \in DOMAIN should[k]
    <3>1. FALSE \in BOOLEAN
      OBVIOUS
    <3> HIDE DEF s, I
    <3> DEFINE b == Boosted(NoScores, should, FALSE)
    <3>2. /\ b \in ScoreMaps(I)
          /\ \A id : id \in DOMAIN b <=>
                       \/ id \in DOMAIN NoScores
                       \/ ~FALSE /\ \E k \in 1..Len(should) : id \in DOMAIN should[k]
      BY <3>1, <1>0, <2>2, BoostedIs
    <3> HIDE DEF b
    <3>3. s = b
      BY <2>1 DEF b
    <3> QED BY <2>2, <3>2, <3>3
  <2>4. ASSUME NEW id \in DOMAIN s PROVE s[id] = ClauseSum(must, id) + ClauseSum(should, id)
    <3> DEFINE w == [k \in 1..Len(should) |-> ScoreOf(should[k], id)]
    <3>1. \A k \in 1..Len(should) : w[k] = ScoreOf(should[k], id)
      OBVIOUS
    <3>2. ScoreOf(Boosted(NoScores, should, FALSE), id) =
            ScoreOf(NoScores, id) + SumFunctionOnSet(w, 1..Len(should))
      <4> DEFINE o == FALSE
                 a == NoScores
      <4>1. o \in BOOLEAN /\ (o => id \in DOMAIN a) /\ a \in ScoreMaps(I)
        BY <2>2
      <4>2. should \in Seq(ScoreMaps(I))
        BY <1>0
      <4> HIDE DEF w, I, o, a
      <4>3. ScoreOf(Boosted(a, should, o), id) = ScoreOf(a, id) + SumFunctionOnSet(w, 1..Len(should))
        BY <4>1, <4>2, <3>1, BoostedAdds
      <4> QED BY <4>3 DEF o, a
    <3>3. SumFunctionOnSet(w, 1..Len(should)) = ClauseSum(should, id)
      BY DEF ClauseSum
    <3>4. ClauseSum(should, id) \in Int
      <4> HIDE DEF I
      <4> QED BY <1>0, SumOfClauses
    <3>5. ClauseSum(must, id) = 0
      BY <1>3, NoClauses
    <3>6. ScoreOf(s, id) = s[id]
      <4> HIDE DEF s
      <4> QED BY DEF ScoreOf
    <3> HIDE DEF s, w
    <3>7. s[id] = 0 + ClauseSum(should, id)
      BY <2>1, <2>2, <3>2, <3>3, <3>6
    <3> QED BY <3>4, <3>5, <3>7
  <2>5. Len(must) = 0 /\ 1..0 = {}
    BY <1>3
  <2>6. \A id : id \in DOMAIN s <=>
          /\ id \in I
          /\ \A k \in 1..Len(must) : id \in DOMAIN must[k]
          /\ \/ must # <<>>
             \/ \E k \in 1..Len(should) : id \in DOMAIN should[k]
             \/ should = <<>> /\ mustNot # <<>>
    <3> HIDE DEF s, I, V
    <3> QED BY <1>1, <1>3, <2>3, <2>5
  <2> HIDE DEF s
  <2> QED BY <2>3, <2>4, <2>6 DEF CandidatesAre, s
<1>4. CASE must # <<>>
  <2> DEFINE r == Required(must)
  <2>1. s = Boosted(r, should, TRUE)
    BY <1>4 DEF CandidatesOf
  <2>2. r \in V /\ \A id : id \in DOMAIN r <=> \A k \in 1..Len(must) : id \in DOMAIN must[k]
    <3> HIDE DEF I
    <3> QED BY <1>0, <1>4, RequiredIs
  <2>3. /\ s \in V
        /\ \A id : id \in DOMAIN s <=> id \in DOMAIN r
    <3>1. TRUE \in BOOLEAN
      OBVIOUS
    <3> HIDE DEF s, I, r
    <3> DEFINE b == Boosted(r, should, TRUE)
    <3>2. /\ b \in ScoreMaps(I)
          /\ \A id : id \in DOMAIN b <=>
                       \/ id \in DOMAIN r
                       \/ ~TRUE /\ \E k \in 1..Len(should) : id \in DOMAIN should[k]
      BY <3>1, <1>0, <2>2, BoostedIs
    <3> HIDE DEF b
    <3>3. s = b
      BY <2>1 DEF b
    <3> QED BY <3>2, <3>3
  <2>4. ASSUME NEW id \in DOMAIN s PROVE s[id] = ClauseSum(must, id) + ClauseSum(should, id)
    <3> DEFINE w == [k \in 1..Len(should) |-> ScoreOf(should[k], id)]
               u == [k \in 1..Len(must) |-> ScoreOf(must[k], id)]
    <3>0. id \in DOMAIN r /\ \A k \in 1..Len(must) : id \in DOMAIN must[k]
      <4> HIDE DEF s, r
      <4> QED BY <2>2, <2>3
    <3>1. /\ \A k \in 1..Len(should) : w[k] = ScoreOf(should[k], id)
          /\ \A k \in 1..Len(must) : u[k] = must[k][id]
      BY <3>0 DEF ScoreOf
    <3>2. ScoreOf(Boosted(r, should, TRUE), id) =
            ScoreOf(r, id) + SumFunctionOnSet(w, 1..Len(should))
      <4> DEFINE o == TRUE
                 a == r
      <4>1. o \in BOOLEAN /\ (o => id \in DOMAIN a) /\ a \in ScoreMaps(I)
        BY <3>0, <2>2
      <4>2. should \in Seq(ScoreMaps(I))
        BY <1>0
      <4> HIDE DEF w, I, o, a
      <4>3. ScoreOf(Boosted(a, should, o), id) = ScoreOf(a, id) + SumFunctionOnSet(w, 1..Len(should))
        BY <4>1, <4>2, <3>1, BoostedAdds
      <4> QED BY <4>3 DEF o, a
    <3>3. r[id] = SumFunctionOnSet(u, 1..Len(must))
      <4> HIDE DEF u, I
      <4> QED BY <3>0, <3>1, <1>0, <1>4, RequiredAdds
    <3>4. /\ SumFunctionOnSet(w, 1..Len(should)) = ClauseSum(should, id)
          /\ SumFunctionOnSet(u, 1..Len(must)) = ClauseSum(must, id)
      BY DEF ClauseSum
    <3>5. ScoreOf(s, id) = s[id] /\ ScoreOf(r, id) = r[id]
      <4> HIDE DEF s, r
      <4> QED BY <3>0 DEF ScoreOf
    <3> HIDE DEF s, w, u, r
    <3> QED BY <2>1, <3>2, <3>3, <3>4, <3>5
  <2>5. \A id : id \in DOMAIN s => id \in I
    <3> HIDE DEF s, I
    <3> QED BY <2>3, ScoresInMaps
  <2>6. \A id : id \in DOMAIN s <=>
          /\ id \in I
          /\ \A k \in 1..Len(must) : id \in DOMAIN must[k]
          /\ \/ must # <<>>
             \/ \E k \in 1..Len(should) : id \in DOMAIN should[k]
             \/ should = <<>> /\ mustNot # <<>>
    <3> HIDE DEF s, I, V, r
    <3> QED BY <1>4, <2>2, <2>3, <2>5
  <2> HIDE DEF s
  <2> QED BY <2>3, <2>4, <2>6 DEF CandidatesAre, s
<1> QED BY <1>2, <1>3, <1>4 DEF s

(* Boolean queries find what their clauses leave, and add up what they      *)
(* score.                                                                   *)
LEMMA BooleanIs ==
    ASSUME NEW ix, NEW must \in Seq(ScoreMaps(DOMAIN ix)), NEW should \in Seq(ScoreMaps(DOMAIN ix)),
           NEW mustNot
    PROVE  ExactScores(BooleanScores(ix, must, should, mustNot), ix,
                     {id \in DOMAIN ix : Admits(ix, must, should, mustNot, id)},
                     [id \in DOMAIN ix |-> ClauseSum(must, id) + ClauseSum(should, id)])
<1> DEFINE I == DOMAIN ix
           c == CandidatesOf(ix, must, should, mustNot)
           excluded == UNION {DOMAIN mustNot[k] : k \in 1..Len(mustNot)}
           ids == DOMAIN c \ excluded
           found == {id \in I : Admits(ix, must, should, mustNot, id)}
           v == [id \in I |-> ClauseSum(must, id) + ClauseSum(should, id)]
           s == BooleanScores(ix, must, should, mustNot)
<1>1. s = Only(c, ids)
  BY DEF BooleanScores, CandidatesOf
<1>2. CandidatesAre(c, ix, must, should, mustNot)
  BY CandidatesAreExact
<1>3. \A id : id \in excluded <=> \E k \in 1..Len(mustNot) : id \in DOMAIN mustNot[k]
  OBVIOUS
<1> HIDE DEF c, excluded
<1>4. c \in ScoreMaps(I) /\ \A id \in DOMAIN c : c[id] = ClauseSum(must, id) + ClauseSum(should, id)
  BY <1>2 DEF CandidatesAre
<1>5. found = ids
  <2>1. \A id : id \in DOMAIN c => id \in I
    BY <1>2 DEF CandidatesAre
  <2>2. \A id : Admits(ix, must, should, mustNot, id) <=> id \in DOMAIN c /\ id \notin excluded
    BY <1>2, <1>3 DEF CandidatesAre, Admits
  <2> QED BY <2>1, <2>2
<1>6. /\ Only(c, ids) \in ScoreMaps(I)
      /\ DOMAIN Only(c, ids) = DOMAIN c \cap ids
      /\ \A id \in DOMAIN c \cap ids : Only(c, ids)[id] = c[id]
  <2> HIDE DEF ids, I
  <2> QED BY <1>4, OnlyIs
<1>7. DOMAIN c \cap ids = ids /\ ids \subseteq DOMAIN c
  OBVIOUS
<1>8. found \subseteq I
  OBVIOUS
<1>9. \A id \in I : v[id] = ClauseSum(must, id) + ClauseSum(should, id)
  OBVIOUS
<1> HIDE DEF ids, found, v, s
<1>10. \A id \in found : s[id] = v[id]
  BY <1>1, <1>4, <1>5, <1>6, <1>7, <1>8, <1>9
<1>11. DOMAIN s = found
  BY <1>1, <1>5, <1>6, <1>7
<1> QED BY <1>1, <1>6, <1>8, <1>10, <1>11 DEF ExactScores, found, v, s

-----------------------------------------------------------------------------
(* Queries that nest.                                                       *)

\* The queries of a lower rank than q.
Earlier(queries, rank, q) == {c \in queries : rank[c] < rank[q]}

\* What a query is.
KnownQuery(queries, rank, q) ==
  \/ q.kind = "term"
  \/ q.kind = "prefix"
  \/ q.kind = "fuzzy" /\ q.term \in Seq(Runes) /\ q.maxEdits \in Int
  \/ q.kind = "match" /\ q.text \in Seq(Runes)
  \/ q.kind = "phrase" /\ q.text \in Seq(Runes) /\ q.slop \in Numbers(W32)
  \/ /\ q.kind = "boolean"
     /\ q.must \in Seq(Earlier(queries, rank, q)) /\ q.should \in Seq(Earlier(queries, rank, q)) /\ q.mustNot \in Seq(Earlier(queries, rank, q))

\* Queries with their clauses, which have a lower rank.
Nested(queries, rank) ==
  /\ rank \in [queries -> Nat]
  /\ \E n \in Nat : \A q \in queries : rank[q] < n
  /\ \A q \in queries : KnownQuery(queries, rank, q)

\* What is executed, found and scored for a query, when the clauses have been.
ScoresAt(scores, ix, q) ==
  LET all(clauses) == [k \in 1..Len(clauses) |-> scores[clauses[k]]]
  IN  CASE q.kind = "term" -> IF q.field = <<>> \/ q.term = <<>> THEN NoScores
                              ELSE TermScores(ix, q.field, q.term)
        [] q.kind = "match"   -> MatchScores(ix, q)
        [] q.kind = "phrase"  -> PhraseScores(ix, q)
        [] q.kind = "prefix"  -> PrefixScores(ix, q)
        [] q.kind = "fuzzy"   -> FuzzyScores(ix, q)
        [] q.kind = "boolean" ->
             BooleanScores(ix, all(q.must), all(q.should), all(q.mustNot))

FoundAt(found, ix, q) ==
  {id \in DOMAIN ix :
     \/ q.kind = "term" /\ q.term \in FieldTerms(ix, id, q.field)
     \/ q.kind \in {"match", "prefix", "fuzzy"} /\ MatchedTerms(ix, id, q) # {}
     \/ q.kind = "phrase" /\ HoldsPhrase(ix, id, q)
     \/ /\ q.kind = "boolean"
        /\ \A k \in 1..Len(q.must) : id \in found[q.must[k]]
        /\ \A k \in 1..Len(q.mustNot) : id \notin found[q.mustNot[k]]
        /\ \/ q.must # <<>>
           \/ \E k \in 1..Len(q.should) : id \in found[q.should[k]]
           \/ q.should = <<>> /\ q.mustNot # <<>>}

ValueAt(worth, ix, q, id) ==
  LET matched == MatchedTerms(ix, id, q)
      words   == Analyze(q.text)
      sum(clauses) == SumFunctionOnSet([k \in 1..Len(clauses) |-> worth[clauses[k]][id]],
                                       1..Len(clauses))
  IN  CASE q.kind = "term" -> Worth(ix, id, q.field, q.term)
        [] q.kind \in {"match", "prefix"} ->
             SumFunctionOnSet([t \in matched |-> Worth(ix, id, q.field, t)], matched)
        [] q.kind = "fuzzy" ->
             SumFunctionOnSet(
               [t \in matched |-> Worth(ix, id, q.field, t) \div
                  (1 + EditDistance(Analyze(q.term)[1].term, t))], matched)
        [] q.kind = "phrase" ->
             (3 * SumFunctionOnSet(
                    [k \in 1..Len(words) |-> Worth(ix, id, q.field, words[k].term)],
                    1..Len(words))) \div 2
        [] q.kind = "boolean" -> sum(q.must) + sum(q.should)

\* An index in which there is room for the phrases that are asked.
Ready(queries, ix) ==
  /\ IndexOK(ix)
  /\ \A q \in queries : q.kind = "phrase" => RoomFor(ix, q.field, Len(StandardTokenize(q.text)))

\* The scores, the documents found and their values agree for some queries.
Agree(scores, found, worth, ix, queries) ==
  \A c \in queries : /\ scores[c] \in ScoreMaps(DOMAIN ix)
                     /\ found[c] = DOMAIN scores[c]
                     /\ worth[c] = [id \in DOMAIN ix |-> ScoreOf(scores[c], id)]

(* A query on one field is executed exactly.                                *)
LEMMA OneFieldStep ==
    ASSUME NEW queries, NEW rank, Nested(queries, rank),
           NEW ix, Ready(queries, ix), NEW q \in queries, q.kind # "boolean", NEW scores, NEW found, NEW worth
    PROVE  ExactScores(ScoresAt(scores, ix, q), ix, FoundAt(found, ix, q),
                     [id \in DOMAIN ix |-> ValueAt(worth, ix, q, id)])
<1> DEFINE I == DOMAIN ix
           s == ScoresAt(scores, ix, q)
           F == FoundAt(found, ix, q)
           v == [id \in I |-> ValueAt(worth, ix, q, id)]
<1>1. IndexOK(ix)
  BY DEF Ready
<1>2. KnownQuery(queries, rank, q)
  BY DEF Nested
<1>3. CASE q.kind = "term"
  <2>1. s = IF q.field = <<>> \/ q.term = <<>> THEN NoScores ELSE TermScores(ix, q.field, q.term)
    BY <1>3 DEF ScoresAt
  <2>2. F = Finds(ix, q.field, q.term)
    BY <1>3 DEF FoundAt, Finds
  <2>3. v = [id \in I |-> Worth(ix, id, q.field, q.term)]
    BY <1>3 DEF ValueAt
  <2> HIDE DEF s, F, v
  <2>4. ExactScores(IF q.field = <<>> \/ q.term = <<>> THEN NoScores ELSE TermScores(ix, q.field, q.term),
                   ix, Finds(ix, q.field, q.term), [id \in I |-> Worth(ix, id, q.field, q.term)])
    BY <1>1, TermIs
  <2> QED BY <2>1, <2>2, <2>3, <2>4 DEF s, F, v
<1>4. CASE q.kind = "match"
  <2>1. s = MatchScores(ix, q)
    BY <1>4 DEF ScoresAt
  <2>2. F = MatchedBy(ix, q)
    BY <1>4 DEF FoundAt, MatchedBy
  <2>3. v = TermsWorth(ix, q)
    BY <1>4 DEF ValueAt, TermsWorth
  <2>4. q.text \in Seq(Runes)
    BY <1>2, <1>4 DEF KnownQuery
  <2> HIDE DEF s, F, v
  <2>5. ExactScores(MatchScores(ix, q), ix, MatchedBy(ix, q), TermsWorth(ix, q))
    BY <1>1, <1>4, <2>4, MatchIs
  <2> QED BY <2>1, <2>2, <2>3, <2>5 DEF s, F, v
<1>5. CASE q.kind = "prefix"
  <2>1. s = PrefixScores(ix, q)
    BY <1>5 DEF ScoresAt
  <2>2. F = MatchedBy(ix, q)
    BY <1>5 DEF FoundAt, MatchedBy
  <2>3. v = TermsWorth(ix, q)
    BY <1>5 DEF ValueAt, TermsWorth
  <2> HIDE DEF s, F, v
  <2>5. ExactScores(PrefixScores(ix, q), ix, MatchedBy(ix, q), TermsWorth(ix, q))
    BY <1>1, <1>5, PrefixIs
  <2> QED BY <2>1, <2>2, <2>3, <2>5 DEF s, F, v
<1>6. CASE q.kind = "fuzzy"
  <2>1. s = FuzzyScores(ix, q)
    BY <1>6 DEF ScoresAt
  <2>2. F = MatchedBy(ix, q)
    BY <1>6 DEF FoundAt, MatchedBy
  <2>3. v = FuzzyWorth(ix, q)
    BY <1>6 DEF ValueAt, FuzzyWorth
  <2>4. q.term \in Seq(Runes) /\ q.maxEdits \in Int
    BY <1>2, <1>6 DEF KnownQuery
  <2> HIDE DEF s, F, v
  <2>5. ExactScores(FuzzyScores(ix, q), ix, MatchedBy(ix, q), FuzzyWorth(ix, q))
    BY <1>1, <1>6, <2>4, FuzzyIs
  <2> QED BY <2>1, <2>2, <2>3, <2>5 DEF s, F, v
<1>7. CASE q.kind = "phrase"
  <2>1. s = PhraseScores(ix, q)
    BY <1>7 DEF ScoresAt
  <2>2. F = {id \in DOMAIN ix : HoldsPhrase(ix, id, q)}
    BY <1>7 DEF FoundAt
  <2>3. v = PhraseWorth(ix, q)
    BY <1>7 DEF ValueAt, PhraseWorth
  <2>4. q.text \in Seq(Runes) /\ q.slop \in Numbers(W32)
    BY <1>2, <1>7 DEF KnownQuery
  <2>6. RoomFor(ix, q.field, Len(StandardTokenize(q.text)))
    BY <1>7 DEF Ready
  <2> HIDE DEF s, F, v
  <2>5. ExactScores(PhraseScores(ix, q), ix, {id \in DOMAIN ix : HoldsPhrase(ix, id, q)}, PhraseWorth(ix, q))
    BY <1>1, <1>7, <2>4, <2>6, PhraseIs
  <2> QED BY <2>1, <2>2, <2>3, <2>5 DEF s, F, v
<1> QED BY <1>2, <1>3, <1>4, <1>5, <1>6, <1>7 DEF KnownQuery

\* What each clause has scored.
AllOf(scores, clauses) == [k \in 1..Len(clauses) |-> scores[clauses[k]]]

\* The clauses of a list agree with what they scored.
ListAgrees(ran, scores, found, worth, ix, clauses) ==
  /\ ran \in Seq(ScoreMaps(DOMAIN ix))
  /\ Len(ran) = Len(clauses)
  /\ ran # <<>> <=> clauses # <<>>
  /\ \A k \in 1..Len(clauses) : DOMAIN ran[k] = found[clauses[k]]
  /\ \A id \in DOMAIN ix :
       ClauseSum(ran, id) =
         SumFunctionOnSet([k \in 1..Len(clauses) |-> worth[clauses[k]][id]], 1..Len(clauses))

(* The clauses of a list have scored what they are worth.                  *)
LEMMA ListIs ==
    ASSUME NEW ix, NEW scores, NEW found, NEW worth, NEW Q, Agree(scores, found, worth, ix, Q),
           NEW clauses \in Seq(Q)
    PROVE  ListAgrees(AllOf(scores, clauses), scores, found, worth, ix, clauses)
<1> DEFINE n == Len(clauses)
           I == DOMAIN ix
           V == ScoreMaps(I)
           ran == AllOf(scores, clauses)
<1>1. n \in Nat /\ \A k \in 1..n : clauses[k] \in Q
  OBVIOUS
<1>2. ran = [k \in 1..n |-> scores[clauses[k]]]
  BY DEF AllOf
<1>3. \A c \in Q : /\ scores[c] \in V /\ found[c] = DOMAIN scores[c]
                   /\ worth[c] = [id \in I |-> ScoreOf(scores[c], id)]
  BY DEF Agree
<1>4. clauses # <<>> <=> n # 0
  OBVIOUS
<1> HIDE DEF V, ran, n
<1>5. \A k \in 1..n : ran[k] = scores[clauses[k]]
  BY <1>2
<1>6. \A k \in 1..n : ran[k] \in V
  BY <1>1, <1>3, <1>5
<1>7. ran \in Seq(V) /\ Len(ran) = n
  <2>1. ran \in [1..n -> V]
    BY <1>2, <1>5, <1>6
  <2> QED BY <1>1, <2>1, SequenceOf
<1>8. ran # <<>> <=> clauses # <<>>
  BY <1>4, <1>7
<1>9. \A k \in 1..n : DOMAIN ran[k] = found[clauses[k]]
  BY <1>1, <1>3, <1>5
<1>10. ASSUME NEW id \in I
       PROVE  ClauseSum(ran, id) = SumFunctionOnSet([k \in 1..n |-> worth[clauses[k]][id]], 1..n)
  <2> DEFINE w == [k \in 1..Len(ran) |-> ScoreOf(ran[k], id)]
             u == [k \in 1..n |-> worth[clauses[k]][id]]
  <2>1. ASSUME NEW k \in 1..n PROVE ScoreOf(ran[k], id) = worth[clauses[k]][id]
    <3>1. worth[clauses[k]] = [d \in I |-> ScoreOf(scores[clauses[k]], d)]
      BY <1>1, <1>3
    <3>2. worth[clauses[k]][id] = ScoreOf(scores[clauses[k]], id)
      BY <3>1
    <3> QED BY <3>2, <1>5
  <2>2. w = u
    BY <2>1, <1>7
  <2>3. ClauseSum(ran, id) = SumFunctionOnSet(w, 1..n)
    BY <1>7 DEF ClauseSum
  <2> HIDE DEF w, u
  <2>4. ClauseSum(ran, id) = SumFunctionOnSet(u, 1..n)
    BY <2>2, <2>3
  <2> QED BY <2>4 DEF u
<1> QED BY <1>7, <1>8, <1>9, <1>10 DEF ListAgrees, V, n, ran

(* Where the clauses of a query are executed exactly, so is the query.      *)
LEMMA BooleanStep ==
    ASSUME NEW queries, NEW rank, Nested(queries, rank), NEW ix, NEW q \in queries, q.kind = "boolean",
           NEW scores, NEW found, NEW worth, Agree(scores, found, worth, ix, Earlier(queries, rank, q))
    PROVE  ExactScores(ScoresAt(scores, ix, q), ix, FoundAt(found, ix, q),
                     [id \in DOMAIN ix |-> ValueAt(worth, ix, q, id)])
<1> DEFINE I == DOMAIN ix
           s == ScoresAt(scores, ix, q)
           F == FoundAt(found, ix, q)
           v == [id \in I |-> ValueAt(worth, ix, q, id)]
           must == AllOf(scores, q.must)
           should == AllOf(scores, q.should)
           mustNot == AllOf(scores, q.mustNot)
           sum(clauses, id) ==
             SumFunctionOnSet([k \in 1..Len(clauses) |-> worth[clauses[k]][id]], 1..Len(clauses))
<1>1. q.must \in Seq(Earlier(queries, rank, q)) /\ q.should \in Seq(Earlier(queries, rank, q)) /\ q.mustNot \in Seq(Earlier(queries, rank, q))
  <2>1. KnownQuery(queries, rank, q)
    BY DEF Nested
  <2> QED BY <2>1 DEF KnownQuery
<1>2. /\ ListAgrees(must, scores, found, worth, ix, q.must)
      /\ ListAgrees(should, scores, found, worth, ix, q.should)
      /\ ListAgrees(mustNot, scores, found, worth, ix, q.mustNot)
  <2> DEFINE E == Earlier(queries, rank, q)
  <2>1. q.must \in Seq(E) /\ q.should \in Seq(E) /\ q.mustNot \in Seq(E) /\ Agree(scores, found, worth, ix, E)
    BY <1>1
  <2> HIDE DEF E
  <2> QED BY <2>1, ListIs
<1>3. s = BooleanScores(ix, must, should, mustNot)
  BY DEF ScoresAt, AllOf
<1>4. F = {id \in I : /\ \A k \in 1..Len(q.must) : id \in found[q.must[k]]
                      /\ \A k \in 1..Len(q.mustNot) : id \notin found[q.mustNot[k]]
                      /\ \/ q.must # <<>>
                         \/ \E k \in 1..Len(q.should) : id \in found[q.should[k]]
                         \/ q.should = <<>> /\ q.mustNot # <<>>}
  BY DEF FoundAt
<1>5. v = [id \in I |-> sum(q.must, id) + sum(q.should, id)]
  BY DEF ValueAt
<1> HIDE DEF s, F, v, must, should, mustNot
<1>6. F = {id \in I : Admits(ix, must, should, mustNot, id)}
  <2>1. \A id \in I : Admits(ix, must, should, mustNot, id) <=>
          /\ \A k \in 1..Len(q.must) : id \in found[q.must[k]]
          /\ \A k \in 1..Len(q.mustNot) : id \notin found[q.mustNot[k]]
          /\ \/ q.must # <<>>
             \/ \E k \in 1..Len(q.should) : id \in found[q.should[k]]
             \/ q.should = <<>> /\ q.mustNot # <<>>
    <3>1. \A id \in I : \A k \in 1..Len(q.must) : id \in DOMAIN must[k] <=> id \in found[q.must[k]]
      BY <1>2 DEF ListAgrees
    <3>2. \A id \in I : \A k \in 1..Len(q.mustNot) : id \in DOMAIN mustNot[k] <=> id \in found[q.mustNot[k]]
      BY <1>2 DEF ListAgrees
    <3>3. \A id \in I : \A k \in 1..Len(q.should) : id \in DOMAIN should[k] <=> id \in found[q.should[k]]
      BY <1>2 DEF ListAgrees
    <3>4. /\ Len(must) = Len(q.must) /\ Len(mustNot) = Len(q.mustNot) /\ Len(should) = Len(q.should)
          /\ must # <<>> <=> q.must # <<>>
          /\ mustNot # <<>> <=> q.mustNot # <<>>
          /\ should # <<>> <=> q.should # <<>>
      BY <1>2 DEF ListAgrees
    <3> QED BY <3>1, <3>2, <3>3, <3>4 DEF Admits
  <2> QED BY <1>4, <2>1
<1>7. v = [id \in I |-> ClauseSum(must, id) + ClauseSum(should, id)]
  <2>1. \A id \in I : ClauseSum(must, id) = sum(q.must, id) /\ ClauseSum(should, id) = sum(q.should, id)
    BY <1>2 DEF ListAgrees
  <2> HIDE DEF sum
  <2> QED BY <1>5, <2>1
<1>8. ExactScores(BooleanScores(ix, must, should, mustNot), ix,
                {id \in I : Admits(ix, must, should, mustNot, id)},
                [id \in I |-> ClauseSum(must, id) + ClauseSum(should, id)])
  BY <1>2, BooleanIs DEF ListAgrees
<1> QED BY <1>3, <1>6, <1>7, <1>8 DEF s, F, v

(* Where the clauses have been executed exactly, so is the query.           *)
LEMMA QueryStep ==
    ASSUME NEW queries, NEW rank, Nested(queries, rank),
           NEW ix, Ready(queries, ix), NEW q \in queries,
           NEW scores, NEW found, NEW worth, Agree(scores, found, worth, ix, Earlier(queries, rank, q))
    PROVE  ExactScores(ScoresAt(scores, ix, q), ix, FoundAt(found, ix, q),
                     [id \in DOMAIN ix |-> ValueAt(worth, ix, q, id)])
BY OneFieldStep, BooleanStep

\* The recursion by which queries are executed, found and scored.
ExecutionOf(queries, scores, ix) == scores = [q \in queries |-> ScoresAt(scores, ix, q)]
FoundOf(queries, found, ix) == found = [q \in queries |-> FoundAt(found, ix, q)]
WorthOf(queries, worth, ix, found) ==
  worth = [q \in queries |-> [id \in DOMAIN ix |-> IF id \notin found[q] THEN 0 ELSE ValueAt(worth, ix, q, id)]]

(* These are the recursions of the models.                                  *)
LEMMA ScoresAreRecursive ==
    ASSUME NEW queries, NEW ix, \E scores : ExecutionOf(queries, scores, ix)
    PROVE  ExecutionOf(queries, Scores(ix, queries), ix)
<1>1. Scores(ix, queries) = CHOOSE scores : ExecutionOf(queries, scores, ix)
  BY Zenon DEF Scores, ExecutionOf, ScoresAt
<1> QED BY <1>1, Zenon

(* The documents found are those of the recursion.                          *)
LEMMA FoundIsRecursive ==
    ASSUME NEW queries, NEW ix, \E found : FoundOf(queries, found, ix)
    PROVE  FoundOf(queries, Satisfying(ix, queries), ix)
<1>1. Satisfying(ix, queries) = CHOOSE found : FoundOf(queries, found, ix)
  BY Zenon DEF Satisfying, FoundOf, FoundAt
<1> QED BY <1>1, Zenon

(* What they are worth is that of the recursion.                            *)
LEMMA WorthIsRecursive ==
    ASSUME NEW queries, NEW ix, \E worth : WorthOf(queries, worth, ix, Satisfying(ix, queries))
    PROVE  WorthOf(queries, Relevance(ix, queries), ix, Satisfying(ix, queries))
<1>1. Relevance(ix, queries) = CHOOSE worth : WorthOf(queries, worth, ix, Satisfying(ix, queries))
  BY Zenon DEF Relevance, WorthOf, ValueAt
<1> QED BY <1>1, Zenon

\* Two functions agree on the clauses of a query.
Same(queries, rank, f, g, q) == \A c \in Earlier(queries, rank, q) : f[c] = g[c]

(* What a query finds and scores depends on its clauses only.               *)
LEMMA ClausesDecide ==
    ASSUME NEW queries, NEW rank, Nested(queries, rank), NEW ix, NEW q \in queries, NEW f, NEW g, Same(queries, rank, f, g, q)
    PROVE  /\ ScoresAt(f, ix, q) = ScoresAt(g, ix, q)
           /\ FoundAt(f, ix, q) = FoundAt(g, ix, q)
           /\ \A id \in DOMAIN ix : ValueAt(f, ix, q, id) = ValueAt(g, ix, q, id)
<1>1. KnownQuery(queries, rank, q)
  BY DEF Nested
<1>2. CASE q.kind # "boolean"
  <2>1. q.kind \in {"term", "prefix", "fuzzy", "match", "phrase"}
    BY <1>1, <1>2 DEF KnownQuery
  <2>2. ScoresAt(f, ix, q) = ScoresAt(g, ix, q)
    BY <2>1 DEF ScoresAt
  <2>3. FoundAt(f, ix, q) = FoundAt(g, ix, q)
    BY <2>1 DEF FoundAt
  <2>4. \A id \in DOMAIN ix : ValueAt(f, ix, q, id) = ValueAt(g, ix, q, id)
    BY <2>1 DEF ValueAt
  <2> QED BY <2>2, <2>3, <2>4
<1>3. CASE q.kind = "boolean"
  <2>1. q.must \in Seq(Earlier(queries, rank, q)) /\ q.should \in Seq(Earlier(queries, rank, q)) /\ q.mustNot \in Seq(Earlier(queries, rank, q))
    BY <1>1, <1>3 DEF KnownQuery
  <2>2. \A s \in Seq(Earlier(queries, rank, q)) : \A k \in 1..Len(s) : f[s[k]] = g[s[k]]
    <3> DEFINE E == Earlier(queries, rank, q)
    <3>1. \A c \in E : f[c] = g[c]
      BY DEF Same
    <3> HIDE DEF E
    <3>2. \A s \in Seq(E) : \A k \in 1..Len(s) : s[k] \in E
      OBVIOUS
    <3>3. \A s \in Seq(E) : \A k \in 1..Len(s) : f[s[k]] = g[s[k]]
      BY <3>1, <3>2
    <3> QED BY <3>3 DEF E
  <2>3. /\ \A k \in 1..Len(q.must) : f[q.must[k]] = g[q.must[k]]
        /\ \A k \in 1..Len(q.should) : f[q.should[k]] = g[q.should[k]]
        /\ \A k \in 1..Len(q.mustNot) : f[q.mustNot[k]] = g[q.mustNot[k]]
    BY <2>1, <2>2
  <2>4. /\ AllOf(f, q.must) = AllOf(g, q.must)
        /\ AllOf(f, q.should) = AllOf(g, q.should)
        /\ AllOf(f, q.mustNot) = AllOf(g, q.mustNot)
    BY <2>3 DEF AllOf
  <2>5. \A h : ScoresAt(h, ix, q) = BooleanScores(ix, AllOf(h, q.must), AllOf(h, q.should), AllOf(h, q.mustNot))
    BY <1>3 DEF ScoresAt, AllOf
  <2>6. ScoresAt(f, ix, q) = ScoresAt(g, ix, q)
    BY <2>4, <2>5
  <2>7. FoundAt(f, ix, q) = FoundAt(g, ix, q)
    BY <1>3, <2>3 DEF FoundAt
  <2>8. ASSUME NEW id \in DOMAIN ix PROVE ValueAt(f, ix, q, id) = ValueAt(g, ix, q, id)
    <3> DEFINE w(h, clauses) == [k \in 1..Len(clauses) |-> h[clauses[k]][id]]
               sum(h, clauses) == SumFunctionOnSet(w(h, clauses), 1..Len(clauses))
    <3>1. w(f, q.must) = w(g, q.must) /\ w(f, q.should) = w(g, q.should)
      BY <2>3
    <3>2. /\ ValueAt(f, ix, q, id) = sum(f, q.must) + sum(f, q.should)
          /\ ValueAt(g, ix, q, id) = sum(g, q.must) + sum(g, q.should)
      BY <1>3 DEF ValueAt
    <3> HIDE DEF w
    <3> QED BY <3>1, <3>2
  <2> QED BY <2>6, <2>7, <2>8
<1> QED BY <1>2, <1>3

(* What holds for a query if it holds for its clauses holds for all.        *)
LEMMA PoolInduction ==
    ASSUME NEW queries, NEW rank, Nested(queries, rank),
           NEW S, \A q \in queries : Earlier(queries, rank, q) \subseteq S => q \in S
    PROVE  queries \subseteq S
<1>1. \A q \in queries : rank[q] \in Nat
  BY DEF Nested
<1>2. \A q \in queries : (\A c \in queries : rank[c] < rank[q] => c \in S) => q \in S
  BY DEF Earlier
<1> QED BY <1>1, <1>2, MeasureInduction

\* The documents found and the values that belong to scores.
FoundBy(queries, scores) == [q \in queries |-> DOMAIN scores[q]]
WorthBy(queries, scores, ix) == [q \in queries |-> [id \in DOMAIN ix |-> ScoreOf(scores[q], id)]]

(* Scores agree with the documents and the values that belong to them.      *)
LEMMA ByScores ==
    ASSUME NEW queries, NEW ix, NEW scores, NEW Q \in SUBSET queries, \A c \in Q : scores[c] \in ScoreMaps(DOMAIN ix)
    PROVE  Agree(scores, FoundBy(queries, scores), WorthBy(queries, scores, ix), ix, Q)
<1>1. ASSUME NEW c \in Q
      PROVE  /\ FoundBy(queries, scores)[c] = DOMAIN scores[c]
             /\ WorthBy(queries, scores, ix)[c] = [id \in DOMAIN ix |-> ScoreOf(scores[c], id)]
  BY DEF FoundBy, WorthBy
<1> QED BY <1>1 DEF Agree

\* Queries are executed as the recursion says, each to scores.
Executed(queries, S, ix) ==
  /\ S = [q \in queries |-> ScoresAt(S, ix, q)]
  /\ \A q \in queries : S[q] \in ScoreMaps(DOMAIN ix)

(* Queries can be executed.                                                 *)
LEMMA ExecutionExists ==
    ASSUME NEW queries, NEW rank, Nested(queries, rank), NEW ix, Ready(queries, ix)
    PROVE  Executed(queries, Scores(ix, queries), ix)
<1> DEFINE I == DOMAIN ix
           V == ScoreMaps(I)
           B(f, q) == ScoresAt(f, ix, q)
           G == [q \in queries |-> [f \in [queries -> V] |-> B(f, q)]]
           S == Scores(ix, queries)
<1>1. ASSUME NEW q \in queries, NEW f, \A c \in Earlier(queries, rank, q) : f[c] \in V
      PROVE  B(f, q) \in V
  <2>1. Earlier(queries, rank, q) \in SUBSET queries
    BY DEF Earlier
  <2>2. Agree(f, FoundBy(queries, f), WorthBy(queries, f, ix), ix, Earlier(queries, rank, q))
    BY <1>1, <2>1, ByScores
  <2>3. ExactScores(ScoresAt(f, ix, q), ix, FoundAt(FoundBy(queries, f), ix, q),
                  [id \in DOMAIN ix |-> ValueAt(WorthBy(queries, f, ix), ix, q, id)])
    BY <2>2, QueryStep
  <2> QED BY <2>3 DEF ExactScores
<1>2. ASSUME NEW q \in queries, NEW f, NEW g, Same(queries, rank, f, g, q)
      PROVE  B(f, q) = B(g, q)
  BY <1>2, ClausesDecide
<1> HIDE DEF B
<1>n. PICK N \in Nat : \A q \in queries : rank[q] < N
  BY DEF Nested
<1>3. Descends(G, queries, V, rank, N)
  <2>1. V # {}
    BY NoScoresAre
  <2> HIDE DEF V
  <2>2. G \in [queries -> [[queries -> V] -> V]]
    <3>1. \A q \in queries : \A f \in [queries -> V] : B(f, q) \in V
      <4> SUFFICES ASSUME NEW q \in queries, NEW f \in [queries -> V] PROVE B(f, q) \in V
        OBVIOUS
      <4>1. \A c \in Earlier(queries, rank, q) : f[c] \in V
        BY DEF Earlier
      <4> QED BY <4>1, <1>1
    <3> QED BY <3>1
  <2>3. \A q \in queries : \A f \in [queries -> V] : G[q][f] = B(f, q)
    OBVIOUS
  <2>4. \A q \in queries : rank[q] \in Nat /\ rank[q] < N /\ N \in Nat
    BY <1>n DEF Nested
  <2>5. N \in Nat
    BY <1>n
  <2>6. rank \in [queries -> Nat]
    BY DEF Nested
  <2> HIDE DEF G
  <2>7. \A q \in queries : \A f, g \in [queries -> V] :
          (\A e \in queries : rank[e] < rank[q] => f[e] = g[e]) => G[q][f] = G[q][g]
    <3> SUFFICES ASSUME NEW q \in queries, NEW f \in [queries -> V], NEW g \in [queries -> V],
                        \A e \in queries : rank[e] < rank[q] => f[e] = g[e]
                 PROVE  G[q][f] = G[q][g]
      OBVIOUS
    <3>1. Same(queries, rank, f, g, q)
      BY DEF Same, Earlier
    <3>2. B(f, q) = B(g, q)
      BY <3>1, <1>2
    <3> QED BY <2>3, <3>2
  <2> QED BY <2>1, <2>2, <2>4, <2>5, <2>6, <2>7 DEF Descends
<1>4. \E f \in [queries -> V] : \A q \in queries : f[q] = G[q][f]
  <2> HIDE DEF G, V
  <2> QED BY <1>3, Recursion
<1>5. \E f : ExecutionOf(queries, f, ix)
  <2> HIDE DEF V
  <2>1. PICK f \in [queries -> V] : \A q \in queries : f[q] = G[q][f]
    BY <1>4
  <2>2. \A q \in queries : f[q] = B(f, q)
    BY <2>1
  <2>3. f = [q \in queries |-> B(f, q)]
    BY <2>2
  <2> QED BY <2>3 DEF ExecutionOf, B
<1>6. S = [q \in queries |-> B(S, q)]
  BY <1>5, ScoresAreRecursive DEF ExecutionOf, B
<1>7. \A q \in queries : S[q] \in V
  <2> DEFINE T == {q \in queries : S[q] \in V}
  <2> HIDE DEF S, V
  <2>1. ASSUME NEW q \in queries, Earlier(queries, rank, q) \subseteq T PROVE q \in T
    <3>1. \A c \in Earlier(queries, rank, q) : S[c] \in V
      BY <2>1
    <3>2. B(S, q) \in V
      BY <3>1, <1>1
    <3>3. S[q] = B(S, q)
      BY <1>6
    <3> QED BY <3>2, <3>3
  <2>2. queries \subseteq T
    <3> HIDE DEF T
    <3> QED BY <2>1, PoolInduction
  <2> QED BY <2>2
<1> QED BY <1>6, <1>7 DEF Executed, B

(* There is one answer to what queries find.                                *)
LEMMA FoundIsUnique ==
    ASSUME NEW queries, NEW rank, Nested(queries, rank),
           NEW ix, NEW f, NEW g, FoundOf(queries, f, ix), FoundOf(queries, g, ix)
    PROVE  f = g
<1> DEFINE S == {q \in queries : f[q] = g[q]}
           F(h, q) == FoundAt(h, ix, q)
<1>1. f = [q \in queries |-> F(f, q)] /\ g = [q \in queries |-> F(g, q)]
  BY DEF FoundOf
<1>2. \A q \in queries : Same(queries, rank, f, g, q) => F(f, q) = F(g, q)
  BY ClausesDecide
<1> HIDE DEF F
<1>3. ASSUME NEW q \in queries, Earlier(queries, rank, q) \subseteq S PROVE q \in S
  <2>1. Same(queries, rank, f, g, q)
    BY <1>3 DEF Same
  <2>2. F(f, q) = F(g, q)
    BY <2>1, <1>2
  <2> QED BY <1>1, <2>2
<1>4. queries \subseteq S
  <2> HIDE DEF S
  <2> QED BY <1>3, PoolInduction
<1>5. \A q \in queries : f[q] = g[q]
  BY <1>4
<1>6. f = [q \in queries |-> f[q]] /\ g = [q \in queries |-> g[q]]
  BY <1>1
<1> QED BY <1>5, <1>6

(* There is one answer to what queries are worth.                           *)
LEMMA WorthIsUnique ==
    ASSUME NEW queries, NEW rank, Nested(queries, rank),
           NEW ix, NEW found, NEW f, NEW g, WorthOf(queries, f, ix, found), WorthOf(queries, g, ix, found)
    PROVE  f = g
<1> DEFINE S == {q \in queries : f[q] = g[q]}
           W(h, q) == [id \in DOMAIN ix |-> IF id \notin found[q] THEN 0 ELSE ValueAt(h, ix, q, id)]
<1>1. f = [q \in queries |-> W(f, q)] /\ g = [q \in queries |-> W(g, q)]
  BY DEF WorthOf
<1>2. ASSUME NEW q \in queries, Same(queries, rank, f, g, q) PROVE W(f, q) = W(g, q)
  <2>1. \A id \in DOMAIN ix : ValueAt(f, ix, q, id) = ValueAt(g, ix, q, id)
    BY <1>2, ClausesDecide
  <2> QED BY <2>1
<1> HIDE DEF W
<1>3. ASSUME NEW q \in queries, Earlier(queries, rank, q) \subseteq S PROVE q \in S
  <2>1. Same(queries, rank, f, g, q)
    BY <1>3 DEF Same
  <2>2. W(f, q) = W(g, q)
    BY <2>1, <1>2
  <2> QED BY <1>1, <2>2
<1>4. queries \subseteq S
  <2> HIDE DEF S
  <2> QED BY <1>3, PoolInduction
<1>5. \A q \in queries : f[q] = g[q]
  BY <1>4
<1>6. f = [q \in queries |-> f[q]] /\ g = [q \in queries |-> g[q]]
  BY <1>1
<1> QED BY <1>5, <1>6

(* The documents that satisfy queries are those that they are scored for.   *)
LEMMA FoundIs ==
    ASSUME NEW queries, NEW rank, Nested(queries, rank), NEW ix, Ready(queries, ix)
    PROVE  /\ FoundOf(queries, Satisfying(ix, queries), ix)
           /\ Satisfying(ix, queries) = FoundBy(queries, Scores(ix, queries))
<1> DEFINE I == DOMAIN ix
           S == Scores(ix, queries)
           F == FoundBy(queries, S)
           W == WorthBy(queries, S, ix)
           V(id, c) == ValueAt(W, ix, c, id)
<1>1. Executed(queries, S, ix)
  BY ExecutionExists
<1> HIDE DEF S
<1>2. S = [c \in queries |-> ScoresAt(S, ix, c)] /\ \A c \in queries : S[c] \in ScoreMaps(I)
  BY <1>1 DEF Executed
<1>3. ASSUME NEW c \in queries
      PROVE  ExactScores(S[c], ix, FoundAt(F, ix, c), [id \in I |-> V(id, c)])
  <2>1. Earlier(queries, rank, c) \in SUBSET queries
    BY DEF Earlier
  <2>2. Agree(S, F, W, ix, Earlier(queries, rank, c))
    BY <1>2, <2>1, ByScores
  <2>3. S[c] = ScoresAt(S, ix, c)
    BY <1>2
  <2> HIDE DEF F, W
  <2> QED BY <2>2, <2>3, QueryStep
<1>4. F = [c \in queries |-> DOMAIN S[c]] /\ W = [c \in queries |-> [id \in I |-> ScoreOf(S[c], id)]]
  BY DEF FoundBy, WorthBy
<1> HIDE DEF F, W, V, I
<1>5. ASSUME NEW c \in queries
      PROVE  /\ F[c] = FoundAt(F, ix, c) /\ F[c] \subseteq I /\ F[c] = DOMAIN S[c]
             /\ \A id \in F[c] : S[c][id] = V(id, c)
  <2>1. /\ FoundAt(F, ix, c) \subseteq I /\ DOMAIN S[c] = FoundAt(F, ix, c)
        /\ \A id \in FoundAt(F, ix, c) : S[c][id] = [d \in I |-> V(d, c)][id]
    BY <1>3 DEF ExactScores, I
  <2>2. F[c] = DOMAIN S[c]
    BY <1>4
  <2> QED BY <2>1, <2>2
<1>6. FoundOf(queries, F, ix)
  <2>1. F = [c \in queries |-> F[c]]
    BY <1>4
  <2>2. F = [c \in queries |-> FoundAt(F, ix, c)]
    BY <2>1, <1>5
  <2> QED BY <2>2 DEF FoundOf
<1>7. Satisfying(ix, queries) = F
  <2>1. FoundOf(queries, Satisfying(ix, queries), ix)
    BY <1>6, FoundIsRecursive
  <2> QED BY <1>6, <2>1, FoundIsUnique
<1> QED BY <1>6, <1>7 DEF F, S

(* The scores of a query are those that its meaning gives.                  *)
LEMMA ScoresAreExact ==
    ASSUME NEW queries, NEW rank, Nested(queries, rank),
           NEW ix, Ready(queries, ix), NEW q \in queries
    PROVE  ExactScores(Scores(ix, queries)[q], ix, Satisfying(ix, queries)[q], Relevance(ix, queries)[q])
<1> DEFINE I == DOMAIN ix
           S == Scores(ix, queries)
           F == FoundBy(queries, S)
           W == WorthBy(queries, S, ix)
           V(id, c) == ValueAt(W, ix, c, id)
<1>1. Executed(queries, S, ix)
  BY ExecutionExists
<1> HIDE DEF S
<1>2. S = [c \in queries |-> ScoresAt(S, ix, c)] /\ \A c \in queries : S[c] \in ScoreMaps(I)
  BY <1>1 DEF Executed
<1>3. ASSUME NEW c \in queries
      PROVE  ExactScores(S[c], ix, FoundAt(F, ix, c), [id \in I |-> V(id, c)])
  <2>1. Earlier(queries, rank, c) \in SUBSET queries
    BY DEF Earlier
  <2>2. Agree(S, F, W, ix, Earlier(queries, rank, c))
    BY <1>2, <2>1, ByScores
  <2>3. S[c] = ScoresAt(S, ix, c)
    BY <1>2
  <2> HIDE DEF F, W
  <2> QED BY <2>2, <2>3, QueryStep
<1>4. F = [c \in queries |-> DOMAIN S[c]] /\ W = [c \in queries |-> [id \in I |-> ScoreOf(S[c], id)]]
  BY DEF FoundBy, WorthBy
<1> HIDE DEF F, W, V, I
<1>5. ASSUME NEW c \in queries
      PROVE  /\ F[c] = FoundAt(F, ix, c) /\ F[c] \subseteq I /\ F[c] = DOMAIN S[c]
             /\ \A id \in F[c] : S[c][id] = V(id, c)
  <2>1. /\ FoundAt(F, ix, c) \subseteq I /\ DOMAIN S[c] = FoundAt(F, ix, c)
        /\ \A id \in FoundAt(F, ix, c) : S[c][id] = [d \in I |-> V(d, c)][id]
    BY <1>3 DEF ExactScores, I
  <2>2. F[c] = DOMAIN S[c]
    BY <1>4
  <2> QED BY <2>1, <2>2
<1>6. S = Scores(ix, queries)
  BY DEF S
<1>7. Satisfying(ix, queries) = F
  BY <1>6, FoundIs DEF F
<1>8. WorthOf(queries, W, ix, F)
  <2>1. ASSUME NEW c \in queries
        PROVE  W[c] = [id \in I |-> IF id \notin F[c] THEN 0 ELSE V(id, c)]
    <3>1. W[c] = [id \in I |-> ScoreOf(S[c], id)]
      BY <1>4
    <3>2. \A id \in I : ScoreOf(S[c], id) = IF id \notin F[c] THEN 0 ELSE V(id, c)
      BY <1>5 DEF ScoreOf
    <3> QED BY <3>1, <3>2
  <2>2. W = [c \in queries |-> W[c]]
    BY <1>4
  <2>3. W = [c \in queries |-> [id \in I |-> IF id \notin F[c] THEN 0 ELSE V(id, c)]]
    BY <2>1, <2>2
  <2> QED BY <2>3 DEF WorthOf, V, I
<1>9. Relevance(ix, queries) = W
  <2>1. WorthOf(queries, Relevance(ix, queries), ix, F)
    <3>1. \E worth : WorthOf(queries, worth, ix, Satisfying(ix, queries))
      BY <1>7, <1>8
    <3>2. WorthOf(queries, Relevance(ix, queries), ix, Satisfying(ix, queries))
      BY <3>1, WorthIsRecursive
    <3> QED BY <1>7, <3>2
  <2> QED BY <1>8, <2>1, WorthIsUnique
<1>10. ExactScores(S[q], ix, F[q], W[q])
  <2>1. S[q] \in ScoreMaps(DOMAIN ix) /\ F[q] \subseteq DOMAIN ix /\ DOMAIN S[q] = F[q]
    BY <1>2, <1>5 DEF I
  <2>2. \A id \in F[q] : S[q][id] = W[q][id]
    <3>1. W[q] = [id \in I |-> ScoreOf(S[q], id)]
      BY <1>4
    <3>2. \A id \in F[q] : id \in I /\ ScoreOf(S[q], id) = S[q][id]
      BY <1>5 DEF ScoreOf
    <3> QED BY <3>1, <3>2
  <2> QED BY <2>1, <2>2 DEF ExactScores
<1> QED BY <1>7, <1>9, <1>10 DEF S

(* A query on any index returns exactly the documents that satisfy it, with *)
(* what its clauses are worth, in the order of the hits (Query.Execute).    *)
THEOREM QueriesAnswerExactly ==
    ASSUME NEW queries, NEW rank, Nested(queries, rank),
           NEW ix, Ready(queries, ix), NEW q \in queries
    PROVE  AnswersExactly(ix, queries, q)
<1> DEFINE I == DOMAIN ix
           s == Scores(ix, queries)[q]
           F == Satisfying(ix, queries)[q]
           W == Relevance(ix, queries)[q]
           hits == HitsFromScores(s)
<1>1. ExactScores(s, ix, F, W)
  BY ScoresAreExact
<1> HIDE DEF s, F, W
<1>2. s \in ScoreMaps(I) /\ DOMAIN s = F /\ \A id \in F : s[id] = W[id]
  BY <1>1 DEF ExactScores
<1>3. I \subseteq Nat /\ IsFiniteSet(I)
  BY DEF Ready, IndexOK
<1>4. SortedHits(hits, s)
  <2> HIDE DEF I
  <2> QED BY <1>2, <1>3, HitsAreSorted
<1> HIDE DEF hits
<1>5. ToSet(hits) = {[id |-> d, score |-> W[d]] : d \in F}
  <2>1. ToSet(hits) = HitsOf(s)
    BY <1>4 DEF SortedHits
  <2> HIDE DEF I
  <2>2. HitsOf(s) = {Hit(s, d) : d \in F}
    BY <1>2 DEF HitsOf
  <2>3. \A d \in F : Hit(s, d) = [id |-> d, score |-> W[d]]
    BY <1>2 DEF Hit
  <2>4. {Hit(s, d) : d \in F} = {[id |-> d, score |-> W[d]] : d \in F}
    BY <2>3
  <2> QED BY <2>1, <2>2, <2>4
<1>6. \A k, l \in DOMAIN hits : k < l =>
        \/ hits[k].score > hits[l].score
        \/ hits[k].score = hits[l].score /\ hits[k].id < hits[l].id
  BY <1>4 DEF SortedHits, Precedes
<1>7. Execute(ix, queries, q) = hits
  BY DEF Execute, hits, s
<1> QED BY <1>5, <1>6, <1>7 DEF AnswersExactly, F, W

\* The first set of queries in which a query is.
Level == [q \in Pool |-> CHOOSE n \in 1..Len(Asked) : q \in Asked[n] /\ \A m \in 1..n - 1 : q \notin Asked[m]]

(* The level of a query.                                                    *)
LEMMA LevelIs ==
    ASSUME NEW q \in Pool
    PROVE  /\ Len(Asked) \in Nat
           /\ Level[q] \in 1..Len(Asked) /\ q \in Asked[Level[q]]
           /\ \A n \in 1..Len(Asked) : q \in Asked[n] => Level[q] <= n
<1> DEFINE L == Len(Asked)
           S == {n \in 1..L : q \in Asked[n]}
           OK(n) == q \in Asked[n] /\ \A m \in 1..n - 1 : q \notin Asked[m]
<1>1. L \in Nat
  BY QueryInputs
<1>2. S # {}
  BY DEF Pool
<1>3. S \in SUBSET Nat
  BY <1>1
<1>4. PICK n \in S : \A k \in S : n <= k
  <2> HIDE DEF S
  <2> QED BY <1>2, <1>3, Smallest
<1>5. n \in 1..L /\ OK(n)
  <2> SUFFICES ASSUME NEW m \in 1..n - 1, q \in Asked[m] PROVE FALSE
    OBVIOUS
  <2>1. n \in 1..L
    OBVIOUS
  <2>2. m \in S /\ m < n
    BY <1>1, <2>1
  <2> QED BY <2>1, <2>2, <1>1, <1>4
<1>6. Level[q] = CHOOSE k \in 1..L : OK(k)
  BY DEF Level
<1>7. Level[q] \in 1..L /\ OK(Level[q])
  <2> HIDE DEF OK, L
  <2> QED BY <1>5, <1>6, Zenon
<1>8. ASSUME NEW k \in 1..L, q \in Asked[k] PROVE Level[q] <= k
  <2> SUFFICES ASSUME k < Level[q] PROVE FALSE
    BY <1>1, <1>7
  <2>1. k \in 1..Level[q] - 1
    BY <1>1, <1>7
  <2> QED BY <2>1, <1>7, <1>8
<1> QED BY <1>1, <1>7, <1>8

(* A query is on one field, or its clauses are of lower levels.             *)
LEMMA QueriesAreKnown ==
    ASSUME NEW q \in Pool
    PROVE  KnownQuery(Pool, Level, q)
<1>1. CASE q \in OneFieldQueries
  BY <1>1 DEF OneFieldQueries, KnownQuery
<1>2. CASE q.kind = "boolean"
  <2> DEFINE n == Level[q]
             E == UNION {Asked[m] : m \in 1..n - 1}
  <2>1. Len(Asked) \in Nat /\ n \in 1..Len(Asked) /\ q \in Asked[n]
    BY LevelIs
  <2>2. q.must \in Seq(E) /\ q.should \in Seq(E) /\ q.mustNot \in Seq(E)
    BY <1>2, <2>1, QueryInputs
  <2>3. ASSUME NEW c \in E PROVE c \in Earlier(Pool, Level, q)
    <3>1. PICK m \in 1..n - 1 : c \in Asked[m]
      OBVIOUS
    <3>2. m \in 1..Len(Asked) /\ m < n
      BY <2>1
    <3>3. c \in Pool
      BY <3>1, <3>2 DEF Pool
    <3>4. Level[c] \in 1..Len(Asked) /\ Level[c] <= m
      BY <3>1, <3>2, <3>3, LevelIs
    <3>5. Level[c] < n
      BY <2>1, <3>2, <3>4
    <3> QED BY <3>3, <3>5 DEF Earlier
  <2>4. E \subseteq Earlier(Pool, Level, q)
    <3> HIDE DEF E
    <3> QED BY <2>3
  <2> HIDE DEF E
  <2>5. ASSUME NEW s \in Seq(E) PROVE s \in Seq(Earlier(Pool, Level, q))
    <3> DEFINE V == Earlier(Pool, Level, q)
    <3>1. Len(s) \in Nat /\ s = [k \in 1..Len(s) |-> s[k]] /\ \A k \in 1..Len(s) : s[k] \in E
      OBVIOUS
    <3>2. E \subseteq V
      BY <2>4
    <3> HIDE DEF V
    <3>3. s \in [1..Len(s) -> V]
      BY <3>1, <3>2
    <3>4. s \in Seq(V)
      BY <3>1, <3>3, SequenceOf
    <3> QED BY <3>4 DEF V
  <2> QED BY <1>2, <2>2, <2>5 DEF KnownQuery
<1> QED BY <1>1, <1>2, QueryInputs

(* The queries that are asked nest.                                         *)
LEMMA PoolIsNested == Nested(Pool, Level)
<1>1. ASSUME NEW q \in Pool
      PROVE  Level[q] \in Nat /\ Level[q] < Len(Asked) + 1
  <2>1. Len(Asked) \in Nat /\ Level[q] \in 1..Len(Asked)
    BY LevelIs
  <2> QED BY <2>1
<1>2. Len(Asked) + 1 \in Nat
  BY QueryInputs
<1>3. Level = [q \in Pool |-> Level[q]]
  BY DEF Level
<1> HIDE DEF Level
<1>4. Level \in [Pool -> Nat]
  BY <1>1, <1>3
<1> QED BY <1>1, <1>2, <1>4, QueriesAreKnown DEF Nested

\* Texts that can be indexed, and room in them for a phrase of M words.
Indexable(texts) ==
  /\ DOMAIN texts \subseteq Nat /\ IsFiniteSet(DOMAIN texts)
  /\ \A id \in DOMAIN texts : \A field \in DOMAIN texts[id] :
       field # <<>> /\ texts[id][field] \in Seq(Runes) /\ Len(StandardTokenize(texts[id][field])) < W32

HasRoom(texts, M) ==
  \A id \in DOMAIN texts : \A field \in DOMAIN texts[id] :
    Len(StandardTokenize(texts[id][field])) + M <= W32

(* Texts that can be indexed are, with the room that they have.             *)
LEMMA IndexedIsOK ==
    ASSUME NEW texts, Indexable(texts)
    PROVE  /\ IndexOK(Indexed(texts))
           /\ \A field : \A M : HasRoom(texts, M) => RoomFor(Indexed(texts), field, M)
<1> DEFINE ix == Indexed(texts)
           text(id, field) == texts[id][field]
           N(id, field) == Len(StandardTokenize(text(id, field)))
<1>1. /\ DOMAIN ix = DOMAIN texts
      /\ \A id \in DOMAIN texts :
           /\ DOMAIN ix[id] = DOMAIN texts[id]
           /\ \A field \in DOMAIN texts[id] : ix[id][field] = Analyze(text(id, field))
  BY DEF Indexed
<1>2. \A id \in DOMAIN texts : \A field \in DOMAIN texts[id] :
        field # <<>> /\ text(id, field) \in Seq(Runes) /\ N(id, field) < W32
  BY DEF Indexable
<1>3. \A id \in DOMAIN texts : \A field \in DOMAIN texts[id] :
        Analyzed(ix[id][field], N(id, field)) /\ N(id, field) \in Numbers(W32)
  <2> SUFFICES ASSUME NEW id \in DOMAIN texts, NEW field \in DOMAIN texts[id]
               PROVE  Analyzed(ix[id][field], N(id, field)) /\ N(id, field) \in Numbers(W32)
    OBVIOUS
  <2>1. Analyzed(Analyze(text(id, field)), N(id, field))
    BY <1>2, AnalyzeIs
  <2>2. N(id, field) \in Nat
    BY <2>1 DEF Analyzed
  <2> HIDE DEF N
  <2>3. N(id, field) \in 0..W32 - 1
    BY <1>2, <2>2, WidthsAssumption
  <2> QED BY <1>1, <2>1, <2>3 DEF Numbers
<1>4. DOMAIN texts \subseteq Nat /\ IsFiniteSet(DOMAIN texts)
  BY DEF Indexable
<1>r. \A M : HasRoom(texts, M) => \A id \in DOMAIN texts : \A field \in DOMAIN texts[id] : N(id, field) + M <= W32
  BY DEF HasRoom
<1> HIDE DEF ix, N, text
<1>5. IndexOK(ix)
  <2>1. \A id \in DOMAIN ix : \A field \in DOMAIN ix[id] :
          field # <<>> /\ \E M \in Numbers(W32) : Analyzed(ix[id][field], M)
    BY <1>1, <1>2, <1>3
  <2> QED BY <1>1, <1>4, <2>1 DEF IndexOK
<1>6. ASSUME NEW field, NEW M, HasRoom(texts, M)
      PROVE  RoomFor(ix, field, M)
  <2>1. \A id \in DOMAIN texts : \A f \in DOMAIN texts[id] : N(id, f) + M <= W32
    BY <1>6, <1>r
  <2>2. \A id \in DOMAIN ix : field \in DOMAIN ix[id] =>
          \E K \in Numbers(W32) : Analyzed(ix[id][field], K) /\ K + M <= W32
    BY <1>1, <1>3, <2>1
  <2> QED BY <2>2 DEF RoomFor
<1> QED BY <1>5, <1>6 DEF ix

(* The searched texts are indexed with room for the phrases that are asked. *)
LEMMA CollectionIsReady ==
    ASSUME NEW queries, RoomForPhrases(queries)
    PROVE  Ready(queries, Collection)
<1>1. Indexable(Library)
  BY QueryInputs DEF Indexable
<1>2. ASSUME NEW q \in queries, q.kind = "phrase"
      PROVE  RoomFor(Collection, q.field, Len(StandardTokenize(q.text)))
  <2>1. HasRoom(Library, Len(StandardTokenize(q.text)))
    BY <1>2 DEF HasRoom, RoomForPhrases
  <2> QED BY <1>1, <2>1, IndexedIsOK DEF Collection
<1> QED BY <1>1, <1>2, IndexedIsOK DEF Ready, Collection

(* An atom asks for a text that is part of it.                              *)
LEMMA AtomIsKnown ==
    ASSUME NEW text \in Seq(Runes), NEW d, AtomQuery(text, d) # Invalid, NEW queries, NEW rank
    PROVE  /\ KnownQuery(queries, rank, AtomQuery(text, d))
           /\ AtomQuery(text, d).kind \in {"phrase", "prefix", "match"}
<1> DEFINE n == Len(text)
           colons == {k \in 1..n : text[k] = ":"}
           field == IF colons = {} THEN d ELSE SubSeq(text, 1, Min(colons) - 1)
           rest == IF colons = {} THEN text ELSE SubSeq(text, Min(colons) + 1, n)
           q == AtomQuery(text, d)
<1>1. rest \in Seq(Runes)
  <2>1. CASE colons = {}
    BY <2>1
  <2>2. CASE colons # {}
    <3> DEFINE a == Min(colons) + 1
    <3>1. Min(colons) \in colons
      <4>1. n \in Nat /\ colons \subseteq 1..n
        OBVIOUS
      <4> HIDE DEF colons, n
      <4> QED BY <2>2, <4>1, LeastAndGreatest
    <3>2. a \in 1..n + 1 /\ n \in a - 1..n
      <4>1. Min(colons) \in 1..n
        BY <3>1
      <4> HIDE DEF colons
      <4> QED BY <4>1
    <3>3. rest = SubSeq(text, a, n)
      BY <2>2
    <3> HIDE DEF a, rest
    <3>4. SubSeq(text, a, n) \in Seq(Runes)
      BY <3>2, PartOfText
    <3> QED BY <3>3, <3>4
  <2> QED BY <2>1, <2>2
<1>2. q = IF field = <<>> \/ rest = <<>> THEN Invalid
          ELSE IF rest[1] = Quote
          THEN IF Len(rest) < 2 \/ Last(rest) # Quote THEN Invalid
               ELSE Phrase(field, TrimQuotes(rest), 0)
          ELSE IF Last(rest) = "*" /\ Len(rest) > 1 THEN Prefix(field, Front(rest))
          ELSE Match(field, rest, "OR")
  BY Zenon DEF AtomQuery
<1> HIDE DEF field, rest, q
<1>3. \/ q = Phrase(field, TrimQuotes(rest), 0)
      \/ q = Prefix(field, Front(rest))
      \/ q = Match(field, rest, "OR")
  <2>1. q # Invalid
    BY DEF q
  <2> QED BY <1>2, <2>1
<1>4. TrimQuotes(rest) \in Seq(Runes)
  BY <1>1, TrimmedIs
<1>5. 0 \in Numbers(W32)
  BY WidthsAssumption DEF Numbers
<1>6. CASE q = Phrase(field, TrimQuotes(rest), 0)
  <2>1. q.kind = "phrase" /\ q.text = TrimQuotes(rest) /\ q.slop = 0
    BY <1>6 DEF Phrase
  <2> QED BY <2>1, <1>4, <1>5 DEF KnownQuery, q
<1>7. CASE q = Prefix(field, Front(rest))
  <2>1. q.kind = "prefix"
    BY <1>7 DEF Prefix
  <2> QED BY <2>1 DEF KnownQuery, q
<1>8. CASE q = Match(field, rest, "OR")
  <2>1. q.kind = "match" /\ q.text = rest
    BY <1>8 DEF Match
  <2> QED BY <2>1, <1>1 DEF KnownQuery, q
<1> QED BY <1>3, <1>6, <1>7, <1>8

\* The queries that are read, and the fewest tokens that each takes.
QueriesRead(f, n) ==
  {r.query : r \in UNION {ReadsAt(f[i], n) : i \in 1..n + 1}} \ {Invalid}

LeastTaken(f, n) ==
  [q \in QueriesRead(f, n) |-> CHOOSE s \in 1..n : ReadsFrom(f, n, q, s) /\ \A t \in 1..s - 1 : ~ReadsFrom(f, n, q, t)]

(* A query is read where it takes the fewest tokens.                        *)
LEMMA LeastTakenIs ==
    ASSUME NEW f, NEW tokens, NEW d, NEW n \in Nat, Len(tokens) = n, ReadEquations(f, tokens, d),
           NEW q \in QueriesRead(f, n)
    PROVE  /\ LeastTaken(f, n)[q] \in 1..n
           /\ Made(f, tokens, d, q, LeastTaken(f, n)[q])
           /\ \A t \in 1..LeastTaken(f, n)[q] - 1 : ~ReadsFrom(f, n, q, t)
<1>0. q # Invalid
  BY DEF QueriesRead
<1>1. PICK i \in 1..n + 1 : \E r \in ReadsAt(f[i], n) : r.query = q
  BY DEF QueriesRead
<1>2. PICK r \in ReadsAt(f[i], n) : r.query = q
  BY <1>1
<1> DEFINE S == {s \in 1..n : ReadsFrom(f, n, q, s)}
<1>3. r.index - i \in 1..n
  BY <1>0, <1>2, ReadsAreMade
<1>4. S # {} /\ S \in SUBSET Nat
  <2>1. \E s \in 1..n : s = r.index - i
    BY <1>3
  <2>2. PICK s \in 1..n : s = r.index - i
    BY <2>1
  <2>3. r.index = i + s
    <3>1. WellRead(r, i, n)
      BY <1>2 DEF ReadEquations, GoodReads, ReadsAt
    <3>2. r.index \in Int
      BY <3>1, <1>0, <1>2 DEF WellRead
    <3> QED BY <2>2, <3>2
  <2>4. ReadsFrom(f, n, q, s)
    BY <1>2, <2>3 DEF ReadsFrom
  <2> QED BY <2>4
<1>5. PICK s \in S : \A t \in S : s <= t
  <2> HIDE DEF S
  <2> QED BY <1>4, Smallest
<1>6. s \in 1..n /\ ReadsFrom(f, n, q, s) /\ \A t \in 1..s - 1 : ~ReadsFrom(f, n, q, t)
  BY <1>5
<1> DEFINE l == LeastTaken(f, n)[q]
           OK(x) == ReadsFrom(f, n, q, x) /\ \A t \in 1..x - 1 : ~ReadsFrom(f, n, q, t)
<1>7. l = CHOOSE x \in 1..n : OK(x)
  BY Zenon DEF LeastTaken
<1> HIDE DEF l
<1>8. l \in 1..n /\ OK(l)
  BY <1>6, <1>7
<1>9. PICK j \in 1..n + 1 : \E y \in ReadsAt(f[j], n) : y.query = q /\ y.index = j + l
  BY <1>8 DEF ReadsFrom
<1>10. PICK y \in ReadsAt(f[j], n) : y.query = q /\ y.index = j + l
  BY <1>9
<1>11. Made(f, tokens, d, y.query, y.index - j)
  BY <1>0, <1>10, ReadsAreMade
<1>12. y.index - j = l
  BY <1>8, <1>10
<1>13. Made(f, tokens, d, q, l)
  BY <1>10, <1>11, <1>12
<1> QED BY <1>8, <1>13 DEF l

(* With every query that is read, its clauses are.                          *)
LEMMA ReadsAreNested ==
    ASSUME NEW f, NEW tokens, NEW d, Readable(tokens), ReadEquations(f, tokens, d)
    PROVE  Nested(QueriesRead(f, Len(tokens)), LeastTaken(f, Len(tokens)))
<1> DEFINE n == Len(tokens)
           S == QueriesRead(f, n)
           rank == LeastTaken(f, n)
<1>0. n \in Nat
  BY DEF Readable
<1>1. ASSUME NEW q \in S
      PROVE  /\ rank[q] \in 1..n
             /\ Made(f, tokens, d, q, rank[q])
             /\ \A t \in 1..rank[q] - 1 : ~ReadsFrom(f, n, q, t)
  BY <1>0, LeastTakenIs
<1>2. rank = [q \in S |-> rank[q]]
  BY DEF LeastTaken
<1>3. ASSUME NEW c, NEW t \in 1..n, c # Invalid, ReadsFrom(f, n, c, t)
      PROVE  c \in S /\ rank[c] <= t
  <2>1. PICK i \in 1..n + 1 : \E r \in ReadsAt(f[i], n) : r.query = c
    BY <1>3 DEF ReadsFrom
  <2>2. c \in S
    BY <2>1, <1>3 DEF QueriesRead
  <2>3. rank[c] \in 1..n /\ \A u \in 1..rank[c] - 1 : ~ReadsFrom(f, n, c, u)
    BY <2>2, <1>1
  <2> HIDE DEF rank, n
  <2>4. ~(rank[c] > t)
    BY <2>3, <1>3
  <2> QED BY <2>2, <2>3, <2>4
<1> HIDE DEF rank
<1>4. ASSUME NEW q \in S PROVE KnownQuery(S, rank, q)
  <2> DEFINE s == rank[q]
             part(c) == c # Invalid /\ \E t \in 1..s - 1 : ReadsFrom(f, n, c, t)
             E == Earlier(S, rank, q)
  <2>1. s \in 1..n /\ \A t \in 1..s - 1 : ~ReadsFrom(f, n, q, t)
    BY <1>1
  <2>2. \/ \E i \in 1..n : KindAt(tokens, i) = "atom" /\ q = AtomQuery(tokens[i].text, d)
        \/ part(q)
        \/ \E c : part(c) /\ q = Boolean(<<>>, <<>>, <<c>>)
        \/ \E l, r : /\ part(l) /\ part(r)
                     /\ q \in {Boolean(<<l, r>>, <<>>, <<>>), Boolean(<<>>, <<l, r>>, <<>>)}
    BY <1>1 DEF Made
  <2>3. ASSUME NEW c, part(c) PROVE c \in E
    <3>1. PICK t \in 1..s - 1 : ReadsFrom(f, n, c, t)
      BY <2>3
    <3>2. c \in S /\ rank[c] <= t
      <4>1. t \in 1..n
        BY <2>1, <1>0
      <4> QED BY <4>1, <3>1, <2>3, <1>3
    <3>3. rank[c] < rank[q]
      <4>1. rank[c] \in 1..n
        BY <3>2, <1>1
      <4> QED BY <4>1, <3>2, <2>1, <1>0
    <3> QED BY <3>2, <3>3 DEF Earlier
  <2>4. ~part(q)
    BY <2>1
  <2>5. ASSUME NEW i \in 1..n, q = AtomQuery(tokens[i].text, d) PROVE KnownQuery(S, rank, q)
    <3>1. tokens[i].text \in Seq(Runes)
      BY DEF Readable
    <3>2. q # Invalid
      BY DEF QueriesRead
    <3> HIDE DEF S
    <3> QED BY <3>1, <3>2, <2>5, AtomIsKnown
  <2> HIDE DEF part, E, S, s
  <2>6. ASSUME NEW a \in Seq(E), NEW b \in Seq(E), NEW c \in Seq(E), q = Boolean(a, b, c)
        PROVE  KnownQuery(S, rank, q)
    <3>1. q.kind = "boolean" /\ q.must = a /\ q.should = b /\ q.mustNot = c
      BY <2>6 DEF Boolean
    <3> QED BY <3>1 DEF KnownQuery, E
  <2>7. ASSUME NEW c, part(c), q = Boolean(<<>>, <<>>, <<c>>) PROVE KnownQuery(S, rank, q)
    <3>1. c \in E
      BY <2>3, <2>7
    <3>2. <<c>> \in Seq(E) /\ <<>> \in Seq(E)
      BY <3>1
    <3> QED BY <3>2, <2>6, <2>7
  <2>8. ASSUME NEW l, NEW r, part(l), part(r),
               q \in {Boolean(<<l, r>>, <<>>, <<>>), Boolean(<<>>, <<l, r>>, <<>>)}
        PROVE  KnownQuery(S, rank, q)
    <3>1. l \in E /\ r \in E
      BY <2>3, <2>8
    <3>2. <<l, r>> \in Seq(E) /\ <<>> \in Seq(E)
      BY <3>1
    <3> QED BY <3>2, <2>6, <2>8
  <2> QED BY <2>2, <2>4, <2>5, <2>7, <2>8
<1>5. \A q \in S : rank[q] \in Nat /\ rank[q] < n + 1
  BY <1>1, <1>0
<1> HIDE DEF S
<1>6. rank \in [S -> Nat]
  BY <1>2, <1>5
<1>7. n + 1 \in Nat
  BY <1>0
<1>8. Nested(S, rank)
  BY <1>4, <1>5, <1>6, <1>7 DEF Nested
<1> QED BY <1>8 DEF S, rank

(* The queries that are made of an expression nest.                         *)
LEMMA QueriesNest ==
    ASSUME NEW tokens, NEW d, Readable(tokens)
    PROVE  /\ QueriesIn(tokens, d) = QueriesRead(Reads(tokens, d), Len(tokens))
           /\ \E rank : Nested(QueriesIn(tokens, d), rank)
<1> DEFINE n == Len(tokens)
           f == Reads(tokens, d)
<1>1. ReadEquations(f, tokens, d)
  BY ReadsAre DEF Readable
<1>2. QueriesIn(tokens, d) = QueriesRead(f, n)
  <2> HIDE DEF f
  <2>1. QueriesIn(tokens, d) = ({f[i].unary.query : i \in 1..n + 1}
          \cup {f[i].all[k].query : i \in 1..n + 1, k \in 0..n}
          \cup {f[i].any[k].query : i \in 1..n + 1, k \in 0..n}) \ {Invalid}
    BY DEF QueriesIn, f
  <2> HIDE DEF n
  <2>2. ASSUME NEW q PROVE q \in QueriesIn(tokens, d) <=> q \in QueriesRead(f, n)
    <3>1. q \in QueriesIn(tokens, d) <=>
            /\ q # Invalid
            /\ \E i \in 1..n + 1 : \/ q = f[i].unary.query
                                 \/ \E k \in 0..n : q = f[i].all[k].query \/ q = f[i].any[k].query
      BY <2>1
    <3>2. q \in QueriesRead(f, n) <=>
            q # Invalid /\ \E i \in 1..n + 1 : \E r \in ReadsAt(f[i], n) : q = r.query
      BY DEF QueriesRead
    <3>3. \A i \in 1..n + 1 : (\E r \in ReadsAt(f[i], n) : q = r.query) <=>
            \/ q = f[i].unary.query
            \/ \E k \in 0..n : q = f[i].all[k].query \/ q = f[i].any[k].query
      BY DEF ReadsAt
    <3> QED BY <3>1, <3>2, <3>3
  <2>3. \A q : q \in QueriesIn(tokens, d) <=> q \in QueriesRead(f, n)
    BY <2>2
  <2> QED BY <2>3
<1> QED BY <1>1, <1>2, ReadsAreNested

-----------------------------------------------------------------------------
(* What expressions mean.                                                   *)

\* The documents that are found by each of some queries.
Valued(D, S, ix) == \A q \in S : D[q] = FoundAt(D, ix, q)

(* What satisfies queries is found by them.                                 *)
LEMMA SatisfyingIsValued ==
    ASSUME NEW queries, NEW rank, Nested(queries, rank), NEW ix, Ready(queries, ix)
    PROVE  Valued(Satisfying(ix, queries), queries, ix)
<1> DEFINE D == Satisfying(ix, queries)
<1>1. FoundOf(queries, D, ix)
  BY FoundIs
<1> HIDE DEF D
<1>2. D = [q \in queries |-> FoundAt(D, ix, q)]
  BY <1>1 DEF FoundOf
<1> QED BY <1>2 DEF Valued, D

\* What a clause or two combined find.
Combines(D, ix, q, l, r) ==
  /\ q = Boolean(<<>>, <<>>, <<l>>) => D[q] = DOMAIN ix \ D[l]
  /\ q = Boolean(<<l, r>>, <<>>, <<>>) => D[q] = D[l] \cap D[r]
  /\ q = Boolean(<<>>, <<l, r>>, <<>>) => D[q] = D[l] \cup D[r]

(* Clauses combine the documents that they find.                            *)
LEMMA ClausesCombine ==
    ASSUME NEW D, NEW S, NEW ix, Valued(D, S, ix), NEW q \in S, NEW l \in S, NEW r \in S
    PROVE  Combines(D, ix, q, l, r)
<1> DEFINE X == DOMAIN ix
<1>0. D[l] \subseteq X /\ D[r] \subseteq X
  BY DEF Valued, FoundAt
<1>1. D[q] = FoundAt(D, ix, q)
  BY DEF Valued
<1>2. \A a, b, c : q = Boolean(a, b, c) =>
        D[q] = {id \in X :
                  /\ \A k \in 1..Len(a) : id \in D[a[k]]
                  /\ \A k \in 1..Len(c) : id \notin D[c[k]]
                  /\ \/ a # <<>>
                     \/ \E k \in 1..Len(b) : id \in D[b[k]]
                     \/ b = <<>> /\ c # <<>>}
  <2> SUFFICES ASSUME NEW a, NEW b, NEW c, q = Boolean(a, b, c)
               PROVE  D[q] = {id \in X :
                  /\ \A k \in 1..Len(a) : id \in D[a[k]]
                  /\ \A k \in 1..Len(c) : id \notin D[c[k]]
                  /\ \/ a # <<>>
                     \/ \E k \in 1..Len(b) : id \in D[b[k]]
                     \/ b = <<>> /\ c # <<>>}
    OBVIOUS
  <2>1. q.kind = "boolean" /\ q.must = a /\ q.should = b /\ q.mustNot = c
    BY DEF Boolean
  <2> QED BY <1>1, <2>1 DEF FoundAt
<1> HIDE DEF X
<1>3. Len(<<>>) = 0 /\ Len(<<l>>) = 1 /\ Len(<<l, r>>) = 2
  OBVIOUS
<1>4. <<l>> # <<>> /\ <<l, r>> # <<>>
  OBVIOUS
<1>5. <<l>>[1] = l /\ <<l, r>>[1] = l /\ <<l, r>>[2] = r
  OBVIOUS
<1>6. (1..0) = {} /\ (1..1) = {1} /\ (1..2) = {1, 2}
  OBVIOUS
<1>7. ASSUME q = Boolean(<<>>, <<>>, <<l>>) PROVE D[q] = X \ D[l]
  <2>1. D[q] = {id \in X :
                  /\ \A k \in 1..Len(<<>>) : id \in D[<<>>[k]]
                  /\ \A k \in 1..Len(<<l>>) : id \notin D[<<l>>[k]]
                  /\ \/ <<>> # <<>>
                     \/ \E k \in 1..Len(<<>>) : id \in D[<<>>[k]]
                     \/ <<>> = <<>> /\ <<l>> # <<>>}
    BY <1>2, <1>7
  <2> QED BY <2>1, <1>3, <1>4, <1>5, <1>6
<1>8. ASSUME q = Boolean(<<l, r>>, <<>>, <<>>) PROVE D[q] = D[l] \cap D[r]
  <2>1. D[q] = {id \in X :
                  /\ \A k \in 1..Len(<<l, r>>) : id \in D[<<l, r>>[k]]
                  /\ \A k \in 1..Len(<<>>) : id \notin D[<<>>[k]]
                  /\ \/ <<l, r>> # <<>>
                     \/ \E k \in 1..Len(<<>>) : id \in D[<<>>[k]]
                     \/ <<>> = <<>> /\ <<>> # <<>>}
    BY <1>2, <1>8
  <2> QED BY <2>1, <1>0, <1>3, <1>4, <1>5, <1>6
<1>9. ASSUME q = Boolean(<<>>, <<l, r>>, <<>>) PROVE D[q] = D[l] \cup D[r]
  <2>1. D[q] = {id \in X :
                  /\ \A k \in 1..Len(<<>>) : id \in D[<<>>[k]]
                  /\ \A k \in 1..Len(<<>>) : id \notin D[<<>>[k]]
                  /\ \/ <<>> # <<>>
                     \/ \E k \in 1..Len(<<l, r>>) : id \in D[<<l, r>>[k]]
                     \/ <<l, r>> = <<>> /\ <<>> # <<>>}
    BY <1>2, <1>9
  <2> QED BY <2>1, <1>0, <1>3, <1>4, <1>5, <1>6
<1> QED BY <1>7, <1>8, <1>9 DEF X, Combines

(* An atom finds by itself what it finds as a part of a query.              *)
LEMMA AtomFinds ==
    ASSUME NEW D, NEW S, NEW ix, Valued(D, S, ix), Ready(S, ix), NEW text \in Seq(Runes), NEW d,
           AtomQuery(text, d) \in S, AtomQuery(text, d) # Invalid
    PROVE  Satisfying(ix, {AtomQuery(text, d)})[AtomQuery(text, d)] = D[AtomQuery(text, d)]
<1> DEFINE a == AtomQuery(text, d)
           one == [q \in {a} |-> 0]
           E == Satisfying(ix, {a})
<1>1. KnownQuery({a}, one, a) /\ a.kind \in {"phrase", "prefix", "match"}
  BY AtomIsKnown
<1> HIDE DEF a
<1>2. Nested({a}, one)
  <2>1. one \in [{a} -> Nat] /\ one[a] < 1 /\ 1 \in Nat
    OBVIOUS
  <2> HIDE DEF one
  <2>2. \E n \in Nat : \A q \in {a} : one[q] < n
    BY <2>1
  <2> QED BY <2>1, <2>2, <1>1 DEF Nested
<1>3. Ready({a}, ix)
  BY DEF Ready, a
<1> HIDE DEF one
<1>4. Valued(E, {a}, ix)
  BY <1>2, <1>3, SatisfyingIsValued
<1> HIDE DEF E
<1>5. E[a] = FoundAt(E, ix, a) /\ D[a] = FoundAt(D, ix, a)
  BY <1>4 DEF Valued, a
<1>6. FoundAt(E, ix, a) = FoundAt(D, ix, a)
  BY <1>1 DEF FoundAt
<1> QED BY <1>5, <1>6 DEF a, E

Places2(n) == (1..n + 1) \X (0..n)

Meets(P, Q) == {l \cap r : l \in P, r \in Q}
Uniting(P, Q) == {l \cup r : l \in P, r \in Q}

\* The rules of the grammar.
UnaryRule(x, M, ix, tokens, d, i, j) ==
  LET atom == AtomQuery(tokens[i].text, d)
  IN  \/ i = j /\ tokens[i].kind = "atom" /\ atom # Invalid /\ x = Satisfying(ix, {atom})[atom]
      \/ i + 1 < j /\ tokens[i].kind = "(" /\ tokens[j].kind = ")" /\ x \in M[<<i + 1, j - 1>>].any
      \/ i < j /\ tokens[i].kind = "NOT" /\ \E m \in M[<<i + 1, j>>].unary : x = DOMAIN ix \ m

AllRule(x, M, tokens, i, j) ==
  \E k \in i + 1..j - 1 : tokens[k].kind = "AND" /\ x \in Meets(M[<<i, k - 1>>].all, M[<<k + 1, j>>].unary)

AnyRule(x, M, tokens, i, j) ==
  \/ \E k \in i + 1..j - 1 : tokens[k].kind = "OR" /\ x \in Uniting(M[<<i, k - 1>>].any, M[<<k + 1, j>>].all)
  \/ \E k \in i..j - 1 : x \in Uniting(M[<<i, k>>].any, M[<<k + 1, j>>].all)

Ruled(m, M, ix, tokens, d, i, j) ==
  \A x : /\ x \in m.unary <=> UnaryRule(x, M, ix, tokens, d, i, j)
         /\ x \in m.all <=> x \in m.unary \/ AllRule(x, M, tokens, i, j)
         /\ x \in m.any <=> x \in m.all \/ AnyRule(x, M, tokens, i, j)

(* What tokens mean is what the rules of the grammar say.                   *)
LEMMA MeaningIsRuled ==
    ASSUME NEW M, NEW ix, NEW tokens, NEW d, NEW i, NEW j
    PROVE  Ruled(MeaningAt(M, ix, tokens, d, <<i, j>>), M, ix, tokens, d, i, j)
<1> DEFINE kd(k) == tokens[k].kind
           atom == AtomQuery(tokens[i].text, d)
           primary ==
             (IF i = j /\ kd(i) = "atom" /\ atom # Invalid
              THEN {Satisfying(ix, {atom})[atom]} ELSE {})
             \cup (IF i + 1 < j /\ kd(i) = "(" /\ kd(j) = ")"
                   THEN M[<<i + 1, j - 1>>].any ELSE {})
           unary ==
             primary \cup (IF i < j /\ kd(i) = "NOT"
                           THEN {DOMAIN ix \ m : m \in M[<<i + 1, j>>].unary} ELSE {})
           ands == {k \in i + 1..j - 1 : kd(k) = "AND"}
           ors == {k \in i + 1..j - 1 : kd(k) = "OR"}
           A(k) == Meets(M[<<i, k - 1>>].all, M[<<k + 1, j>>].unary)
           O(k) == Uniting(M[<<i, k - 1>>].any, M[<<k + 1, j>>].all)
           J(k) == Uniting(M[<<i, k>>].any, M[<<k + 1, j>>].all)
           all == unary \cup UNION {A(k) : k \in ands}
           any == all \cup (UNION {O(k) : k \in ors}) \cup (UNION {J(k) : k \in i..j - 1})
           m == MeaningAt(M, ix, tokens, d, <<i, j>>)
<1>1. m.unary = unary /\ m.all = all /\ m.any = any
  BY DEF MeaningAt, Meets, Uniting
<1>2. \A x : x \in unary <=> UnaryRule(x, M, ix, tokens, d, i, j)
  BY Zenon DEF UnaryRule
<1> HIDE DEF unary
<1> HIDE DEF A, O, J
<1>3. \A x : x \in all <=> x \in unary \/ AllRule(x, M, tokens, i, j)
  <2>1. \A x : x \in all <=> x \in unary \/ \E k \in i + 1..j - 1 : kd(k) = "AND" /\ x \in A(k)
    OBVIOUS
  <2> QED BY <2>1 DEF AllRule, A
<1> HIDE DEF all
<1>4. \A x : x \in any <=> x \in all \/ AnyRule(x, M, tokens, i, j)
  <2>1. \A x : x \in any <=> \/ x \in all
                             \/ \E k \in i + 1..j - 1 : kd(k) = "OR" /\ x \in O(k)
                             \/ \E k \in i..j - 1 : x \in J(k)
    OBVIOUS
  <2> QED BY <2>1 DEF AnyRule, O, J
<1> HIDE DEF any, m
<1> QED BY <1>1, <1>2, <1>3, <1>4 DEF Ruled, m

\* How much a part of n tokens is.
Extent(n) == [span \in Places2(n) |-> n + 1 + span[2] - span[1]]

(* The rules of the grammar are about fewer tokens.                         *)
LEMMA RulesDescend ==
    ASSUME NEW n \in Nat, NEW i \in 1..n + 1, NEW j \in 0..n
    PROVE  /\ Extent(n)[<<i, j>>] \in Nat /\ Extent(n)[<<i, j>>] < 2 * n + 2
           /\ i + 1 < j => <<i + 1, j - 1>> \in Places2(n) /\ Extent(n)[<<i + 1, j - 1>>] < Extent(n)[<<i, j>>]
           /\ i < j => <<i + 1, j>> \in Places2(n) /\ Extent(n)[<<i + 1, j>>] < Extent(n)[<<i, j>>]
           /\ \A k \in i + 1..j - 1 : /\ <<i, k - 1>> \in Places2(n) /\ Extent(n)[<<i, k - 1>>] < Extent(n)[<<i, j>>]
                                      /\ <<k + 1, j>> \in Places2(n) /\ Extent(n)[<<k + 1, j>>] < Extent(n)[<<i, j>>]
           /\ \A k \in i..j - 1 : /\ <<i, k>> \in Places2(n) /\ Extent(n)[<<i, k>>] < Extent(n)[<<i, j>>]
                                  /\ <<k + 1, j>> \in Places2(n) /\ Extent(n)[<<k + 1, j>>] < Extent(n)[<<i, j>>]
<1>1. ASSUME NEW a \in 1..n + 1, NEW b \in 0..n
      PROVE  <<a, b>> \in Places2(n) /\ Extent(n)[<<a, b>>] = n + 1 + b - a
  <2>1. <<a, b>> \in Places2(n)
    BY DEF Places2
  <2>2. Extent(n)[<<a, b>>] = n + 1 + <<a, b>>[2] - <<a, b>>[1]
    BY <2>1 DEF Extent
  <2> QED BY <2>1, <2>2
<1>2. Extent(n)[<<i, j>>] = n + 1 + j - i
  BY <1>1
<1>3. i + 1 < j => i + 1 \in 1..n + 1 /\ j - 1 \in 0..n
  OBVIOUS
<1>4. i < j => i + 1 \in 1..n + 1
  OBVIOUS
<1>5. \A k \in i + 1..j - 1 : k - 1 \in 0..n /\ k + 1 \in 1..n + 1
  OBVIOUS
<1>6. \A k \in i..j - 1 : k \in 0..n /\ k + 1 \in 1..n + 1
  OBVIOUS
<1>7. i + 1 < j => <<i + 1, j - 1>> \in Places2(n) /\ Extent(n)[<<i + 1, j - 1>>] < Extent(n)[<<i, j>>]
  <2> SUFFICES ASSUME i + 1 < j PROVE <<i + 1, j - 1>> \in Places2(n) /\ Extent(n)[<<i + 1, j - 1>>] < Extent(n)[<<i, j>>]
    OBVIOUS
  <2>1. <<i + 1, j - 1>> \in Places2(n) /\ Extent(n)[<<i + 1, j - 1>>] = n + 1 + (j - 1) - (i + 1)
    BY <1>1, <1>3
  <2> QED BY <2>1, <1>2
<1>8. i < j => <<i + 1, j>> \in Places2(n) /\ Extent(n)[<<i + 1, j>>] < Extent(n)[<<i, j>>]
  <2> SUFFICES ASSUME i < j PROVE <<i + 1, j>> \in Places2(n) /\ Extent(n)[<<i + 1, j>>] < Extent(n)[<<i, j>>]
    OBVIOUS
  <2>1. <<i + 1, j>> \in Places2(n) /\ Extent(n)[<<i + 1, j>>] = n + 1 + j - (i + 1)
    BY <1>1, <1>4
  <2> QED BY <2>1, <1>2
<1>9. ASSUME NEW k \in i..j - 1
      PROVE  /\ <<i, k>> \in Places2(n) /\ Extent(n)[<<i, k>>] < Extent(n)[<<i, j>>]
             /\ <<k + 1, j>> \in Places2(n) /\ Extent(n)[<<k + 1, j>>] < Extent(n)[<<i, j>>]
  <2>1. /\ <<i, k>> \in Places2(n) /\ Extent(n)[<<i, k>>] = n + 1 + k - i
        /\ <<k + 1, j>> \in Places2(n) /\ Extent(n)[<<k + 1, j>>] = n + 1 + j - (k + 1)
    BY <1>1, <1>6
  <2> QED BY <2>1, <1>2
<1>10. ASSUME NEW k \in i + 1..j - 1
       PROVE  /\ <<i, k - 1>> \in Places2(n) /\ Extent(n)[<<i, k - 1>>] < Extent(n)[<<i, j>>]
              /\ <<k + 1, j>> \in Places2(n) /\ Extent(n)[<<k + 1, j>>] < Extent(n)[<<i, j>>]
  <2>1. /\ <<i, k - 1>> \in Places2(n) /\ Extent(n)[<<i, k - 1>>] = n + 1 + (k - 1) - i
        /\ <<k + 1, j>> \in Places2(n) /\ Extent(n)[<<k + 1, j>>] = n + 1 + j - (k + 1)
    BY <1>1, <1>5
  <2> QED BY <2>1, <1>2
<1> QED BY <1>2, <1>7, <1>8, <1>9, <1>10

\* Two accounts of what tokens mean agree on fewer tokens than from i to j.
AgreeBelow(f, g, n, i, j) ==
  \A e \in Places2(n) : Extent(n)[e] < Extent(n)[<<i, j>>] => f[e] = g[e]

(* What tokens mean depends on what fewer tokens mean.                      *)
LEMMA FewerDecide ==
    ASSUME NEW ix, NEW tokens, NEW d, NEW n \in Nat, NEW i \in 1..n + 1, NEW j \in 0..n,
           NEW f, NEW g, AgreeBelow(f, g, n, i, j)
    PROVE  MeaningAt(f, ix, tokens, d, <<i, j>>) = MeaningAt(g, ix, tokens, d, <<i, j>>)
<1> DEFINE a == MeaningAt(f, ix, tokens, d, <<i, j>>)
           b == MeaningAt(g, ix, tokens, d, <<i, j>>)
<1>1. Ruled(a, f, ix, tokens, d, i, j) /\ Ruled(b, g, ix, tokens, d, i, j)
  BY MeaningIsRuled
<1>2. a = [unary |-> a.unary, all |-> a.all, any |-> a.any]
  BY DEF MeaningAt
<1>3. b = [unary |-> b.unary, all |-> b.all, any |-> b.any]
  BY DEF MeaningAt
<1> HIDE DEF a, b
<1>4. /\ i + 1 < j => f[<<i + 1, j - 1>>] = g[<<i + 1, j - 1>>]
      /\ i < j => f[<<i + 1, j>>] = g[<<i + 1, j>>]
      /\ \A k \in i + 1..j - 1 : f[<<i, k - 1>>] = g[<<i, k - 1>>] /\ f[<<k + 1, j>>] = g[<<k + 1, j>>]
      /\ \A k \in i..j - 1 : f[<<i, k>>] = g[<<i, k>>] /\ f[<<k + 1, j>>] = g[<<k + 1, j>>]
  BY RulesDescend DEF AgreeBelow
<1>5. \A x : UnaryRule(x, f, ix, tokens, d, i, j) <=> UnaryRule(x, g, ix, tokens, d, i, j)
  BY <1>4 DEF UnaryRule
<1>6. \A x : AllRule(x, f, tokens, i, j) <=> AllRule(x, g, tokens, i, j)
  BY <1>4 DEF AllRule
<1>7. \A x : AnyRule(x, f, tokens, i, j) <=> AnyRule(x, g, tokens, i, j)
  BY <1>4 DEF AnyRule
<1>8. a.unary = b.unary
  <2>1. \A x : x \in a.unary <=> x \in b.unary
    BY <1>1, <1>5 DEF Ruled
  <2> QED BY <2>1
<1>9. a.all = b.all
  <2>1. \A x : x \in a.all <=> x \in b.all
    BY <1>1, <1>6, <1>8 DEF Ruled
  <2> QED BY <2>1
<1>10. a.any = b.any
  <2>1. \A x : x \in a.any <=> x \in b.any
    BY <1>1, <1>7, <1>9 DEF Ruled
  <2> QED BY <2>1
<1> QED BY <1>2, <1>3, <1>8, <1>9, <1>10 DEF a, b

\* Atoms find documents of the index.
AtomsFind(ix, tokens, d) ==
  \A i \in 1..Len(tokens) : \A a :
    tokens[i].kind = "atom" /\ a = AtomQuery(tokens[i].text, d) /\ a # Invalid =>
      Satisfying(ix, {a})[a] \subseteq DOMAIN ix

MeaningSets(ix) ==
  LET sets == SUBSET SUBSET DOMAIN ix IN [unary : sets, all : sets, any : sets]

(* Tokens mean sets of documents.                                           *)
LEMMA MeaningsAreSets ==
    ASSUME NEW ix, NEW tokens, NEW d, NEW n \in Nat, Len(tokens) = n, AtomsFind(ix, tokens, d),
           NEW i \in 1..n + 1, NEW j \in 0..n, NEW f \in [Places2(n) -> MeaningSets(ix)]
    PROVE  MeaningAt(f, ix, tokens, d, <<i, j>>) \in MeaningSets(ix)
<1> DEFINE a == MeaningAt(f, ix, tokens, d, <<i, j>>)
           X == DOMAIN ix
<1>1. Ruled(a, f, ix, tokens, d, i, j)
  BY MeaningIsRuled
<1>2. a = [unary |-> a.unary, all |-> a.all, any |-> a.any]
  BY DEF MeaningAt
<1> HIDE DEF a
<1>3. \A e \in Places2(n) : /\ \A m \in f[e].unary : m \subseteq X
                            /\ \A m \in f[e].all : m \subseteq X
                            /\ \A m \in f[e].any : m \subseteq X
  BY DEF MeaningSets
<1>4. /\ i + 1 < j => <<i + 1, j - 1>> \in Places2(n)
      /\ i < j => <<i + 1, j>> \in Places2(n)
      /\ \A k \in i + 1..j - 1 : <<i, k - 1>> \in Places2(n) /\ <<k + 1, j>> \in Places2(n)
      /\ \A k \in i..j - 1 : <<i, k>> \in Places2(n) /\ <<k + 1, j>> \in Places2(n)
  BY RulesDescend
<1>5. ASSUME NEW x, UnaryRule(x, f, ix, tokens, d, i, j) PROVE x \subseteq X
  <2> DEFINE q == AtomQuery(tokens[i].text, d)
  <2>1. CASE i = j /\ tokens[i].kind = "atom" /\ q # Invalid /\ x = Satisfying(ix, {q})[q]
    <3>1. i \in 1..n
      BY <2>1
    <3> QED BY <2>1, <3>1 DEF AtomsFind
  <2>2. CASE i + 1 < j /\ x \in f[<<i + 1, j - 1>>].any
    BY <2>2, <1>3, <1>4
  <2>3. CASE i < j /\ \E m \in f[<<i + 1, j>>].unary : x = DOMAIN ix \ m
    BY <2>3, <1>3, <1>4
  <2> QED BY <1>5, <2>1, <2>2, <2>3 DEF UnaryRule
<1>6. ASSUME NEW x, AllRule(x, f, tokens, i, j) PROVE x \subseteq X
  <2>1. PICK k \in i + 1..j - 1 : x \in Meets(f[<<i, k - 1>>].all, f[<<k + 1, j>>].unary)
    BY <1>6 DEF AllRule
  <2>2. PICK l \in f[<<i, k - 1>>].all, r \in f[<<k + 1, j>>].unary : x = l \cap r
    BY <2>1 DEF Meets
  <2> QED BY <2>2, <1>3, <1>4
<1>7. ASSUME NEW x, AnyRule(x, f, tokens, i, j) PROVE x \subseteq X
  <2>0. ASSUME NEW P, NEW Q, x \in Uniting(P, Q), \A m \in P : m \subseteq X, \A m \in Q : m \subseteq X
        PROVE  x \subseteq X
    BY <2>0 DEF Uniting
  <2>1. ASSUME NEW k \in i + 1..j - 1, x \in Uniting(f[<<i, k - 1>>].any, f[<<k + 1, j>>].all)
        PROVE  x \subseteq X
    <3>1. <<i, k - 1>> \in Places2(n) /\ <<k + 1, j>> \in Places2(n)
      BY <1>4
    <3> QED BY <3>1, <2>1, <2>0, <1>3
  <2>2. ASSUME NEW k \in i..j - 1, x \in Uniting(f[<<i, k>>].any, f[<<k + 1, j>>].all)
        PROVE  x \subseteq X
    <3>1. <<i, k>> \in Places2(n) /\ <<k + 1, j>> \in Places2(n)
      BY <1>4
    <3> QED BY <3>1, <2>2, <2>0, <1>3
  <2> QED BY <1>7, <2>1, <2>2 DEF AnyRule
<1>8. \A x \in a.unary : x \subseteq X
  BY <1>1, <1>5 DEF Ruled
<1>9. \A x \in a.all : x \subseteq X
  BY <1>1, <1>6, <1>8 DEF Ruled
<1>10. \A x \in a.any : x \subseteq X
  BY <1>1, <1>7, <1>9 DEF Ruled
<1>11. a.unary \in SUBSET SUBSET X /\ a.all \in SUBSET SUBSET X /\ a.any \in SUBSET SUBSET X
  BY <1>8, <1>9, <1>10
<1> QED BY <1>2, <1>11 DEF MeaningSets, a

\* The meanings of all parts of some tokens, each given by those of smaller parts.
MeaningsOf(M, ix, tokens, d) ==
  M = [span \in Places2(Len(tokens)) |-> MeaningAt(M, ix, tokens, d, span)]

(* There are meanings as the grammar has them.                              *)
LEMMA MeaningsExist ==
    ASSUME NEW ix, NEW tokens, NEW d, NEW n \in Nat, Len(tokens) = n, AtomsFind(ix, tokens, d)
    PROVE  \E M : MeaningsOf(M, ix, tokens, d)
<1> DEFINE D == Places2(n)
           V == MeaningSets(ix)
           m == Extent(n)
           G == [e \in D |-> [f \in [D -> V] |-> MeaningAt(f, ix, tokens, d, e)]]
<1>1. V # {}
  <2>1. [unary |-> {}, all |-> {}, any |-> {}] \in V
    BY DEF MeaningSets
  <2> QED BY <2>1
<1>2. ASSUME NEW e \in D PROVE \E i \in 1..n + 1, j \in 0..n : e = <<i, j>>
  BY DEF Places2
<1>3. ASSUME NEW e \in D PROVE m[e] \in Nat /\ m[e] < 2 * n + 2
  <2>1. PICK i \in 1..n + 1, j \in 0..n : e = <<i, j>>
    BY <1>2
  <2> HIDE DEF D, m
  <2> QED BY <2>1, RulesDescend DEF m
<1>4. ASSUME NEW e \in D, NEW f \in [D -> V]
      PROVE  MeaningAt(f, ix, tokens, d, e) \in V
  <2>1. PICK i \in 1..n + 1, j \in 0..n : e = <<i, j>>
    BY <1>2
  <2>2. MeaningAt(f, ix, tokens, d, <<i, j>>) \in V
    BY MeaningsAreSets
  <2> QED BY <2>1, <2>2
<1>5. ASSUME NEW e \in D, NEW f \in [D -> V], NEW g \in [D -> V],
             \A c \in D : m[c] < m[e] => f[c] = g[c]
      PROVE  MeaningAt(f, ix, tokens, d, e) = MeaningAt(g, ix, tokens, d, e)
  <2>1. PICK i \in 1..n + 1, j \in 0..n : e = <<i, j>>
    BY <1>2
  <2>2. AgreeBelow(f, g, n, i, j)
    BY <1>5, <2>1 DEF AgreeBelow
  <2>3. MeaningAt(f, ix, tokens, d, <<i, j>>) = MeaningAt(g, ix, tokens, d, <<i, j>>)
    BY <2>2, FewerDecide
  <2> QED BY <2>1, <2>3
<1>6. m = [e \in D |-> m[e]]
  BY DEF Extent
<1>n. 2 * n + 2 \in Nat
  OBVIOUS
<1> DEFINE N == 2 * n + 2
<1> HIDE DEF D, V, m, N
<1>7. m \in [D -> Nat] /\ N \in Nat /\ \A e \in D : m[e] < N
  BY <1>3, <1>6, <1>n DEF N
<1>8. G \in [D -> [[D -> V] -> V]]
  BY <1>4
<1>9. \A e \in D : \A f, g \in [D -> V] :
         (\A c \in D : m[c] < m[e] => f[c] = g[c]) => G[e][f] = G[e][g]
  BY <1>5
<1>10. Descends(G, D, V, m, N)
  <2> HIDE DEF G
  <2> QED BY <1>1, <1>7, <1>8, <1>9 DEF Descends
<1>11. PICK M \in [D -> V] : \A e \in D : M[e] = G[e][M]
  <2> HIDE DEF G
  <2> QED BY <1>10, Recursion
<1>12. M = [e \in D |-> MeaningAt(M, ix, tokens, d, e)]
  BY <1>11
<1> QED BY <1>12 DEF MeaningsOf, D

(* The meanings of tokens follow the rules of the grammar.                  *)
LEMMA MeaningsAre ==
    ASSUME NEW ix, NEW tokens, NEW d, NEW n \in Nat, Len(tokens) = n, AtomsFind(ix, tokens, d),
           NEW i \in 1..n + 1, NEW j \in 0..n
    PROVE  Ruled(Meanings(ix, tokens, d)[<<i, j>>], Meanings(ix, tokens, d), ix, tokens, d, i, j)
<1> DEFINE M == Meanings(ix, tokens, d)
<1>1. \E g : MeaningsOf(g, ix, tokens, d)
  BY MeaningsExist
<1>2. M = [span \in (1..Len(tokens) + 1) \X (0..Len(tokens)) |-> MeaningAt(M, ix, tokens, d, span)]
  BY <1>1, Zenon DEF Meanings, MeaningsOf, Places2
<1> HIDE DEF M
<1>3. M[<<i, j>>] = MeaningAt(M, ix, tokens, d, <<i, j>>)
  <2>1. <<i, j>> \in (1..Len(tokens) + 1) \X (0..Len(tokens))
    OBVIOUS
  <2> QED BY <1>2, <2>1
<1> QED BY <1>3, MeaningIsRuled DEF M

-----------------------------------------------------------------------------
(* Expressions are read as the grammar has them.                            *)

\* A read of a query that ends with token j.
Ends(r, j) == r.query # Invalid /\ r.index = j + 1

\* A read that begins a loop or joins one of its reads with the next clause.
LastJoin(r, g, b, f, tokens, a, n) ==
  \/ r = a
  \/ \E l \in 0..n - 1 :
       LET right == ReadNext(b, f[JoinedAt(b, tokens, g[l])], tokens)
       IN  ~Over(b, tokens, g[l]) /\ right.query # Invalid /\ r = JoinOf(b, g[l], right)

(* Every read of a loop begins it or joins two clauses.                     *)
LEMMA LoopReads ==
    ASSUME NEW b \in {"all", "any"}, NEW f, NEW tokens, NEW n \in Nat, NEW i, NEW a, NEW g,
           Looped(g, b, f, tokens, a, i, n), NEW k \in 0..n, g[k].query # Invalid
    PROVE  a.query # Invalid /\ LastJoin(g[k], g, b, f, tokens, a, n)
<1> DEFINE S == {c \in Nat : c <= n => (g[c].query # Invalid =>
                   a.query # Invalid /\ LastJoin(g[c], g, b, f, tokens, a, n))}
<1>1. g[0] = a /\ \A c \in 1..n : g[c] = Round(b, f, tokens, g[c - 1])
  BY DEF Looped
<1>2. 0 \in S
  BY <1>1 DEF LastJoin
<1>3. ASSUME NEW c \in S PROVE c + 1 \in S
  <2> SUFFICES ASSUME c + 1 <= n, g[c + 1].query # Invalid
               PROVE  a.query # Invalid /\ LastJoin(g[c + 1], g, b, f, tokens, a, n)
    OBVIOUS
  <2> DEFINE right == ReadNext(b, f[JoinedAt(b, tokens, g[c])], tokens)
  <2>1. c + 1 \in 1..n /\ c + 1 - 1 = c /\ c \in 0..n - 1 /\ c <= n
    OBVIOUS
  <2>2. g[c + 1] = IF Over(b, tokens, g[c]) THEN g[c] ELSE JoinOf(b, g[c], right)
    <3>1. g[c + 1] = Round(b, f, tokens, g[c])
      BY <1>1, <2>1
    <3> QED BY <3>1, RoundJoins
  <2> HIDE DEF right
  <2>3. CASE Over(b, tokens, g[c])
    BY <2>1, <2>2, <2>3
  <2>4. CASE ~Over(b, tokens, g[c])
    <3>1. g[c + 1] = JoinOf(b, g[c], right)
      BY <2>2, <2>4
    <3>2. right.query # Invalid
      BY <3>1 DEF JoinOf
    <3>3. g[c].query # Invalid
      BY <2>4 DEF Over
    <3>4. a.query # Invalid
      BY <2>1, <3>3
    <3> QED BY <2>1, <2>4, <3>1, <3>2, <3>4 DEF LastJoin, right
  <2> QED BY <2>3, <2>4
<1>4. S = Nat
  <2>1. S \in SUBSET Nat
    OBVIOUS
  <2> HIDE DEF S
  <2> QED BY <1>2, <1>3, <2>1, NumberInduction
<1>5. k \in S /\ k <= n
  <2> HIDE DEF S
  <2> QED BY <1>4
<1> QED BY <1>5

\* A loop goes on from one of its reads.
GoesOn(g, b, f, tokens, n, k) ==
  /\ k + 1 \in 0..n
  /\ g[k + 1] = JoinOf(b, g[k], ReadNext(b, f[JoinedAt(b, tokens, g[k])], tokens))

(* A loop that is not over joins the next clause.                           *)
LEMMA LoopJoins ==
    ASSUME NEW b \in {"all", "any"}, NEW f, NEW tokens, NEW n \in Nat, NEW i, NEW a, NEW g,
           Looped(g, b, f, tokens, a, i, n), NEW k \in 0..n, ~Over(b, tokens, g[k])
    PROVE  GoesOn(g, b, f, tokens, n, k)
<1>1. k # n
  BY DEF Looped
<1>2. k + 1 \in 1..n /\ k + 1 - 1 = k /\ k + 1 \in 0..n
  BY <1>1
<1>3. g[k + 1] = Round(b, f, tokens, g[k])
  BY <1>2 DEF Looped
<1> QED BY <1>2, <1>3, RoundJoins DEF GoesOn

\* What is read, what it finds and what is meant.
Setting(ix, tokens, d, n, f, V, M) ==
  /\ n \in Nat /\ Len(tokens) = n
  /\ ReadEquations(f, tokens, d)
  /\ Valued(V, QueriesRead(f, n), ix)
  /\ \A i \in 1..n : \A q :
       tokens[i].kind = "atom" /\ q = AtomQuery(tokens[i].text, d) /\ q # Invalid =>
         Satisfying(ix, {q})[q] = V[q]
  /\ \A i \in 1..n + 1, j \in 0..n : Ruled(M[<<i, j>>], M, ix, tokens, d, i, j)

(* A clause begins with an atom, a parenthesis or NOT.                      *)
LEMMA ClauseBegins ==
    ASSUME NEW f, NEW tokens, NEW d, NEW n \in Nat, Len(tokens) = n, ReadEquations(f, tokens, d),
           NEW i \in 1..n + 1, NEW k \in 0..n, f[i].all[k].query # Invalid
    PROVE  KindAt(tokens, i) \in {"atom", "(", "NOT"}
<1>1. Looped(f[i].all, "all", f, tokens, f[i].unary, i, n)
  BY ReadsLoop
<1> DEFINE g == f[i].all
           a == f[i].unary
<1>2. a.query # Invalid
  <2>1. Looped(g, "all", f, tokens, a, i, n) /\ g[k].query # Invalid
    BY <1>1
  <2> HIDE DEF g, a
  <2> QED BY <2>1, LoopReads
<1>3. a = ParseUnary(f, tokens, i, d)
  BY DEF ReadEquations
<1> QED BY <1>2, <1>3 DEF ParseUnary, ParsePrimary, Read

\* What some tokens mean is what is read of them.
Agrees(M, f, V, tokens, i, j, n) ==
  \A x :
    /\ x \in M[<<i, j>>].unary <=> Ends(f[i].unary, j) /\ x = V[f[i].unary.query]
    /\ x \in M[<<i, j>>].all <=> \E k \in 0..n : Ends(f[i].all[k], j) /\ x = V[f[i].all[k].query]
    /\ KindAt(tokens, j + 1) # "AND" =>
         (x \in M[<<i, j>>].any <=> \E k \in 0..n : Ends(f[i].any[k], j) /\ x = V[f[i].any[k].query])

AgreesWithin(M, f, V, tokens, i, j, n) ==
  \A a \in 1..n + 1, c \in 0..n : c - a < j - i => Agrees(M, f, V, tokens, a, c, n)

(* A primary or its negation is read as the grammar has it.                 *)
LEMMA UnaryAgrees ==
    ASSUME NEW ix, NEW tokens, NEW d, NEW n, NEW f, NEW V, NEW M, Setting(ix, tokens, d, n, f, V, M),
           NEW i \in 1..n + 1, NEW j \in 0..n, AgreesWithin(M, f, V, tokens, i, j, n), NEW x
    PROVE  x \in M[<<i, j>>].unary <=> Ends(f[i].unary, j) /\ x = V[f[i].unary.query]
<1> DEFINE kd == KindAt(tokens, i)
           r == ParseUnary(f, tokens, i, d)
           q == AtomQuery(tokens[i].text, d)
           found == x \in M[<<i, j>>].unary
           rule == \/ i = j /\ tokens[i].kind = "atom" /\ q # Invalid /\ x = Satisfying(ix, {q})[q]
                   \/ i + 1 < j /\ tokens[i].kind = "(" /\ tokens[j].kind = ")" /\ x \in M[<<i + 1, j - 1>>].any
                   \/ i < j /\ tokens[i].kind = "NOT" /\ \E m \in M[<<i + 1, j>>].unary : x = DOMAIN ix \ m
<1>n. n \in Nat /\ Len(tokens) = n /\ ReadEquations(f, tokens, d)
  BY DEF Setting
<1>0. \A c, e : Read(c, e).query = c /\ Read(c, e).index = e
  BY DEF Read
<1>1. r = f[i].unary
  BY <1>n DEF ReadEquations
<1>g. SUFFICES found <=> Ends(r, j) /\ x = V[r.query]
  BY <1>1
<1>2. found <=> rule
  <2>1. Ruled(M[<<i, j>>], M, ix, tokens, d, i, j)
    BY DEF Setting
  <2>2. found <=> UnaryRule(x, M, ix, tokens, d, i, j)
    BY <2>1 DEF Ruled
  <2> QED BY <2>2, Zenon DEF UnaryRule
<1>3. i \in 1..n => kd = tokens[i].kind
  BY <1>n DEF KindAt
<1>4. CASE i = n + 1
  <2>1. kd = "end"
    BY <1>4, <1>n DEF KindAt
  <2>2. r = Read(Invalid, i)
    BY <2>1 DEF ParseUnary, ParsePrimary
  <2>3. ~Ends(r, j)
    BY <2>2, <1>0 DEF Ends
  <2>4. i # j /\ ~(i + 1 < j) /\ ~(i < j)
    BY <1>4, <1>n
  <2> HIDE DEF r
  <2>5. ~rule
    BY <2>4
  <2> HIDE DEF rule, found
  <2> QED BY <2>3, <2>5, <1>2
<1>5. CASE i \in 1..n /\ kd = "atom"
  <2>1. r = Read(q, i + 1)
    BY <1>5 DEF ParseUnary, ParsePrimary
  <2>2. rule <=> i = j /\ q # Invalid /\ x = Satisfying(ix, {q})[q]
    BY <1>5, <1>3
  <2>3. q # Invalid => Satisfying(ix, {q})[q] = V[q]
    BY <1>5, <1>3 DEF Setting
  <2>4. Ends(r, j) <=> q # Invalid /\ i = j
    <3>1. r.query = q /\ r.index = i + 1
      BY <2>1, <1>0
    <3> HIDE DEF r, q
    <3> QED BY <3>1, <1>n DEF Ends
  <2>5. r.query = q
    BY <2>1, <1>0
  <2> HIDE DEF r, q, rule, found
  <2> QED BY <2>2, <2>3, <2>4, <2>5, <1>2
<1>6. CASE i \in 1..n /\ kd = "NOT"
  <2> DEFINE c == f[i + 1].unary
             X == DOMAIN ix
  <2>1. r = IF c.query = Invalid THEN c ELSE Read(Boolean(<<>>, <<>>, <<c.query>>), c.index)
    BY <1>6 DEF ParseUnary
  <2>2. rule <=> i < j /\ \E m \in M[<<i + 1, j>>].unary : x = X \ m
    BY <1>6, <1>3
  <2>3. i < j => Agrees(M, f, V, tokens, i + 1, j, n)
    <3> SUFFICES ASSUME i < j PROVE Agrees(M, f, V, tokens, i + 1, j, n)
      OBVIOUS
    <3>1. i + 1 \in 1..n + 1 /\ j - (i + 1) < j - i
      BY <1>6, <1>n
    <3> QED BY <3>1 DEF AgreesWithin
  <2>4. rule <=> i < j /\ Ends(c, j) /\ x = X \ V[c.query]
    BY <2>2, <2>3 DEF Agrees
  <2>5. WellRead(c, i + 1, n)
    <3>1. i + 1 \in 1..n + 1
      BY <1>6, <1>n
    <3>2. GoodReads(f[i + 1], i + 1, n)
      BY <3>1, <1>n DEF ReadEquations
    <3> QED BY <3>2 DEF GoodReads
  <2>6. Ends(c, j) => i < j
    <3> SUFFICES ASSUME Ends(c, j) PROVE i < j
      OBVIOUS
    <3>1. c.index \in i + 1 + 1..n + 1 /\ c.index = j + 1
      BY <2>5 DEF WellRead, Ends
    <3> HIDE DEF c
    <3> QED BY <3>1, <1>6, <1>n
  <2>7. Ends(r, j) <=> Ends(c, j)
    <3>1. CASE c.query = Invalid
      BY <3>1, <2>1 DEF Ends
    <3>2. CASE c.query # Invalid
      <4>1. r.query = Boolean(<<>>, <<>>, <<c.query>>) /\ r.index = c.index
        BY <3>2, <2>1, <1>0
      <4>2. r.query # Invalid
        BY <4>1 DEF Boolean, Invalid
      <4> HIDE DEF r, c
      <4> QED BY <3>2, <4>1, <4>2 DEF Ends
    <3> QED BY <3>1, <3>2
  <2>8. Ends(c, j) => V[r.query] = X \ V[c.query]
    <3> SUFFICES ASSUME Ends(c, j) PROVE V[r.query] = X \ V[c.query]
      OBVIOUS
    <3>1. c.query # Invalid /\ r.query # Invalid
      BY <2>7 DEF Ends
    <3>2. r.query = Boolean(<<>>, <<>>, <<c.query>>)
      BY <3>1, <2>1, <1>0
    <3>3. c.query \in QueriesRead(f, n)
      <4>1. i + 1 \in 1..n + 1
        BY <1>6, <1>n
      <4>2. c \in ReadsAt(f[i + 1], n)
        BY DEF ReadsAt
      <4> HIDE DEF c
      <4> QED BY <4>1, <4>2, <3>1 DEF QueriesRead
    <3>4. r.query \in QueriesRead(f, n)
      <4>1. r \in ReadsAt(f[i], n)
        BY <1>1 DEF ReadsAt
      <4> HIDE DEF r
      <4> QED BY <4>1, <3>1 DEF QueriesRead
    <3>5. Valued(V, QueriesRead(f, n), ix)
      BY DEF Setting
    <3> DEFINE y == c.query
               z == r.query
               S == QueriesRead(f, n)
    <3>6. Valued(V, S, ix) /\ y \in S /\ z \in S /\ z = Boolean(<<>>, <<>>, <<y>>)
      BY <3>2, <3>3, <3>4, <3>5
    <3> HIDE DEF y, z, S
    <3>7. V[z] = X \ V[y]
      <4>1. Combines(V, ix, z, y, y)
        BY <3>6, ClausesCombine
      <4> QED BY <3>6, <4>1 DEF Combines
    <3> QED BY <3>7 DEF y, z
  <2> HIDE DEF r, c, rule, found
  <2> QED BY <2>4, <2>6, <2>7, <2>8, <1>2
<1>7. CASE i \in 1..n /\ kd = "("
  <2> DEFINE h == f[i + 1].any
             c == h[n]
  <2>0. i + 1 \in 1..n + 1
    BY <1>7, <1>n
  <2>1. r = IF c.query = Invalid \/ KindAt(tokens, c.index) # ")"
            THEN Read(Invalid, i) ELSE Read(c.query, c.index + 1)
    BY <1>7, <1>n DEF ParseUnary, ParsePrimary
  <2>2. rule <=> i + 1 < j /\ tokens[j].kind = ")" /\ x \in M[<<i + 1, j - 1>>].any
    BY <1>7, <1>3
  <2>3. Looped(h, "any", f, tokens, f[i + 1].all[n], i + 1, n) /\ WellRead(c, i + 1, n)
    BY <2>0, <1>n, ReadsLoop DEF GoodReads
  <2>4. ASSUME i + 1 < j, tokens[j].kind = ")"
        PROVE  x \in M[<<i + 1, j - 1>>].any <=>
                 \E k \in 0..n : Ends(h[k], j - 1) /\ x = V[h[k].query]
    <3>1. j - 1 \in 0..n /\ (j - 1) - (i + 1) < j - i /\ j - 1 + 1 = j /\ j \in 1..n
      BY <2>4, <1>n, <1>7
    <3>2. Agrees(M, f, V, tokens, i + 1, j - 1, n)
      BY <3>1, <2>0 DEF AgreesWithin
    <3>3. KindAt(tokens, j - 1 + 1) # "AND"
      BY <3>1, <2>4, <1>n DEF KindAt
    <3> QED BY <3>2, <3>3 DEF Agrees
  <2> HIDE DEF h
  <2>5. ASSUME NEW k \in 0..n, i + 1 < j, tokens[j].kind = ")", Ends(h[k], j - 1)
        PROVE  c = h[k]
    <3>1. h[k].index = j
      BY <2>5, <1>n DEF Ends
    <3>2. KindAt(tokens, j) = ")"
      BY <2>5, <1>n, <1>7 DEF KindAt
    <3>3. Over("any", tokens, h[k])
      BY <3>1, <3>2 DEF Over, Joining
    <3> QED BY <3>3, <2>3 DEF Looped
  <2> DEFINE ok == i + 1 < j /\ tokens[j].kind = ")" /\ Ends(c, j - 1)
  <2>6. rule <=> ok /\ x = V[c.query]
    <3>1. n \in 0..n
      BY <1>n
    <3> HIDE DEF c, rule
    <3>2. ASSUME rule PROVE ok /\ x = V[c.query]
      <4>1. i + 1 < j /\ tokens[j].kind = ")" /\ x \in M[<<i + 1, j - 1>>].any
        BY <2>2, <3>2
      <4>2. PICK k \in 0..n : Ends(h[k], j - 1) /\ x = V[h[k].query]
        BY <4>1, <2>4
      <4>3. c = h[k]
        BY <4>1, <4>2, <2>5
      <4> QED BY <4>1, <4>2, <4>3
    <3>3. ASSUME ok, x = V[c.query] PROVE rule
      <4>1. i + 1 < j /\ tokens[j].kind = ")"
        BY <3>3
      <4>2. x \in M[<<i + 1, j - 1>>].any
        BY <4>1, <3>1, <3>3, <2>4 DEF c
      <4> QED BY <4>1, <4>2, <2>2
    <3> QED BY <3>2, <3>3
  <2>7. Ends(r, j) <=> ok
    <3> HIDE DEF c
    <3>1. ASSUME Ends(r, j) PROVE ok
      <4>1. c.query # Invalid /\ KindAt(tokens, c.index) = ")" /\ c.index + 1 = j + 1
        BY <2>1, <1>0, <3>1 DEF Ends
      <4> DEFINE e == c.index
      <4>2. e \in i + 1 + 1..n + 1
        BY <4>1, <2>3 DEF WellRead
      <4>e. e + 1 = j + 1 /\ KindAt(tokens, e) = ")"
        BY <4>1
      <4> HIDE DEF e
      <4>3. e = j /\ i + 1 < j /\ j - 1 + 1 = j /\ e \in 1..n + 1
        BY <4>2, <4>e, <1>7, <1>n
      <4>4. e \in 1..n
        BY <4>3, <4>e, <1>n, KindWithin
      <4>5. tokens[j].kind = ")"
        BY <4>3, <4>4, <4>e, <1>n DEF KindAt
      <4> QED BY <4>1, <4>3, <4>5 DEF Ends, e
    <3>2. ASSUME ok PROVE Ends(r, j)
      <4>1. i + 1 < j /\ tokens[j].kind = ")" /\ c.query # Invalid /\ c.index = j
        BY <3>2, <1>n DEF Ends
      <4>2. KindAt(tokens, j) = ")"
        BY <4>1, <1>n, <1>7 DEF KindAt
      <4>3. r = Read(c.query, j + 1)
        BY <4>1, <4>2, <2>1
      <4> HIDE DEF r
      <4> QED BY <4>1, <4>3, <1>0 DEF Ends
    <3> HIDE DEF r, ok
    <3> QED BY <3>1, <3>2
  <2>8. Ends(r, j) => r.query = c.query
    <3> HIDE DEF c
    <3> QED BY <2>1, <1>0 DEF Ends
  <2> HIDE DEF r, c, rule, found, ok
  <2> QED BY <2>6, <2>7, <2>8, <1>2
<1>8. CASE i \in 1..n /\ kd \notin {"atom", "NOT", "("}
  <2>1. r = Read(Invalid, i)
    BY <1>8 DEF ParseUnary, ParsePrimary
  <2>2. ~Ends(r, j)
    BY <2>1, <1>0 DEF Ends
  <2>3. ~rule
    BY <1>8, <1>3
  <2> HIDE DEF r, rule, found
  <2> QED BY <2>2, <2>3, <1>2
<1>9. i = n + 1 \/ i \in 1..n
  BY <1>n
<1> QED BY <1>4, <1>5, <1>6, <1>7, <1>8, <1>9

\* The two sides of a join and what it finds.
JoinFinds(b, V, left, right, r) ==
  /\ r.query # Invalid
  /\ r.index = right.index
  /\ V[r.query] = IF b = "all" THEN V[left.query] \cap V[right.query] ELSE V[left.query] \cup V[right.query]

(* A join finds what both or either of its sides find.                      *)
LEMMA JoinsFind ==
    ASSUME NEW ix, NEW tokens, NEW d, NEW n, NEW f, NEW V, NEW M, Setting(ix, tokens, d, n, f, V, M),
           NEW b \in {"all", "any"}, NEW i \in 1..n + 1, NEW s \in 1..n + 1,
           NEW left \in ReadsAt(f[i], n), NEW right \in ReadsAt(f[s], n), NEW r \in ReadsAt(f[i], n),
           left.query # Invalid, right.query # Invalid, r = JoinOf(b, left, right)
    PROVE  JoinFinds(b, V, left, right, r)
<1> DEFINE S == QueriesRead(f, n)
           x == left.query
           y == right.query
           z == r.query
<1>1. r = IF b = "all" THEN Read(Boolean(<<x, y>>, <<>>, <<>>), right.index)
          ELSE Read(Boolean(<<>>, <<x, y>>, <<>>), right.index)
  BY DEF JoinOf
<1>2. z = (IF b = "all" THEN Boolean(<<x, y>>, <<>>, <<>>) ELSE Boolean(<<>>, <<x, y>>, <<>>))
      /\ r.index = right.index
  <2> HIDE DEF x, y
  <2> QED BY <1>1 DEF Read
<1>3. z # Invalid
  <2> HIDE DEF x, y, z
  <2> QED BY <1>2 DEF Boolean, Invalid
<1>4. x \in S /\ y \in S /\ z \in S
  BY <1>3 DEF QueriesRead
<1>5. Valued(V, S, ix)
  BY DEF Setting
<1> HIDE DEF x, y, z, S
<1>6. Combines(V, ix, z, x, y)
  BY <1>4, <1>5, ClausesCombine
<1>7. V[z] = IF b = "all" THEN V[x] \cap V[y] ELSE V[x] \cup V[y]
  BY <1>2, <1>6 DEF Combines
<1> QED BY <1>2, <1>3, <1>7 DEF JoinFinds, x, y, z

(* Clauses joined by AND are read as the grammar has them.                  *)
LEMMA AllAgrees ==
    ASSUME NEW ix, NEW tokens, NEW d, NEW n, NEW f, NEW V, NEW M, Setting(ix, tokens, d, n, f, V, M),
           NEW i \in 1..n + 1, NEW j \in 0..n, AgreesWithin(M, f, V, tokens, i, j, n), NEW x
    PROVE  x \in M[<<i, j>>].all <=>
             \E k \in 0..n : Ends(f[i].all[k], j) /\ x = V[f[i].all[k].query]
<1> DEFINE g == f[i].all
           a == f[i].unary
           rule(k) == tokens[k].kind = "AND" /\ x \in Meets(M[<<i, k - 1>>].all, M[<<k + 1, j>>].unary)
<1>n. n \in Nat /\ Len(tokens) = n /\ ReadEquations(f, tokens, d)
  BY DEF Setting
<1>1. x \in M[<<i, j>>].all <=> x \in M[<<i, j>>].unary \/ \E k \in i + 1..j - 1 : rule(k)
  <2>1. Ruled(M[<<i, j>>], M, ix, tokens, d, i, j)
    BY DEF Setting
  <2> QED BY <2>1 DEF Ruled, AllRule
<1>2. x \in M[<<i, j>>].unary <=> Ends(a, j) /\ x = V[a.query]
  BY UnaryAgrees
<1>3. \A k \in 0..n : g[k] \in ReadsAt(f[i], n)
  BY DEF ReadsAt
<1>4. /\ Looped(g, "all", f, tokens, a, i, n)
      /\ g[0] = a
      /\ \A k \in 0..n : WellRead(g[k], i, n)
  <2>1. Looped(g, "all", f, tokens, a, i, n)
    BY <1>n, ReadsLoop
  <2> QED BY <2>1 DEF Looped
<1> HIDE DEF g, a
<1>5. ASSUME NEW k \in i + 1..j - 1, rule(k)
      PROVE  \E c \in 0..n : Ends(g[c], j) /\ x = V[g[c].query]
  <2> DEFINE right == f[k + 1].unary
  <2>1. /\ k - 1 \in 0..n /\ (k - 1) - i < j - i /\ k - 1 + 1 = k
        /\ k + 1 \in 1..n + 1 /\ j - (k + 1) < j - i /\ k \in 1..n
    BY <1>n
  <2>2. Agrees(M, f, V, tokens, i, k - 1, n) /\ Agrees(M, f, V, tokens, k + 1, j, n)
    BY <2>1 DEF AgreesWithin
  <2>3. PICK u \in M[<<i, k - 1>>].all, v \in M[<<k + 1, j>>].unary : x = u \cap v
    BY <1>5 DEF Meets
  <2>4. PICK c \in 0..n : Ends(g[c], k - 1) /\ u = V[g[c].query]
    BY <2>2 DEF Agrees, g
  <2>5. Ends(right, j) /\ v = V[right.query]
    BY <2>2 DEF Agrees
  <2>6. g[c].query # Invalid /\ g[c].index = k
    BY <2>1, <2>4 DEF Ends
  <2>7. KindAt(tokens, k) = "AND"
    BY <1>5, <2>1, <1>n DEF KindAt
  <2>8. ~Over("all", tokens, g[c])
    BY <2>6, <2>7 DEF Over, Joining
  <2>9. right = ReadNext("all", f[JoinedAt("all", tokens, g[c])], tokens)
    BY <2>6 DEF ReadNext, JoinedAt
  <2>10. right \in ReadsAt(f[k + 1], n) /\ right.query # Invalid /\ right.index = j + 1
    BY <2>5 DEF ReadsAt, Ends
  <2> HIDE DEF right
  <2>11. c + 1 \in 0..n /\ g[c + 1] = JoinOf("all", g[c], right)
    <3>1. GoesOn(g, "all", f, tokens, n, c)
      BY <2>8, <1>4, <1>n, LoopJoins
    <3> QED BY <3>1, <2>9 DEF GoesOn
  <2> DEFINE left == g[c]
             r == g[c + 1]
  <2>12. left \in ReadsAt(f[i], n) /\ r \in ReadsAt(f[i], n)
    BY <1>3, <2>11
  <2>13. left.query # Invalid /\ r = JoinOf("all", left, right) /\ u = V[left.query]
    BY <2>4, <2>6, <2>11
  <2> HIDE DEF left, r
  <2>14. JoinFinds("all", V, left, right, r)
    BY <2>1, <2>10, <2>12, <2>13, JoinsFind
  <2>15. Ends(r, j) /\ x = V[r.query]
    BY <2>3, <2>5, <2>10, <2>13, <2>14 DEF JoinFinds, Ends
  <2> QED BY <2>11, <2>15 DEF r
<1>6. ASSUME NEW c \in 0..n, Ends(g[c], j), x = V[g[c].query]
      PROVE  x \in M[<<i, j>>].unary \/ \E k \in i + 1..j - 1 : rule(k)
  <2>1. LastJoin(g[c], g, "all", f, tokens, a, n)
    <3>1. g[c].query # Invalid
      BY <1>6 DEF Ends
    <3> QED BY <3>1, <1>4, <1>n, LoopReads
  <2>2. CASE g[c] = a
    BY <2>2, <1>2, <1>6
  <2>3. ASSUME NEW l \in 0..n - 1, ~Over("all", tokens, g[l]),
               ReadNext("all", f[JoinedAt("all", tokens, g[l])], tokens).query # Invalid,
               g[c] = JoinOf("all", g[l], ReadNext("all", f[JoinedAt("all", tokens, g[l])], tokens))
        PROVE  \E k \in i + 1..j - 1 : rule(k)
    <3> DEFINE left == g[l]
               r == g[c]
               k == left.index
               right == f[k + 1].unary
    <3>1. l \in 0..n
      BY <1>n
    <3>2. left \in ReadsAt(f[i], n) /\ r \in ReadsAt(f[i], n) /\ WellRead(left, i, n)
      BY <1>3, <1>4, <3>1
    <3>3. right.query # Invalid /\ r = JoinOf("all", left, right)
      BY <2>3 DEF ReadNext, JoinedAt
    <3>4. left.query # Invalid /\ KindAt(tokens, k) = "AND"
      BY <2>3 DEF Over, Joining
    <3>5. Ends(r, j) /\ x = V[r.query]
      BY <1>6
    <3> HIDE DEF r
    <3>6. k \in i + 1..n + 1
      BY <3>2, <3>4 DEF WellRead
    <3>7. Ends(left, k - 1)
      <4> DEFINE y == left.index
      <4>1. y = y - 1 + 1
        <5>1. y \in Int
          BY <3>6
        <5> HIDE DEF y
        <5> QED BY <5>1
      <4> QED BY <4>1, <3>4 DEF Ends
    <3> HIDE DEF left
    <3>8. left.index = k
      BY DEF k
    <3> HIDE DEF k
    <3>9. k \in 1..n /\ k + 1 \in 1..n + 1 /\ k - 1 \in 0..n
      <4>1. k \in 1..n + 1
        BY <3>6
      <4>2. k \in 1..n
        BY <4>1, <3>4, <1>n, KindWithin
      <4> QED BY <4>2, <1>n
    <3>10. right \in ReadsAt(f[k + 1], n)
      BY DEF ReadsAt
    <3>11. WellRead(right, k + 1, n)
      BY <3>9, <1>n, ReadsLoop DEF GoodReads
    <3>12. JoinFinds("all", V, left, right, r)
      <4> HIDE DEF right
      <4> QED BY <3>2, <3>3, <3>4, <3>9, <3>10, JoinsFind
    <3>13. Ends(right, j)
      BY <3>5, <3>12, <3>3 DEF Ends, JoinFinds
    <3>14. k \in i + 1..j - 1 /\ (k - 1) - i < j - i /\ j - (k + 1) < j - i
      <4>1. right.index = j + 1 /\ right.index \in k + 1 + 1..n + 1
        BY <3>13, <3>11 DEF Ends, WellRead
      <4> HIDE DEF right
      <4> QED BY <4>1, <3>6, <3>9, <1>n
    <3>15. Agrees(M, f, V, tokens, i, k - 1, n) /\ Agrees(M, f, V, tokens, k + 1, j, n)
      BY <3>14, <3>9 DEF AgreesWithin
    <3>16. V[right.query] \in M[<<k + 1, j>>].unary
      BY <3>13, <3>15 DEF Agrees
    <3>17. V[left.query] \in M[<<i, k - 1>>].all
      BY <3>7, <3>15, <3>1 DEF Agrees, left, g
    <3>18. x = V[left.query] \cap V[right.query]
      BY <3>5, <3>12 DEF JoinFinds
    <3>19. tokens[k].kind = "AND"
      BY <3>4, <3>9, <1>n DEF KindAt
    <3>20. x \in Meets(M[<<i, k - 1>>].all, M[<<k + 1, j>>].unary)
      BY <3>16, <3>17, <3>18 DEF Meets
    <3> QED BY <3>14, <3>19, <3>20
  <2> QED BY <2>1, <2>2, <2>3 DEF LastJoin
<1>7. Ends(a, j) /\ x = V[a.query] => \E c \in 0..n : Ends(g[c], j) /\ x = V[g[c].query]
  <2>1. 0 \in 0..n
    BY <1>n
  <2> QED BY <2>1, <1>4
<1> HIDE DEF rule
<1>8. (\E c \in 0..n : Ends(g[c], j) /\ x = V[g[c].query]) <=>
        x \in M[<<i, j>>].unary \/ \E k \in i + 1..j - 1 : rule(k)
  BY <1>2, <1>5, <1>6, <1>7
<1> QED BY <1>1, <1>8 DEF g

(* Clauses joined by OR, or by nothing, are read as the grammar has them.   *)
LEMMA AnyAgrees ==
    ASSUME NEW ix, NEW tokens, NEW d, NEW n, NEW f, NEW V, NEW M, Setting(ix, tokens, d, n, f, V, M),
           NEW i \in 1..n + 1, NEW j \in 0..n, AgreesWithin(M, f, V, tokens, i, j, n),
           KindAt(tokens, j + 1) # "AND", NEW x
    PROVE  x \in M[<<i, j>>].any <=>
             \E k \in 0..n : Ends(f[i].any[k], j) /\ x = V[f[i].any[k].query]
<1> DEFINE g == f[i].any
           a == f[i].all[n]
           ored(k) == tokens[k].kind = "OR" /\ x \in Uniting(M[<<i, k - 1>>].any, M[<<k + 1, j>>].all)
           next(k) == x \in Uniting(M[<<i, k>>].any, M[<<k + 1, j>>].all)
           reached == \E c \in 0..n : Ends(g[c], j) /\ x = V[g[c].query]
<1>n. n \in Nat /\ Len(tokens) = n /\ ReadEquations(f, tokens, d) /\ n \in 0..n /\ 0 \in 0..n
  BY DEF Setting
<1>1. x \in M[<<i, j>>].any <=>
        \/ x \in M[<<i, j>>].all
        \/ \E k \in i + 1..j - 1 : ored(k)
        \/ \E k \in i..j - 1 : next(k)
  <2>1. Ruled(M[<<i, j>>], M, ix, tokens, d, i, j)
    BY DEF Setting
  <2> QED BY <2>1 DEF Ruled, AnyRule
\* Whatever is read of clauses joined by AND up to here is all of them.
<1>2. ASSUME NEW s \in 1..n + 1, NEW c \in 0..n, Ends(f[s].all[c], j)
      PROVE  f[s].all[c] = f[s].all[n]
  <2>1. Looped(f[s].all, "all", f, tokens, f[s].unary, s, n)
    BY <1>n, ReadsLoop
  <2>2. Over("all", tokens, f[s].all[c])
    BY <1>2 DEF Ends, Over, Joining
  <2> QED BY <2>1, <2>2 DEF Looped
<1>3. x \in M[<<i, j>>].all <=> Ends(a, j) /\ x = V[a.query]
  <2>1. x \in M[<<i, j>>].all <=> \E k \in 0..n : Ends(f[i].all[k], j) /\ x = V[f[i].all[k].query]
    BY AllAgrees
  <2> QED BY <2>1, <1>2, <1>n
<1>4. \A k \in 0..n : g[k] \in ReadsAt(f[i], n)
  BY DEF ReadsAt
<1>5. /\ Looped(g, "any", f, tokens, a, i, n)
      /\ g[0] = a
      /\ \A k \in 0..n : WellRead(g[k], i, n)
  <2>1. Looped(g, "any", f, tokens, a, i, n)
    BY <1>n, ReadsLoop
  <2> QED BY <2>1 DEF Looped
\* A read of the loop and the clause after it are joined.
<1>6. ASSUME NEW c \in 0..n, NEW s \in 1..n + 1, NEW e \in 0..n, g[c].query # Invalid,
             KindAt(tokens, g[c].index) \in Joining("any"), s = JoinedAt("any", tokens, g[c]),
             Ends(f[s].all[e], j), x = V[g[c].query] \cup V[f[s].all[e].query]
      PROVE  reached
  <2> DEFINE right == f[s].all[n]
  <2>1. f[s].all[e] = right
    BY <1>2, <1>6
  <2>2. ~Over("any", tokens, g[c])
    BY <1>6 DEF Over
  <2>3. right \in ReadsAt(f[s], n)
    BY <1>n DEF ReadsAt
  <2>4. right = ReadNext("any", f[JoinedAt("any", tokens, g[c])], tokens)
    BY <1>6, <1>n DEF ReadNext
  <2>5. Ends(right, j) /\ x = V[g[c].query] \cup V[right.query]
    BY <1>6, <2>1
  <2> HIDE DEF right, g, a
  <2>6. c + 1 \in 0..n /\ g[c + 1] = JoinOf("any", g[c], right)
    <3>1. GoesOn(g, "any", f, tokens, n, c)
      BY <2>2, <1>5, <1>n, LoopJoins
    <3> QED BY <3>1, <2>4 DEF GoesOn
  <2> DEFINE left == g[c]
             r == g[c + 1]
  <2>7. left \in ReadsAt(f[i], n) /\ r \in ReadsAt(f[i], n)
    BY <1>4, <2>6
  <2>8. left.query # Invalid /\ r = JoinOf("any", left, right) /\ x = V[left.query] \cup V[right.query]
    BY <1>6, <2>5, <2>6
  <2>9. right.query # Invalid /\ right.index = j + 1
    BY <2>5 DEF Ends
  <2> HIDE DEF left, r
  <2>10. JoinFinds("any", V, left, right, r)
    BY <2>3, <2>7, <2>8, <2>9, JoinsFind
  <2>11. Ends(r, j) /\ x = V[r.query]
    BY <2>8, <2>9, <2>10 DEF JoinFinds, Ends
  <2> QED BY <2>6, <2>11 DEF r
<1>7. ASSUME NEW k \in i + 1..j - 1, ored(k) PROVE reached
  <2>1. /\ k - 1 \in 0..n /\ (k - 1) - i < j - i /\ k - 1 + 1 = k
        /\ k + 1 \in 1..n + 1 /\ j - (k + 1) < j - i /\ k \in 1..n
    BY <1>n
  <2>2. Agrees(M, f, V, tokens, i, k - 1, n) /\ Agrees(M, f, V, tokens, k + 1, j, n)
    BY <2>1 DEF AgreesWithin
  <2>3. PICK u \in M[<<i, k - 1>>].any, v \in M[<<k + 1, j>>].all : x = u \cup v
    BY <1>7 DEF Uniting
  <2>4. KindAt(tokens, k) = "OR"
    BY <1>7, <2>1, <1>n DEF KindAt
  <2>5. PICK c \in 0..n : Ends(g[c], k - 1) /\ u = V[g[c].query]
    <3>1. KindAt(tokens, k - 1 + 1) # "AND"
      BY <2>1, <2>4
    <3> QED BY <3>1, <2>2 DEF Agrees
  <2>6. PICK e \in 0..n : Ends(f[k + 1].all[e], j) /\ v = V[f[k + 1].all[e].query]
    BY <2>2 DEF Agrees
  <2> HIDE DEF g, a
  <2>7. g[c].query # Invalid /\ g[c].index = k
    BY <2>1, <2>5 DEF Ends
  <2>8. k + 1 = JoinedAt("any", tokens, g[c]) /\ "OR" \in Joining("any")
    BY <2>4, <2>7 DEF JoinedAt, Joining
  <2>9. x = V[g[c].query] \cup V[f[k + 1].all[e].query]
    BY <2>3, <2>5, <2>6
  <2> DEFINE s == k + 1
  <2>10. /\ s \in 1..n + 1 /\ g[c].query # Invalid
         /\ KindAt(tokens, g[c].index) \in Joining("any") /\ s = JoinedAt("any", tokens, g[c])
         /\ Ends(f[s].all[e], j) /\ x = V[g[c].query] \cup V[f[s].all[e].query]
    BY <2>1, <2>4, <2>6, <2>7, <2>8, <2>9
  <2> HIDE DEF s, reached
  <2> QED BY <2>10, <1>6
<1>8. ASSUME NEW k \in i..j - 1, next(k) PROVE reached
  <2>1. /\ k \in 0..n /\ k - i < j - i
        /\ k + 1 \in 1..n + 1 /\ j - (k + 1) < j - i
    BY <1>n
  <2>2. Agrees(M, f, V, tokens, i, k, n) /\ Agrees(M, f, V, tokens, k + 1, j, n)
    BY <2>1 DEF AgreesWithin
  <2>3. PICK u \in M[<<i, k>>].any, v \in M[<<k + 1, j>>].all : x = u \cup v
    BY <1>8 DEF Uniting
  <2>4. PICK e \in 0..n : Ends(f[k + 1].all[e], j) /\ v = V[f[k + 1].all[e].query]
    BY <2>2 DEF Agrees
  <2>5. KindAt(tokens, k + 1) \in {"atom", "(", "NOT"}
    <3>1. f[k + 1].all[e].query # Invalid
      BY <2>4 DEF Ends
    <3> DEFINE s == k + 1
    <3>2. s \in 1..n + 1 /\ f[s].all[e].query # Invalid
      BY <2>1, <3>1
    <3> HIDE DEF s
    <3>3. KindAt(tokens, s) \in {"atom", "(", "NOT"}
      BY <3>2, <1>n, ClauseBegins
    <3> QED BY <3>3 DEF s
  <2>6. PICK c \in 0..n : Ends(g[c], k) /\ u = V[g[c].query]
    <3>1. KindAt(tokens, k + 1) # "AND"
      BY <2>5
    <3> QED BY <3>1, <2>2 DEF Agrees
  <2> HIDE DEF g, a
  <2>7. g[c].query # Invalid /\ g[c].index = k + 1
    BY <2>6 DEF Ends
  <2>8. k + 1 = JoinedAt("any", tokens, g[c]) /\ KindAt(tokens, k + 1) \in Joining("any")
    BY <2>5, <2>7 DEF JoinedAt, Joining
  <2>9. x = V[g[c].query] \cup V[f[k + 1].all[e].query]
    BY <2>3, <2>4, <2>6
  <2> DEFINE s == k + 1
  <2>10. /\ s \in 1..n + 1 /\ g[c].query # Invalid
         /\ KindAt(tokens, g[c].index) \in Joining("any") /\ s = JoinedAt("any", tokens, g[c])
         /\ Ends(f[s].all[e], j) /\ x = V[g[c].query] \cup V[f[s].all[e].query]
    BY <2>1, <2>4, <2>7, <2>8, <2>9
  <2> HIDE DEF s, reached
  <2> QED BY <2>10, <1>6
<1>9. ASSUME NEW c \in 0..n, Ends(g[c], j), x = V[g[c].query]
      PROVE  \/ x \in M[<<i, j>>].all
             \/ \E k \in i + 1..j - 1 : ored(k)
             \/ \E k \in i..j - 1 : next(k)
  <2>g. \A k \in 0..n, p \in 0..n : KindAt(tokens, p + 1) # "AND" /\ Agrees(M, f, V, tokens, i, p, n) =>
          (Ends(g[k], p) => V[g[k].query] \in M[<<i, p>>].any)
    BY DEF Agrees
  <2> HIDE DEF g, a
  <2>1. LastJoin(g[c], g, "any", f, tokens, a, n)
    <3>1. g[c].query # Invalid
      BY <1>9 DEF Ends
    <3> QED BY <3>1, <1>5, <1>n, LoopReads
  <2>2. CASE g[c] = a
    BY <2>2, <1>3, <1>9
  <2>3. ASSUME NEW l \in 0..n - 1, ~Over("any", tokens, g[l]),
               ReadNext("any", f[JoinedAt("any", tokens, g[l])], tokens).query # Invalid,
               g[c] = JoinOf("any", g[l], ReadNext("any", f[JoinedAt("any", tokens, g[l])], tokens))
        PROVE  \/ \E k \in i + 1..j - 1 : ored(k)
               \/ \E k \in i..j - 1 : next(k)
    <3> DEFINE left == g[l]
               r == g[c]
               p == left.index
               kd == KindAt(tokens, p)
               s == JoinedAt("any", tokens, left)
               right == f[s].all[n]
    <3>1. l \in 0..n
      BY <1>n
    <3>2. left \in ReadsAt(f[i], n) /\ r \in ReadsAt(f[i], n) /\ WellRead(left, i, n)
      BY <1>4, <1>5, <3>1
    <3>3. right.query # Invalid /\ r = JoinOf("any", left, right)
      BY <2>3, <1>n DEF ReadNext
    <3>4. left.query # Invalid /\ kd \in {"OR", "atom", "(", "NOT"}
      BY <2>3 DEF Over, Joining
    <3>5. Ends(r, j) /\ x = V[r.query]
      BY <1>9
    <3>6. s = IF kd = "OR" THEN p + 1 ELSE p
      BY DEF JoinedAt
    <3> HIDE DEF r, right
    <3>7. p \in i + 1..n + 1
      BY <3>2, <3>4 DEF WellRead
    <3>8. Ends(left, p - 1)
      <4>1. p = p - 1 + 1
        <5>1. p \in Int
          BY <3>7
        <5> HIDE DEF p
        <5> QED BY <5>1
      <4> QED BY <4>1, <3>4 DEF Ends
    <3> HIDE DEF left, s
    <3>9. left.index = p
      BY DEF p
    <3> HIDE DEF p
    <3>10. p \in 1..n /\ p - 1 \in 0..n /\ p - 1 + 1 = p /\ s \in 1..n + 1 /\ s >= p
      <4>1. p \in 1..n + 1 /\ kd # "end"
        BY <3>7, <3>4
      <4>2. p \in 1..n
        BY <4>1, <1>n, KindWithin
      <4> HIDE DEF kd
      <4> QED BY <4>2, <1>n, <3>6
    <3>11. right \in ReadsAt(f[s], n) /\ WellRead(right, s, n)
      <4>1. GoodReads(f[s], s, n)
        BY <3>10, <1>n, ReadsLoop
      <4> QED BY <4>1, <1>n DEF ReadsAt, GoodReads, right
    <3>12. JoinFinds("any", V, left, right, r)
      BY <3>2, <3>3, <3>4, <3>10, <3>11, JoinsFind
    <3>13. Ends(right, j)
      BY <3>5, <3>12, <3>3 DEF Ends, JoinFinds
    <3>14. j + 1 \in s + 1..n + 1
      BY <3>13, <3>11 DEF Ends, WellRead
    <3>15. (p - 1) - i < j - i /\ j - s < j - i
      BY <3>14, <3>7, <3>10, <1>n
    <3>16. Agrees(M, f, V, tokens, i, p - 1, n) /\ Agrees(M, f, V, tokens, s, j, n)
      BY <3>15, <3>10 DEF AgreesWithin
    <3>17. V[right.query] \in M[<<s, j>>].all
      BY <3>13, <3>16, <1>n DEF Agrees, right
    <3>18. V[left.query] \in M[<<i, p - 1>>].any
      <4>1. KindAt(tokens, p - 1 + 1) # "AND"
        BY <3>4, <3>10
      <4> QED BY <4>1, <3>1, <3>8, <3>10, <3>16, <2>g DEF left
    <3>19. x = V[left.query] \cup V[right.query]
      BY <3>5, <3>12 DEF JoinFinds
    <3>20. x \in Uniting(M[<<i, p - 1>>].any, M[<<s, j>>].all)
      BY <3>17, <3>18, <3>19 DEF Uniting
    <3>21. CASE kd = "OR"
      <4>1. s = p + 1 /\ p \in i + 1..j - 1
        BY <3>21, <3>6, <3>7, <3>10, <3>14, <1>n
      <4>2. tokens[p].kind = "OR"
        BY <3>21, <3>10, <1>n DEF KindAt
      <4> QED BY <4>1, <4>2, <3>20
    <3>22. CASE kd # "OR"
      <4> DEFINE k == p - 1
      <4>1. s = k + 1 /\ k \in i..j - 1
        BY <3>22, <3>6, <3>7, <3>10, <3>14, <1>n
      <4>2. x \in Uniting(M[<<i, k>>].any, M[<<s, j>>].all)
        BY <3>20
      <4> HIDE DEF k
      <4> QED BY <4>1, <4>2
    <3> QED BY <3>21, <3>22
  <2> QED BY <2>1, <2>2, <2>3 DEF LastJoin
<1> HIDE DEF ored, next
<1>10. Ends(a, j) /\ x = V[a.query] => reached
  BY <1>n, <1>5
<1>11. reached <=> \/ x \in M[<<i, j>>].all
                   \/ \E k \in i + 1..j - 1 : ored(k)
                   \/ \E k \in i..j - 1 : next(k)
  <2> HIDE DEF a, g
  <2> QED BY <1>3, <1>7, <1>8, <1>9, <1>10
<1> QED BY <1>1, <1>11

(* All tokens are read as the grammar has them.                             *)
LEMMA MeaningsAgree ==
    ASSUME NEW ix, NEW tokens, NEW d, NEW n, NEW f, NEW V, NEW M, Setting(ix, tokens, d, n, f, V, M),
           NEW i \in 1..n + 1, NEW j \in 0..n
    PROVE  Agrees(M, f, V, tokens, i, j, n)
<1> DEFINE D == Places2(n)
           m == Extent(n)
           S == {e \in D : Agrees(M, f, V, tokens, e[1], e[2], n)}
<1>0. n \in Nat
  BY DEF Setting
<1>1. ASSUME NEW a \in 1..n + 1, NEW c \in 0..n
      PROVE  <<a, c>> \in D /\ m[<<a, c>>] = n + 1 + c - a /\ <<a, c>>[1] = a /\ <<a, c>>[2] = c
  <2>1. <<a, c>> \in D
    BY DEF Places2
  <2>2. m[<<a, c>>] = n + 1 + <<a, c>>[2] - <<a, c>>[1]
    BY <2>1 DEF Extent
  <2> QED BY <2>1, <2>2
<1>2. ASSUME NEW e \in D PROVE \E a \in 1..n + 1, c \in 0..n : e = <<a, c>>
  BY DEF Places2
<1>3. ASSUME NEW e \in D PROVE m[e] \in Nat
  <2>1. PICK a \in 1..n + 1, c \in 0..n : e = <<a, c>>
    BY <1>2
  <2> HIDE DEF m
  <2>2. m[e] = n + 1 + c - a
    BY <1>1, <2>1
  <2> QED BY <2>2, <1>0
<1>4. ASSUME NEW e \in D, \A h \in D : m[h] < m[e] => h \in S PROVE e \in S
  <2>1. PICK a \in 1..n + 1, c \in 0..n : e = <<a, c>>
    BY <1>2
  <2>2. AgreesWithin(M, f, V, tokens, a, c, n)
    <3>1. ASSUME NEW p \in 1..n + 1, NEW q \in 0..n, q - p < c - a PROVE Agrees(M, f, V, tokens, p, q, n)
      <4>1. <<p, q>> \in D /\ m[<<p, q>>] = n + 1 + q - p /\ m[e] = n + 1 + c - a
        BY <1>1, <2>1
      <4>2. m[<<p, q>>] < m[e]
        <5> HIDE DEF m
        <5> QED BY <4>1, <3>1, <1>0
      <4>3. <<p, q>> \in S
        BY <4>1, <4>2, <1>4
      <4> QED BY <4>3
    <3> QED BY <3>1 DEF AgreesWithin
  <2>3. Agrees(M, f, V, tokens, a, c, n)
    BY <2>2, UnaryAgrees, AllAgrees, AnyAgrees DEF Agrees
  <2> QED BY <2>1, <2>3, <1>1
<1>5. D \subseteq S
  <2> HIDE DEF D, S, m
  <2> QED BY <1>3, <1>4, MeasureInduction
<1> QED BY <1>1, <1>5

(* The tokens of an expression hold parts of it.                            *)
LEMMA TokensAreReadable ==
    ASSUME NEW expression \in Seq(Runes)
    PROVE  Readable(Lex(expression))
<1>1. PICK s : /\ LexedAll(expression, s) /\ s \in Seq(Spans) /\ Len(Lex(expression)) = Len(s)
               /\ \A m \in 1..Len(s) :
                    Lex(expression)[m] = Token(s[m].type, SubSeq(expression, s[m].first, s[m].end - 1))
  BY LexIs
<1>2. Len(s) \in Nat
  BY <1>1
<1>3. ASSUME NEW m \in 1..Len(s) PROVE Lex(expression)[m].text \in Seq(Runes)
  <2> DEFINE a == s[m].first
             b == s[m].end
  <2>1. a \in 1..Len(expression) /\ b \in a + 1..Len(expression) + 1
    BY <1>1 DEF LexedAll
  <2>2. Lex(expression)[m].text = SubSeq(expression, a, b - 1)
    <3> DEFINE t == s[m].type
               x == SubSeq(expression, a, b - 1)
               l == Lex(expression)[m]
    <3>1. l = Token(t, x)
      BY <1>1
    <3> HIDE DEF t, x, l
    <3>2. l.text = x
      BY <3>1 DEF Token
    <3> QED BY <3>2 DEF l, x
  <2> HIDE DEF a, b
  <2>3. a \in 1..Len(expression) + 1 /\ b - 1 \in a - 1..Len(expression)
    BY <2>1
  <2> QED BY <2>2, <2>3, PartOfText
<1> QED BY <1>1, <1>2, <1>3 DEF Readable

\* What satisfies the queries in an expression.
Matches(ix, tokens, d) == Satisfying(ix, QueriesIn(tokens, d))

(* What is read of tokens, what it finds and what it means fit together.    *)
LEMMA SettingIs ==
    ASSUME NEW ix, NEW tokens, NEW d, NEW n, n = Len(tokens), Readable(tokens),
           Ready(QueriesIn(tokens, d), ix)
    PROVE  Setting(ix, tokens, d, n, Reads(tokens, d), Matches(ix, tokens, d), Meanings(ix, tokens, d))
<1> DEFINE f == Reads(tokens, d)
           S == QueriesIn(tokens, d)
           V == Matches(ix, tokens, d)
           M == Meanings(ix, tokens, d)
<1>1. n \in Nat /\ Len(tokens) = n
  BY DEF Readable
<1>2. ReadEquations(f, tokens, d)
  BY <1>1, ReadsAre
<1>3. S = QueriesRead(f, n)
  BY QueriesNest
<1>4. PICK rank : Nested(S, rank)
  BY QueriesNest
<1>5. Valued(V, S, ix)
  <2> HIDE DEF S
  <2>1. Valued(Satisfying(ix, S), S, ix)
    BY <1>4, SatisfyingIsValued DEF S
  <2> QED BY <2>1 DEF Matches, S
<1>6. ASSUME NEW i \in 1..n, NEW q, tokens[i].kind = "atom", q = AtomQuery(tokens[i].text, d), q # Invalid
      PROVE  q \in S /\ Satisfying(ix, {q})[q] = V[q]
  <2>1. KindAt(tokens, i) = "atom" /\ i \in 1..n + 1
    BY <1>1, <1>6 DEF KindAt
  <2>2. f[i].unary = Read(q, i + 1)
    <3>1. f[i].unary = ParseUnary(f, tokens, i, d)
      BY <1>1, <1>2, <2>1 DEF ReadEquations
    <3> QED BY <3>1, <2>1, <1>6 DEF ParseUnary, ParsePrimary
  <2>3. q \in S
    <3>1. f[i].unary.query = q /\ f[i].unary \in ReadsAt(f[i], n)
      BY <2>2 DEF Read, ReadsAt
    <3> HIDE DEF f, S
    <3> QED BY <3>1, <2>1, <1>3, <1>6 DEF QueriesRead
  <2> DEFINE text == tokens[i].text
  <2>4. text \in Seq(Runes)
    BY <1>1 DEF Readable
  <2>5. AtomQuery(text, d) = q
    BY <1>6
  <2> HIDE DEF text, S, V
  <2>6. Ready(S, ix)
    BY DEF S
  <2>7. Satisfying(ix, {q})[q] = V[q]
    BY <2>3, <2>4, <2>5, <2>6, <1>5, <1>6, AtomFinds
  <2> QED BY <2>3, <2>7
<1>7. AtomsFind(ix, tokens, d)
  <2>1. ASSUME NEW i \in 1..Len(tokens), NEW a, tokens[i].kind = "atom",
               a = AtomQuery(tokens[i].text, d), a # Invalid
        PROVE  Satisfying(ix, {a})[a] \subseteq DOMAIN ix
    <3>1. a \in S /\ Satisfying(ix, {a})[a] = V[a]
      BY <2>1, <1>1, <1>6
    <3>2. V[a] = FoundAt(V, ix, a)
      BY <3>1, <1>5 DEF Valued
    <3> HIDE DEF V, S
    <3> QED BY <3>1, <3>2 DEF FoundAt
  <2> QED BY <2>1 DEF AtomsFind
<1>8. ASSUME NEW i \in 1..n + 1, NEW j \in 0..n
      PROVE  Ruled(M[<<i, j>>], M, ix, tokens, d, i, j)
  <2>1. Ruled(Meanings(ix, tokens, d)[<<i, j>>], Meanings(ix, tokens, d), ix, tokens, d, i, j)
    BY ONLY <1>1, <1>7, MeaningsAre, i \in 1..n + 1, j \in 0..n
  <2> QED BY <2>1
<1> HIDE DEF f, V, M, S
<1>9. Valued(V, QueriesRead(f, n), ix)
  BY <1>3, <1>5
<1>10. \A i \in 1..n : \A q :
         tokens[i].kind = "atom" /\ q = AtomQuery(tokens[i].text, d) /\ q # Invalid =>
           Satisfying(ix, {q})[q] = V[q]
  BY <1>6
<1>11. Setting(ix, tokens, d, n, f, V, M)
  BY <1>1, <1>2, <1>8, <1>9, <1>10 DEF Setting
<1> QED BY <1>11 DEF f, V, M

\* What an expression is read as, once it is cut into tokens.
LastRead(expression, d) ==
  LET tokens == Lex(expression) IN Reads(tokens, d)[1].any[Len(tokens)]

(* An expression means what is read of all of it, and nothing otherwise.    *)
LEMMA ReadIsMeant ==
    ASSUME NEW ix, NEW expression \in Seq(Runes), NEW d,
           Ready(QueriesIn(Lex(expression), d), ix), NEW x
    PROVE  x \in Meanings(ix, Lex(expression), d)[<<1, Len(Lex(expression))>>].any <=>
             /\ Ends(LastRead(expression, d), Len(Lex(expression)))
             /\ x = Matches(ix, Lex(expression), d)[LastRead(expression, d).query]
<1> DEFINE tokens == Lex(expression)
           n == Len(tokens)
           f == Reads(tokens, d)
           V == Matches(ix, tokens, d)
           M == Meanings(ix, tokens, d)
           g == f[1].any
<1>1. Readable(tokens)
  BY TokensAreReadable
<1>2. n \in Nat
  BY <1>1 DEF Readable
<1>3. Setting(ix, tokens, d, n, f, V, M)
  BY <1>1, SettingIs
<1>4. LastRead(expression, d) = g[n]
  BY DEF LastRead
<1>5. Looped(g, "any", f, tokens, f[1].all[n], 1, n)
  <2>1. 1 \in 1..n + 1 /\ Len(tokens) = n /\ ReadEquations(f, tokens, d)
    BY <1>2, <1>3 DEF Setting
  <2> HIDE DEF f, n, tokens
  <2> QED BY <2>1, <1>2, ReadsLoop
<1>6. KindAt(tokens, n + 1) = "end"
  <2>1. n + 1 > Len(tokens)
    BY <1>2
  <2> HIDE DEF tokens, n
  <2> QED BY <2>1 DEF KindAt
<1> HIDE DEF tokens, n, f, V, M
<1>7. Agrees(M, f, V, tokens, 1, n, n)
  BY <1>2, <1>3, MeaningsAgree
<1>8. x \in M[<<1, n>>].any <=> \E k \in 0..n : Ends(g[k], n) /\ x = V[g[k].query]
  BY <1>6, <1>7 DEF Agrees
<1> HIDE DEF g
<1>9. ASSUME NEW k \in 0..n, Ends(g[k], n) PROVE g[n] = g[k]
  <2>1. Over("any", tokens, g[k])
    BY <1>6, <1>9 DEF Ends, Over, Joining
  <2> QED BY <2>1, <1>5 DEF Looped
<1>10. n \in 0..n
  BY <1>2
<1>11. x \in M[<<1, n>>].any <=> Ends(g[n], n) /\ x = V[g[n].query]
  BY <1>8, <1>9, <1>10
<1> QED BY <1>4, <1>11 DEF tokens, n, V, M

(* What is read as a query is one, of an expression with tokens.            *)
LEMMA LastReadIs ==
    ASSUME NEW expression \in Seq(Runes), NEW d, LastRead(expression, d).query # Invalid
    PROVE  /\ Lex(expression) # <<>>
           /\ LastRead(expression, d).query \in QueriesIn(Lex(expression), d)
           /\ LastRead(expression, d).query # NoQuery
<1> DEFINE tokens == Lex(expression)
           n == Len(tokens)
           f == Reads(tokens, d)
           S == QueriesIn(tokens, d)
           r == f[1].any[n]
<1>1. Readable(tokens) /\ n \in Nat
  BY TokensAreReadable DEF Readable
<1>2. r.query # Invalid /\ LastRead(expression, d) = r
  BY DEF LastRead
<1>3. 1 \in 1..n + 1 /\ n \in 0..n
  BY <1>1
<1>4. S = QueriesRead(f, n)
  BY <1>1, QueriesNest
<1>5. PICK rank : Nested(S, rank)
  BY <1>1, QueriesNest
<1>6. ReadEquations(f, tokens, d)
  BY <1>1, ReadsAre
<1>7. r \in ReadsAt(f[1], n)
  BY <1>3 DEF ReadsAt
<1> HIDE DEF S
<1>8. r.query \in S
  <2> HIDE DEF r
  <2> QED BY <1>2, <1>3, <1>4, <1>7 DEF QueriesRead
<1>9. r.query # NoQuery
  <2> HIDE DEF r
  <2>1. KnownQuery(S, rank, r.query)
    BY <1>5, <1>8 DEF Nested
  <2> QED BY <2>1 DEF KnownQuery, NoQuery
<1>10. tokens # <<>>
  <2> DEFINE g == f[1].any
             a == f[1].all[n]
  <2> HIDE DEF f, tokens
  <2>1. Looped(g, "any", f, tokens, a, 1, n)
    BY <1>1, <1>3, <1>6, ReadsLoop
  <2>2. g[n].query # Invalid
    BY <1>2
  <2> HIDE DEF g, n
  <2>3. a.query # Invalid
    <3> HIDE DEF a
    <3> QED BY <2>1, <2>2, <1>1, <1>3, LoopReads
  <2>4. KindAt(tokens, 1) \in {"atom", "(", "NOT"}
    BY <2>3, <1>1, <1>3, <1>6, ClauseBegins DEF n
  <2>5. ~(1 > n)
    BY <2>4 DEF KindAt, n
  <2> QED BY <2>5 DEF n
<1> QED BY <1>2, <1>8, <1>9, <1>10 DEF S

(* An expression is refused exactly if the grammar has no reading of it,    *)
(* and otherwise finds the documents of that reading, the only one.         *)
THEOREM GrammarIsFollowed ==
    ASSUME NEW ix, NEW expression \in Seq(Runes), NEW d,
           Ready(QueriesIn(Lex(expression), d), ix)
    PROVE  SearchesByGrammar(ix, expression, d)
<1> DEFINE tokens == Lex(expression)
           n == Len(tokens)
           S == QueriesIn(tokens, d)
           V == Matches(ix, tokens, d)
           r == LastRead(expression, d)
           query == Parse(expression, d)
           meanings == Meanings(ix, tokens, d)[<<1, n>>].any
           found == [limit \in {0, 2} |-> Search(ix, expression, d, limit)]
<1>1. \A x : x \in meanings <=> Ends(r, n) /\ x = V[r.query]
  BY ReadIsMeant
<1>2. r.query # Invalid => tokens # <<>> /\ r.query \in S /\ r.query # NoQuery
  BY LastReadIs
<1>3. query = IF Refused(tokens) THEN Invalid
              ELSE IF tokens = <<>> THEN NoQuery
              ELSE IF ~Ends(r, n) THEN Invalid
              ELSE r.query
  BY DEF Parse, LastRead, Ends
<1>4. NoQuery # Invalid
  BY DEF NoQuery, Invalid
<1>5. query \in {NoQuery, Invalid} => Refused(tokens) \/ meanings = {}
  <2> SUFFICES ASSUME query \in {NoQuery, Invalid}, ~Refused(tokens) PROVE meanings = {}
    OBVIOUS
  <2>1. ~Ends(r, n)
    <3> HIDE DEF tokens, n, r, query, S
    <3> QED BY <1>2, <1>3 DEF Ends
  <2> HIDE DEF tokens, n, r, query, S, meanings
  <2> QED BY <2>1, <1>1
<1>6. ASSUME query \notin {NoQuery, Invalid}
      PROVE  /\ meanings = {{h.id : h \in ToSet(found[0])}}
             /\ found[2] = SubSeq(found[0], 1, Min({2, Len(found[0])}))
  <2> DEFINE hits == Execute(ix, S, query)
  <2>1. query = r.query /\ Ends(r, n) /\ query \in S
    <3> HIDE DEF tokens, n, r, query, S
    <3> QED BY <1>2, <1>3, <1>6 DEF Ends
  <2>2. \A limit : Search(ix, expression, d, limit) = Best(hits, limit)
    <3>1. query # NoQuery
      BY <1>6
    <3> QED BY <3>1, Zenon DEF Search
  <2>3. found[0] = Best(hits, 0) /\ found[2] = Best(hits, 2)
    BY <2>2
  <2> HIDE DEF found, hits
  <2>4. found[0] = hits /\ found[2] = SubSeq(hits, 1, Min({2, Len(hits)}))
    BY <2>3 DEF Best
  <2>5. PICK rank : Nested(S, rank)
    BY TokensAreReadable, QueriesNest
  <2> HIDE DEF tokens, n, r, query, S, meanings, V
  <2>6. AnswersExactly(ix, S, query)
    BY <2>1, <2>5, QueriesAnswerExactly DEF S, tokens
  <2>7. ToSet(hits) = {[id |-> e, score |-> Relevance(ix, S)[query][e]] : e \in Satisfying(ix, S)[query]}
    BY <2>6 DEF AnswersExactly, hits
  <2>8. {h.id : h \in ToSet(hits)} = Satisfying(ix, S)[query]
    <3> DEFINE F == Satisfying(ix, S)[query]
               W == Relevance(ix, S)[query]
               T == ToSet(hits)
    <3>1. T = {[id |-> e, score |-> W[e]] : e \in F}
      BY <2>7
    <3> HIDE DEF F, W, T
    <3>2. \A y : y \in {h.id : h \in T} <=> y \in F
      <4>1. \A e : [id |-> e, score |-> W[e]].id = e
        OBVIOUS
      <4>2. ASSUME NEW y \in F PROVE \E h \in T : h.id = y
        BY <3>1, <4>1
      <4>3. ASSUME NEW h \in T PROVE h.id \in F
        BY <3>1, <4>1
      <4> QED BY <4>2, <4>3
    <3>3. {h.id : h \in T} = F
      BY <3>2
    <3> QED BY <3>3 DEF F, T
  <2>9. V[r.query] = {h.id : h \in ToSet(hits)}
    BY <2>1, <2>8 DEF V, Matches, S
  <2>10. meanings = {V[r.query]}
    BY <1>1, <2>1
  <2> QED BY <2>4, <2>9, <2>10
<1> HIDE DEF meanings, query, found, tokens
<1>7. IF query \in {NoQuery, Invalid} THEN Refused(tokens) \/ meanings = {}
      ELSE /\ meanings = {{h.id : h \in ToSet(found[0])}}
           /\ found[2] = SubSeq(found[0], 1, Min({2, Len(found[0])}))
  BY <1>5, <1>6
<1> QED BY <1>7 DEF SearchesByGrammar, tokens, query, meanings, found

-----------------------------------------------------------------------------
(* The calls.                                                              *)

\* Each call is made on an input of the constants.
CallOK ==
  /\ call.op = "encode" => call.id \in PostingIDs /\ call.positions \in PositionLists
  /\ call.op = "decode" => call.data \in EncodedData
  /\ call.op = "merge" => call.left \in PostingLists /\ call.right \in PostingLists
  /\ call.op = "tokenize" => call.text \in Texts["tokenize"]
  /\ call.op \in {"segment", "viterbi"} =>
       /\ call.text \in Texts[call.op]
       /\ \E trained \in Trained[call.op] : call.model = Model(trained)
  /\ call.op = "highlight" =>
       call.text \in Texts["highlight"] /\ call.size \in Sizes /\ call.max \in Limits
  /\ call.op = "positions" =>
       /\ \E phrase \in Phrases :
            call.positions = phrase.positions /\ call.relative = phrase.relative
       /\ call.slop \in Slops
  /\ call.op = "levenshtein" =>
       call.a \in Texts["levenshtein"] /\ call.b \in Texts["levenshtein"] /\ call.cutoff \in Cutoffs
  /\ call.op = "lex" => call.text \in Texts["lex"]
  /\ call.op = "query" => call.query \in Pool
  /\ call.op \in {"search", "write", "quote"} => call.text \in Texts[call.op]

(* Every call is made on an input of the constants.                         *)
THEOREM CallsAreMade == OperationsSpec => []CallOK
<1>1. OperationsInit => CallOK
  BY DEF OperationsInit, NoCall, CallOK
<1>2. CallOK /\ [OperationsNext]_call => CallOK'
  <2> SUFFICES ASSUME CallOK, [OperationsNext]_call PROVE CallOK'
    OBVIOUS
  <2>1. CASE CallCodec
    BY <2>1 DEF CallCodec, CallOK
  <2>2. CASE CallMerge
    BY <2>2 DEF CallMerge, CallOK
  <2>3. CASE CallTokenize
    BY <2>3 DEF CallTokenize, CallOK
  <2>4. CASE CallSegment
    <3>1. PICK op \in {"segment", "viterbi"} : \E text \in Texts[op], trained \in Trained[op] :
            call' = [op |-> op, text |-> text, model |-> Model(trained)]
      BY <2>4 DEF CallSegment
    <3>2. PICK text \in Texts[op], trained \in Trained[op] :
            call' = [op |-> op, text |-> text, model |-> Model(trained)]
      BY <3>1
    <3>3. call'.op = op /\ call'.text = text /\ call'.model = Model(trained)
      BY <3>2
    <3> QED BY <3>3 DEF CallOK
  <2>5. CASE CallHighlight
    BY <2>5 DEF CallHighlight, CallOK
  <2>6. CASE CallPositions
    <3>1. PICK phrase \in Phrases : \E slop \in Slops :
            call' = [op |-> "positions", positions |-> phrase.positions,
                     relative |-> phrase.relative, slop |-> slop]
      BY <2>6 DEF CallPositions
    <3>2. PICK slop \in Slops :
            call' = [op |-> "positions", positions |-> phrase.positions,
                     relative |-> phrase.relative, slop |-> slop]
      BY <3>1
    <3>3. /\ call'.op = "positions" /\ call'.slop = slop
          /\ call'.positions = phrase.positions /\ call'.relative = phrase.relative
      BY <3>2
    <3> QED BY <3>3 DEF CallOK
  <2>7. CASE CallLevenshtein
    BY <2>7 DEF CallLevenshtein, CallOK
  <2>8. CASE CallQuery
    BY <2>8 DEF CallQuery, CallOK
  <2>9. CASE CallLex
    BY <2>9 DEF CallLex, CallOK
  <2>10. CASE CallParse
    <3>1. PICK op \in {"search", "write", "quote"} : \E text \in Texts[op] :
            call' = [op |-> op, text |-> text]
      BY <2>10 DEF CallParse
    <3>2. PICK text \in Texts[op] : call' = [op |-> op, text |-> text]
      BY <3>1
    <3>3. call'.op = op /\ call'.text = text
      BY <3>2
    <3> QED BY <3>3 DEF CallOK
  <2>11. CASE Answer
    BY <2>11 DEF Answer, NoCall, CallOK
  <2>12. CASE UNCHANGED call
    BY <2>12 DEF CallOK
  <2> QED BY <2>1, <2>2, <2>3, <2>4, <2>5, <2>6, <2>7, <2>8, <2>9, <2>10, <2>11, <2>12
        DEF OperationsNext, Operate
<1> QED BY <1>1, <1>2, PTL DEF OperationsSpec

(* Every posting that is encoded is read back as it was; data that is read  *)
(* as a posting is its encoding or a longer form of it, and it is refused    *)
(* when its end is cut off: whatever postings and bytes are given           *)
(* (EncodePosting, DecodePosting).                                         *)
THEOREM CodecCorrect == OperationsSpec => []CodecIsExact
<1>1. CallOK => CodecIsExact
  <2> SUFFICES ASSUME CallOK PROVE CodecIsExact
    OBVIOUS
  <2>1. ASSUME call.op = "encode"
        PROVE  RoundTrip(call.id, call.positions)
    <3>1. call.positions \in Seq(0..W32 - 1) /\ Len(call.positions) < W32
      BY <2>1, PostingInputs DEF CallOK, Numbers
    <3>2. call.id \in Seq(ByteValues) /\ Len(call.id) < W64
      BY <2>1, PostingInputs DEF CallOK
    <3> QED BY <3>1, <3>2, RoundTrips
  <2>2. ASSUME call.op = "decode"
        PROVE  AcceptsOnlyPostings(call.data) /\ EndIsNoticed(call.data)
    <3>1. call.data \in Seq(ByteValues)
      BY <2>2, PostingInputs DEF CallOK
    <3> QED BY <3>1, AcceptsPostings, EndsAreNoticed
  <2> QED BY <2>1, <2>2 DEF CodecIsExact
<1> QED BY <1>1, CallsAreMade, PTL

(* Intersection and union of any two posting lists are exact.               *)
THEOREM MergeCorrect == OperationsSpec => []ListsMergeExactly
<1>1. CallOK => ListsMergeExactly
  <2> SUFFICES ASSUME CallOK, call.op = "merge" PROVE MergesExactly(call.left, call.right)
    BY DEF ListsMergeExactly
  <2> DEFINE P == [id : Int, frequency : Int, positions : Seq(Int)]
             left == call.left
             right == call.right
  <2>1. /\ left \in Seq(P) /\ right \in Seq(P)
        /\ \A k \in 1..Len(left) - 1 : left[k].id < left[k + 1].id
        /\ \A k \in 1..Len(right) - 1 : right[k].id < right[k + 1].id
    BY PostingInputs DEF CallOK
  <2>2. \A p \in P : p.id \in Int
    OBVIOUS
  <2> HIDE DEF P
  <2> QED BY <2>1, <2>2, MergingIsExact
<1> QED BY <1>1, CallsAreMade, PTL

(* No tokenizer loses or repeats a rune of any text.                        *)
THEOREM TokenizersCorrect == OperationsSpec => []TextsAreCovered
<1>1. CallOK => TextsAreCovered
  <2> SUFFICES ASSUME CallOK, call.op = "tokenize" PROVE TokensCoverText(call.text)
    BY DEF TextsAreCovered
  <2>1. call.text \in Seq(Runes)
    BY TextInputs DEF CallOK, TextOperations
  <2> QED BY <2>1, TokensAreExact
<1> QED BY <1>1, CallsAreMade, PTL

(* No way of cutting any Chinese text loses or repeats a character.         *)
THEOREM SegmentersCorrect == OperationsSpec => []ChineseIsCovered
<1>1. CallOK => ChineseIsCovered
  <2> SUFFICES ASSUME CallOK, call.op = "segment" PROVE SegmentsCoverText(call.model, call.text)
    BY DEF ChineseIsCovered
  <2>1. call.text \in Seq(Runes)
    BY TextInputs DEF CallOK, TextOperations
  <2> QED BY <2>1, SegmentsAreExact
<1> QED BY <1>1, CallsAreMade, PTL

(* Dictionary words are matched maximally in every text.                    *)
THEOREM MatchingCorrect == OperationsSpec => []WordsAreMaximal
<1>1. CallOK => WordsAreMaximal
  <2> SUFFICES ASSUME CallOK, call.op = "segment" PROVE MatchingIsMaximal(call.text)
    BY DEF WordsAreMaximal
  <2>1. call.text \in Seq(Runes)
    BY TextInputs DEF CallOK, TextOperations
  <2> QED BY <2>1, MatchingIsExact
<1> QED BY <1>1, CallsAreMade, PTL

(* The Viterbi labels of any text are a legal path of the highest score,    *)
(* under any trained emissions.                                            *)
THEOREM LabelsCorrect == OperationsSpec => []LabelsAreOptimal
<1>1. CallOK => LabelsAreOptimal
  <2> SUFFICES ASSUME CallOK, call.op = "viterbi" PROVE ViterbiIsOptimal(call.model, call.text)
    BY DEF LabelsAreOptimal
  <2>1. call.text \in Texts["viterbi"] /\ \E trained \in Trained["viterbi"] : call.model = Model(trained)
    BY DEF CallOK
  <2>2. call.text \in Seq(Runes) /\ call.text # <<>>
    BY <2>1, TextInputs DEF TextOperations
  <2>3. PICK trained \in Trained["viterbi"] : call.model = Model(trained)
    BY <2>1
  <2>4. \A r \in DOMAIN trained : trained[r] \in [States -> Int \cup {NegInf}]
    BY TextInputs
  <2> QED BY <2>2, <2>3, <2>4, LabelsAreBest
<1> QED BY <1>1, CallsAreMade, PTL

(* Taking each word of a phrase where it occurs first misses no match, with *)
(* any positions and any slop.                                             *)
THEOREM PhrasesCorrect == OperationsSpec => []PhrasesAreExact
<1>1. CallOK => PhrasesAreExact
  <2> SUFFICES ASSUME CallOK, call.op = "positions"
               PROVE  PhraseIsExact(call.positions, call.relative, call.slop)
    BY DEF PhrasesAreExact
  <2>1. PICK phrase \in Phrases :
          call.positions = phrase.positions /\ call.relative = phrase.relative
    BY DEF CallOK
  <2>2. GoodPhrase(phrase.positions, phrase.relative)
    BY PhraseInputs DEF GoodPhrase
  <2>3. call.slop \in Numbers(W32)
    BY PhraseInputs DEF CallOK
  <2> QED BY <2>1, <2>2, <2>3, PhrasesMatchExactly
<1> QED BY <1>1, CallsAreMade, PTL

(* Fragments of any text lie in it on whole runes, around their matches.    *)
THEOREM FragmentsCorrect == OperationsSpec => []FragmentsFit
<1>1. CallOK => FragmentsFit
  <2> SUFFICES ASSUME CallOK, call.op = "highlight"
               PROVE  FragmentsFitText(call.text, WantedTerms, call.size, call.max)
    BY DEF FragmentsFit
  <2>1. call.text \in Seq(Runes) /\ call.size \in Nat \ {0} /\ call.max \in Nat \ {0}
    BY TextInputs DEF CallOK, TextOperations
  <2> QED BY <2>1, FragmentsFitAnyText
<1> QED BY <1>1, CallsAreMade, PTL

(* Fragments of any text are rendered whole, with each match tagged once.   *)
THEOREM RenderingCorrect == OperationsSpec => []FragmentsAreExact
<1>1. CallOK => FragmentsAreExact
  <2> SUFFICES ASSUME CallOK, call.op = "highlight"
               PROVE  RenderingIsExact(call.text, WantedTerms, call.size, call.max)
    BY DEF FragmentsAreExact
  <2>1. call.text \in Seq(Runes) /\ call.size \in Nat \ {0} /\ call.max \in Nat \ {0}
    BY TextInputs DEF CallOK, TextOperations
  <2> QED BY <2>1, RenderingIsExactForAnyText
<1> QED BY <1>1, CallsAreMade, PTL

(* The edit distance of any two terms is exact up to any cutoff.            *)
THEOREM DistancesCorrect == OperationsSpec => []DistancesAreExact
<1>1. CallOK => DistancesAreExact
  <2> SUFFICES ASSUME CallOK, call.op = "levenshtein"
               PROVE  LevenshteinIsExact(call.a, call.b, call.cutoff)
    BY DEF DistancesAreExact
  <2>1. call.a \in Seq(Runes) /\ call.b \in Seq(Runes) /\ call.cutoff \in Nat
    BY TextInputs DEF CallOK, TextOperations
  <2> QED BY <2>1, DistancesAreBest
<1> QED BY <1>1, CallsAreMade, PTL

(* Every query that is asked returns exactly the documents that satisfy it, *)
(* in order and with the scores its clauses are worth.                      *)
THEOREM QueriesCorrect == OperationsSpec => []QueriesAreExact
<1>1. CallOK => QueriesAreExact
  <2> SUFFICES ASSUME CallOK, call.op = "query" PROVE AnswersExactly(Collection, Pool, call.query)
    BY DEF QueriesAreExact
  <2>1. call.query \in Pool
    BY DEF CallOK
  <2>2. Ready(Pool, Collection)
    BY QueryInputs, CollectionIsReady
  <2> QED BY <2>1, <2>2, PoolIsNested, QueriesAnswerExactly
<1> QED BY <1>1, CallsAreMade, PTL

(* Any expression is cut exactly at the spaces and parentheses outside      *)
(* quotes, and refused if a quote stays open.                              *)
THEOREM LexingCorrect == OperationsSpec => []LexingIsExact
<1>1. CallOK => LexingIsExact
  <2> SUFFICES ASSUME CallOK, call.op = "lex" PROVE LexCutsOutsideQuotes(call.text)
    BY DEF LexingIsExact
  <2>1. call.text \in Seq(Runes)
    BY TextInputs DEF CallOK, TextOperations
  <2> QED BY <2>1, LexingIsExactForAnyText
<1> QED BY <1>1, CallsAreMade, PTL

(* Every expression is refused exactly if the grammar has no reading of it, *)
(* and otherwise finds the documents of that reading, the only one.         *)
THEOREM SearchesCorrect == OperationsSpec => []SearchesFollowGrammar
<1>1. CallOK => SearchesFollowGrammar
  <2> SUFFICES ASSUME CallOK, call.op = "search"
               PROVE  SearchesByGrammar(Collection, call.text, DefaultField)
    BY DEF SearchesFollowGrammar
  <2>1. call.text \in Texts["search"] /\ call.text \in Seq(Runes)
    BY TextInputs DEF CallOK, TextOperations
  <2>2. Ready(QueriesIn(Lex(call.text), DefaultField), Collection)
    BY <2>1, LanguageInputs, CollectionIsReady
  <2> QED BY <2>1, <2>2, GrammarIsFollowed
<1> QED BY <1>1, CallsAreMade, PTL

(* Fields, phrases, prefixes and words are read as they are written.        *)
THEOREM WritingCorrect == OperationsSpec => []WritingIsRead
<1>1. CallOK => WritingIsRead
  <2> SUFFICES ASSUME CallOK, call.op = "write"
               PROVE  ReadsWhatIsWritten(Field, call.text, DefaultField)
    BY DEF WritingIsRead
  <2>1. call.text \in Texts["write"] /\ call.text \in Seq(Runes)
    BY TextInputs DEF CallOK, TextOperations
  <2>2. Quoteless(call.text)
    BY <2>1, LanguageInputs DEF Quoteless
  <2>3. IsName(Field)
    BY LanguageInputs DEF IsName, IsWord
  <2>4. {":", Quote} \subseteq Runes /\ DefaultField # <<>>
    BY LanguageInputs
  <2> QED BY <2>2, <2>3, <2>4, WritingIsReadForAnyText
<1> QED BY <1>1, CallsAreMade, PTL
=============================================================================
