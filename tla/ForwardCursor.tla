---------------------------- MODULE ForwardCursor ----------------------------
(***************************************************************************)
(* What the cursors of Koris promise, whatever their representation: a     *)
(* cursor over a set of keys visits them in order, moves forward only, and *)
(* SkipTo stops at the first key not below its target (the comment of      *)
(* DocIDIterator in src/iterator/docid.go).                                *)
(***************************************************************************)
EXTENDS Integers

CONSTANTS Keys,        \* what a cursor can stand on; numbers, of
                       \* which only the order matters
          Targets,     \* what SkipTo is asked for
          None         \* a number that is no key

VARIABLES request,     \* the call last made: <<"next">>, <<"skip", target>>...
          current,     \* the key the cursor stands on, or None
          left         \* the keys after it

Lowest(S) == CHOOSE k \in S : \A l \in S : k <= l

Above(S, k) == {l \in S : l > k}

\* The cursor stands on the first of the keys S, or ends if there is none.
StandOnFirst(S) ==
  \/ /\ S = {}
     /\ current' = None
     /\ left' = {}
  \/ /\ S # {}
     /\ current' = Lowest(S)
     /\ left' = Above(S, Lowest(S))

Init ==
  /\ request = <<"new">>
  /\ current = None
  /\ left \in SUBSET Keys

Advance ==
  /\ request' = <<"next">>
  /\ StandOnFirst(left)

SkipTo(target) ==
  LET candidates == IF current = None THEN left ELSE left \cup {current}
  IN  /\ request' = <<"skip", target>>
      /\ StandOnFirst({k \in candidates : k >= target})

Close ==
  /\ request' = <<"close">>
  /\ current' = None
  /\ left' = {}

Next ==
  \/ Advance
  \/ \E target \in Targets : SkipTo(target)
  \/ Close

Spec == Init /\ [][Next]_<<request, current, left>>
=============================================================================
