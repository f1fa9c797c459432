------------------------------- MODULE Cursors -------------------------------
(***************************************************************************)
(* The cursors over sorted lists: iterator.Slice and PostingIterator       *)
(* ("binary": SkipTo by binary search), SkipListIterator ("skip") and the  *)
(* iterator of the storage backends ("entries": no SkipTo, but Close).     *)
(* The first two constructors sort a copy of what they are given, the      *)
(* other two are given a sorted list; the model starts from it.  Keys are  *)
(* numbers, of which only the order matters, and occur once in a list, as  *)
(* the document IDs of a term's postings and the keys of a bucket do.      *)
(* `request' records the call last made; the code has no such variable.    *)
(*                                                                         *)
(* As in the code index counts from 0 and starts at -1: the cursor stands  *)
(* on list[index + 1].                                                     *)
(***************************************************************************)
EXTENDS Integers, Sequences

CONSTANTS Keys, Targets, None,
          Lists        \* the sorted lists a cursor may be given

Ascends(s) == \A k, l \in 1..Len(s) : k < l => s[k] < s[l]

ASSUME ListsAssumption ==
  /\ Keys \subseteq Nat
  /\ Targets \subseteq Int
  /\ None \in Int \ Keys
  /\ \A s \in Lists : s \in Seq(Keys) /\ Ascends(s)

VARIABLES kind, list, index,
          open,        \* neither closed nor made for an error (storage only)
          request

cursorVars == <<kind, list, index, open, request>>

Kinds == {"binary", "skip", "entries"}

CursorTypeOK ==
  /\ kind \in Kinds
  /\ list \in Seq(Keys)
  /\ Ascends(list)
  /\ index \in Int
  /\ index >= -1
  /\ open => index <= Len(list)
  /\ kind # "entries" => open
  /\ open \in BOOLEAN

NewCursor ==
  /\ kind \in Kinds
  /\ list \in Lists
  /\ index = -1
  /\ open = TRUE

\* errorIterator: a cursor over nothing, that only reports its error.
NewErrorCursor ==
  /\ kind = "entries"
  /\ list = <<>>
  /\ index = -1
  /\ open = FALSE

CursorInit ==
  /\ NewCursor \/ NewErrorCursor
  /\ request = <<"new">>

Valid == open /\ index >= 0 /\ index < Len(list)

-----------------------------------------------------------------------------
(* Where SkipTo goes.                                                      *)

Start(i) == IF i < 0 THEN 0 ELSE i

\* The first index from `from' on whose key is not below target, or the end:
\* what the linear scan finds, and sort.Search in a sorted list.
FirstAtLeast(s, from, target) ==
  CHOOSE k \in from..Len(s) :
    /\ k < Len(s) => s[k + 1] >= target
    /\ \A m \in from..k - 1 : s[m + 1] < target

BinarySkip(s, i, target) == FirstAtLeast(s, Start(i), target)

\* The distance of two skip points: about the square root of the length.
SkipStep(n) ==
  LET root == CHOOSE r \in 0..n : r * r <= n /\ n < (r + 1) * (r + 1)
  IN  IF root < 2 THEN 2 ELSE root

SkipPoints(n) == {p \in 1..n - 1 : p % SkipStep(n) = 0}

\* Fault: by an index that is off by one the key before the skip point is
\* compared.
LandingBeyond(s, i, target) ==
  LET ahead == {p \in SkipPoints(Len(s)) : p > i /\ s[p] <= target}
  IN  IF ahead = {} THEN i
      ELSE CHOOSE p \in ahead : \A q \in ahead : q <= p

\* The farthest skip point ahead of the cursor that is not beyond the target.
Landing(s, i, target) ==
  LET ahead == {p \in SkipPoints(Len(s)) : p > i /\ s[p + 1] <= target}
  IN  IF ahead = {} THEN i
      ELSE CHOOSE p \in ahead : \A q \in ahead : q <= p

SkipListSkip(s, i, target) ==
  FirstAtLeast(s, Start(Landing(s, i, target)), target)

-----------------------------------------------------------------------------
\* Fault: index goes on past the end.
CursorNextUnbounded ==
  /\ index' = index + 1
  /\ request' = <<"next">>
  /\ UNCHANGED <<kind, list, open>>

CursorNext ==
  /\ index' = IF open /\ index + 1 < Len(list) THEN index + 1 ELSE Len(list)
  /\ request' = <<"next">>
  /\ UNCHANGED <<kind, list, open>>

CursorSkipTo(target) ==
  /\ \/ kind = "binary" /\ index' = BinarySkip(list, index, target)
     \/ kind = "skip"   /\ index' = SkipListSkip(list, index, target)
  /\ request' = <<"skip", target>>
  /\ UNCHANGED <<kind, list, open>>

\* Close drops the entries; index keeps its value until Next sets it to the
\* new length, 0.
CursorClose ==
  /\ kind = "entries"
  /\ open' = FALSE
  /\ request' = <<"close">>
  /\ list' = <<>>
  /\ UNCHANGED <<kind, index>>

CursorStep ==
  \/ CursorNext
  \/ \E target \in Targets : CursorSkipTo(target)
  \/ CursorClose

CursorSpec == CursorInit /\ [][CursorStep]_cursorVars

-----------------------------------------------------------------------------
(* The key the caller sees, and the keys the cursor has not passed.        *)
Current == IF Valid THEN list[index + 1] ELSE None

Left == IF open THEN {list[k] : k \in index + 2..Len(list)} ELSE {}

Forward == INSTANCE ForwardCursor WITH current <- Current, left <- Left

\* Every cursor is a forward cursor over the keys of its list: it visits
\* them in order and each once, never goes back, and SkipTo stops at the
\* first key not below its target, by binary search or by skip points
\* (Next, SkipTo and Close of the four iterators).
ImplementsForwardCursor == Forward!Spec
=============================================================================
