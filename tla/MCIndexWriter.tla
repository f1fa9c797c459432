----------------------------- MODULE MCIndexWriter -----------------------------
(* Small instances of IndexWriter for TLC. *)
EXTENDS IndexCorrectness, TLC

CONSTANTS i1, i2, f1, f2, t1, t2, x1, x2, a1, a2, p1, p2, h1, h2

(* A text with a repeated term, one with an empty token; the other         *)
(* analyzer drops tokens of the first text and all of the second.          *)
MCAnalysis ==
    (a1 :> [f \in Fields |-> x1 :> <<t1, t2, t1>> @@ x2 :> <<t2, EmptyTerm>>]) @@
    (a2 :> [f \in Fields |-> x1 :> <<t1>> @@ x2 :> << >>])

OneAnalyzer == (a1 :> MCAnalysis[a1])

In(id, d) == [id |-> id, fields |-> d]
Filled(x) == [f \in Fields |-> x]
Empty == Filled(Missing)

JustOne    == p1 :> h1
OneHandle  == p1 :> h1 @@ p2 :> h1
TwoHandles == p1 :> h1 @@ p2 :> h2

(* No document, one, two, the same ID twice, and an invalid last one. *)
MCBatches ==
    { << >>,
      <<In(i1, Filled(x1))>>,
      <<In(i1, Filled(x2)), In(i2, Filled(x1))>>,
      <<In(i2, Filled(x1)), In(i2, Filled(x2))>>,
      <<In(i1, Filled(x2)), In(BlankID, Filled(x1))>>,
      <<In(i1, Empty)>> }

(* Few batches, for instances with two goroutines that may fail anywhere.  *)
FewBatches ==
    { <<In(i1, Filled(x1))>>,
      <<In(i1, Filled(x2)), In(i2, Filled(x1))>> }

(* Documents over two fields, one of which is absent: a field is replaced  *)
(* by the other, and a batch reaches both.                                 *)
FieldBatches ==
    { <<In(i1, f1 :> x1 @@ f2 :> Missing)>>,
      <<In(i1, f1 :> Missing @@ f2 :> x2), In(i2, Filled(x1))>> }

(* Stores an earlier version or a fault may have left, with one field: any *)
(* documents under IDs or numbers, any statistics and dictionary that may  *)
(* belong to them or not, a nil TotalFieldLength.                          *)
DamagedStores ==
    [doc     : [IDs -> {Missing, Filled(x1)}],
           meta    : {[id \in IDs |-> Missing],
                      [id \in IDs |-> MetaOf(a1, Filled(x1))],
                      [id \in IDs |-> IF id = i1 THEN MetaOf(a2, Filled(x1)) ELSE Missing]},
           posting : {EmptyStore.posting,
                      [k \in Slots |-> [id \in IDs |-> IF k[2] = t1 THEN {1} ELSE {}]]},
           term    : {EmptyStore.term,
                      [k \in Slots |-> IF k[2] = t1 THEN [df |-> 2, tf |-> 2] ELSE Missing]},
           global  : {[count |-> 1, total |-> NilMap], ZeroGlobal},
           legacy  : {[n \in LegacyKeys |-> Missing],
                      [n \in LegacyKeys |-> In(i1, IF n = 1 THEN Filled(x1) ELSE Filled(x2))]}]

InitDamaged ==
    /\ store \in DamagedStores
    /\ opened = [h \in Handles |-> a1]
    /\ closed = FALSE
    /\ mu = [h \in Handles |-> Nobody]
    /\ owner = Nobody
    /\ pc = [p \in Procs |-> "idle"]
    /\ call = [p \in Procs |-> NoCall]
    /\ answer = [p \in Procs |-> "none"]
    /\ work = Missing
    /\ left = << >>
    /\ replay = NoReplay

SpecDamaged == InitDamaged /\ [][Next]_vars

================================================================================
