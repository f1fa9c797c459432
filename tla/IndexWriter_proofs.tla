-------------------------- MODULE IndexWriter_proofs ---------------------------
(***************************************************************************)
(* The invariants of the write path hold for every set of documents,       *)
(* fields, terms, analyzers, goroutines and handles, and for every batch.  *)
(*                                                                         *)
(* None of them is inductive alone.  The committed contents stay exact     *)
(* because what is committed, the private copy, is; the private copy stays *)
(* exact because it begins as a copy of exact contents, or empty, and only *)
(* valid documents are written to it, which the validation before the lock *)
(* provides; and there is one private copy because the locks follow calls. *)
(*                                                                         *)
(* The discipline of calls and locks does not depend on what the contents  *)
(* are: Protocol is kept by every step that leaves well-typed contents.    *)
(*                                                                         *)
(* The second part shows that the write path implements IndexPromise, and  *)
(* that Rebuild repairs contents of any kind.  Both need to know what the  *)
(* private copy holds in the middle of a call: InProgress relates it to    *)
(* the committed contents and to what is left to write.  It is kept by     *)
(* every step, whatever the contents are.                                  *)
(***************************************************************************)
EXTENDS IndexCorrectness, StoredIndex_proofs

(* A document that validateDocument has let through. *)
ValidInputs == [id : IDs, fields : Document]

EmptyBatch(r) == r.op = "add" /\ r.batch = << >>

(* A goroutine at `at' in call r on a handle opened with a. *)
CallOK(at, r, a) ==
    /\ at = "idle" => r = NoCall
    /\ at # "idle" => r \in Requests /\ a # Missing
    /\ at \in {"locked", "body", "commit"} => ~Invalid(r) /\ ~EmptyBatch(r)
    /\ at \in {"body", "commit"} => r.op # "close"

CallsOK == \A p \in Procs : CallOK(pc[p], call[p], opened[HandleOf[p]])

(* Nobody closes the store under a transaction, and what the transaction   *)
(* has still to write are valid documents of the batch or committed ones.  *)
PendingOK ==
    /\ owner # Nobody => ~closed
    /\ left \in Seq(ValidInputs)
    /\ \A id \in replay.ids : store.doc[id] # Missing
    /\ \A n \in replay.legacy : store.legacy[n] # Missing

Protocol == TypeOK /\ LocksFollowCalls /\ CallsOK /\ PendingOK

(* What a step has to show of the contents it leaves. *)
ContentsTyped ==
    /\ store \in Store
    /\ work \in Store \cup {Missing}
    /\ owner # Nobody => work \in Store

StoreOK ==
    /\ Sound(Initialized(store))
    /\ \A h \in Handles : opened[h] # Missing => store.global # Missing

WorkOK == work # Missing => Sound(work)

IInv == Protocol /\ StoreOK /\ WorkOK

-----------------------------------------------------------------------------
(* Exact contents are initialized, and New leaves them as they are.        *)
LEMMA SoundIsStore ==
    ASSUME NEW s, Sound(s)
    PROVE  s \in Store /\ s # Missing /\ s.global # Missing /\ s.global.total # NilMap
           /\ Initialized(s) = s
<1>1. s \in Store /\ s.global \in Global /\ s.global.total \in [Fields -> Nat]
  BY DEF Sound
<1>2. s.global # Missing /\ s.global.total # NilMap
  BY <1>1, MarkersDiffer
<1>3. s # Missing
  BY <1>1, MarkersDiffer
<1> QED BY <1>1, <1>2, <1>3 DEF Initialized

(* What New leaves is a store with its globals.                            *)
LEMMA InitializedStore ==
    ASSUME NEW s \in Store
    PROVE  Initialized(s) \in Store /\ Initialized(s).global # Missing
<1>1. ZeroGlobal \in Global /\ ZeroGlobal # Missing
  BY EmptyType, MarkersDiffer
<1> QED BY <1>1 DEF Initialized, Store

(* A process that has just started, on contents of any kind. *)
Started ==
    /\ closed = FALSE
    /\ mu = [h \in Handles |-> Nobody]
    /\ owner = Nobody
    /\ pc = [p \in Procs |-> "idle"]
    /\ call = [p \in Procs |-> NoCall]
    /\ answer = [p \in Procs |-> "none"]
    /\ work = Missing
    /\ left = << >>
    /\ replay = NoReplay

(* A process that starts, with no call begun, is in order.                 *)
LEMMA StartedProtocol ==
    ASSUME Started, store \in Store, opened \in [Handles -> Analyzers \cup {Missing}]
    PROVE  Protocol
<1> USE DEF Started
<1>1. TypeOK
  <2>1. mu \in [Handles -> Procs \cup {Nobody}]
    OBVIOUS
  <2>2. pc \in [Procs -> PCs] /\ answer \in [Procs -> Answers]
    BY DEF PCs, Answers
  <2>3. call \in [Procs -> Requests \cup {NoCall}]
    OBVIOUS
  <2>4. left \in Seq(Inputs) /\ replay \in [legacy : SUBSET LegacyKeys, ids : SUBSET IDs]
    BY DEF NoReplay
  <2> QED BY <2>1, <2>2, <2>3, <2>4 DEF TypeOK
<1>2. LocksFollowCalls
  BY NobodyDiffers DEF LocksFollowCalls
<1>3. CallsOK
  BY DEF CallsOK, CallOK
<1>4. PendingOK
  BY DEF PendingOK, NoReplay
<1> QED BY <1>1, <1>2, <1>3, <1>4 DEF Protocol

-----------------------------------------------------------------------------
(* The ways a call ends.  Whoever is inside the transaction is alone there,*)
(* so ending it leaves no private copy.                                    *)
LEMMA ReturnFromTransaction ==
    ASSUME Protocol, NEW p \in Procs, NEW a \in Answers, pc[p] \in {"body", "commit"},
           Return(p, a), Unlock(p), EndTransaction, store' \in Store, UNCHANGED <<closed, opened>>
    PROVE  Protocol'
<1> USE DEF Protocol
<1>1. TypeOK'
  <2>1. pc' \in [Procs -> PCs] /\ answer' \in [Procs -> Answers]
    BY DEF TypeOK, Return, PCs
  <2>2. call' \in [Procs -> Requests \cup {NoCall}]
    BY DEF TypeOK, Return
  <2>3. mu' \in [Handles -> Procs \cup {Nobody}] /\ owner' \in Procs \cup {Nobody}
    BY DEF TypeOK, Unlock, EndTransaction
  <2>4. /\ work' \in Store \cup {Missing} /\ left' \in Seq(Inputs)
        /\ replay' \in [legacy : SUBSET LegacyKeys, ids : SUBSET IDs]
    BY DEF EndTransaction, NoReplay
  <2>5. closed' \in BOOLEAN /\ opened' \in [Handles -> Analyzers \cup {Missing}]
    BY DEF TypeOK
  <2> QED BY <2>1, <2>2, <2>3, <2>4, <2>5 DEF TypeOK
<1>2. LocksFollowCalls'
  <2>1. /\ pc' = [pc EXCEPT ![p] = "idle"] /\ mu' = [mu EXCEPT ![HandleOf[p]] = Nobody]
        /\ owner' = Nobody /\ work' = Missing
    BY DEF Return, Unlock, EndTransaction
  <2>2. /\ pc \in [Procs -> PCs] /\ mu \in [Handles -> Procs \cup {Nobody}]
        /\ owner = p /\ mu[HandleOf[p]] = p
    BY HandlesAssigned DEF TypeOK, LocksFollowCalls
  <2> QED BY <2>1, <2>2, HandlesAssigned, NobodyDiffers DEF LocksFollowCalls
<1>3. CallsOK'
  <2>1. /\ pc' = [pc EXCEPT ![p] = "idle"] /\ call' = [call EXCEPT ![p] = NoCall] /\ opened' = opened
        /\ pc \in [Procs -> PCs] /\ call \in [Procs -> Requests \cup {NoCall}]
    BY DEF Return, TypeOK
  <2>2. /\ pc'[p] = "idle" /\ call'[p] = NoCall
        /\ \A q \in Procs : q # p => pc'[q] = pc[q] /\ call'[q] = call[q]
    BY <2>1
  <2>3. \A a_1 : CallOK("idle", NoCall, a_1)
    BY DEF CallOK
  <2> QED BY <2>1, <2>2, <2>3 DEF CallsOK
<1>4. PendingOK'
  BY DEF PendingOK, EndTransaction, NoReplay
<1> QED BY <1>1, <1>2, <1>3, <1>4

(* A goroutine that holds its handle's lock and no transaction returns. *)
LEMMA ReturnFromLock ==
    ASSUME Protocol, NEW p \in Procs, NEW a \in Answers, pc[p] = "locked", owner = Nobody,
           Return(p, a), Unlock(p), closed' \in BOOLEAN, UNCHANGED <<store, opened, tx>>
    PROVE  Protocol'
<1> USE DEF Protocol
<1>1. TypeOK'
  <2>1. pc' \in [Procs -> PCs] /\ answer' \in [Procs -> Answers]
    BY DEF TypeOK, Return, PCs
  <2>2. call' \in [Procs -> Requests \cup {NoCall}]
    BY DEF TypeOK, Return
  <2>3. mu' \in [Handles -> Procs \cup {Nobody}]
    BY DEF TypeOK, Unlock
  <2> QED BY <2>1, <2>2, <2>3 DEF TypeOK, tx
<1>2. LocksFollowCalls'
  <2>1. /\ pc' = [pc EXCEPT ![p] = "idle"] /\ mu' = [mu EXCEPT ![HandleOf[p]] = Nobody]
        /\ owner' = owner /\ work' = work
    BY DEF Return, Unlock, tx
  <2>2. /\ pc \in [Procs -> PCs] /\ mu \in [Handles -> Procs \cup {Nobody}]
        /\ mu[HandleOf[p]] = p
    BY HandlesAssigned DEF TypeOK, LocksFollowCalls
  <2> QED BY <2>1, <2>2, HandlesAssigned, NobodyDiffers DEF LocksFollowCalls
<1>3. CallsOK'
  <2>1. /\ pc' = [pc EXCEPT ![p] = "idle"] /\ call' = [call EXCEPT ![p] = NoCall] /\ opened' = opened
        /\ pc \in [Procs -> PCs] /\ call \in [Procs -> Requests \cup {NoCall}]
    BY DEF Return, TypeOK
  <2>2. /\ pc'[p] = "idle" /\ call'[p] = NoCall
        /\ \A q \in Procs : q # p => pc'[q] = pc[q] /\ call'[q] = call[q]
    BY <2>1
  <2>3. \A a_1 : CallOK("idle", NoCall, a_1)
    BY DEF CallOK
  <2> QED BY <2>1, <2>2, <2>3 DEF CallsOK
<1>4. PendingOK'
  BY DEF PendingOK, tx
<1> QED BY <1>1, <1>2, <1>3, <1>4

-----------------------------------------------------------------------------
(* One lemma per action. *)

(* New keeps the calls in order.                                           *)
LEMMA OpenProtocol ==
    ASSUME Protocol, NEW h \in Handles, NEW a \in Analyzers, Open(h, a)
    PROVE  Protocol'
<1> USE DEF Protocol, Open
<1>1. store \in Store /\ store' \in Store
  BY InitializedStore DEF TypeOK
<1>2. TypeOK'
  BY <1>1 DEF TypeOK, tx
<1>3. LocksFollowCalls'
  BY DEF LocksFollowCalls, tx
<1>4. CallsOK'
  <2>1. \A q \in Procs : opened[HandleOf[q]] # Missing => opened'[HandleOf[q]] = opened[HandleOf[q]]
    BY HandlesAssigned DEF TypeOK
  <2>2. ASSUME NEW q \in Procs
        PROVE  CallOK(pc'[q], call'[q], opened'[HandleOf[q]])
    <3>1. CallOK(pc[q], call[q], opened[HandleOf[q]]) /\ pc'[q] = pc[q] /\ call'[q] = call[q]
      BY DEF CallsOK
    <3>2. CASE pc[q] = "idle"
      BY <3>1, <3>2 DEF CallOK
    <3>3. CASE pc[q] # "idle"
      <4>1. opened[HandleOf[q]] # Missing
        BY <3>1, <3>3 DEF CallOK
      <4> QED BY <3>1, <4>1, <2>1
    <3> QED BY <3>2, <3>3
  <2> QED BY <2>2 DEF CallsOK
<1>5. PendingOK'
  <2>1. store'.doc = store.doc /\ store'.legacy = store.legacy
    BY <1>1 DEF Initialized, Store
  <2> QED BY <2>1 DEF PendingOK, tx
<1> QED BY <1>2, <1>3, <1>4, <1>5

(* The first step of a call keeps them in order.                           *)
LEMMA CallProtocol ==
    ASSUME Protocol, NEW p \in Procs, NEW r \in Requests, Call(p, r)
    PROVE  Protocol'
<1> USE DEF Protocol, Call
<1>1. TypeOK'
  <2>1. pc' \in [Procs -> PCs] /\ answer' \in [Procs -> Answers]
    BY DEF TypeOK, PCs, Answers
  <2>2. call' \in [Procs -> Requests \cup {NoCall}]
    BY DEF TypeOK
  <2> QED BY <2>1, <2>2 DEF TypeOK, tx
<1>2. LocksFollowCalls'
  <2>1. pc \in [Procs -> PCs] /\ pc' = [pc EXCEPT ![p] = "called"] /\ mu' = mu /\ owner' = owner /\ work' = work
    BY DEF TypeOK, tx
  <2>2. \A q \in Procs : pc'[q] \in {"locked", "body", "commit"} <=> pc[q] \in {"locked", "body", "commit"}
    BY <2>1
  <2>3. \A q \in Procs : pc'[q] \in {"body", "commit"} <=> pc[q] \in {"body", "commit"}
    BY <2>1
  <2> QED BY <2>1, <2>2, <2>3 DEF LocksFollowCalls
<1>3. CallsOK'
  <2>1. /\ pc \in [Procs -> PCs] /\ call \in [Procs -> Requests \cup {NoCall}] /\ opened' = opened
        /\ pc' = [pc EXCEPT ![p] = "called"] /\ call' = [call EXCEPT ![p] = r]
    BY DEF TypeOK
  <2>2. pc'[p] = "called" /\ call'[p] = r /\ opened'[HandleOf[p]] # Missing
    BY <2>1
  <2>3. CallOK(pc'[p], call'[p], opened'[HandleOf[p]])
    BY <2>2 DEF CallOK
  <2>4. ASSUME NEW q \in Procs, q # p
        PROVE  pc'[q] = pc[q] /\ call'[q] = call[q]
    BY <2>1, <2>4
  <2> QED BY <2>1, <2>3, <2>4 DEF CallsOK
<1>4. PendingOK'
  BY DEF PendingOK, tx
<1> QED BY <1>1, <1>2, <1>3, <1>4

(* A call that is answered before its transaction keeps them in order.     *)
LEMMA AnswerEarlyProtocol ==
    ASSUME Protocol, NEW p \in Procs, AnswerEarly(p)
    PROVE  Protocol'
<1> USE DEF Protocol
<1>1. PICK a \in Answers : Return(p, a)
  BY DEF AnswerEarly, Answers
<1>2. pc[p] = "called" /\ UNCHANGED <<store, closed, opened, mu, owner, work, left, replay>>
  BY DEF AnswerEarly, tx
<1>3. /\ pc \in [Procs -> PCs] /\ call \in [Procs -> Requests \cup {NoCall}]
      /\ pc' = [pc EXCEPT ![p] = "idle"] /\ call' = [call EXCEPT ![p] = NoCall]
  BY <1>1 DEF TypeOK, Return
<1>4. TypeOK'
  <2>1. pc' \in [Procs -> PCs] /\ answer' \in [Procs -> Answers]
    BY <1>1 DEF TypeOK, Return, PCs
  <2>2. call' \in [Procs -> Requests \cup {NoCall}]
    BY <1>3
  <2> QED BY <2>1, <2>2, <1>2 DEF TypeOK
<1>5. LocksFollowCalls'
  <2>1. \A q \in Procs : pc'[q] \in {"locked", "body", "commit"} <=> pc[q] \in {"locked", "body", "commit"}
    BY <1>2, <1>3
  <2>2. \A q \in Procs : pc'[q] \in {"body", "commit"} <=> pc[q] \in {"body", "commit"}
    BY <1>2, <1>3
  <2> QED BY <2>1, <2>2, <1>2 DEF LocksFollowCalls
<1>6. CallsOK'
  <2>1. /\ pc'[p] = "idle" /\ call'[p] = NoCall
        /\ \A q \in Procs : q # p => pc'[q] = pc[q] /\ call'[q] = call[q]
    BY <1>3
  <2>2. \A a_1 : CallOK("idle", NoCall, a_1)
    BY DEF CallOK
  <2> QED BY <2>1, <2>2, <1>2 DEF CallsOK
<1>7. PendingOK'
  BY <1>2 DEF PendingOK
<1> QED BY <1>4, <1>5, <1>6, <1>7

(* The transaction lock is taken by one call, which sees what is stored.   *)
LEMMA LockProtocol ==
    ASSUME Protocol, NEW p \in Procs, Lock(p)
    PROVE  Protocol'
<1> USE DEF Protocol, Lock
<1>1. /\ pc \in [Procs -> PCs] /\ mu \in [Handles -> Procs \cup {Nobody}]
      /\ pc' = [pc EXCEPT ![p] = "locked"] /\ mu' = [mu EXCEPT ![HandleOf[p]] = p]
      /\ UNCHANGED <<store, closed, opened, call, answer, owner, work, left, replay>>
  BY DEF TypeOK, tx
<1>2. TypeOK'
  <2>1. pc' \in [Procs -> PCs] /\ mu' \in [Handles -> Procs \cup {Nobody}]
    BY <1>1 DEF PCs
  <2> QED BY <2>1, <1>1 DEF TypeOK
<1>3. LocksFollowCalls'
  <2>1. \A q \in Procs : pc'[q] \in {"body", "commit"} <=> pc[q] \in {"body", "commit"}
    BY <1>1
  <2>2. \A q \in Procs : HandleOf[q] = HandleOf[p] => pc[q] \notin {"locked", "body", "commit"}
    BY NobodyDiffers, HandlesAssigned DEF LocksFollowCalls
  <2>3. \A h \in Handles, q \in Procs :
          mu'[h] = q <=> HandleOf[q] = h /\ pc'[q] \in {"locked", "body", "commit"}
    BY <2>2, <1>1, NobodyDiffers, HandlesAssigned DEF LocksFollowCalls
  <2> QED BY <2>1, <2>3, <1>1 DEF LocksFollowCalls
<1>4. CallsOK'
  <2>1. CallOK("locked", call[p], opened[HandleOf[p]])
    <3>1. CallOK("called", call[p], opened[HandleOf[p]])
      BY DEF CallsOK
    <3>2. ~Invalid(call[p]) /\ ~EmptyBatch(call[p])
      BY DEF EmptyBatch
    <3> QED BY <3>1, <3>2 DEF CallOK
  <2>2. \A q \in Procs : pc'[q] = IF q = p THEN "locked" ELSE pc[q]
    BY <1>1
  <2> QED BY <2>1, <2>2, <1>1 DEF CallsOK
<1>5. PendingOK'
  BY <1>1 DEF PendingOK
<1> QED BY <1>2, <1>3, <1>4, <1>5

(* What validation has established of the batch a transaction begins with. *)
LEMMA ValidBatch ==
    ASSUME NEW r \in Requests, r.op = "add", ~Invalid(r)
    PROVE  r.batch \in Seq(ValidInputs)
<1>1. r.batch \in Seq(Inputs)
  BY BatchesType DEF Requests
<1>2. ASSUME NEW n \in DOMAIN r.batch
      PROVE  r.batch[n] \in ValidInputs
  <2>1. r.batch[n] \in Inputs
    BY <1>1
  <2>2. r.batch[n].id # BlankID
    BY DEF Invalid
  <2> QED BY <2>1, <2>2 DEF Inputs, ValidInputs
<1>3. r.batch \in [1 .. Len(r.batch) -> ValidInputs] /\ Len(r.batch) \in Nat
  BY <1>1, <1>2
<1> HIDE DEF ValidInputs
<1> QED BY <1>3

(* Documents that are validated are documents.                             *)
LEMMA ValidIsInput == Seq(ValidInputs) \subseteq Seq(Inputs)
<1>1. ValidInputs \subseteq Inputs
  BY DEF ValidInputs, Inputs
<1> HIDE DEF ValidInputs, Inputs
<1> QED BY <1>1

(* The start of a body sets out what is left to write or to replay.        *)
LEMMA BeginProtocol ==
    ASSUME Protocol, NEW p \in Procs, Begin(p), work' \in Store
    PROVE  Protocol'
<1> USE DEF Protocol
<1>1. /\ pc \in [Procs -> PCs] /\ pc[p] = "locked" /\ call[p].op # "close" /\ owner = Nobody
      /\ pc' = [pc EXCEPT ![p] = "body"] /\ owner' = p /\ ~closed
      /\ UNCHANGED <<store, closed, opened, mu, call, answer>>
      /\ left' = IF call[p].op = "add" THEN call[p].batch ELSE << >>
      /\ replay' = IF call[p].op = "rebuild" THEN Documents(store) ELSE NoReplay
  BY DEF Begin, TypeOK
<1>2. CallOK("locked", call[p], opened[HandleOf[p]])
  BY <1>1 DEF CallsOK
<1>3. call[p] \in Requests /\ ~Invalid(call[p])
  BY <1>2 DEF CallOK
<1>4. PendingOK'
  <2>1. left' \in Seq(ValidInputs)
    BY <1>1, <1>3, ValidBatch
  <2>2. /\ \A id \in replay'.ids : store'.doc[id] # Missing
        /\ \A n \in replay'.legacy : store'.legacy[n] # Missing
    BY <1>1 DEF Documents, NoReplay
  <2> QED BY <1>1, <2>1, <2>2 DEF PendingOK
<1>5. TypeOK'
  <2>1. pc' \in [Procs -> PCs]
    BY <1>1 DEF PCs
  <2>2. left' \in Seq(Inputs)
    BY <1>4, ValidIsInput DEF PendingOK
  <2>3. replay' \in [legacy : SUBSET LegacyKeys, ids : SUBSET IDs]
    BY <1>1 DEF Documents, NoReplay
  <2> QED BY <2>1, <2>2, <2>3, <1>1 DEF TypeOK
<1>6. LocksFollowCalls'
  <2>1. \A q \in Procs : pc'[q] \in {"locked", "body", "commit"} <=> pc[q] \in {"locked", "body", "commit"}
    BY <1>1
  <2>2. \A q \in Procs : pc[q] \notin {"body", "commit"}
    BY <1>1, NobodyDiffers DEF LocksFollowCalls
  <2>3. \A q \in Procs : owner' = q <=> pc'[q] \in {"body", "commit"}
    BY <1>1, <2>2
  <2>4. owner' # Nobody /\ work' # Missing
    BY <1>1, NobodyDiffers, MarkersDiffer
  <2> QED BY <2>1, <2>3, <2>4, <1>1 DEF LocksFollowCalls
<1>7. CallsOK'
  <2>1. CallOK("body", call[p], opened[HandleOf[p]])
    BY <1>1, <1>2 DEF CallOK
  <2>2. \A q \in Procs : pc'[q] = IF q = p THEN "body" ELSE pc[q]
    BY <1>1
  <2> QED BY <2>1, <2>2, <1>1 DEF CallsOK
<1> QED BY <1>4, <1>5, <1>6, <1>7

(* A document written to the private copy, by AddBatch or by Rebuild.      *)
LEMMA WriteProtocol ==
    ASSUME Protocol, NEW p \in Procs, pc[p] = "body", work' \in Store,
           left' \in Seq(ValidInputs),
           replay' \in [legacy : SUBSET LegacyKeys, ids : SUBSET IDs],
           replay'.ids \subseteq replay.ids, replay'.legacy \subseteq replay.legacy,
           UNCHANGED <<store, closed, opened, mu, owner, pc, call, answer>>
    PROVE  Protocol'
<1> USE DEF Protocol
<1>1. owner = p /\ work # Missing /\ work' # Missing
  BY NobodyDiffers, MarkersDiffer DEF LocksFollowCalls
<1>2. TypeOK'
  BY ValidIsInput DEF TypeOK
<1>3. LocksFollowCalls'
  BY <1>1, NobodyDiffers DEF LocksFollowCalls
<1>4. CallsOK'
  BY DEF CallsOK
<1>5. PendingOK'
  BY DEF PendingOK
<1> QED BY <1>2, <1>3, <1>4, <1>5

(* Which document AddNext, ReplayLegacy and ReplayNext write, and with     *)
(* which analyzer.                                                         *)
Writes(p, id, d) ==
    /\ pc[p] = "body" /\ work # Missing
    /\ id \in IDs /\ d \in Document /\ opened[HandleOf[p]] \in Analyzers
    /\ ~AddFails(work, id)
    /\ work' = AddInTransaction(work, opened[HandleOf[p]], id, d)
    /\ left' \in Seq(ValidInputs)
    /\ replay' \in [legacy : SUBSET LegacyKeys, ids : SUBSET IDs]
    /\ replay'.ids \subseteq replay.ids /\ replay'.legacy \subseteq replay.legacy
    /\ UNCHANGED <<store, closed, opened, mu, owner, pc, call, answer>>

(* A call within its transaction holds the lock, and has a valid request on*)
(* an open handle.                                                         *)
LEMMA BodyState ==
    ASSUME Protocol, NEW p \in Procs, pc[p] \in {"body", "commit"}
    PROVE  /\ owner = p /\ work \in Store /\ work # Missing /\ ~closed
           /\ opened[HandleOf[p]] \in Analyzers
           /\ call[p] \in Requests /\ ~Invalid(call[p]) /\ call[p].op # "close"
           /\ ~EmptyBatch(call[p])
<1>1. owner = p /\ work # Missing
  BY NobodyDiffers DEF Protocol, LocksFollowCalls
<1>2. CallOK(pc[p], call[p], opened[HandleOf[p]])
  BY DEF Protocol, CallsOK
<1>3. opened[HandleOf[p]] \in Analyzers \cup {Missing} /\ work \in Store \cup {Missing}
  BY HandlesAssigned DEF Protocol, TypeOK
<1>4. ~closed
  BY <1>1, NobodyDiffers DEF Protocol, PendingOK
<1> QED BY <1>1, <1>2, <1>3, <1>4 DEF CallOK

(* Add and AddBatch write the next document of those that are left.        *)
LEMMA AddNextWrites ==
    ASSUME Protocol, NEW p \in Procs, AddNext(p)
    PROVE  /\ left # << >> /\ left' = Tail(left) /\ replay' = replay
           /\ Head(left).id # BlankID /\ Writes(p, Head(left).id, Head(left).fields)
<1>1. left \in Seq(ValidInputs) /\ left # << >> /\ pc[p] = "body" /\ left' = Tail(left) /\ replay' = replay
  BY DEF Protocol, PendingOK, AddNext
<1>2. Head(left) \in ValidInputs /\ left' \in Seq(ValidInputs)
  <2> HIDE DEF ValidInputs
  <2> QED BY <1>1
<1>3. Head(left).id \in IDs /\ Head(left).fields \in Document
  BY <1>2 DEF ValidInputs
<1>4. replay' \in [legacy : SUBSET LegacyKeys, ids : SUBSET IDs]
  BY <1>1 DEF Protocol, TypeOK
<1>5. work # Missing /\ opened[HandleOf[p]] \in Analyzers
  BY <1>1, BodyState
<1> QED BY <1>1, <1>2, <1>3, <1>4, <1>5, BatchesType DEF AddNext, Writes

(* Rebuild replays the first of the legacy records that are left.          *)
LEMMA ReplayLegacyWrites ==
    ASSUME Protocol, NEW p \in Procs, ReplayLegacy(p)
    PROVE  \E n \in replay.legacy :
             /\ \A m \in replay.legacy : n <= m
             /\ left' = left /\ replay' = [replay EXCEPT !.legacy = @ \ {n}]
             /\ store.legacy[n] \in LegacyDocument
             /\ Writes(p, store.legacy[n].id, store.legacy[n].fields)
<1>1. /\ replay \in [legacy : SUBSET LegacyKeys, ids : SUBSET IDs] /\ store \in Store
      /\ left \in Seq(ValidInputs) /\ pc[p] = "body"
  BY DEF Protocol, TypeOK, PendingOK, ReplayLegacy
<1>2. PICK n \in replay.legacy :
        /\ \A m \in replay.legacy : n <= m
        /\ ~AddFails(work, store.legacy[n].id)
        /\ work' = AddInTransaction(work, opened[HandleOf[p]], store.legacy[n].id, store.legacy[n].fields)
        /\ replay' = [replay EXCEPT !.legacy = @ \ {n}]
  BY DEF ReplayLegacy
<1>3. store.legacy[n] \in LegacyDocument
  BY <1>1 DEF Protocol, PendingOK, Store
<1>4. store.legacy[n].id \in IDs /\ store.legacy[n].fields \in Document
  BY <1>3 DEF LegacyDocument
<1>5. /\ replay' \in [legacy : SUBSET LegacyKeys, ids : SUBSET IDs]
      /\ replay'.ids \subseteq replay.ids /\ replay'.legacy \subseteq replay.legacy
  BY <1>1, <1>2
<1>6. left' = left /\ UNCHANGED <<store, closed, opened, mu, owner, pc, call, answer>>
  BY DEF ReplayLegacy
<1>7. work # Missing /\ opened[HandleOf[p]] \in Analyzers
  BY <1>1, BodyState
<1> QED BY <1>1, <1>2, <1>3, <1>4, <1>5, <1>6, <1>7 DEF Writes

(* Rebuild replays one of the stored documents that are left.              *)
LEMMA ReplayNextWrites ==
    ASSUME Protocol, NEW p \in Procs, ReplayNext(p)
    PROVE  \E id \in replay.ids :
             /\ replay.legacy = {}
             /\ left' = left /\ replay' = [replay EXCEPT !.ids = @ \ {id}]
             /\ Writes(p, id, store.doc[id])
<1>1. /\ replay \in [legacy : SUBSET LegacyKeys, ids : SUBSET IDs] /\ store \in Store
      /\ left \in Seq(ValidInputs) /\ pc[p] = "body" /\ replay.legacy = {}
  BY DEF Protocol, TypeOK, PendingOK, ReplayNext
<1>2. PICK id \in replay.ids :
        /\ ~AddFails(work, id)
        /\ work' = AddInTransaction(work, opened[HandleOf[p]], id, store.doc[id])
        /\ replay' = [replay EXCEPT !.ids = @ \ {id}]
  BY DEF ReplayNext
<1>3. id \in IDs /\ store.doc[id] \in Document
  BY <1>1 DEF Protocol, PendingOK, Store
<1>4. /\ replay' \in [legacy : SUBSET LegacyKeys, ids : SUBSET IDs]
      /\ replay'.ids \subseteq replay.ids /\ replay'.legacy \subseteq replay.legacy
  BY <1>1, <1>2
<1>5. left' = left /\ UNCHANGED <<store, closed, opened, mu, owner, pc, call, answer>>
  BY DEF ReplayNext
<1>6. work # Missing /\ opened[HandleOf[p]] \in Analyzers
  BY <1>1, BodyState
<1> QED BY <1>1, <1>2, <1>3, <1>4, <1>5, <1>6 DEF Writes

(* The callback returns without an error and the commit is next. *)
LEMMA ToCommitProtocol ==
    ASSUME Protocol, NEW p \in Procs, pc[p] = "body", pc' = [pc EXCEPT ![p] = "commit"],
           work' \in Store, UNCHANGED <<store, closed, opened, mu, owner, call, answer, left, replay>>
    PROVE  Protocol'
<1> USE DEF Protocol
<1>1. pc \in [Procs -> PCs] /\ owner = p /\ work' # Missing
  BY MarkersDiffer DEF TypeOK, LocksFollowCalls
<1>2. TypeOK'
  <2>1. pc' \in [Procs -> PCs]
    BY <1>1 DEF PCs
  <2> QED BY <2>1, <1>1 DEF TypeOK
<1>3. LocksFollowCalls'
  <2>1. \A q \in Procs : pc'[q] \in {"locked", "body", "commit"} <=> pc[q] \in {"locked", "body", "commit"}
    BY <1>1
  <2>2. \A q \in Procs : pc'[q] \in {"body", "commit"} <=> pc[q] \in {"body", "commit"}
    BY <1>1
  <2> QED BY <2>1, <2>2, <1>1, NobodyDiffers DEF LocksFollowCalls
<1>4. CallsOK'
  <2>1. CallOK("body", call[p], opened[HandleOf[p]])
    BY DEF CallsOK
  <2>2. CallOK("commit", call[p], opened[HandleOf[p]])
    BY <2>1 DEF CallOK
  <2>3. \A q \in Procs : pc'[q] = IF q = p THEN "commit" ELSE pc[q]
    BY <1>1
  <2> QED BY <2>2, <2>3 DEF CallsOK
<1>5. PendingOK'
  BY DEF PendingOK
<1> QED BY <1>2, <1>3, <1>4, <1>5

(* The three outcomes of Delete's callback. *)
LEMMA DeleteBodyProtocol ==
    ASSUME Protocol, NEW p \in Procs, DeleteBody(p), ContentsTyped'
    PROVE  Protocol'
<1>1. /\ pc[p] = "body" /\ store' \in Store
      /\ UNCHANGED <<store, closed, opened>>
  BY DEF DeleteBody, ContentsTyped
<1>2. CASE \E a \in Answers : Return(p, a) /\ Unlock(p) /\ EndTransaction
  BY <1>1, <1>2, ReturnFromTransaction
<1>3. CASE /\ pc' = [pc EXCEPT ![p] = "commit"]
           /\ UNCHANGED <<mu, owner, call, answer, left, replay>>
  <2>1. work' \in Store
    BY <1>1, <1>3, BodyState, NobodyDiffers DEF ContentsTyped
  <2> QED BY <2>1, <1>1, <1>3, ToCommitProtocol
<1> QED BY <1>2, <1>3 DEF DeleteBody, Answers

(* A process that ends leaves no call behind.                              *)
LEMMA RestartProtocol ==
    ASSUME Restart, store' \in Store
    PROVE  Protocol'
<1>1. opened' \in [Handles -> Analyzers \cup {Missing}]
  BY DEF Restart
<1>2. Started'
  BY DEF Restart, Started, EndTransaction
<1> USE DEF Started
<1>3. TypeOK'
  <2>1. pc' \in [Procs -> PCs] /\ answer' \in [Procs -> Answers]
    BY <1>2 DEF PCs, Answers
  <2>2. left' \in Seq(Inputs) /\ replay' \in [legacy : SUBSET LegacyKeys, ids : SUBSET IDs]
    BY <1>2 DEF NoReplay
  <2> QED BY <1>1, <1>2, <2>1, <2>2 DEF TypeOK
<1>4. LocksFollowCalls'
  BY <1>2, NobodyDiffers DEF LocksFollowCalls
<1>5. CallsOK' /\ PendingOK'
  BY <1>2 DEF CallsOK, CallOK, PendingOK, NoReplay
<1> QED BY <1>3, <1>4, <1>5 DEF Protocol

(* Every step that leaves well-typed contents keeps the discipline.        *)
THEOREM ProtocolKept ==
    ASSUME Protocol, [Next]_vars, ContentsTyped'
    PROVE  Protocol'
<1>1. ASSUME NEW h \in Handles, NEW a \in Analyzers, Open(h, a) PROVE Protocol'
  BY <1>1, OpenProtocol
<1>2. ASSUME NEW p \in Procs, NEW r \in Requests, Call(p, r) PROVE Protocol'
  BY <1>2, CallProtocol
<1>3. ASSUME NEW p \in Procs, AnswerEarly(p) \/ Lock(p) PROVE Protocol'
  BY <1>3, AnswerEarlyProtocol, LockProtocol
<1>4. ASSUME NEW p \in Procs, Begin(p) PROVE Protocol'
  <2>1. work' \in Store
    BY <1>4, NobodyDiffers DEF Begin, ContentsTyped
  <2> QED BY <1>4, <2>1, BeginProtocol
<1>5. ASSUME NEW p \in Procs, TransactionClosed(p) \/ CloseStore(p) PROVE Protocol'
  <2>1. closed' \in BOOLEAN /\ "closed" \in Answers /\ "ok" \in Answers
    BY <1>5 DEF Protocol, TypeOK, TransactionClosed, CloseStore, Answers
  <2> QED BY <1>5, <2>1, ReturnFromLock DEF TransactionClosed, CloseStore
<1>6. ASSUME NEW p \in Procs, NEW id, NEW d, Writes(p, id, d) PROVE Protocol'
  <2>1. owner' # Nobody
    BY <1>6, BodyState, NobodyDiffers DEF Writes
  <2> QED BY <1>6, <2>1, WriteProtocol DEF Writes, ContentsTyped
<1>7. ASSUME NEW p \in Procs, AddNext(p) \/ ReplayLegacy(p) \/ ReplayNext(p) PROVE Protocol'
  BY <1>6, <1>7, AddNextWrites, ReplayLegacyWrites, ReplayNextWrites
<1>8. ASSUME NEW p \in Procs, BodyDone(p) PROVE Protocol'
  <2>1. work' \in Store /\ pc[p] = "body"
    BY <1>8, BodyState DEF BodyDone, tx
  <2> QED BY <1>8, <2>1, ToCommitProtocol DEF BodyDone, tx
<1>9. ASSUME NEW p \in Procs, DeleteBody(p) PROVE Protocol'
  BY <1>9, DeleteBodyProtocol
<1>10. ASSUME NEW p \in Procs, Commit(p) \/ Abort(p) PROVE Protocol'
  <2>1. store' \in Store /\ "ok" \in Answers /\ "failed" \in Answers
    BY DEF ContentsTyped, Answers
  <2> QED BY <1>10, <2>1, ReturnFromTransaction DEF Commit, Abort
<1>11. CASE Restart
  BY <1>11, RestartProtocol DEF ContentsTyped
<1>12. CASE UNCHANGED vars
  BY <1>12 DEF vars, Protocol, TypeOK, LocksFollowCalls, CallsOK, PendingOK
<1> QED BY <1>1, <1>2, <1>3, <1>4, <1>5, <1>7, <1>8, <1>9, <1>10, <1>11, <1>12 DEF Next, Step

-----------------------------------------------------------------------------
(* The contents stay exact, the committed ones and the private copy.       *)

(* An empty store, with no call begun, is in order.                        *)
THEOREM InitInv == Init => IInv
<1> SUFFICES ASSUME Init PROVE IInv
  OBVIOUS
<1>1. Protocol
  <2>1. Started /\ opened \in [Handles -> Analyzers \cup {Missing}] /\ store \in Store
    BY EmptyType DEF Init, Started
  <2> QED BY <2>1, StartedProtocol
<1>2. StoreOK
  BY ClearedSound DEF Init, StoreOK
<1>3. WorkOK
  BY DEF Init, WorkOK
<1> QED BY <1>1, <1>2, <1>3 DEF IInv

(* Every step keeps stored and written contents exact.                     *)
LEMMA SoundKept ==
    ASSUME IInv, [Next]_vars
    PROVE  StoreOK' /\ WorkOK' /\ ContentsTyped'
<1> USE DEF IInv
<1>1. /\ store \in Store /\ work \in Store \cup {Missing}
      /\ owner # Nobody => work \in Store
  BY NobodyDiffers DEF Protocol, TypeOK, LocksFollowCalls
<1>2. CASE UNCHANGED <<store, opened, owner, work>>
  BY <1>1, <1>2 DEF StoreOK, WorkOK, ContentsTyped
<1>3. CASE EndTransaction /\ UNCHANGED <<store, opened>>
  BY <1>1, <1>3, NobodyDiffers DEF EndTransaction, StoreOK, WorkOK, ContentsTyped
<1>4. CASE Sound(work') /\ UNCHANGED <<store, opened>>
  <2>1. work' \in Store
    BY <1>4, SoundIsStore
  <2> QED BY <1>1, <1>4, <2>1 DEF StoreOK, WorkOK, ContentsTyped
<1>5. ASSUME NEW h \in Handles, NEW a \in Analyzers, Open(h, a)
      PROVE  StoreOK' /\ WorkOK' /\ ContentsTyped'
  <2>1. store' \in Store /\ store'.global # Missing /\ store' = Initialized(store)
    BY <1>1, <1>5, InitializedStore DEF Open
  <2>2. Initialized(store') = store' /\ Sound(store')
    BY <2>1, SoundIsStore DEF StoreOK
  <2>3. UNCHANGED <<owner, work>>
    BY <1>5 DEF Open, tx
  <2> QED BY <1>1, <2>1, <2>2, <2>3 DEF StoreOK, WorkOK, ContentsTyped
<1>6. ASSUME NEW p \in Procs, Begin(p)
      PROVE  Sound(work') /\ UNCHANGED <<store, opened>>
  <2>1. UNCHANGED <<store, opened>> /\ pc[p] = "locked"
    BY <1>6 DEF Begin
  <2>2. Sound(store)
    <3>1. CallOK(pc[p], call[p], opened[HandleOf[p]])
      BY DEF Protocol, CallsOK
    <3>2. store.global # Missing
      BY <2>1, <3>1, HandlesAssigned DEF StoreOK, CallOK
    <3> QED BY <3>2 DEF StoreOK, Initialized
  <2>3. [store EXCEPT !.global = EnsureGlobalMaps(@)] = store
    <3>1. store \in Store /\ store.global.total # NilMap
      BY <2>2, SoundIsStore
    <3>2. EnsureGlobalMaps(store.global) = store.global
      BY <3>1 DEF EnsureGlobalMaps
    <3> QED BY <3>1, <3>2 DEF Store
  <2>4. work' = store \/ work' = ClearedForRebuild
    BY <1>6, <2>3 DEF Begin
  <2> QED BY <2>1, <2>2, <2>4, ClearedSound
<1>7. ASSUME NEW p \in Procs, NEW id, NEW d, Writes(p, id, d)
      PROVE  Sound(work') /\ UNCHANGED <<store, opened>>
  BY <1>7, AddSound DEF Writes, WorkOK
<1>8. ASSUME NEW p \in Procs, AddNext(p) \/ ReplayLegacy(p) \/ ReplayNext(p)
      PROVE  Sound(work') /\ UNCHANGED <<store, opened>>
  BY <1>7, <1>8, AddNextWrites, ReplayLegacyWrites, ReplayNextWrites
<1>9. ASSUME NEW p \in Procs, DeleteBody(p)
      PROVE  StoreOK' /\ WorkOK' /\ ContentsTyped'
  <2>1. pc[p] = "body" /\ call[p].op = "delete" /\ UNCHANGED <<store, opened>>
    BY <1>9 DEF DeleteBody
  <2>2. work # Missing /\ Sound(work) /\ call[p] \in Requests /\ ~Invalid(call[p])
    BY <2>1, BodyState DEF WorkOK
  <2>3. call[p].id \in IDs
    BY <2>1, <2>2 DEF Requests, Invalid
  <2>4. CASE work.meta[call[p].id] # Missing /\ work' = DeleteInTransaction(work, call[p].id)
    <3>1. Sound(work')
      BY <2>2, <2>3, <2>4, DeleteSound
    <3> QED BY <1>4, <2>1, <3>1
  <2> QED BY <1>3, <1>9, <2>1, <2>4 DEF DeleteBody
<1>10. ASSUME NEW p \in Procs, Commit(p)
       PROVE  StoreOK' /\ WorkOK' /\ ContentsTyped'
  <2>1. /\ pc[p] = "commit" /\ store' = work /\ opened' = opened
        /\ owner' = Nobody /\ work' = Missing
    BY <1>10 DEF Commit, EndTransaction
  <2>2. Sound(store')
    BY <2>1, BodyState DEF WorkOK
  <2> QED BY <2>1, <2>2, SoundIsStore DEF StoreOK, WorkOK, ContentsTyped
<1>11. CASE Restart
  <2>1. /\ store' = IF Durable THEN store ELSE EmptyStore
        /\ opened' = [h \in Handles |-> Missing] /\ owner' = Nobody /\ work' = Missing
    BY <1>11 DEF Restart, EndTransaction
  <2> QED BY <1>1, <2>1, EmptyType, ClearedSound DEF StoreOK, WorkOK, ContentsTyped
<1>12. ASSUME NEW p \in Procs, \/ \E r \in Requests : Call(p, r)
                               \/ AnswerEarly(p) \/ Lock(p) \/ TransactionClosed(p) \/ CloseStore(p)
                               \/ BodyDone(p)
       PROVE  UNCHANGED <<store, opened, owner, work>>
  BY <1>12 DEF Call, AnswerEarly, Lock, TransactionClosed, CloseStore, BodyDone, tx
<1>13. ASSUME NEW p \in Procs, Abort(p)
       PROVE  EndTransaction /\ UNCHANGED <<store, opened>>
  BY <1>13 DEF Abort
<1>14. CASE UNCHANGED vars
  BY <1>2, <1>14 DEF vars
<1> QED BY <1>2, <1>3, <1>4, <1>5, <1>6, <1>8, <1>9, <1>10, <1>11, <1>12, <1>13, <1>14 DEF Next, Step

(* IInv is inductive: no step of any goroutine, failure or restart breaks  *)
(* it.                                                                     *)
THEOREM NextInv == IInv /\ [Next]_vars => IInv'
BY SoundKept, ProtocolKept DEF IInv

(* Every reachable state satisfies the inductive invariant. *)
THEOREM Inductive == Spec => []IInv
BY InitInv, NextInv, PTL DEF Spec

-----------------------------------------------------------------------------
(* The properties of the runs follow from the inductive invariant. *)

(* The variables keep their types. *)
THEOREM TypeCorrect == Spec => []TypeOK
<1>1. IInv => TypeOK
  BY DEF IInv, Protocol
<1> QED BY <1>1, Inductive, PTL

(* Every way out of a call gives its locks back, and the transaction is    *)
(* only run by a goroutine that holds its handle's lock.                   *)
THEOREM LocksCorrect == Spec => []LocksFollowCalls
<1>1. IInv => LocksFollowCalls
  BY DEF IInv, Protocol
<1> QED BY <1>1, Inductive, PTL

(* A store that New has not reached is empty; with its zero GlobalStats it *)
(* is as exact as any other.                                               *)
LEMMA CommittedExact ==
    ASSUME IInv
    PROVE  /\ DocumentsPaired(store) /\ PostingsExact(store) /\ DictionaryExact(store)
           /\ StatsExact([store EXCEPT !.global = Initialized(store).global])
<1> DEFINE s == Initialized(store)
<1>1. store \in Store /\ Sound(s)
  BY DEF IInv, Protocol, TypeOK, StoreOK
<1>2. /\ s.doc = store.doc /\ s.meta = store.meta
      /\ s.posting = store.posting /\ s.term = store.term
      /\ s = [store EXCEPT !.global = s.global]
  BY <1>1 DEF Initialized, Store
<1>3. DocumentsPaired(s) /\ PostingsExact(s) /\ DictionaryExact(s) /\ StatsExact(s)
  BY <1>1 DEF Sound, Exact
<1> HIDE DEF s
<1>4. DocumentsPaired(store) /\ PostingsExact(store) /\ DictionaryExact(store)
  BY <1>2, <1>3 DEF DocumentsPaired, PostingsExact, DictionaryExact
<1>5. StatsExact([store EXCEPT !.global = s.global])
  BY <1>2, <1>3
<1> QED BY <1>4, <1>5 DEF s

(* No posting outlives its document or its version of it, whatever analyzer*)
(* wrote it and whichever removes it.                                      *)
THEOREM NoGhostsEver == Spec => []NoGhosts
<1>1. IInv => NoGhosts
  BY CommittedExact DEF NoGhosts
<1> QED BY <1>1, Inductive, PTL

(* Each dictionary entry counts its postings and their positions. *)
THEOREM DictionaryCorrect == Spec => []DictionaryCounts
<1>1. IInv => DictionaryCounts
  BY CommittedExact DEF DictionaryCounts
<1> QED BY <1>1, Inductive, PTL

(* GlobalStats counts the documents and sums up their lengths. *)
THEOREM StatsCorrect == Spec => []StatsAddUp
<1>1. IInv => StatsAddUp
  BY CommittedExact DEF StatsAddUp
<1> QED BY <1>1, Inductive, PTL

(* So does the private copy, between any two documents of a transaction. *)
THEOREM WorkCorrect == Spec => []WorkExact
<1>1. IInv => WorkExact
  BY DEF IInv, WorkOK, Sound, WorkExact
<1> QED BY <1>1, Inductive, PTL

(* The old version of a document that is replaced or deleted is counted in *)
(* everything it is taken out of, so every subtraction is exact.           *)
LEMMA SoundRemovalExact ==
    ASSUME Sound(work), NEW id \in IDs, work.meta[id] # Missing
    PROVE  RemovalExact(id)
<1> DEFINE m == work.meta[id]
<1>1. work \in Store /\ m \in Meta
  BY DEF Sound, Store
<1>2. work.global.count > 0
  <2>1. work.global.count = Cardinality(Live(work)) /\ id \in Live(work) /\ IsFiniteSet(Live(work))
    BY LiveFinite DEF Sound, Exact, StatsExact, Live
  <2>2. Cardinality(Live(work)) \in Nat /\ Cardinality(Live(work)) # 0
    BY <2>1, FS_CardinalityType, FS_EmptySet
  <2> QED BY <2>1, <2>2
<1>3. ASSUME NEW f \in Fields
      PROVE  work.global.total[f] >= m.lengths[f]
  <2> DEFINE o == Ordinals(work, f)
             q == [o EXCEPT ![id] = {}]
  <2>1. /\ o \in Family /\ IsFiniteSet(o[id]) /\ Cardinality(o[id]) = m.lengths[f]
        /\ m.lengths[f] \in Nat
    BY <1>1, OrdinalsFamily
  <2>2. IsFiniteSet(Pairs(o)) /\ work.global.total[f] = Cardinality(Pairs(o))
    BY DEF Sound, FiniteContents, Exact, StatsExact
  <2> HIDE DEF o, m
  <2>3. IsFiniteSet(Pairs(q)) /\ Cardinality(Pairs(o)) = Cardinality(Pairs(q)) + Cardinality(o[id])
    BY <2>1, <2>2, FamilyRemove
  <2>4. Cardinality(Pairs(q)) \in Nat
    BY <2>3, FS_CardinalityType
  <2> QED BY <2>1, <2>2, <2>3, <2>4
<1>4. ASSUME NEW k \in Slots, Cardinality(m.vectors[k]) > 0
      PROVE  /\ work.term[k].df = 1 => work.term[k].tf = Cardinality(m.vectors[k])
             /\ work.term[k].df > 1 => work.term[k].tf > Cardinality(m.vectors[k])
  <2> DEFINE p == work.posting[k]
             q == [p EXCEPT ![id] = {}]
             n == Cardinality(m.vectors[k])
  <2>1. p \in Family /\ p[id] = m.vectors[k] /\ IsFiniteSet(p[id]) /\ IsFiniteSet(Pairs(p))
    BY <1>1 DEF Store, Family, Sound, FiniteContents, Exact, PostingsExact
  <2>2. p[id] # {} /\ n \in Nat
    BY <1>4, <2>1, FS_EmptySet, FS_CardinalityType
  <2>3. work.term[k] = [df |-> Cardinality(Holders(p)), tf |-> Cardinality(Pairs(p))]
    BY <2>2 DEF Sound, Exact, DictionaryExact, Entry, Holders
  <2> HIDE DEF p, m
  <2>4. /\ q \in Family /\ IsFiniteSet(Pairs(q))
        /\ Cardinality(Pairs(p)) = Cardinality(Pairs(q)) + Cardinality(p[id])
        /\ Cardinality(Holders(p)) = Cardinality(Holders(q)) + 1
    BY <2>1, <2>2, FamilyRemove
  <2> HIDE DEF q
  <2>5. IsFiniteSet(Holders(q))
    BY FiniteIDs, FS_Subset DEF Holders
  <2>6. Cardinality(Holders(q)) \in Nat /\ Cardinality(Pairs(q)) \in Nat
    BY <2>4, <2>5, FS_CardinalityType
  <2>7. Cardinality(Holders(q)) = 0 => Cardinality(Pairs(q)) = 0
    BY <2>4, <2>5, NoHolderNoPair, FS_EmptySet
  <2>8. Cardinality(Holders(q)) > 0 => Cardinality(Pairs(q)) > 0
    <3>1. ASSUME NEW i \in IDs, q[i] # {}
          PROVE  Pairs(q) # {}
      <4>1. PICK x : x \in q[i]
        BY <3>1
      <4>2. <<i, x>> \in Pairs(q)
        BY <4>1 DEF Pairs
      <4> QED BY <4>2
    <3>2. Holders(q) # {} => Pairs(q) # {}
      BY <3>1 DEF Holders
    <3> QED BY <3>2, <2>4, <2>5, <2>6, FS_EmptySet
  <2> QED BY <2>1, <2>2, <2>3, <2>4, <2>6, <2>7, <2>8
<1>5. ~RemoveFails(work, id)
  BY RemoveDetaches
<1> QED BY <1>2, <1>3, <1>4, <1>5 DEF RemovalExact

(* No clamp of removeVectors or Delete ever takes effect. *)
THEOREM RemovalCorrect == Spec => []RemovalNeverGuesses
<1>1. IInv => RemovalNeverGuesses
  <2> SUFFICES ASSUME IInv, work # Missing, NEW id \in IDs
               PROVE  RemovalExact(id)
    BY DEF RemovalNeverGuesses
  <2>1. CASE work.meta[id] = Missing
    BY <2>1 DEF RemovalExact
  <2>2. CASE work.meta[id] # Missing
    BY <2>2, SoundRemovalExact DEF IInv, WorkOK
  <2> QED BY <2>1, <2>2
<1> QED BY <1>1, Inductive, PTL

(* Whatever was written by this version alone, no call panics: only the    *)
(* metadata of an earlier version can have a nil TotalFieldLength.         *)
THEOREM PanicsOnlyOnOld == Spec => []NoPanic
<1>1. Init => NoPanic
  BY DEF Init, NoPanic
<1>2. ASSUME IInv, NoPanic, [Next]_vars
      PROVE  NoPanic'
  <2>1. answer \in [Procs -> Answers]
    BY <1>2 DEF IInv, Protocol, TypeOK
  <2>2. ASSUME NEW p \in Procs, NEW a, Return(p, a), a # "panic"
        PROVE  NoPanic'
    BY <2>1, <2>2, <1>2 DEF Return, NoPanic
  <2>3. ASSUME NEW p \in Procs, NEW r \in Requests, Call(p, r)
        PROVE  NoPanic'
    BY <2>1, <2>3, <1>2 DEF Call, NoPanic
  <2>4. ASSUME NEW p \in Procs, AnswerEarly(p) \/ TransactionClosed(p) \/ Commit(p) \/ Abort(p)
                                \/ CloseStore(p)
        PROVE  NoPanic'
    BY <2>2, <2>4 DEF AnswerEarly, TransactionClosed, Commit, Abort, CloseStore
  <2>5. ASSUME NEW p \in Procs, DeleteBody(p)
        PROVE  NoPanic'
    <3>1. work # Missing /\ Sound(work)
      BY <2>5, <1>2, BodyState DEF DeleteBody, IInv, WorkOK
    <3>2. work.global.total # NilMap
      BY <3>1, SoundIsStore
    <3>3. CASE UNCHANGED answer
      BY <3>3, <1>2 DEF NoPanic
    <3> QED BY <3>2, <3>3, <2>2, <2>5 DEF DeleteBody
  <2>6. ASSUME NEW p \in Procs, Lock(p) \/ Begin(p) \/ AddNext(p) \/ ReplayLegacy(p)
                                \/ ReplayNext(p) \/ BodyDone(p)
        PROVE  NoPanic'
    BY <2>6, <1>2 DEF Lock, Begin, AddNext, ReplayLegacy, ReplayNext, BodyDone, NoPanic
  <2>7. ASSUME NEW h \in Handles, NEW a \in Analyzers, Open(h, a)
        PROVE  NoPanic'
    BY <2>7, <1>2 DEF Open, NoPanic
  <2>8. CASE Restart
    BY <2>8 DEF Restart, NoPanic
  <2>9. CASE UNCHANGED vars
    BY <2>9, <1>2 DEF vars, NoPanic
  <2> QED BY <2>3, <2>4, <2>5, <2>6, <2>7, <2>8, <2>9, <1>2 DEF Next, Step
<1> QED BY <1>1, <1>2, Inductive, PTL DEF Spec

--------------------------------------------------------------------------------
(* Calls in progress: the abstract index, and Rebuild.                     *)

(* AddBatch has written all of the batch but what is left of it: of each   *)
(* ID the last version so far, and no other ID.                            *)
BatchProgress(p) ==
    LET batch   == call[p].batch
        written == Len(batch) - Len(left)
    IN  /\ written \in Nat
        /\ \A n \in 1 .. Len(left) : left[n] = batch[written + n]
        /\ \A id \in IDs :
             \/ /\ \A n \in 1 .. written : batch[n].id # id
                /\ SameDocument(work, store, id)
             \/ \E n \in 1 .. written :
                  /\ batch[n].id = id
                  /\ \A m \in n + 1 .. written : batch[m].id # id
                  /\ HasIndexed(work, id, opened[HandleOf[p]], batch[n].fields)

(* The documents of the early schema that Rebuild has replayed. *)
Replayed == {n \in LegacyKeys : store.legacy[n] # Missing} \ replay.legacy

(* Rebuild has replayed all documents but those in replay: what it has     *)
(* under an ID is the document of that ID, or as long as that is not       *)
(* replayed the last one of the early schema so far.                       *)
RebuildProgress(p) ==
    /\ Sound(work)
    /\ \A n \in LegacyKeys : work.legacy[n] = Missing
    /\ \A n \in Replayed, m \in replay.legacy : n < m
    /\ replay.legacy # {} => replay.ids = {id \in IDs : store.doc[id] # Missing}
    /\ \A id \in IDs :
         \/ /\ store.doc[id] # Missing /\ id \notin replay.ids
            /\ HasIndexed(work, id, opened[HandleOf[p]], store.doc[id])
         \/ /\ store.doc[id] = Missing \/ id \in replay.ids
            /\ \A n \in Replayed : store.legacy[n].id # id
            /\ work.doc[id] = Missing
         \/ /\ store.doc[id] = Missing \/ id \in replay.ids
            /\ \E n \in Replayed :
                 /\ store.legacy[n].id = id
                 /\ \A m \in Replayed : store.legacy[m].id = id => m <= n
                 /\ HasIndexed(work, id, opened[HandleOf[p]], store.legacy[n].fields)

(* Delete works on the committed contents, and then without the document.  *)
DeleteProgress(p) ==
    LET id == call[p].id IN
    \/ pc[p] = "body" /\ work = store
    \/ /\ pc[p] = "commit"
       /\ store.meta[id] # Missing /\ work.doc[id] = Missing
       /\ \A i \in IDs \ {id} : SameDocument(work, store, i)

(* What the private copy has of the call in progress. *)
Progress(p) ==
    /\ call[p].op = "add" => BatchProgress(p)
    /\ call[p].op = "rebuild" => RebuildProgress(p)
    /\ call[p].op = "delete" => DeleteProgress(p)
    /\ call[p].op # "add" => left = << >>
    /\ call[p].op # "rebuild" => replay = NoReplay
    /\ pc[p] = "commit" => left = << >> /\ replay = NoReplay

InProgress == \A p \in Procs : pc[p] \in {"body", "commit"} => Progress(p)

-----------------------------------------------------------------------------
(* One lemma for each kind of step of a transaction. *)

(* At the start of a body nothing is written and everything is left.       *)
LEMMA BeginProgress ==
    ASSUME Protocol, NEW p \in Procs, Begin(p)
    PROVE  Progress(p)'
<1> DEFINE r == call[p]
<1>1. /\ pc'[p] = "body" /\ call[p].op # "close" /\ store' = store /\ call' = call
      /\ left' = IF r.op = "add" THEN r.batch ELSE << >>
      /\ replay' = IF r.op = "rebuild" THEN Documents(store) ELSE NoReplay
      /\ work' = CASE r.op = "add"     -> [store EXCEPT !.global = EnsureGlobalMaps(@)]
                   [] r.op = "rebuild" -> ClearedForRebuild
                   [] OTHER            -> store
  BY DEF Begin, Protocol, TypeOK
<1>2. store \in Store /\ r \in Requests
  <2>1. CallOK(pc[p], call[p], opened[HandleOf[p]]) /\ pc[p] = "locked"
    BY DEF Begin, Protocol, CallsOK
  <2> QED BY <2>1 DEF CallOK, Protocol, TypeOK
<1>3. ASSUME r.op = "add"
      PROVE  BatchProgress(p)'
  <2>1. left' = r.batch /\ work' = [store EXCEPT !.global = EnsureGlobalMaps(@)]
    BY <1>1, <1>3
  <2>2. \A id \in IDs : SameDocument(work', store', id)
    BY <2>1, <1>1, <1>2 DEF SameDocument, Store
  <2>3. r.batch \in Seq(Inputs)
    BY <1>2, <1>3, BatchesType DEF Requests
  <2>4. Len(r.batch) \in Nat /\ Len(call'[p].batch) - Len(left') = 0
    BY <1>1, <2>1, <2>3
  <2>5. call'[p].batch = r.batch /\ \A n \in 1 .. Len(left') : left'[n] = r.batch[0 + n]
    BY <1>1, <2>1
  <2> QED BY <2>2, <2>4, <2>5 DEF BatchProgress
<1>4. ASSUME r.op = "rebuild"
      PROVE  RebuildProgress(p)'
  <2>1. work' = ClearedForRebuild /\ replay' = Documents(store)
    BY <1>1, <1>4
  <2>2. Sound(work')
    BY <2>1, ClearedSound
  <2>3. /\ \A n \in LegacyKeys : work'.legacy[n] = Missing
        /\ \A id \in IDs : work'.doc[id] = Missing
    BY <2>1 DEF ClearedForRebuild, EmptyStore
  <2>4. Replayed' = {} /\ replay'.ids = {id \in IDs : store'.doc[id] # Missing}
    BY <2>1, <1>1 DEF Replayed, Documents
  <2> QED BY <2>2, <2>3, <2>4 DEF RebuildProgress
<1>5. ASSUME r.op = "delete"
      PROVE  DeleteProgress(p)'
  BY <1>1, <1>5 DEF DeleteProgress
<1> QED BY <1>1, <1>3, <1>4, <1>5 DEF Progress

(* Each document of Add and AddBatch goes from those left to those written.*)
LEMMA BatchStep ==
    ASSUME Protocol, NEW p \in Procs, Progress(p), AddNext(p)
    PROVE  Progress(p)'
<1> DEFINE batch   == call[p].batch
           written == Len(batch) - Len(left)
           d       == Head(left)
           a       == opened[HandleOf[p]]
<1>1. left # << >> /\ left' = Tail(left) /\ replay' = replay /\ Writes(p, d.id, d.fields)
  BY AddNextWrites
<1>2. UNCHANGED <<store, opened, pc, call>> /\ pc[p] = "body" /\ call[p] \in Requests
      /\ call[p].op # "close"
  BY <1>1, BodyState DEF Writes
<1>3. call[p].op = "add" /\ BatchProgress(p) /\ replay = NoReplay
  BY <1>1, <1>2 DEF Progress, Requests
<1>4. batch \in Seq(Inputs) /\ left \in Seq(ValidInputs)
  BY <1>2, <1>3, BatchesType DEF Requests, Protocol, PendingOK
<1>5. Len(batch) \in Nat /\ Len(left) \in Nat /\ written \in Nat
  BY <1>3, <1>4 DEF BatchProgress
<1>6. /\ Len(left) > 0 /\ Len(left') = Len(left) - 1
      /\ \A n \in 1 .. Len(left') : left'[n] = left[n + 1]
      /\ d = left[1]
  <2> HIDE DEF ValidInputs
  <2> QED BY <1>1, <1>4
<1>7. Len(batch) - Len(left') = written + 1
  BY <1>5, <1>6
<1>8. d = batch[written + 1]
  BY <1>3, <1>5, <1>6 DEF BatchProgress
<1>9. work \in Store /\ d.id \in IDs /\ work' = AddInTransaction(work, a, d.id, d.fields)
  BY <1>1, <1>2, BodyState DEF Writes
<1>10. HasIndexed(work', d.id, a, d.fields) /\ \A i \in IDs \ {d.id} : SameDocument(work', work, i)
  BY <1>9, WrittenFields
<1>11. \A n \in 1 .. Len(left') : left'[n] = batch[written + 1 + n]
  <2> TAKE n \in 1 .. Len(left')
  <2>1. n + 1 \in 1 .. Len(left) /\ left'[n] = left[n + 1]
    BY <1>5, <1>6
  <2>2. left[n + 1] = batch[written + (n + 1)]
    BY <2>1, <1>3 DEF BatchProgress
  <2>3. written + (n + 1) = written + 1 + n
    <3> HIDE DEF written
    <3> QED BY <1>5
  <2> QED BY <2>1, <2>2, <2>3
<1> HIDE DEF written, batch, d, a
<1>12. ASSUME NEW id \in IDs
       PROVE  \/ /\ \A n \in 1 .. written + 1 : batch[n].id # id
                 /\ SameDocument(work', store, id)
              \/ \E n \in 1 .. written + 1 :
                   /\ batch[n].id = id
                   /\ \A m \in n + 1 .. written + 1 : batch[m].id # id
                   /\ HasIndexed(work', id, a, batch[n].fields)
  <2>1. CASE id = d.id
    <3>1. written + 1 \in 1 .. written + 1 /\ \A m \in written + 1 + 1 .. written + 1 : batch[m].id # id
      BY <1>5
    <3> QED BY <3>1, <2>1, <1>8, <1>10
  <2>2. CASE id # d.id
    <3>1. \A n \in 1 .. written + 1 : n \in 1 .. written \/ batch[n].id # id
      BY <2>2, <1>5, <1>8
    <3>2. SameDocument(work', work, id)
      BY <2>2, <1>10
    <3>3. CASE (\A n \in 1 .. written : batch[n].id # id) /\ SameDocument(work, store, id)
      BY <3>1, <3>2, <3>3 DEF SameDocument
    <3>4. ASSUME NEW n \in 1 .. written, batch[n].id = id,
                 \A m \in n + 1 .. written : batch[m].id # id,
                 HasIndexed(work, id, a, batch[n].fields)
          PROVE  /\ n \in 1 .. written + 1 /\ \A m \in n + 1 .. written + 1 : batch[m].id # id
                 /\ HasIndexed(work', id, a, batch[n].fields)
      <4>1. HasIndexed(work', id, a, batch[n].fields)
        BY <3>2, <3>4 DEF HasIndexed, SameDocument
      <4>2. n \in 1 .. written + 1
        BY <1>5
      <4>3. \A m \in n + 1 .. written + 1 : m \in n + 1 .. written \/ m = written + 1
        BY <1>5
      <4> QED BY <4>1, <4>2, <4>3, <3>4, <2>2, <1>8
    <3> QED BY <3>3, <3>4, <1>3 DEF BatchProgress, written, batch, a
  <2> QED BY <2>1, <2>2
<1>13. BatchProgress(p)'
  <2>1. call'[p].batch = batch /\ opened'[HandleOf[p]] = a /\ store' = store
    BY <1>2 DEF batch, a
  <2>2. Len(call'[p].batch) - Len(left') = written + 1 /\ written + 1 \in Nat
    BY <2>1, <1>5, <1>7
  <2> QED BY <2>1, <2>2, <1>11, <1>12 DEF BatchProgress
<1> QED BY <1>2, <1>3, <1>13, <1>1 DEF Progress

(* The versions of the early schema come in increasing order, so the one   *)
(* that is written is the last so far.                                     *)
LEMMA ReplayLegacyStep ==
    ASSUME Protocol, NEW p \in Procs, Progress(p), ReplayLegacy(p)
    PROVE  Progress(p)'
<1> DEFINE a == opened[HandleOf[p]]
<1>1. PICK n \in replay.legacy :
        /\ \A m \in replay.legacy : n <= m
        /\ left' = left /\ replay' = [replay EXCEPT !.legacy = @ \ {n}]
        /\ store.legacy[n] \in LegacyDocument
        /\ Writes(p, store.legacy[n].id, store.legacy[n].fields)
  BY ReplayLegacyWrites
<1> DEFINE x == store.legacy[n].id
           d == store.legacy[n].fields
<1>2. UNCHANGED <<store, opened, pc, call>> /\ pc[p] = "body"
  BY <1>1 DEF Writes
<1>3. call[p].op = "rebuild" /\ RebuildProgress(p)
  <2>1. replay # NoReplay
    BY <1>1 DEF NoReplay
  <2> QED BY <2>1 DEF Progress
<1>4. /\ replay \in [legacy : SUBSET LegacyKeys, ids : SUBSET IDs] /\ replay'.ids = replay.ids
      /\ replay'.legacy = replay.legacy \ {n} /\ n \in Nat /\ LegacyKeys \subseteq Nat
      /\ store.legacy[n] # Missing
  BY <1>1, LegacyKeysNumbers DEF Protocol, TypeOK, PendingOK
<1>5. /\ x \in IDs /\ d \in Document /\ a \in Analyzers /\ ~AddFails(work, x)
      /\ work' = AddInTransaction(work, a, x, d) /\ work \in Store
  BY <1>1, <1>2, BodyState DEF Writes
<1>6. /\ HasIndexed(work', x, a, d) /\ work'.legacy = work.legacy
      /\ \A i \in IDs \ {x} : SameDocument(work', work, i)
  BY <1>5, WrittenFields
<1>7. Sound(work')
  BY <1>3, <1>5, AddSound DEF RebuildProgress
<1>8. Replayed' = Replayed \cup {n} /\ n \notin Replayed
  BY <1>1, <1>2, <1>4 DEF Replayed
<1>9. \A m \in Replayed : m < n /\ m \in Nat
  BY <1>1, <1>3, <1>4 DEF RebuildProgress, Replayed
<1>10. \A m \in Replayed', l \in replay'.legacy : m < l
  <2> TAKE m \in Replayed', l \in replay'.legacy
  <2>1. l \in replay.legacy /\ l # n /\ n <= l /\ l \in Nat
    BY <1>1, <1>4
  <2>2. CASE m = n
    BY <2>1, <2>2, <1>4
  <2>3. CASE m \in Replayed
    BY <2>1, <2>3, <1>3 DEF RebuildProgress
  <2> QED BY <2>2, <2>3, <1>8
<1>11. replay.ids = {id \in IDs : store.doc[id] # Missing}
  BY <1>1, <1>3 DEF RebuildProgress
<1> HIDE DEF x, d, a
<1>12. ASSUME NEW id \in IDs
       PROVE  \/ /\ store.doc[id] # Missing /\ id \notin replay.ids
                 /\ HasIndexed(work', id, a, store.doc[id])
              \/ /\ store.doc[id] = Missing \/ id \in replay.ids
                 /\ \A m \in Replayed' : store.legacy[m].id # id
                 /\ work'.doc[id] = Missing
              \/ /\ store.doc[id] = Missing \/ id \in replay.ids
                 /\ \E m \in Replayed' :
                      /\ store.legacy[m].id = id
                      /\ \A l \in Replayed' : store.legacy[l].id = id => l <= m
                      /\ HasIndexed(work', id, a, store.legacy[m].fields)
  <2>1. store.doc[id] = Missing \/ id \in replay.ids
    BY <1>11
  <2>2. CASE id = x
    <3>1. \A l \in Replayed' : l <= n
      BY <1>4, <1>8, <1>9
    <3> QED BY <3>1, <2>1, <2>2, <1>6, <1>8 DEF x, d
  <2>3. CASE id # x
    <3>1. SameDocument(work', work, id)
      BY <2>3, <1>6
    <3>2. CASE (\A m \in Replayed : store.legacy[m].id # id) /\ work.doc[id] = Missing
      BY <3>1, <3>2, <2>1, <2>3, <1>8 DEF SameDocument, x
    <3>3. ASSUME NEW m \in Replayed, store.legacy[m].id = id,
                 \A l \in Replayed : store.legacy[l].id = id => l <= m,
                 HasIndexed(work, id, a, store.legacy[m].fields)
          PROVE  /\ m \in Replayed' /\ \A l \in Replayed' : store.legacy[l].id = id => l <= m
                 /\ HasIndexed(work', id, a, store.legacy[m].fields)
      BY <3>1, <3>3, <2>3, <1>8 DEF SameDocument, HasIndexed, x
    <3> QED BY <3>2, <3>3, <2>1, <1>3 DEF RebuildProgress, a
  <2> QED BY <2>2, <2>3
<1>13. RebuildProgress(p)'
  <2>1. opened'[HandleOf[p]] = a /\ store' = store
    BY <1>2 DEF a
  <2>2. \A m \in LegacyKeys : work'.legacy[m] = Missing
    BY <1>3, <1>6 DEF RebuildProgress
  <2> QED BY <2>1, <2>2, <1>4, <1>7, <1>10, <1>11, <1>12 DEF RebuildProgress
<1> QED BY <1>1, <1>2, <1>3, <1>13 DEF Progress

(* A document under its ID replaces what the early schema had of it.       *)
LEMMA ReplayNextStep ==
    ASSUME Protocol, NEW p \in Procs, Progress(p), ReplayNext(p)
    PROVE  Progress(p)'
<1> DEFINE a == opened[HandleOf[p]]
<1>1. PICK x \in replay.ids :
        /\ replay.legacy = {}
        /\ left' = left /\ replay' = [replay EXCEPT !.ids = @ \ {x}]
        /\ Writes(p, x, store.doc[x])
  BY ReplayNextWrites
<1>2. UNCHANGED <<store, opened, pc, call>> /\ pc[p] = "body"
  BY <1>1 DEF Writes
<1>3. call[p].op = "rebuild" /\ RebuildProgress(p)
  <2>1. replay # NoReplay
    BY <1>1 DEF NoReplay
  <2> QED BY <2>1 DEF Progress
<1>4. /\ replay \in [legacy : SUBSET LegacyKeys, ids : SUBSET IDs] /\ replay'.ids = replay.ids \ {x}
      /\ replay'.legacy = {} /\ store.doc[x] # Missing
  BY <1>1 DEF Protocol, TypeOK, PendingOK
<1>5. /\ x \in IDs /\ store.doc[x] \in Document /\ a \in Analyzers /\ ~AddFails(work, x)
      /\ work' = AddInTransaction(work, a, x, store.doc[x]) /\ work \in Store
  BY <1>1, <1>2, BodyState DEF Writes
<1>6. /\ HasIndexed(work', x, a, store.doc[x]) /\ work'.legacy = work.legacy
      /\ \A i \in IDs \ {x} : SameDocument(work', work, i)
  BY <1>5, WrittenFields
<1>7. Sound(work')
  BY <1>3, <1>5, AddSound DEF RebuildProgress
<1>8. Replayed' = Replayed
  BY <1>1, <1>2, <1>4 DEF Replayed
<1> HIDE DEF a
<1>9. ASSUME NEW id \in IDs
      PROVE  \/ /\ store.doc[id] # Missing /\ id \notin replay'.ids
                /\ HasIndexed(work', id, a, store.doc[id])
             \/ /\ store.doc[id] = Missing \/ id \in replay'.ids
                /\ \A m \in Replayed : store.legacy[m].id # id
                /\ work'.doc[id] = Missing
             \/ /\ store.doc[id] = Missing \/ id \in replay'.ids
                /\ \E m \in Replayed :
                     /\ store.legacy[m].id = id
                     /\ \A l \in Replayed : store.legacy[l].id = id => l <= m
                     /\ HasIndexed(work', id, a, store.legacy[m].fields)
  <2>1. CASE id = x
    BY <2>1, <1>4, <1>6
  <2>2. CASE id # x
    <3>1. SameDocument(work', work, id) /\ (id \in replay'.ids <=> id \in replay.ids)
      BY <2>2, <1>4, <1>6
    <3>2. /\ work'.doc[id] = work.doc[id]
          /\ \A d : HasIndexed(work, id, a, d) => HasIndexed(work', id, a, d)
      BY <3>1 DEF SameDocument, HasIndexed
    <3> QED BY <3>1, <3>2, <1>3 DEF RebuildProgress, a
  <2> QED BY <2>1, <2>2
<1>10. RebuildProgress(p)'
  <2>1. opened'[HandleOf[p]] = a /\ store' = store
    BY <1>2 DEF a
  <2>2. \A m \in LegacyKeys : work'.legacy[m] = Missing
    BY <1>3, <1>6 DEF RebuildProgress
  <2> QED BY <2>1, <2>2, <1>4, <1>7, <1>8, <1>9 DEF RebuildProgress
<1> QED BY <1>1, <1>2, <1>3, <1>10 DEF Progress

(* A body ends with nothing left to write.                                 *)
LEMMA BodyDoneStep ==
    ASSUME Protocol, NEW p \in Procs, Progress(p), BodyDone(p)
    PROVE  Progress(p)'
<1>1. /\ UNCHANGED <<store, opened, call, work, left, replay>>
      /\ call[p].op \in {"add", "rebuild"} /\ left = << >> /\ replay = NoReplay
  BY DEF BodyDone, tx
<1>2. BatchProgress(p) => BatchProgress(p)'
  BY <1>1 DEF BatchProgress
<1>3. RebuildProgress(p) => RebuildProgress(p)'
  BY <1>1 DEF RebuildProgress, Replayed
<1> QED BY <1>1, <1>2, <1>3 DEF Progress

(* The body of Delete writes in one step what it has to.                   *)
LEMMA DeleteStep ==
    ASSUME Protocol, NEW p \in Procs, Progress(p), DeleteBody(p), owner' = p
    PROVE  Progress(p)'
<1>1. /\ pc[p] = "body" /\ call[p].op = "delete" /\ UNCHANGED <<store, opened>>
      /\ work.meta[call[p].id] # Missing
      /\ work' = DeleteInTransaction(work, call[p].id)
      /\ pc' = [pc EXCEPT ![p] = "commit"]
      /\ UNCHANGED <<call, left, replay>>
  BY NobodyDiffers DEF DeleteBody, EndTransaction
<1>2. work = store /\ left = << >> /\ replay = NoReplay
  BY <1>1 DEF Progress, DeleteProgress
<1>3. work \in Store /\ call[p].id \in IDs
  <2>1. work \in Store /\ call[p] \in Requests /\ ~Invalid(call[p])
    BY <1>1, BodyState
  <2> QED BY <2>1, <1>1 DEF Requests, Invalid
<1>4. pc'[p] = "commit"
  BY <1>1 DEF Protocol, TypeOK
<1>5. DeleteProgress(p)'
  BY <1>1, <1>2, <1>3, <1>4, DeletedFields DEF DeleteProgress
<1> QED BY <1>1, <1>2, <1>5 DEF Progress

(* Every step keeps what the private copy has of the call in progress.     *)
THEOREM ProgressKept ==
    ASSUME Protocol, InProgress, [Next]_vars, Protocol'
    PROVE  InProgress'
<1>1. \A p \in Procs : pc'[p] \in {"body", "commit"} <=> owner' = p
  BY DEF Protocol, LocksFollowCalls
<1>2. CASE owner' = Nobody
  BY <1>1, <1>2, NobodyDiffers DEF InProgress
<1>3. ASSUME UNCHANGED <<store, opened, work, left, replay, owner>>,
             \A p \in Procs : owner = p => pc'[p] = pc[p] /\ call'[p] = call[p]
      PROVE  InProgress'
  <2> SUFFICES ASSUME NEW p \in Procs, owner = p
               PROVE  Progress(p)'
    BY <1>1, <1>3 DEF InProgress
  <2>1. Progress(p) /\ pc'[p] = pc[p] /\ call'[p] = call[p]
    BY <1>3 DEF InProgress, Protocol, LocksFollowCalls
  <2>2. /\ BatchProgress(p) => BatchProgress(p)'
        /\ RebuildProgress(p) => RebuildProgress(p)'
        /\ DeleteProgress(p) => DeleteProgress(p)'
    BY <1>3, <2>1 DEF BatchProgress, RebuildProgress, Replayed, DeleteProgress
  <2> QED BY <1>3, <2>1, <2>2 DEF Progress
<1>4. ASSUME NEW p \in Procs, pc[p] \in {"body", "commit"}, owner' = p => Progress(p)'
      PROVE  owner' = p => InProgress'
  BY <1>1, <1>4 DEF InProgress
<1>5. ASSUME NEW p \in Procs, pc[p] = "body"
      PROVE  Progress(p)
  BY <1>5 DEF InProgress
<1>6. ASSUME NEW p \in Procs,
             AddNext(p) \/ ReplayLegacy(p) \/ ReplayNext(p) \/ BodyDone(p) \/ DeleteBody(p)
      PROVE  InProgress'
  <2>1. pc[p] = "body"
    BY <1>6 DEF AddNext, ReplayLegacy, ReplayNext, BodyDone, DeleteBody
  <2>2. owner = p /\ owner' \in {p, Nobody}
    BY <2>1, <1>6, BodyState
       DEF AddNext, ReplayLegacy, ReplayNext, BodyDone, DeleteBody, EndTransaction, tx
  <2>3. owner' = p => Progress(p)'
    BY <1>5, <1>6, <2>1, BatchStep, ReplayLegacyStep, ReplayNextStep, BodyDoneStep, DeleteStep
  <2> QED BY <1>2, <1>4, <2>1, <2>2, <2>3
<1>7. ASSUME NEW p \in Procs, Begin(p)
      PROVE  InProgress'
  <2>1. owner' = p /\ Progress(p)'
    BY <1>7, BeginProgress DEF Begin
  <2> QED BY <2>1, <1>1 DEF InProgress
<1>8. ASSUME NEW p \in Procs, Commit(p) \/ Abort(p)
      PROVE  InProgress'
  BY <1>2, <1>8 DEF Commit, Abort, EndTransaction
<1>9. ASSUME NEW p \in Procs, TransactionClosed(p) \/ CloseStore(p)
      PROVE  InProgress'
  BY <1>2, <1>9 DEF TransactionClosed, CloseStore, tx
<1>10. ASSUME NEW h \in Handles, NEW a \in Analyzers, Open(h, a)
       PROVE  InProgress'
  BY <1>2, <1>10 DEF Open, tx
<1>11. ASSUME NEW p \in Procs, NEW at, NEW r, pc[p] \in {"idle", "called"},
              UNCHANGED <<store, opened, tx>>,
              pc' = [pc EXCEPT ![p] = at], call' = [call EXCEPT ![p] = r] \/ call' = call
       PROVE  InProgress'
  <2>1. owner # p
    BY <1>11 DEF Protocol, LocksFollowCalls
  <2>2. \A q \in Procs : q # p => pc'[q] = pc[q] /\ call'[q] = call[q]
    BY <1>11 DEF Protocol, TypeOK
  <2> QED BY <2>1, <2>2, <1>3, <1>11 DEF tx
<1>12. ASSUME NEW p \in Procs, (\E r \in Requests : Call(p, r)) \/ AnswerEarly(p) \/ Lock(p)
       PROVE  InProgress'
  BY <1>11, <1>12 DEF Call, AnswerEarly, Lock, Return
<1>13. CASE Restart
  BY <1>2, <1>13 DEF Restart, EndTransaction
<1>14. CASE UNCHANGED vars
  BY <1>3, <1>14 DEF vars
<1> QED BY <1>6, <1>7, <1>8, <1>9, <1>10, <1>12, <1>13, <1>14 DEF Next, Step

-----------------------------------------------------------------------------
(* The write path implements IndexPromise.  A call takes effect at the     *)
(* commit or, if it has none, when it returns; all other steps stutter.    *)

(* New and this version's writes leave no document of the early schema.    *)
NoLegacy ==
    /\ \A n \in LegacyKeys : store.legacy[n] = Missing
    /\ work # Missing => \A n \in LegacyKeys : work.legacy[n] = Missing

PInv == IInv /\ InProgress /\ NoLegacy

(* IndexPromise extends StoredIndex: its copies of the operators are the   *)
(* same ones.                                                              *)
LEMMA PromiseMetaOf ==
    \A a, d : Promise!MetaOf(a, d) = MetaOf(a, d)
BY DEF Promise!MetaOf, MetaOf, Promise!Analyze, Analyze, Promise!PositionsOf, PositionsOf,
       Promise!Slots, Slots

(* Finite is the same in the promise, which has its own copy of FiniteSets.*)
LEMMA PromiseFinite ==
    \A S : Promise!IsFiniteSet(S) = IsFiniteSet(S)
BY DEF Promise!IsFiniteSet, IsFiniteSet

(* So is the number of elements.                                           *)
LEMMA PromiseCardinality ==
    \A S : Promise!Cardinality(S) = Cardinality(S)
BY PromiseFinite DEF Promise!Cardinality, Cardinality

(* So are the entries of the dictionary and the slots.                     *)
LEMMA PromiseEntry ==
    /\ \A q : Promise!Pairs(q) = Pairs(q)
    /\ \A q : Promise!Entry(q) = Entry(q)
    /\ Promise!Slots = Slots
<1>1. \A q : Promise!Pairs(q) = Pairs(q)
  BY DEF Promise!Pairs, Pairs
<1>2. \A q : Promise!Holders(q) = Holders(q)
  BY DEF Promise!Holders, Holders
<1>3. \A q : Promise!Entry(q) = Entry(q)
  BY <1>1, <1>2, PromiseCardinality DEF Promise!Entry, Entry
<1> QED BY <1>1, <1>3 DEF Promise!Slots, Slots

(* Of exact contents readers see what their documents yield. *)
LEMMA ViewOfSound ==
    ASSUME NEW s, Sound(s)
    PROVE  Promise!View(Held(s)) = Shown(s)
<1> DEFINE l == Held(s)
<1>1. s \in Store /\ Initialized(s) = s
  BY SoundIsStore
<1>2. DocumentsPaired(s) /\ PostingsExact(s) /\ DictionaryExact(s) /\ StatsExact(s)
  BY DEF Sound, Exact
<1>3. s.global.total \in [Fields -> Nat]
  BY DEF Sound
<1>4. ASSUME NEW id \in IDs
      PROVE  /\ l[id] = Missing <=> s.meta[id] = Missing
             /\ l[id] # Missing => l[id].meta = s.meta[id]
  <2>1. CASE s.doc[id] = Missing
    BY <2>1, <1>2 DEF Held, DocumentsPaired
  <2>2. CASE s.doc[id] # Missing
    <3>1. s.doc[id] \in Document /\ s.meta[id] \in Meta /\ s.meta[id] # Missing
      BY <2>2, <1>1, <1>2 DEF Store, DocumentsPaired
    <3>2. l[id] = [doc |-> s.doc[id], meta |-> s.meta[id]]
      BY <2>2 DEF Held
    <3>3. l[id] \in [doc : Document, meta : Meta]
      BY <3>1, <3>2
    <3> QED BY <3>1, <3>2, <3>3, MarkersDiffer
  <2> QED BY <2>1, <2>2
<1> HIDE DEF l
<1> DEFINE P == [k \in Slots |-> [id \in IDs |-> IF l[id] = Missing THEN {} ELSE l[id].meta.vectors[k]]]
           L(f) == [id \in IDs |-> IF l[id] = Missing THEN {} ELSE 1 .. l[id].meta.lengths[f]]
           T == [k \in Slots |-> Entry(P[k])]
           C == Cardinality({id \in IDs : l[id] # Missing})
           G == [f \in Fields |-> Cardinality(Pairs(L(f)))]
<1>5. Promise!View(l) = [posting |-> P, term |-> T, count |-> C, total |-> G]
  BY PromiseCardinality, PromiseEntry DEF Promise!View
<1>6. P = s.posting
  <2>1. \A k \in Slots : s.posting[k] \in [IDs -> SUBSET Nat]
    BY <1>1 DEF Store
  <2>2. s.posting \in [Slots -> [IDs -> SUBSET Nat]]
    BY <1>1 DEF Store
  <2>3. ASSUME NEW k \in Slots
        PROVE  s.posting[k] = [id \in IDs |-> IF l[id] = Missing THEN {} ELSE l[id].meta.vectors[k]]
    <3>1. s.posting[k] \in [IDs -> SUBSET Nat]
      BY <2>1
    <3>2. \A id \in IDs : s.posting[k][id] = IF s.meta[id] = Missing THEN {} ELSE s.meta[id].vectors[k]
      BY <1>2 DEF PostingsExact
    <3>3. \A id \in IDs : s.posting[k][id] = IF l[id] = Missing THEN {} ELSE l[id].meta.vectors[k]
      BY <3>2, <1>4
    <3> QED BY <3>1, <3>3
  <2> QED BY <2>2, <2>3
<1>7. T = s.term
  <2>1. s.term \in [Slots -> TermInfo \cup {Missing}]
    BY <1>1 DEF Store
  <2> HIDE DEF P
  <2> QED BY <2>1, <1>2, <1>6 DEF DictionaryExact
<1>8. C = s.global.count
  <2>1. {id \in IDs : l[id] # Missing} = Live(s)
    BY <1>4 DEF Live
  <2> QED BY <2>1, <1>2 DEF StatsExact
<1>9. G = s.global.total
  <2>1. ASSUME NEW f \in Fields
        PROVE  L(f) = Ordinals(s, f)
    BY <1>4 DEF Ordinals
  <2> HIDE DEF L
  <2> QED BY <2>1, <1>2, <1>3 DEF StatsExact
<1> HIDE DEF P, T, C, G
<1> QED BY <1>1, <1>5, <1>6, <1>7, <1>8, <1>9 DEF Shown, l

(* What exact contents show is computed from the documents they hold.      *)
LEMMA ViewOfStore ==
    ASSUME NEW r \in Store, Sound(Initialized(r))
    PROVE  Shown(r) = Promise!View(Held(r))
<1> DEFINE s == Initialized(r)
<1>1. s.doc = r.doc /\ s.meta = r.meta /\ s.posting = r.posting /\ s.term = r.term
  BY DEF Initialized, Store
<1>2. Sound(s) /\ Initialized(s) = s
  BY SoundIsStore
<1>3. Held(s) = Held(r)
  BY <1>1 DEF Held
<1>4. Shown(s) = Shown(r)
  BY <1>1, <1>2 DEF Shown
<1> QED BY <1>2, <1>3, <1>4, ViewOfSound

(* So readers see at every moment what the documents held yield. *)
LEMMA ShownIsView == PInv => Shown(store) = Promise!View(Held(store))
BY ViewOfStore DEF PInv, IInv, Protocol, TypeOK, StoreOK

(* The same after a step.                                                  *)
LEMMA ShownIsViewNext == PInv' => Shown(store') = Promise!View(Held(store'))
BY ViewOfStore DEF PInv, IInv, Protocol, TypeOK, StoreOK

(* A document with its docmeta is held as both.                            *)
LEMMA HeldTyped ==
    ASSUME NEW s, NEW id \in IDs, s.doc[id] \in Document, s.meta[id] \in Meta
    PROVE  /\ Held(s)[id] = [doc |-> s.doc[id], meta |-> s.meta[id]]
           /\ Held(s)[id] # Missing
<1>1. Held(s)[id] = [doc |-> s.doc[id], meta |-> s.meta[id]]
  BY MarkersDiffer DEF Held
<1>2. Held(s)[id] \in [doc : Document, meta : Meta]
  BY <1>1
<1> QED BY <1>1, <1>2, MarkersDiffer

(* A document that is left alone is held as before.                        *)
LEMMA HeldSame ==
    ASSUME NEW s, NEW t, NEW id \in IDs, SameDocument(s, t, id)
    PROVE  Held(s)[id] = Held(t)[id]
BY DEF SameDocument, Held

(* A document that was indexed is held as the promise has it.              *)
LEMMA HeldIndexed ==
    ASSUME NEW s, NEW id \in IDs, NEW a, NEW d \in Document, HasIndexed(s, id, a, d)
    PROVE  Held(s)[id] = Promise!Indexed(a, d)
BY PromiseMetaOf, MarkersDiffer DEF HasIndexed, Held, Promise!Indexed

(* What each call commits is its whole effect. *)
LEMMA BatchEffect ==
    ASSUME PInv, NEW p \in Procs, pc[p] = "commit", call[p].op = "add"
    PROVE  Held(work) = Promise!AfterBatch(opened[HandleOf[p]], call[p].batch)
<1> DEFINE batch == call[p].batch
           a     == opened[HandleOf[p]]
<1>1. BatchProgress(p) /\ left = << >>
  BY DEF PInv, InProgress, Progress
<1>2. call[p] \in Requests
  BY DEF PInv, IInv, Protocol, CallsOK, CallOK
<1>3. batch \in Seq(Inputs)
  BY <1>2, BatchesType DEF Requests
<1>4. Len(batch) \in Nat /\ Len(left) = 0 /\ DOMAIN batch = 1 .. Len(batch)
  BY <1>1, <1>3
<1>5. ASSUME NEW n \in DOMAIN batch
      PROVE  batch[n].fields \in Document
  <2>1. batch[n] \in Inputs
    BY <1>3
  <2> QED BY <2>1 DEF Inputs
<1> HIDE DEF batch, a
<1>6. ASSUME NEW id \in IDs
      PROVE  \/ /\ \A n \in DOMAIN batch : batch[n].id # id
                /\ SameDocument(work, store, id)
             \/ \E n \in DOMAIN batch :
                  /\ batch[n].id = id
                  /\ \A m \in n + 1 .. Len(batch) : batch[m].id # id
                  /\ HasIndexed(work, id, a, batch[n].fields)
  <2>1. Len(batch) - Len(left) = Len(batch)
    BY <1>4
  <2> QED BY <2>1, <1>1, <1>4 DEF BatchProgress, batch, a
<1>7. ASSUME NEW id \in IDs
      PROVE  Held(work)[id] = Promise!AfterBatch(a, batch)[id]
  <2>1. CASE (\A n \in DOMAIN batch : batch[n].id # id) /\ SameDocument(work, store, id)
    BY <2>1, HeldSame DEF Promise!AfterBatch
  <2>2. ASSUME NEW n \in DOMAIN batch, batch[n].id = id,
               \A m \in n + 1 .. Len(batch) : batch[m].id # id,
               HasIndexed(work, id, a, batch[n].fields)
        PROVE  Held(work)[id] = Promise!AfterBatch(a, batch)[id]
    <3>1. \A m \in DOMAIN batch : batch[m].id = id => m <= n
      BY <2>2, <1>4
    <3>2. \A l \in DOMAIN batch : (\A m \in DOMAIN batch : batch[m].id = id => m <= l)
                                    /\ batch[l].id = id => l = n
      BY <2>2, <3>1, <1>4
    <3>3. Promise!LastOf(batch, id) = n
      BY <2>2, <3>1, <3>2 DEF Promise!LastOf
    <3>4. Promise!AfterBatch(a, batch)[id] = Promise!Indexed(a, batch[n].fields)
      BY <2>2, <3>3 DEF Promise!AfterBatch
    <3> QED BY <2>2, <3>4, <1>5, HeldIndexed
  <2> QED BY <2>1, <2>2, <1>6
<1> QED BY <1>7 DEF Held, Promise!AfterBatch, batch, a

(* The contents a Rebuild commits hold what the promise demands of it.     *)
LEMMA RebuildEffect ==
    ASSUME PInv, NEW p \in Procs, pc[p] = "commit", call[p].op = "rebuild"
    PROVE  Held(work) = Promise!AfterRebuild(opened[HandleOf[p]])
<1> DEFINE a == opened[HandleOf[p]]
<1>1. RebuildProgress(p) /\ replay = NoReplay
  BY DEF PInv, InProgress, Progress
<1>2. Replayed = {} /\ replay.ids = {}
  BY <1>1 DEF Replayed, NoReplay, PInv, NoLegacy
<1>3. store \in Store /\ DocumentsPaired(store)
  BY CommittedExact DEF PInv, IInv, Protocol, TypeOK
<1> HIDE DEF a
<1>4. ASSUME NEW id \in IDs
      PROVE  Held(work)[id] = Promise!AfterRebuild(a)[id]
  <2>1. CASE store.doc[id] = Missing
    <3>1. work.doc[id] = Missing
      BY <1>1, <1>2, <2>1 DEF RebuildProgress
    <3>2. Held(store)[id] = Missing /\ Held(work)[id] = Missing
      BY <2>1, <3>1 DEF Held
    <3> QED BY <3>2 DEF Promise!AfterRebuild
  <2>2. CASE store.doc[id] # Missing
    <3>1. HasIndexed(work, id, a, store.doc[id])
      BY <1>1, <1>2, <2>2 DEF RebuildProgress, a
    <3>2. store.doc[id] \in Document /\ store.meta[id] \in Meta
      BY <2>2, <1>3 DEF Store, DocumentsPaired
    <3>3. /\ Held(store)[id] = [doc |-> store.doc[id], meta |-> store.meta[id]]
          /\ Held(store)[id] # Missing
      BY <3>2, HeldTyped
    <3>4. Held(store)[id].doc = store.doc[id]
      BY <3>3
    <3> QED BY <3>1, <3>2, <3>3, <3>4, HeldIndexed DEF Promise!AfterRebuild
  <2> QED BY <2>1, <2>2
<1> QED BY <1>4 DEF Held, Promise!AfterRebuild, a

(* So do the contents a Delete commits: without the document.              *)
LEMMA DeleteEffect ==
    ASSUME PInv, NEW p \in Procs, pc[p] = "commit", call[p].op = "delete"
    PROVE  /\ call[p].id \in IDs
           /\ Held(store)[call[p].id] # Missing
           /\ Held(work) = [Held(store) EXCEPT ![call[p].id] = Missing]
<1> DEFINE id == call[p].id
<1>1. DeleteProgress(p)
  BY DEF PInv, InProgress, Progress
<1>2. /\ store.meta[id] # Missing /\ work.doc[id] = Missing
      /\ \A i \in IDs \ {id} : SameDocument(work, store, i)
  BY <1>1 DEF DeleteProgress
<1>3. id \in IDs
  <2>1. call[p] \in Requests /\ ~Invalid(call[p])
    BY DEF PInv, IInv, Protocol, CallsOK, CallOK
  <2> QED BY <2>1 DEF Requests, Invalid
<1>4. store \in Store /\ DocumentsPaired(store)
  BY CommittedExact DEF PInv, IInv, Protocol, TypeOK
<1> HIDE DEF id
<1>5. Held(store)[id] # Missing
  <2>1. store.doc[id] \in Document /\ store.meta[id] \in Meta
    BY <1>2, <1>3, <1>4 DEF Store, DocumentsPaired
  <2> QED BY <2>1, <1>3, HeldTyped
<1>6. \A i \in IDs : Held(work)[i] = IF i = id THEN Missing ELSE Held(store)[i]
  <2>1. Held(work)[id] = Missing
    BY <1>2, <1>3 DEF Held
  <2> QED BY <2>1, <1>2, HeldSame
<1>7. Held(work) = [Held(store) EXCEPT ![id] = Missing]
  BY <1>6 DEF Held
<1> QED BY <1>3, <1>5, <1>7 DEF id

(* The documents of the early schema are never written. *)
LEMMA NoLegacyKept ==
    ASSUME IInv, NoLegacy, [Next]_vars
    PROVE  NoLegacy'
<1>1. store \in Store
  BY DEF IInv, Protocol, TypeOK
<1>2. CASE UNCHANGED <<store, work>>
  BY <1>2 DEF NoLegacy
<1>3. CASE UNCHANGED store /\ work' = Missing
  BY <1>3 DEF NoLegacy
<1>4. ASSUME NEW p \in Procs, Begin(p)
      PROVE  NoLegacy'
  <2>1. ClearedForRebuild.legacy = [n \in LegacyKeys |-> Missing]
    BY DEF ClearedForRebuild, EmptyStore
  <2>2. [store EXCEPT !.global = EnsureGlobalMaps(@)].legacy = store.legacy
    BY <1>1 DEF Store
  <2>3. store' = store /\ \/ work' = store \/ work' = ClearedForRebuild
                          \/ work' = [store EXCEPT !.global = EnsureGlobalMaps(@)]
    BY <1>4 DEF Begin
  <2> QED BY <2>1, <2>2, <2>3 DEF NoLegacy
<1>5. ASSUME NEW p \in Procs, NEW id, NEW d, Writes(p, id, d)
      PROVE  NoLegacy'
  <2>1. work \in Store /\ work # Missing /\ pc[p] = "body" /\ store' = store
    BY <1>5, BodyState DEF Writes, IInv
  <2>2. work'.legacy = work.legacy
    BY <1>5, <2>1, WrittenFields DEF Writes
  <2> QED BY <2>1, <2>2 DEF NoLegacy
<1>6. ASSUME NEW p \in Procs, AddNext(p) \/ ReplayLegacy(p) \/ ReplayNext(p)
      PROVE  NoLegacy'
  BY <1>5, <1>6, AddNextWrites, ReplayLegacyWrites, ReplayNextWrites DEF IInv
<1>7. ASSUME NEW p \in Procs, DeleteBody(p)
      PROVE  NoLegacy'
  <2>1. pc[p] = "body" /\ call[p].op = "delete" /\ store' = store
    BY <1>7 DEF DeleteBody
  <2>2. work \in Store /\ work # Missing /\ call[p].id \in IDs
    <3>1. work \in Store /\ work # Missing /\ call[p] \in Requests /\ ~Invalid(call[p])
      BY <2>1, BodyState DEF IInv
    <3> QED BY <3>1, <2>1 DEF Requests, Invalid
  <2>3. CASE work' = DeleteInTransaction(work, call[p].id)
    BY <2>1, <2>2, <2>3, DeletedFields DEF NoLegacy
  <2> QED BY <1>3, <1>7, <2>1, <2>3 DEF DeleteBody, EndTransaction
<1>8. ASSUME NEW p \in Procs, Commit(p)
      PROVE  NoLegacy'
  <2>1. work # Missing
    BY <1>8, BodyState DEF Commit, IInv
  <2> QED BY <1>8, <2>1 DEF Commit, EndTransaction, NoLegacy
<1>9. ASSUME NEW h \in Handles, NEW a \in Analyzers, Open(h, a)
      PROVE  NoLegacy'
  <2>1. store'.legacy = store.legacy /\ work' = work
    BY <1>1, <1>9 DEF Open, tx, Initialized, Store
  <2> QED BY <2>1 DEF NoLegacy
<1>10. CASE Restart
  <2>1. EmptyStore.legacy = [n \in LegacyKeys |-> Missing]
    BY DEF EmptyStore
  <2> QED BY <1>10, <2>1 DEF Restart, EndTransaction, NoLegacy
<1>11. ASSUME NEW p \in Procs, \/ \E r \in Requests : Call(p, r)
                               \/ AnswerEarly(p) \/ Lock(p) \/ TransactionClosed(p) \/ CloseStore(p)
                               \/ BodyDone(p)
       PROVE  UNCHANGED <<store, work>>
  BY <1>11 DEF Call, AnswerEarly, Lock, TransactionClosed, CloseStore, BodyDone, tx
<1>12. ASSUME NEW p \in Procs, Abort(p)
       PROVE  UNCHANGED store /\ work' = Missing
  BY <1>12 DEF Abort, EndTransaction
<1>13. CASE UNCHANGED vars
  BY <1>2, <1>13 DEF vars
<1> QED BY <1>2, <1>3, <1>4, <1>6, <1>7, <1>8, <1>9, <1>10, <1>11, <1>12, <1>13 DEF Next, Step

(* One lemma for each way a step changes what callers see. *)

(* Nothing callers see changes. *)
LEMMA Stutters ==
    ASSUME UNCHANGED <<store, closed, opened, call, answer>>
    PROVE  UNCHANGED Promise!promiseVars
BY DEF Promise!promiseVars, Held, Shown

(* New is the step of the promise that opens a handle.                     *)
LEMMA OpenStep ==
    ASSUME PInv, PInv', NEW h \in Handles, NEW a \in Analyzers, Open(h, a)
    PROVE  Promise!PromiseOpen(h, a)
<1>1. store \in Store
  BY DEF PInv, IInv, Protocol, TypeOK
<1>2. Held(store') = Held(store)
  <2>1. store'.doc = store.doc /\ store'.meta = store.meta
    BY <1>1 DEF Open, Initialized, Store
  <2> QED BY <2>1 DEF Held
<1>3. Shown(store') = Shown(store)
  <2>1. /\ store'.posting = store.posting /\ store'.term = store.term
        /\ Initialized(store') = Initialized(store)
    BY <1>1, InitializedStore DEF Open, Initialized, Store
  <2> QED BY <2>1 DEF Shown
<1> QED BY <1>2, <1>3 DEF Open, Promise!PromiseOpen

(* A call begins as the promise has it.                                    *)
LEMMA CallStep ==
    ASSUME PInv, NEW p \in Procs, NEW r \in Requests, Call(p, r)
    PROVE  Promise!PromiseCall(p, r)
<1>1. call[p] = NoCall
  BY DEF PInv, IInv, Protocol, CallsOK, CallOK, Call
<1> QED BY <1>1 DEF Call, Promise!PromiseCall, Held, Shown

(* A goroutine inside a call has one. *)
LEMMA Calling ==
    ASSUME PInv, NEW p \in Procs, pc[p] # "idle"
    PROVE  call[p] # NoCall /\ call[p] \in Requests
<1>1. call[p] \in Requests
  BY DEF PInv, IInv, Protocol, CallsOK, CallOK
<1> QED BY <1>1 DEF Requests, NoCall

(* A call that has no effect on the contents answers with why. *)
LEMMA RefuseStep ==
    ASSUME PInv, NEW p \in Procs, NEW a, pc[p] # "idle", Return(p, a),
           UNCHANGED <<store, closed, opened>>,
           \/ a = "failed" /\ ~closed /\ call[p].op # "close"
           \/ a = "closed" /\ closed
           \/ a = "missing" /\ call[p].op = "delete" /\ Held(store)[call[p].id] = Missing
           \/ a = "invalid" /\ Invalid(call[p])
    PROVE  Promise!Refuse(p)
<1>1. Promise!Finish(p, a)
  BY Calling DEF Return, Promise!Finish
<1>2. UNCHANGED <<Held(store), Shown(store)>>
  BY DEF Held, Shown
<1> QED BY <1>1, <1>2 DEF Promise!Refuse, Invalid

(* A call that does not reach its transaction succeeds with nothing to do, *)
(* or is refused.                                                          *)
LEMMA ReturnEarlyStep ==
    ASSUME PInv, PInv', NEW p \in Procs, AnswerEarly(p)
    PROVE  Promise!Succeed(p) \/ Promise!Refuse(p)
<1>1. pc[p] # "idle" /\ UNCHANGED <<store, closed, opened>>
  BY DEF AnswerEarly
<1>2. CASE call[p].op = "add" /\ call[p].batch = << >> /\ Return(p, "ok")
  <2>1. Promise!Finish(p, "ok")
    BY <1>1, <1>2, Calling DEF Return, Promise!Finish
  <2>2. UNCHANGED Held(store) /\ UNCHANGED Shown(store)
    BY <1>1 DEF Held, Shown
  <2>3. Shown(store') = Promise!View(Held(store'))
    BY ShownIsViewNext
  <2> QED BY <2>1, <2>2, <2>3, <1>1, <1>2 DEF Promise!Succeed
<1>3. CASE Invalid(call[p]) /\ Return(p, "invalid")
  BY <1>1, <1>3, RefuseStep
<1> QED BY <1>2, <1>3 DEF AnswerEarly


(* A commit is the step at which a call succeeds.                          *)
LEMMA CommitStep ==
    ASSUME PInv, PInv', NEW p \in Procs, Commit(p)
    PROVE  Promise!Succeed(p)
<1> DEFINE a == opened[HandleOf[p]]
           r == call[p]
<1>1. /\ pc[p] = "commit" /\ store' = work /\ UNCHANGED <<closed, opened>> /\ Return(p, "ok")
  BY DEF Commit
<1>2. ~closed /\ r \in Requests /\ r.op # "close" /\ ~EmptyBatch(r)
  BY <1>1, BodyState DEF PInv, IInv
<1>3. Promise!Finish(p, "ok")
  BY <1>1, Calling DEF Return, Promise!Finish
<1>4. Shown(store') = Promise!View(Held(store'))
  BY ShownIsViewNext
<1>5. CASE r.op = "add"
  <2>1. Held(store') = Promise!AfterBatch(a, r.batch) /\ r.batch # << >>
    BY <1>1, <1>2, <1>5, BatchEffect DEF EmptyBatch
  <2> QED BY <2>1, <1>1, <1>2, <1>3, <1>4, <1>5 DEF Promise!Succeed
<1>6. CASE r.op = "delete"
  <2>1. /\ r.id \in IDs /\ Held(store)[r.id] # Missing
        /\ Held(store') = [Held(store) EXCEPT ![r.id] = Missing]
    BY <1>1, <1>6, DeleteEffect
  <2> QED BY <2>1, <1>1, <1>2, <1>3, <1>4, <1>6 DEF Promise!Succeed
<1>7. CASE r.op = "rebuild"
  <2>1. Held(store') = Promise!AfterRebuild(a)
    BY <1>1, <1>7, RebuildEffect
  <2> QED BY <2>1, <1>1, <1>2, <1>3, <1>4, <1>7 DEF Promise!Succeed
<1> QED BY <1>2, <1>5, <1>6, <1>7 DEF Requests

(* Closing the store is the step at which Close succeeds.                  *)
LEMMA CloseStep ==
    ASSUME PInv, PInv', NEW p \in Procs, CloseStore(p)
    PROVE  Promise!Succeed(p)
<1>1. /\ pc[p] = "locked" /\ call[p].op = "close" /\ closed' = TRUE
      /\ UNCHANGED <<store, opened>> /\ Return(p, "ok")
  BY DEF CloseStore
<1>2. Promise!Finish(p, "ok")
  BY <1>1, Calling DEF Return, Promise!Finish
<1>3. UNCHANGED Held(store)
  BY <1>1 DEF Held
<1>4. Shown(store') = Promise!View(Held(store'))
  BY ShownIsViewNext
<1> QED BY <1>1, <1>2, <1>3, <1>4 DEF Promise!Succeed

(* A missing document is what Delete answers with; the nil map of an early *)
(* version, which would make it panic, does not occur in exact contents.   *)
LEMMA DeleteBodyStep ==
    ASSUME PInv, NEW p \in Procs, DeleteBody(p)
    PROVE  Promise!Refuse(p) \/ UNCHANGED Promise!promiseVars
<1>1. pc[p] = "body" /\ call[p].op = "delete" /\ UNCHANGED <<store, closed, opened>>
  BY DEF DeleteBody
<1>2. /\ work = store /\ Sound(work) /\ call[p].id \in IDs
  <2>1. DeleteProgress(p)
    BY <1>1 DEF PInv, InProgress, Progress
  <2>2. work # Missing /\ call[p] \in Requests /\ ~Invalid(call[p])
    BY <1>1, BodyState DEF PInv, IInv
  <2> QED BY <1>1, <2>1, <2>2 DEF DeleteProgress, PInv, IInv, WorkOK, Requests, Invalid
<1>3. CASE work.meta[call[p].id] = Missing /\ Return(p, "missing")
  <2>1. store.doc[call[p].id] = Missing
    BY <1>2, <1>3 DEF Sound, Exact, DocumentsPaired
  <2>2. Held(store)[call[p].id] = Missing
    BY <2>1, <1>2 DEF Held
  <2> QED BY <2>2, <1>1, <1>3, RefuseStep
<1>4. work.global.total # NilMap
  BY <1>2, SoundIsStore
<1>5. CASE UNCHANGED <<call, answer>>
  BY <1>1, <1>5, Stutters
<1> QED BY <1>3, <1>4, <1>5 DEF DeleteBody

(* The end of a process is the restart of the promise.                     *)
LEMMA RestartStep ==
    ASSUME PInv', Restart
    PROVE  Promise!PromiseRestart
<1>1. Shown(store') = Promise!View(Held(store'))
  BY ShownIsViewNext
<1>2. Held(store') = IF Durable THEN Held(store) ELSE Promise!NothingLive
  <2>1. CASE Durable
    BY <2>1 DEF Restart, Held
  <2>2. CASE ~Durable
    <3>1. store' = EmptyStore /\ \A id \in IDs : EmptyStore.doc[id] = Missing
      BY <2>2 DEF Restart, EmptyStore
    <3> QED BY <2>2, <3>1 DEF Held, Promise!NothingLive
  <2> QED BY <2>1, <2>2
<1> QED BY <1>1, <1>2 DEF Restart, Promise!PromiseRestart

(* Every step of the write path is one of the promise or stutters.         *)
THEOREM StepRefines ==
    ASSUME PInv, PInv', [Next]_vars
    PROVE  [Promise!PromiseNext]_(Promise!promiseVars)
<1>1. ASSUME NEW p \in Procs, Promise!Succeed(p) \/ Promise!Refuse(p)
      PROVE  Promise!PromiseNext
  BY <1>1 DEF Promise!PromiseNext
<1>2. ASSUME NEW h \in Handles, NEW a \in Analyzers, Open(h, a)
      PROVE  Promise!PromiseNext
  BY <1>2, OpenStep DEF Promise!PromiseNext
<1>3. ASSUME NEW p \in Procs, NEW r \in Requests, Call(p, r)
      PROVE  Promise!PromiseNext
  BY <1>3, CallStep DEF Promise!PromiseNext
<1>4. ASSUME NEW p \in Procs, AnswerEarly(p) \/ Commit(p) \/ CloseStore(p)
      PROVE  Promise!PromiseNext
  BY <1>1, <1>4, ReturnEarlyStep, CommitStep, CloseStep
<1>5. ASSUME NEW p \in Procs, TransactionClosed(p) \/ Abort(p)
      PROVE  Promise!PromiseNext
  <2>1. CASE TransactionClosed(p)
    <3>1. pc[p] # "idle" /\ closed /\ Return(p, "closed") /\ UNCHANGED <<store, closed, opened>>
      BY <2>1 DEF TransactionClosed
    <3> QED BY <3>1, <1>1, RefuseStep
  <2>2. CASE Abort(p)
    <3>1. /\ pc[p] \in {"body", "commit"} /\ Return(p, "failed")
          /\ UNCHANGED <<store, closed, opened>>
      BY <2>2 DEF Abort
    <3>2. ~closed /\ call[p].op # "close"
      BY <3>1, BodyState DEF PInv, IInv
    <3> QED BY <3>1, <3>2, <1>1, RefuseStep
  <2> QED BY <1>5, <2>1, <2>2
<1>6. ASSUME NEW p \in Procs, Lock(p) \/ Begin(p) \/ AddNext(p) \/ ReplayLegacy(p)
                              \/ ReplayNext(p) \/ BodyDone(p)
      PROVE  UNCHANGED Promise!promiseVars
  <2>1. UNCHANGED <<store, closed, opened, call, answer>>
    BY <1>6 DEF Lock, Begin, AddNext, ReplayLegacy, ReplayNext, BodyDone
  <2> QED BY <2>1, Stutters
<1>7. ASSUME NEW p \in Procs, DeleteBody(p)
      PROVE  Promise!PromiseNext \/ UNCHANGED Promise!promiseVars
  BY <1>1, <1>7, DeleteBodyStep
<1>8. CASE Restart
  BY <1>8, RestartStep DEF Promise!PromiseNext
<1>9. CASE UNCHANGED vars
  BY <1>9, Stutters DEF vars
<1> QED BY <1>2, <1>3, <1>4, <1>5, <1>6, <1>7, <1>8, <1>9 DEF Next, Step

(* An empty store is where the promise begins.                             *)
LEMMA PromiseBegins == Init => Promise!PromiseInit /\ PInv
<1> SUFFICES ASSUME Init PROVE Promise!PromiseInit /\ PInv
  OBVIOUS
<1>1. PInv
  <2>1. IInv
    BY InitInv
  <2>2. InProgress
    BY DEF Init, InProgress
  <2>3. NoLegacy
    BY DEF Init, NoLegacy, EmptyStore
  <2> QED BY <2>1, <2>2, <2>3 DEF PInv
<1>2. Held(store) = Promise!NothingLive
  BY DEF Init, EmptyStore, Held, Promise!NothingLive
<1>3. Shown(store) = Promise!View(Held(store))
  BY <1>1, ShownIsView
<1> QED BY <1>1, <1>2, <1>3 DEF Init, Promise!PromiseInit

(* Every step of the writers (Index.Add, AddBatch, Delete, Rebuild, Close, *)
(* New, and the end of the process) keeps the stored contents exact and    *)
(* each body at its place.                                                 *)
THEOREM PInvKept == PInv /\ [Next]_vars => PInv'
<1> SUFFICES ASSUME PInv, [Next]_vars PROVE PInv'
  OBVIOUS
<1>1. IInv'
  BY NextInv DEF PInv
<1>2. InProgress'
  BY <1>1, ProgressKept DEF PInv, IInv
<1> QED BY <1>1, <1>2, NoLegacyKept DEF PInv

(* Every call takes effect in one step or not at all, an error means no    *)
(* effect, and readers see the derived data of the documents there are:    *)
(* the write path implements IndexPromise.                                 *)
THEOREM PromiseKept == Spec => ImplementsPromise
<1>1. Init => Promise!PromiseInit /\ PInv
  BY PromiseBegins
<1>2. PInv /\ PInv' /\ [Next]_vars => [Promise!PromiseNext]_(Promise!promiseVars)
  BY StepRefines
<1> QED BY <1>1, <1>2, PInvKept, PTL DEF Spec, ImplementsPromise, Promise!PromiseSpec

-----------------------------------------------------------------------------
(* Rebuild makes an index exact whatever its contents were: documents      *)
(* without docmeta, docmetas without document, any postings, dictionary and*)
(* statistics, a nil TotalFieldLength and documents of the early schema.   *)
(* All that is asked of them is that they can be decoded.                  *)
InitOnAny ==
    /\ Started
    /\ Readable(store)
    /\ opened \in [Handles -> Analyzers \cup {Missing}]
    /\ \A h \in Handles : opened[h] # Missing => store.global # Missing

SpecOnAny == InitOnAny /\ [][Next]_vars

ReadableOK ==
    /\ Readable(store)
    /\ \A h \in Handles : opened[h] # Missing => store.global # Missing
    /\ work # Missing => Readable(work) /\ work.global \in Global
    /\ \A p \in Procs : pc[p] \in {"body", "commit"} /\ call[p].op # "delete" => Writable(work)

RInv == Protocol /\ InProgress /\ ReadableOK

(* Contents of any kind stay decodable, and the discipline of calls and    *)
(* the progress of the private copy are kept over them.                    *)
LEMMA ReadableKept ==
    ASSUME RInv, [Next]_vars
    PROVE  ReadableOK' /\ ContentsTyped'
<1> USE DEF RInv
<1>1. /\ store \in Store /\ work \in Store \cup {Missing} /\ (owner # Nobody => work \in Store)
      /\ (owner = Nobody <=> work = Missing) /\ Missing \notin Store
      /\ \A p \in Procs : pc[p] \in {"body", "commit"} <=> owner = p
  BY NobodyDiffers, MarkersDiffer DEF Protocol, TypeOK, LocksFollowCalls
<1>2. ASSUME UNCHANGED <<store, opened, owner, work>>,
             \A p \in Procs : owner = p => call'[p] = call[p] /\ pc[p] \in {"body", "commit"},
             \A p \in Procs : pc'[p] \in {"body", "commit"} => owner = p
      PROVE  ReadableOK' /\ ContentsTyped'
  BY <1>1, <1>2 DEF ReadableOK, ContentsTyped
<1>3. ASSUME Readable(store'), \A h \in Handles : opened'[h] # Missing => store'.global # Missing,
             owner' = Nobody, work' = Missing, \A p \in Procs : pc'[p] \notin {"body", "commit"}
      PROVE  ReadableOK' /\ ContentsTyped'
  BY <1>3 DEF ReadableOK, ContentsTyped, Readable
<1>4. ASSUME Writable(work'), UNCHANGED <<store, opened>>
      PROVE  ReadableOK' /\ ContentsTyped'
  <2>1. work' \in Store
    BY <1>4 DEF Writable, Readable
  <2> QED BY <1>1, <1>4, <2>1 DEF ReadableOK, ContentsTyped, Writable
<1>5. ASSUME NEW p \in Procs, pc[p] \in {"body", "commit"}, Return(p, "ok") \/ Return(p, "missing")
                \/ Return(p, "panic") \/ Return(p, "failed")
      PROVE  \A q \in Procs : pc'[q] \notin {"body", "commit"}
  <2>1. pc \in [Procs -> PCs] /\ pc' = [pc EXCEPT ![p] = "idle"]
    BY <1>5 DEF Protocol, TypeOK, Return
  <2> QED BY <2>1, <1>1, <1>5
<1>6. ASSUME NEW h \in Handles, NEW a \in Analyzers, Open(h, a)
      PROVE  ReadableOK' /\ ContentsTyped'
  <2>1. /\ store' = Initialized(store) /\ opened' = [opened EXCEPT ![h] = a]
        /\ UNCHANGED <<pc, owner, work>> /\ owner = Nobody
    BY <1>6 DEF Open, tx
  <2>2. store' \in Store /\ store'.global # Missing
    BY <2>1, <1>1, InitializedStore
  <2>3. store'.meta = store.meta
    BY <2>1, <1>1 DEF Initialized, Store
  <2>4. Readable(store')
    BY <2>2, <2>3 DEF ReadableOK, Readable
  <2>5. \A p \in Procs : pc'[p] \notin {"body", "commit"}
    BY <2>1, <1>1, NobodyDiffers
  <2> QED BY <1>3, <2>1, <2>2, <2>4, <2>5, <1>1
<1>7. ASSUME NEW p \in Procs, Begin(p)
      PROVE  ReadableOK' /\ ContentsTyped'
  <2>1. /\ UNCHANGED <<store, opened, call>> /\ pc[p] = "locked" /\ owner' = p
        /\ pc' = [pc EXCEPT ![p] = "body"] /\ pc \in [Procs -> PCs] /\ owner = Nobody
    BY <1>7 DEF Begin, Protocol, TypeOK
  <2>2. Readable(store) /\ store.global # Missing
    <3>1. CallOK(pc[p], call[p], opened[HandleOf[p]])
      BY DEF Protocol, CallsOK
    <3> QED BY <2>1, <3>1, HandlesAssigned DEF ReadableOK, CallOK
  <2>3. store.global \in Global
    BY <2>2 DEF Readable, Store
  <2>4. \A q \in Procs : pc'[q] \in {"body", "commit"} => q = p
    BY <2>1, <1>1, NobodyDiffers
  <2>5. CASE call[p].op = "delete"
    <3>1. work' = store
      BY <1>7, <2>5 DEF Begin
    <3> QED BY <3>1, <2>1, <2>2, <2>3, <2>4, <2>5, <1>1 DEF ReadableOK, ContentsTyped
  <2>6. CASE call[p].op = "rebuild"
    <3>1. work' = ClearedForRebuild
      BY <1>7, <2>6 DEF Begin
    <3>2. ClearedForRebuild.meta = [id \in IDs |-> Missing]
      BY DEF ClearedForRebuild, EmptyStore
    <3>3. Writable(ClearedForRebuild)
      BY <3>2, ClearedSound DEF Sound, Writable, Readable
    <3> QED BY <3>1, <3>3, <2>1, <1>4
  <2>7. CASE call[p].op \notin {"delete", "rebuild"}
    <3>1. call[p].op = "add"
      <4>1. CallOK(pc[p], call[p], opened[HandleOf[p]])
        BY DEF Protocol, CallsOK
      <4>2. call[p] \in Requests /\ call[p].op # "close"
        BY <4>1, <2>1, <1>7 DEF CallOK, Begin
      <4> QED BY <4>2, <2>7 DEF Requests
    <3>2. work' = [store EXCEPT !.global = EnsureGlobalMaps(@)]
      BY <1>7, <3>1 DEF Begin
    <3>3. /\ EnsureGlobalMaps(store.global) \in Global
          /\ EnsureGlobalMaps(store.global).total \in [Fields -> Nat]
      <4>1. CASE store.global.total = NilMap
        BY <2>3, <4>1, EmptyType DEF EnsureGlobalMaps, Global
      <4>2. CASE store.global.total # NilMap
        BY <2>3, <4>2 DEF EnsureGlobalMaps, Global
      <4> QED BY <4>1, <4>2
    <3>4. Writable(work')
      <4>1. work' \in Store /\ work'.meta = store.meta /\ work'.global = EnsureGlobalMaps(store.global)
        BY <3>2, <3>3, <1>1 DEF Store
      <4> QED BY <4>1, <3>3, <2>2 DEF Writable, Readable
    <3> QED BY <3>4, <2>1, <1>4
  <2> QED BY <2>5, <2>6, <2>7
<1>8. ASSUME NEW p \in Procs, NEW id, NEW d, call[p].op \in {"add", "rebuild"}, Writes(p, id, d)
      PROVE  ReadableOK' /\ ContentsTyped'
  <2>1. pc[p] = "body" /\ UNCHANGED <<store, opened>>
    BY <1>8 DEF Writes
  <2>2. Writable(work)
    BY <2>1, <1>8 DEF ReadableOK
  <2>3. opened[HandleOf[p]] \in Analyzers
    BY <2>1, BodyState
  <2>4. Writable(work')
    BY <2>2, <2>3, <1>8, AddReadable DEF Writes
  <2> QED BY <2>1, <2>4, <1>4
<1>9. ASSUME NEW p \in Procs, AddNext(p) \/ ReplayLegacy(p) \/ ReplayNext(p)
      PROVE  ReadableOK' /\ ContentsTyped'
  <2>1. pc[p] = "body"
    BY <1>9 DEF AddNext, ReplayLegacy, ReplayNext
  <2>2. Progress(p) /\ call[p] \in Requests /\ call[p].op # "close"
    BY <2>1, BodyState DEF InProgress
  <2>3. call[p].op \in {"add", "rebuild"}
    <3>1. CASE AddNext(p)
      BY <3>1, <2>2 DEF AddNext, Progress, Requests
    <3>2. CASE ReplayLegacy(p) \/ ReplayNext(p)
      <4>1. replay # NoReplay
        BY <3>2 DEF ReplayLegacy, ReplayNext, NoReplay
      <4> QED BY <4>1, <2>2 DEF Progress
    <3> QED BY <3>1, <3>2, <1>9
  <2> QED BY <2>3, <1>8, <1>9, AddNextWrites, ReplayLegacyWrites, ReplayNextWrites
<1>10. ASSUME NEW p \in Procs, DeleteBody(p)
       PROVE  ReadableOK' /\ ContentsTyped'
  <2>1. pc[p] = "body" /\ call[p].op = "delete" /\ UNCHANGED <<store, opened>>
    BY <1>10 DEF DeleteBody
  <2>2. /\ work # Missing /\ Readable(work) /\ work.global \in Global /\ call[p].id \in IDs
    <3>1. work # Missing /\ call[p] \in Requests /\ ~Invalid(call[p])
      BY <2>1, BodyState
    <3> QED BY <3>1, <2>1 DEF Requests, Invalid, ReadableOK
  <2>3. CASE /\ work.meta[call[p].id] # Missing /\ work.global.total # NilMap
             /\ ~RemoveFails(work, call[p].id)
             /\ work' = DeleteInTransaction(work, call[p].id)
    <3>1. Writable(work)
      BY <2>2, <2>3 DEF Writable, Global
    <3>2. Writable(work')
      BY <3>1, <2>2, <2>3, DeleteReadable
    <3> QED BY <3>2, <2>1, <1>4
  <2>4. CASE (Return(p, "missing") \/ Return(p, "panic")) /\ EndTransaction
    BY <2>1, <2>4, <1>3, <1>5 DEF EndTransaction, ReadableOK
  <2> QED BY <1>10, <2>3, <2>4 DEF DeleteBody
<1>11. ASSUME NEW p \in Procs, Commit(p) \/ Abort(p)
       PROVE  ReadableOK' /\ ContentsTyped'
  <2>1. /\ pc[p] \in {"body", "commit"} /\ EndTransaction /\ opened' = opened
        /\ Return(p, "ok") \/ Return(p, "failed")
        /\ store' = work \/ store' = store
    BY <1>11 DEF Commit, Abort
  <2>2. Readable(work) /\ work.global # Missing
    <3>1. Readable(work) /\ work.global \in Global
      BY <2>1, BodyState DEF ReadableOK
    <3> QED BY <3>1, MarkersDiffer
  <2>3. Readable(store') /\ \A h \in Handles : opened'[h] # Missing => store'.global # Missing
    BY <2>1, <2>2 DEF ReadableOK
  <2> QED BY <2>1, <2>3, <1>3, <1>5 DEF EndTransaction
<1>12. CASE Restart
  <2>1. Readable(EmptyStore)
    <3>1. EmptyStore.meta = [id \in IDs |-> Missing]
      BY DEF EmptyStore
    <3> QED BY <3>1, EmptyType DEF Readable
  <2>2. /\ store' = IF Durable THEN store ELSE EmptyStore
        /\ opened' = [h \in Handles |-> Missing] /\ owner' = Nobody /\ work' = Missing
        /\ pc' = [p \in Procs |-> "idle"]
    BY <1>12 DEF Restart, EndTransaction
  <2>3. Readable(store')
    BY <2>1, <2>2 DEF ReadableOK
  <2> QED BY <2>2, <2>3, <1>3
<1>13. ASSUME NEW p \in Procs, NEW at, NEW r, pc[p] \in {"idle", "called", "locked"},
              at \in {"idle", "called", "locked"},
              UNCHANGED <<store, opened, tx>>,
              pc' = [pc EXCEPT ![p] = at], call' = [call EXCEPT ![p] = r] \/ call' = call
       PROVE  ReadableOK' /\ ContentsTyped'
  <2>1. pc \in [Procs -> PCs] /\ call \in [Procs -> Requests \cup {NoCall}] /\ owner # p
    BY <1>1, <1>13 DEF Protocol, TypeOK
  <2>2. \A q \in Procs : q # p => pc'[q] = pc[q] /\ call'[q] = call[q]
    BY <2>1, <1>13
  <2>3. pc'[p] \notin {"body", "commit"}
    BY <2>1, <1>13
  <2> QED BY <2>1, <2>2, <2>3, <1>1, <1>2, <1>13 DEF tx
<1>14. ASSUME NEW p \in Procs, \/ \E r \in Requests : Call(p, r)
                               \/ AnswerEarly(p) \/ Lock(p) \/ TransactionClosed(p) \/ CloseStore(p)
       PROVE  ReadableOK' /\ ContentsTyped'
  BY <1>13, <1>14 DEF Call, AnswerEarly, Lock, TransactionClosed, CloseStore, Return
<1>15. ASSUME NEW p \in Procs, BodyDone(p)
       PROVE  ReadableOK' /\ ContentsTyped'
  <2>1. /\ pc[p] = "body" /\ UNCHANGED <<store, opened, call, owner, work>>
        /\ pc' = [pc EXCEPT ![p] = "commit"] /\ pc \in [Procs -> PCs]
    BY <1>15 DEF BodyDone, tx, Protocol, TypeOK
  <2>2. \A q \in Procs : pc'[q] \in {"body", "commit"} => pc[q] \in {"body", "commit"}
    BY <2>1
  <2> QED BY <2>1, <2>2, <1>1, <1>2
<1>16. CASE UNCHANGED vars
  BY <1>1, <1>2, <1>16 DEF vars
<1> QED BY <1>6, <1>7, <1>9, <1>10, <1>11, <1>12, <1>14, <1>15, <1>16 DEF Next, Step

(* Every step, from whatever contents, keeps what Rebuild has written and  *)
(* what it has left to write together all it has to write (rebuild.go).    *)
THEOREM RInvKept == RInv /\ [Next]_vars => RInv'
<1> SUFFICES ASSUME RInv, [Next]_vars PROVE RInv'
  OBVIOUS
<1>1. ReadableOK' /\ ContentsTyped'
  BY ReadableKept
<1>2. Protocol'
  BY <1>1, ProtocolKept DEF RInv
<1>3. InProgress'
  BY <1>2, ProgressKept DEF RInv
<1> QED BY <1>1, <1>2, <1>3 DEF RInv

(* Any contents that can be read, with no call begun, are in order.        *)
LEMMA RInvBegins == InitOnAny => RInv
<1> SUFFICES ASSUME InitOnAny PROVE RInv
  OBVIOUS
<1>1. Started /\ store \in Store /\ opened \in [Handles -> Analyzers \cup {Missing}]
  BY DEF InitOnAny, Readable
<1>2. Protocol
  BY <1>1, StartedProtocol
<1>3. InProgress /\ ReadableOK
  BY DEF InitOnAny, Started, InProgress, ReadableOK
<1> QED BY <1>2, <1>3 DEF RInv

(* The empty store a process begins with is one of them. *)
LEMMA InitIsAny == Init => InitOnAny
<1> SUFFICES ASSUME Init PROVE InitOnAny
  OBVIOUS
<1>1. Readable(store)
  <2>1. EmptyStore.meta = [id \in IDs |-> Missing]
    BY DEF EmptyStore
  <2> QED BY <2>1, EmptyType DEF Init, Readable
<1> QED BY <1>1 DEF Init, InitOnAny, Started

(* A Rebuild that answers nil has just committed.                          *)
LEMMA RebuildCommitsAtCommit ==
    ASSUME Protocol, [Next]_vars, NEW p \in Procs, RebuildCommits(p)
    PROVE  Commit(p)
<1>1. call[p].op = "rebuild" /\ call'[p] = NoCall /\ answer'[p] = "ok" /\ call[p] # NoCall
  BY DEF RebuildCommits, NoCall
<1>2. /\ pc \in [Procs -> PCs] /\ answer \in [Procs -> Answers]
      /\ call \in [Procs -> Requests \cup {NoCall}]
  BY DEF Protocol, TypeOK
<1>3. ASSUME NEW q \in Procs, NEW a, Return(q, a)
      PROVE  q = p /\ a = "ok"
  BY <1>1, <1>2, <1>3 DEF Return
<1>4. call' # call
  BY <1>1
<1>5. ASSUME NEW q \in Procs, NEW r \in Requests, Call(q, r) PROVE FALSE
  <2>1. r # NoCall
    BY DEF Requests, NoCall
  <2> QED BY <2>1, <1>1, <1>2, <1>5 DEF Call
<1>6. ASSUME NEW q \in Procs, AnswerEarly(q) PROVE FALSE
  BY <1>1, <1>3, <1>6 DEF AnswerEarly
<1>7. ASSUME NEW q \in Procs, TransactionClosed(q) \/ Abort(q) PROVE FALSE
  BY <1>1, <1>3, <1>7 DEF TransactionClosed, Abort
<1>8. ASSUME NEW q \in Procs, CloseStore(q) PROVE FALSE
  BY <1>1, <1>3, <1>8 DEF CloseStore
<1>9. ASSUME NEW q \in Procs, DeleteBody(q) PROVE FALSE
  BY <1>1, <1>3, <1>4, <1>9 DEF DeleteBody
<1>10. ASSUME NEW q \in Procs, Commit(q) PROVE q = p
  BY <1>3, <1>10 DEF Commit
<1>11. ASSUME NEW q \in Procs, Lock(q) \/ Begin(q) \/ AddNext(q) \/ ReplayLegacy(q)
                               \/ ReplayNext(q) \/ BodyDone(q)
       PROVE  FALSE
  BY <1>4, <1>11 DEF Lock, Begin, AddNext, ReplayLegacy, ReplayNext, BodyDone
<1>12. ASSUME NEW h \in Handles, NEW a \in Analyzers, Open(h, a) PROVE FALSE
  BY <1>4, <1>12 DEF Open
<1>13. CASE Restart
  BY <1>1, <1>13 DEF Restart
<1>14. CASE UNCHANGED vars
  BY <1>4, <1>14 DEF vars
<1> QED BY <1>5, <1>6, <1>7, <1>8, <1>9, <1>10, <1>11, <1>12, <1>13, <1>14 DEF Next, Step

(* What Rebuild replays of ID id: the document under the ID or else the    *)
(* last one of the early schema.                                           *)
LEMMA RebuiltFromSource ==
    ASSUME Protocol, NEW p \in Procs, RebuildProgress(p), replay = NoReplay, NEW id \in IDs
    PROVE  /\ work.doc[id] = Source(store, id)
           /\ work.doc[id] # Missing =>
                work.meta[id] = MetaOf(opened[HandleOf[p]], work.doc[id])
<1> DEFINE a     == opened[HandleOf[p]]
           older == {n \in LegacyKeys : store.legacy[n] # Missing /\ store.legacy[n].id = id}
<1>1. /\ Replayed = {n \in LegacyKeys : store.legacy[n] # Missing} /\ replay.ids = {}
      /\ LegacyKeys \subseteq Nat
  BY LegacyKeysNumbers DEF Replayed, NoReplay
<1>2. older = {n \in Replayed : store.legacy[n].id = id}
  BY <1>1
<1> HIDE DEF a, older
<1>3. CASE store.doc[id] # Missing
  <2>1. Source(store, id) = store.doc[id]
    BY <1>3 DEF Source
  <2>2. HasIndexed(work, id, a, store.doc[id])
    BY <1>1, <1>3 DEF RebuildProgress, a
  <2> QED BY <2>1, <2>2 DEF HasIndexed, a
<1>4. CASE store.doc[id] = Missing /\ \A n \in Replayed : store.legacy[n].id # id
  <2>1. Source(store, id) = Missing
    BY <1>2, <1>4 DEF Source, older
  <2>2. work.doc[id] = Missing
    BY <1>1, <1>4 DEF RebuildProgress
  <2> QED BY <2>1, <2>2
<1>5. ASSUME store.doc[id] = Missing, NEW n \in Replayed, store.legacy[n].id = id
      PROVE  /\ work.doc[id] = Source(store, id)
             /\ work.meta[id] = MetaOf(a, work.doc[id])
  <2>1. PICK m \in Replayed :
          /\ store.legacy[m].id = id
          /\ \A l \in Replayed : store.legacy[l].id = id => l <= m
          /\ HasIndexed(work, id, a, store.legacy[m].fields)
    BY <1>1, <1>5 DEF RebuildProgress, a
  <2>2. m \in older /\ \A l \in older : l <= m
    BY <2>1, <1>2
  <2>3. older \subseteq Nat
    BY <1>1, <1>2
  <2>4. \A l \in older : (\A o \in older : o <= l) => l = m
    BY <2>2, <2>3
  <2>5. (CHOOSE l \in older : \A o \in older : o <= l) = m
    BY <2>2, <2>4
  <2>6. Source(store, id) = store.legacy[m].fields
    BY <2>2, <2>5, <1>5 DEF Source, older
  <2> QED BY <2>1, <2>6 DEF HasIndexed
<1> QED BY <1>3, <1>4, <1>5 DEF a

(* One Rebuild repairs everything, whatever the contents were before it:   *)
(* no document is lost, the newest version of each is kept, and every      *)
(* counter is exact for the analyzer that is configured.                   *)
THEOREM RepairedFromAny == SpecOnAny => RebuildRepairs
<1>1. ASSUME RInv, [Next]_vars, NEW p \in Procs, RebuildCommits(p)
      PROVE  /\ Exact(store')
             /\ \A n \in LegacyKeys : store'.legacy[n] = Missing
             /\ \A id \in IDs :
                  /\ store'.doc[id] = Source(store, id)
                  /\ store'.doc[id] # Missing =>
                       store'.meta[id] = MetaOf(opened[HandleOf[p]], store'.doc[id])
  <2>1. pc[p] = "commit" /\ store' = work /\ call[p].op = "rebuild"
    BY <1>1, RebuildCommitsAtCommit DEF RInv, Commit, RebuildCommits
  <2>2. RebuildProgress(p) /\ replay = NoReplay
    BY <1>1, <2>1 DEF RInv, InProgress, Progress
  <2>3. Exact(work) /\ \A n \in LegacyKeys : work.legacy[n] = Missing
    BY <2>2 DEF RebuildProgress, Sound
  <2> QED BY <1>1, <2>1, <2>2, <2>3, RebuiltFromSource DEF RInv
<1>2. RInv /\ [Next]_vars =>
        [\A p \in Procs : RebuildCommits(p) =>
           /\ Exact(store')
           /\ \A n \in LegacyKeys : store'.legacy[n] = Missing
           /\ \A id \in IDs :
                /\ store'.doc[id] = Source(store, id)
                /\ store'.doc[id] # Missing =>
                     store'.meta[id] = MetaOf(opened[HandleOf[p]], store'.doc[id])]_vars
  BY <1>1
<1> QED BY <1>2, RInvBegins, RInvKept, PTL DEF SpecOnAny, RebuildRepairs

(* In particular that of a store this version has written itself. *)
THEOREM Repaired == Spec => RebuildRepairs
<1>1. Spec => SpecOnAny
  BY InitIsAny, PTL DEF Spec, SpecOnAny
<1> QED BY <1>1, RepairedFromAny

================================================================================
