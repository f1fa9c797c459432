------------------------------ MODULE IndexWriter ------------------------------
(***************************************************************************)
(* The write path of Koris: goroutines that call AddBatch, Delete, Rebuild *)
(* and Close on Index handles opened on one Store.                         *)
(*                                                                         *)
(* A call takes the handle's write lock, then the store's exclusive        *)
(* transaction, and works on a private copy of the contents; the copy      *)
(* replaces the contents at the commit or is dropped.  A batch is written  *)
(* one document per step, so a failure or the death of the process can     *)
(* strike between any two.  Handles may be configured with different       *)
(* analyzers, and a restarted process with other ones than before.         *)
(***************************************************************************)
EXTENDS StoredIndex

CONSTANTS
    Procs,      \* goroutines
    Handles,    \* Index values opened on the store
    HandleOf,   \* the handle each goroutine uses
    Batches,    \* the argument lists AddBatch is called with: [id, fields] records
    BlankID,    \* an ID with nothing but white space
    Durable,    \* TRUE: BboltStore, FALSE: MemoryStore
    Nobody      \* the holder of a free lock

ASSUME HandlesAssigned == HandleOf \in [Procs -> Handles]
ASSUME NobodyDiffers == Nobody \notin Procs

Inputs == [id : IDs \cup {BlankID}, fields : Document]

ASSUME BatchesType == Batches \subseteq Seq(Inputs) /\ BlankID \notin IDs

Requests ==
         [op : {"add"}, batch : Batches]
    \cup [op : {"delete"}, id : IDs \cup {BlankID}]
    \cup [op : {"rebuild", "close"}]

NoReplay == [legacy |-> {}, ids |-> {}]

(* What Rebuild reads before it deletes: the whole prefix document/. *)
Documents(s) == [legacy |-> {n \in LegacyKeys : s.legacy[n] # Missing},
                 ids    |-> {id \in IDs : s.doc[id] # Missing}]

NoCall == [op |-> "none"]

VARIABLES
    store,     \* the committed contents
    closed,    \* the Store has been closed
    opened,    \* the analyzer configuration of each handle, Missing before New
    mu,        \* Index.mu of each handle
    owner,     \* the goroutine inside Store.Transaction
    pc,        \* where each goroutine is in its call
    call,      \* the call it is in
    answer,    \* the outcome of its last call
    work,      \* the contents the transaction works on, with its local GlobalStats
    left,      \* the documents of the batch not yet written
    replay     \* the documents Rebuild has read and not yet replayed

vars == <<store, closed, opened, mu, owner, pc, call, answer, work, left, replay>>

PCs     == {"idle", "called", "locked", "body", "commit"}
Answers == {"none", "ok", "invalid", "missing", "failed", "closed", "panic"}

TypeOK ==
    /\ store \in Store
    /\ closed \in BOOLEAN
    /\ opened \in [Handles -> Analyzers \cup {Missing}]
    /\ mu \in [Handles -> Procs \cup {Nobody}]
    /\ owner \in Procs \cup {Nobody}
    /\ pc \in [Procs -> PCs]
    /\ call \in [Procs -> Requests \cup {NoCall}]
    /\ answer \in [Procs -> Answers]
    /\ work \in Store \cup {Missing}
    /\ left \in Seq(Inputs)
    /\ replay \in [legacy : SUBSET LegacyKeys, ids : SUBSET IDs]

Init ==
    /\ store = EmptyStore
    /\ closed = FALSE
    /\ opened = [h \in Handles |-> Missing]
    /\ mu = [h \in Handles |-> Nobody]
    /\ owner = Nobody
    /\ pc = [p \in Procs |-> "idle"]
    /\ call = [p \in Procs |-> NoCall]
    /\ answer = [p \in Procs |-> "none"]
    /\ work = Missing
    /\ left = << >>
    /\ replay = NoReplay

-----------------------------------------------------------------------------
tx == <<owner, work, left, replay>>

(* The locks and the transaction a goroutine gives up when its call ends.  *)
EndTransaction == owner' = Nobody /\ work' = Missing /\ left' = << >> /\ replay' = NoReplay

Return(p, a) ==
    /\ pc' = [pc EXCEPT ![p] = "idle"]
    /\ call' = [call EXCEPT ![p] = NoCall]
    /\ answer' = [answer EXCEPT ![p] = a]

Unlock(p) == mu' = [mu EXCEPT ![HandleOf[p]] = Nobody]

Invalid(r) ==
    \/ r.op = "add" /\ \E n \in DOMAIN r.batch :
           \/ r.batch[n].id = BlankID
           \/ \A f \in Fields : r.batch[n].fields[f] = Missing
    \/ r.op = "delete" /\ r.id = BlankID

(* New(store, options): one transaction; the handle is not shared before.  *)
Open(h, a) ==
    /\ opened[h] = Missing
    /\ ~closed
    /\ owner = Nobody
    /\ opened' = [opened EXCEPT ![h] = a]
    /\ store' = Initialized(store)
    /\ UNCHANGED <<closed, mu, pc, call, answer, tx>>

Call(p, r) ==
    /\ pc[p] = "idle"
    /\ opened[HandleOf[p]] # Missing
    /\ pc' = [pc EXCEPT ![p] = "called"]
    /\ call' = [call EXCEPT ![p] = r]
    /\ answer' = [answer EXCEPT ![p] = "none"]
    /\ UNCHANGED <<store, closed, opened, mu, tx>>

(* An empty batch and an invalid argument are answered before any lock.    *)
AnswerEarly(p) ==
    /\ pc[p] = "called"
    /\ \/ call[p].op = "add" /\ call[p].batch = << >> /\ Return(p, "ok")
       \/ Invalid(call[p]) /\ Return(p, "invalid")
    /\ UNCHANGED <<store, closed, opened, mu, tx>>

Lock(p) ==
    /\ pc[p] = "called"
    /\ ~(call[p].op = "add" /\ call[p].batch = << >>)
    /\ ~Invalid(call[p])
    /\ mu[HandleOf[p]] = Nobody
    /\ mu' = [mu EXCEPT ![HandleOf[p]] = p]
    /\ pc' = [pc EXCEPT ![p] = "locked"]
    /\ UNCHANGED <<store, closed, opened, call, answer, tx>>

(* Fault: Rebuild adds to the statistics there are instead of new ones.    *)
BeginKeepsStats(p) ==
    /\ pc[p] = "locked" /\ call[p].op # "close"
    /\ owner = Nobody
    /\ ~closed
    /\ owner' = p
    /\ left' = IF call[p].op = "add" THEN call[p].batch ELSE << >>
    /\ replay' = IF call[p].op = "rebuild" THEN Documents(store) ELSE NoReplay
    /\ work' = CASE call[p].op = "add"     -> [store EXCEPT !.global = EnsureGlobalMaps(@)]
                 [] call[p].op = "rebuild" -> [ClearedForRebuild EXCEPT !.global = store.global]
                 [] OTHER                  -> store
    /\ pc' = [pc EXCEPT ![p] = "body"]
    /\ UNCHANGED <<store, closed, opened, mu, call, answer>>

(* Store.Transaction: ErrClosed, or a private copy for the callback.  The  *)
(* callback of AddBatch reads meta/global and fills in a nil map; the one  *)
(* of Rebuild reads every document and empties all families of keys.       *)
Begin(p) ==
    /\ pc[p] = "locked" /\ call[p].op # "close"
    /\ owner = Nobody
    /\ ~closed
    /\ owner' = p
    /\ left' = IF call[p].op = "add" THEN call[p].batch ELSE << >>
    /\ replay' = IF call[p].op = "rebuild" THEN Documents(store) ELSE NoReplay
    /\ work' = CASE call[p].op = "add"     -> [store EXCEPT !.global = EnsureGlobalMaps(@)]
                 [] call[p].op = "rebuild" -> ClearedForRebuild
                 [] OTHER                  -> store
    /\ pc' = [pc EXCEPT ![p] = "body"]
    /\ UNCHANGED <<store, closed, opened, mu, call, answer>>

(* Fault: the return on a closed store leaves the handle locked.           *)
TransactionClosedKeepsLock(p) ==
    /\ pc[p] = "locked" /\ call[p].op # "close"
    /\ owner = Nobody
    /\ closed
    /\ Return(p, "closed")
    /\ UNCHANGED <<store, closed, opened, mu, tx>>

TransactionClosed(p) ==
    /\ pc[p] = "locked" /\ call[p].op # "close"
    /\ owner = Nobody
    /\ closed
    /\ Return(p, "closed")
    /\ Unlock(p)
    /\ UNCHANGED <<store, closed, opened, tx>>

AddNext(p) ==
    /\ pc[p] = "body" /\ left # << >>
    /\ ~AddFails(work, Head(left).id)
    /\ work' = AddInTransaction(work, opened[HandleOf[p]], Head(left).id, Head(left).fields)
    /\ left' = Tail(left)
    /\ UNCHANGED <<store, closed, opened, mu, owner, pc, call, answer, replay>>

(* Rebuild replays in key order: the numbers of the early schema, in       *)
(* increasing order, come before every encoded ID.  The IDs are distinct   *)
(* and may come in any order.                                              *)
ReplayLegacy(p) ==
    /\ pc[p] = "body"
    /\ \E n \in replay.legacy :
         /\ \A m \in replay.legacy : n <= m
         /\ ~AddFails(work, store.legacy[n].id)
         /\ work' = AddInTransaction(work, opened[HandleOf[p]],
                                     store.legacy[n].id, store.legacy[n].fields)
         /\ replay' = [replay EXCEPT !.legacy = @ \ {n}]
    /\ UNCHANGED <<store, closed, opened, mu, owner, pc, call, answer, left>>

(* Fault: documents under IDs do not wait for those under numbers.         *)
ReplayNextAnyOrder(p) ==
    /\ pc[p] = "body"
    /\ \E id \in replay.ids :
         /\ ~AddFails(work, id)
         /\ work' = AddInTransaction(work, opened[HandleOf[p]], id, store.doc[id])
         /\ replay' = [replay EXCEPT !.ids = @ \ {id}]
    /\ UNCHANGED <<store, closed, opened, mu, owner, pc, call, answer, left>>

ReplayNext(p) ==
    /\ pc[p] = "body" /\ replay.legacy = {}
    /\ \E id \in replay.ids :
         /\ ~AddFails(work, id)
         /\ work' = AddInTransaction(work, opened[HandleOf[p]], id, store.doc[id])
         /\ replay' = [replay EXCEPT !.ids = @ \ {id}]
    /\ UNCHANGED <<store, closed, opened, mu, owner, pc, call, answer, left>>

BodyDone(p) ==
    /\ pc[p] = "body" /\ call[p].op \in {"add", "rebuild"}
    /\ left = << >> /\ replay = NoReplay
    /\ pc' = [pc EXCEPT ![p] = "commit"]
    /\ UNCHANGED <<store, closed, opened, mu, call, answer, tx>>

(* The callback of Delete.  Unlike AddBatch it does not fill in a nil      *)
(* TotalFieldLength, and removeVectors assigns to it for every field.      *)
DeleteBody(p) ==
    /\ pc[p] = "body" /\ call[p].op = "delete"
    /\ LET id == call[p].id IN
       \/ /\ work.meta[id] = Missing
          /\ Return(p, "missing") /\ Unlock(p) /\ EndTransaction
       \/ /\ work.meta[id] # Missing /\ work.global.total = NilMap
          /\ Return(p, "panic") /\ Unlock(p) /\ EndTransaction
       \/ /\ work.meta[id] # Missing /\ work.global.total # NilMap
          /\ ~RemoveFails(work, id)
          /\ work' = DeleteInTransaction(work, id)
          /\ pc' = [pc EXCEPT ![p] = "commit"]
          /\ UNCHANGED <<mu, owner, call, answer, left, replay>>
    /\ UNCHANGED <<store, closed, opened>>

Commit(p) ==
    /\ pc[p] = "commit"
    /\ store' = work
    /\ EndTransaction
    /\ Unlock(p)
    /\ Return(p, "ok")
    /\ UNCHANGED <<closed, opened>>

(* Faults: an error commits what was written so far; or leaves the handle  *)
(* locked.                                                                 *)
AbortCommits(p) ==
    /\ pc[p] \in {"body", "commit"}
    /\ store' = work
    /\ EndTransaction
    /\ Unlock(p)
    /\ Return(p, "failed")
    /\ UNCHANGED <<closed, opened>>

AbortKeepsLock(p) ==
    /\ pc[p] \in {"body", "commit"}
    /\ EndTransaction
    /\ Return(p, "failed")
    /\ UNCHANGED <<store, closed, opened, mu>>

(* A Get, Put, Delete or Scan of the transaction, a decoding or the commit *)
(* fails: the callback's error rolls everything back.                      *)
Abort(p) ==
    /\ pc[p] \in {"body", "commit"}
    /\ EndTransaction
    /\ Unlock(p)
    /\ Return(p, "failed")
    /\ UNCHANGED <<store, closed, opened>>

(* Index.Close: the write lock waits for the calls on this handle, the     *)
(* store's own lock for the transactions of the others.                    *)
CloseStore(p) ==
    /\ pc[p] = "locked" /\ call[p].op = "close"
    /\ owner = Nobody
    /\ closed' = TRUE
    /\ Unlock(p)
    /\ Return(p, "ok")
    /\ UNCHANGED <<store, opened, tx>>

(* The process ends or dies at any point, and the next one opens the file  *)
(* again.  A MemoryStore does not outlive its process.                     *)
Restart ==
    /\ store' = IF Durable THEN store ELSE EmptyStore
    /\ closed' = FALSE
    /\ opened' = [h \in Handles |-> Missing]
    /\ mu' = [h \in Handles |-> Nobody]
    /\ pc' = [p \in Procs |-> "idle"]
    /\ call' = [p \in Procs |-> NoCall]
    /\ answer' = [p \in Procs |-> "none"]
    /\ EndTransaction

-----------------------------------------------------------------------------
Step(p) ==
    \/ AnswerEarly(p) \/ Lock(p) \/ Begin(p) \/ TransactionClosed(p)
    \/ AddNext(p) \/ ReplayLegacy(p) \/ ReplayNext(p) \/ BodyDone(p) \/ DeleteBody(p)
    \/ Commit(p) \/ CloseStore(p)

Next ==
    \/ \E h \in Handles, a \in Analyzers : Open(h, a)
    \/ \E p \in Procs : \/ \E r \in Requests : Call(p, r)
                        \/ Step(p)
                        \/ Abort(p)
    \/ Restart

Spec == Init /\ [][Next]_vars

(* Go's mutexes do not starve a waiter (sync.Mutex turns to FIFO handover  *)
(* and a waiting writer of a RWMutex stops new readers), hence SF for the  *)
(* steps that take one; a running goroutine is scheduled again, hence WF.  *)
Fairness ==
    \A p \in Procs : /\ WF_vars(Step(p))
                     /\ SF_vars(Lock(p))
                     /\ SF_vars(Begin(p) \/ TransactionClosed(p) \/ CloseStore(p))

FairSpec == Spec /\ Fairness

================================================================================
