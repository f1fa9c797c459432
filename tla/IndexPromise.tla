------------------------------ MODULE IndexPromise -----------------------------
(***************************************************************************)
(* What the write path promises its callers: an index is a set of          *)
(* documents, each indexed by the analyzer of the handle that wrote it, and*)
(* every call takes effect in one step or not at all.  `shown' is what     *)
(* readers see of it: the postings, dictionary and statistics, which are   *)
(* at every moment those of exactly these documents.                       *)
(***************************************************************************)
EXTENDS StoredIndex

CONSTANTS Procs, Handles, HandleOf, Durable, Requests, NoCall, BlankID

VARIABLES
    live,    \* each ID's document and analysis, Missing if it has none
    shown,   \* the derived data: postings, dictionary, statistics
    closed, opened,
    call,    \* the call each goroutine is in, NoCall if none
    answer   \* the outcome of its last call

promiseVars == <<live, shown, closed, opened, call, answer>>

NothingLive == [id \in IDs |-> Missing]

View(l) ==
    LET posting == [k \in Slots |-> [id \in IDs |->
                       IF l[id] = Missing THEN {} ELSE l[id].meta.vectors[k]]]
        lengths(f) == [id \in IDs |-> IF l[id] = Missing THEN {} ELSE 1 .. l[id].meta.lengths[f]]
    IN [posting |-> posting,
        term    |-> [k \in Slots |-> Entry(posting[k])],
        count   |-> Cardinality({id \in IDs : l[id] # Missing}),
        total   |-> [f \in Fields |-> Cardinality(Pairs(lengths(f)))]]

Indexed(a, d) == [doc |-> d, meta |-> MetaOf(a, d)]

(* The last entry of a batch for an ID is the one that stays. *)
LastOf(batch, id) ==
    CHOOSE n \in DOMAIN batch : batch[n].id = id /\ \A m \in DOMAIN batch : batch[m].id = id => m <= n

AfterBatch(a, batch) ==
    [id \in IDs |-> IF \E n \in DOMAIN batch : batch[n].id = id
                    THEN Indexed(a, batch[LastOf(batch, id)].fields)
                    ELSE live[id]]

AfterRebuild(a) == [id \in IDs |-> IF live[id] = Missing THEN Missing ELSE Indexed(a, live[id].doc)]

PromiseInit ==
    /\ live = NothingLive
    /\ shown = View(NothingLive)
    /\ closed = FALSE
    /\ opened = [h \in Handles |-> Missing]
    /\ call = [p \in Procs |-> NoCall]
    /\ answer = [p \in Procs |-> "none"]

PromiseOpen(h, a) ==
    /\ opened[h] = Missing /\ ~closed
    /\ opened' = [opened EXCEPT ![h] = a]
    /\ UNCHANGED <<live, shown, closed, call, answer>>

PromiseCall(p, r) ==
    /\ call[p] = NoCall /\ opened[HandleOf[p]] # Missing
    /\ call' = [call EXCEPT ![p] = r]
    /\ answer' = [answer EXCEPT ![p] = "none"]
    /\ UNCHANGED <<live, shown, closed, opened>>

Finish(p, a) ==
    /\ call[p] # NoCall
    /\ call' = [call EXCEPT ![p] = NoCall]
    /\ answer' = [answer EXCEPT ![p] = a]

(* A successful call has its whole effect, on an open store only. *)
Succeed(p) ==
    /\ Finish(p, "ok")
    /\ LET a == opened[HandleOf[p]] r == call[p] IN
       \/ r.op = "add" /\ r.batch # << >> /\ ~closed
            /\ live' = AfterBatch(a, r.batch) /\ closed' = closed
       \/ r.op = "add" /\ r.batch = << >> /\ UNCHANGED <<live, closed>>
       \/ r.op = "delete" /\ ~closed /\ r.id \in IDs /\ live[r.id] # Missing
            /\ live' = [live EXCEPT ![r.id] = Missing] /\ closed' = closed
       \/ r.op = "rebuild" /\ ~closed /\ live' = AfterRebuild(a) /\ closed' = closed
       \/ r.op = "close" /\ closed' = TRUE /\ live' = live
    /\ shown' = View(live')
    /\ opened' = opened

(* An error says why, and the index is what it was. *)
Refuse(p) ==
    /\ \/ Finish(p, "failed") /\ ~closed /\ call[p].op # "close"
       \/ Finish(p, "closed") /\ closed
       \/ Finish(p, "missing") /\ call[p].op = "delete" /\ live[call[p].id] = Missing
       \/ Finish(p, "invalid") /\ \/ call[p].op = "delete" /\ call[p].id = BlankID
                                  \/ call[p].op = "add" /\ \E n \in DOMAIN call[p].batch :
                                        \/ call[p].batch[n].id = BlankID
                                        \/ \A f \in Fields : call[p].batch[n].fields[f] = Missing
    /\ UNCHANGED <<live, shown, closed, opened>>

(* A new process: what was answered is kept by a durable store, a call     *)
(* without an answer had its effect already or never has it.               *)
PromiseRestart ==
    /\ live' = IF Durable THEN live ELSE NothingLive
    /\ shown' = View(live')
    /\ closed' = FALSE
    /\ opened' = [h \in Handles |-> Missing]
    /\ call' = [p \in Procs |-> NoCall]
    /\ answer' = [p \in Procs |-> "none"]

PromiseNext ==
    \/ \E h \in Handles, a \in Analyzers : PromiseOpen(h, a)
    \/ \E p \in Procs : \/ \E r \in Requests : PromiseCall(p, r)
                        \/ Succeed(p) \/ Refuse(p)
    \/ PromiseRestart

PromiseSpec == PromiseInit /\ [][PromiseNext]_promiseVars

================================================================================
