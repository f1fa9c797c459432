------------------------------- MODULE BboltStore -------------------------------
(***************************************************************************)
(* storage.BboltStore: a pointer to a Bbolt database.                      *)
(*                                                                         *)
(* Every method tests the pointer s.db against nil and then calls a method *)
(* of the database; Close sets it to nil.  Nothing synchronizes the two: a *)
(* method that has passed its test may find the pointer gone, or go on     *)
(* with the value it has tested.                                           *)
(*                                                                         *)
(* The database is external.  From the way it is used: View reads one      *)
(* committed state while others write, Update is exclusive and commits or  *)
(* rolls back as a whole, Close waits for both, and what has been          *)
(* committed survives the process.                                         *)
(***************************************************************************)
EXTENDS KeyValue

CONSTANT Nobody   \* the holder of a free lock, no snapshot, no working copy

ASSUME NobodyApart == Nobody \notin Clients \cup Contents

VARIABLES
    db,        \* BboltStore.db is not nil
    opened,    \* the database is open
    data,      \* what is committed in its file
    writer,    \* who is in Update or waits in Close
    pc,        \* where each client is in its call
    request,   \* the call it is in
    reply,     \* how its last call ended
    snapshot,  \* the state its View reads
    working,   \* the state its Update has made so far
    done,      \* how many operations of its script the callback has run
    log        \* what they have read

tx   == <<working, done, log>>
vars == <<db, opened, data, writer, pc, request, reply, snapshot, tx>>

(* A client that has its answer is "returning".                            *)
PCs == {"idle", "called", "tested", "view", "update", "closing", "closed",
        "returning"}

InitTx == working = Nobody /\ done = 0 /\ log = << >>

(* OpenBbolt on an empty file.                                             *)
Init ==
    /\ db = TRUE
    /\ opened = TRUE
    /\ data = NoKeys
    /\ writer = Nobody
    /\ pc = [c \in Clients |-> "idle"]
    /\ request = [c \in Clients |-> NoRequest]
    /\ reply = [c \in Clients |-> NoReply]
    /\ snapshot = [c \in Clients |-> Nobody]
    /\ InitTx

Call(c, r) ==
    /\ pc[c] = "idle"
    /\ pc' = [pc EXCEPT ![c] = "called"]
    /\ request' = [request EXCEPT ![c] = r]
    /\ reply' = [reply EXCEPT ![c] = NoReply]
    /\ UNCHANGED <<db, opened, data, writer, snapshot, tx>>

Decide(c, kind, reads) ==
    /\ pc' = [pc EXCEPT ![c] = "returning"]
    /\ reply' = [reply EXCEPT ![c] = [kind |-> kind, reads |-> reads]]

Return(c) ==
    /\ pc[c] = "returning"
    /\ pc' = [pc EXCEPT ![c] = "idle"]
    /\ request' = [request EXCEPT ![c] = NoRequest]
    /\ UNCHANGED <<db, opened, data, writer, reply, snapshot, tx>>

(* if s == nil || s.db == nil                                              *)
TestPointer(c) ==
    /\ pc[c] = "called"
    /\ IF db THEN pc' = [pc EXCEPT ![c] = "tested"] /\ reply' = reply
       ELSE Decide(c, IF request[c].op = "close" THEN "ok" ELSE "closed", << >>)
    /\ UNCHANGED <<db, opened, data, writer, request, snapshot, tx>>

(* The pointer is loaded a second time, and is nil.                        *)
NilDereference(c) ==
    /\ pc[c] = "tested" /\ ~db
    /\ Decide(c, "panic", << >>)
    /\ UNCHANGED <<db, opened, data, writer, request, snapshot, tx>>

(* ErrDatabaseNotOpen, which normalizeBboltError turns into ErrClosed.     *)
NotOpen(c) ==
    /\ pc[c] = "tested" /\ request[c].op # "close" /\ ~opened
    /\ Decide(c, "closed", << >>)
    /\ UNCHANGED <<db, opened, data, writer, request, snapshot, tx>>

BeginView(c) ==
    /\ pc[c] = "tested" /\ request[c].op = "read" /\ opened
    /\ \A o \in Clients : pc[o] # "closing"
    /\ snapshot' = [snapshot EXCEPT ![c] = data]
    /\ pc' = [pc EXCEPT ![c] = "view"]
    /\ UNCHANGED <<db, opened, data, writer, request, reply, tx>>

(* Fault: the pages are read after the transaction has ended.              *)
EndViewUncopied(c) ==
    /\ pc[c] = "view"
    /\ Decide(c, "ok", Trace(request[c].script, data).reads)
    /\ snapshot' = [snapshot EXCEPT ![c] = Nobody]
    /\ UNCHANGED <<db, opened, data, writer, request, tx>>

(* Fault: an iterator that keeps its read transaction open.                *)
EndViewLater(c) ==
    /\ pc[c] = "view"
    /\ Decide(c, "ok", Trace(request[c].script, snapshot[c]).reads)
    /\ UNCHANGED <<db, opened, data, writer, request, snapshot, tx>>

(* The keys and values read are copied before the transaction ends.        *)
EndView(c) ==
    /\ pc[c] = "view"
    /\ Decide(c, "ok", Trace(request[c].script, snapshot[c]).reads)
    /\ snapshot' = [snapshot EXCEPT ![c] = Nobody]
    /\ UNCHANGED <<db, opened, data, writer, request, tx>>

BeginUpdate(c) ==
    /\ pc[c] = "tested" /\ request[c].op = "transaction" /\ opened
    /\ writer = Nobody
    /\ writer' = c
    /\ working' = data
    /\ pc' = [pc EXCEPT ![c] = "update"]
    /\ UNCHANGED <<db, opened, data, request, reply, snapshot, done, log>>

InCallback(c) == pc[c] = "update" /\ done < Len(request[c].script)

Operate(c) ==
    /\ InCallback(c)
    /\ LET s == request[c].script[done + 1]
       IN  working' = After(working, s) /\ log' = log \o Seen(working, s)
    /\ done' = done + 1
    /\ UNCHANGED <<db, opened, data, writer, pc, request, reply, snapshot>>

EndUpdate(c, kind) ==
    /\ pc[c] = "update" /\ ~InCallback(c)
    /\ Decide(c, kind, log)
    /\ writer' = Nobody
    /\ working' = Nobody /\ done' = 0 /\ log' = << >>
    /\ UNCHANGED <<db, opened, request, snapshot>>

Commit(c) ==
    /\ EndUpdate(c, "ok") /\ request[c].ends = "nil"
    /\ data' = working

(* The commit fails: the file can not be written.                          *)
CommitFails(c) ==
    /\ EndUpdate(c, "failed") /\ request[c].ends = "nil"
    /\ UNCHANGED data

(* Fault: an error of the callback is returned after a commit.             *)
RollbackCommits(c) ==
    /\ EndUpdate(c, IF request[c].ends = "panic" THEN "panic" ELSE "failed")
    /\ request[c].ends # "nil"
    /\ data' = working

Rollback(c) ==
    /\ EndUpdate(c, IF request[c].ends = "panic" THEN "panic" ELSE "failed")
    /\ request[c].ends # "nil"
    /\ UNCHANGED data

(* s.db.Close() keeps new transactions out and waits for those under way.  *)
(* It may be called twice.                                                 *)
BeginClose(c) ==
    /\ pc[c] = "tested" /\ request[c].op = "close"
    /\ writer = Nobody
    /\ writer' = c
    /\ pc' = [pc EXCEPT ![c] = "closing"]
    /\ UNCHANGED <<db, opened, data, request, reply, snapshot, tx>>

(* Fault: the pointer is cleared, the database stays open.                 *)
CloseDatabaseForgotten(c) ==
    /\ pc[c] = "closing"
    /\ db' = FALSE
    /\ writer' = Nobody
    /\ pc' = [pc EXCEPT ![c] = "closed"]
    /\ UNCHANGED <<opened, data, request, reply, snapshot, tx>>

CloseDatabase(c) ==
    /\ pc[c] = "closing"
    /\ \A o \in Clients : snapshot[o] = Nobody
    /\ opened' = FALSE
    /\ writer' = Nobody
    /\ pc' = [pc EXCEPT ![c] = "closed"]
    /\ UNCHANGED <<db, data, request, reply, snapshot, tx>>

ClearPointer(c) ==
    /\ pc[c] = "closed"
    /\ db' = FALSE
    /\ Decide(c, "ok", << >>)
    /\ UNCHANGED <<opened, data, writer, request, snapshot, tx>>

(* The process ends at any point and another one opens the file.           *)
Reopen ==
    /\ db' = TRUE
    /\ opened' = TRUE
    /\ writer' = Nobody
    /\ pc' = [c \in Clients |-> "idle"]
    /\ request' = [c \in Clients |-> NoRequest]
    /\ reply' = [c \in Clients |-> NoReply]
    /\ snapshot' = [c \in Clients |-> Nobody]
    /\ working' = Nobody /\ done' = 0 /\ log' = << >>
    /\ UNCHANGED data

Proceed(c) ==
    \/ TestPointer(c)
    \/ NilDereference(c)
    \/ NotOpen(c)
    \/ BeginView(c)
    \/ EndView(c)
    \/ Operate(c)
    \/ Commit(c)
    \/ CommitFails(c)
    \/ Rollback(c)
    \/ CloseDatabase(c)
    \/ ClearPointer(c)
    \/ Return(c)

Next ==
    \/ \E c \in Clients :
         \/ \E r \in CallsOf[c] : Call(c, r)
         \/ Proceed(c)
         \/ BeginUpdate(c)
         \/ BeginClose(c)
    \/ Reopen

Spec == Init /\ [][Next]_vars

(* A goroutine that does not wait runs on.  The mutexes of the database    *)
(* let nobody wait for ever.                                               *)
FairSpec ==
    /\ Spec
    /\ \A c \in Clients :
         WF_vars(Proceed(c)) /\ SF_vars(BeginUpdate(c)) /\ SF_vars(BeginClose(c))

--------------------------------------------------------------------------------

Kinds == {"none", "ok", "failed", "closed", "panic"}

(* State has its types; a working copy belongs to the one client in Update,*)
(* no transaction outlives the database, and s.db is nil only after it has *)
(* been closed (bbolt.go, Transaction and Close).                          *)
TypeOK ==
    /\ db \in BOOLEAN /\ opened \in BOOLEAN
    /\ data \in Contents
    /\ writer \in Clients \cup {Nobody}
    /\ pc \in [Clients -> PCs]
    /\ request \in [Clients -> Calls \cup {NoRequest}]
    /\ DOMAIN reply = Clients
    /\ \A c \in Clients : reply[c].kind \in Kinds
    /\ snapshot \in [Clients -> Contents \cup {Nobody}]
    /\ working \in Contents \cup {Nobody}
    /\ done \in Nat
    /\ \A c \in Clients : pc[c] \in {"update", "closing"} <=> writer = c
    /\ \A c \in Clients : pc[c] = "view" <=> snapshot[c] # Nobody
    /\ working # Nobody <=> \E c \in Clients : pc[c] = "update"
    /\ \A c \in Clients : pc[c] = "idle" <=> request[c] = NoRequest
    /\ \A c \in Clients : pc[c] = "update" => request[c].op = "transaction"
    /\ \A c \in Clients : pc[c] \in {"view", "update"} => opened
    /\ \A c \in Clients : pc[c] = "closed" => ~opened
    /\ ~db => ~opened

(* What the others may know of a call: a View is decided when its snapshot *)
(* is taken, a Close when the database is closed.                          *)
Decided(c) == pc[c] \in {"idle", "view", "closed", "returning"}

RequestSeen == [c \in Clients |-> IF Decided(c) THEN NoRequest ELSE request[c]]

ReplySeen ==
    [c \in Clients |->
        IF pc[c] = "view"
        THEN [kind |-> "ok", reads |-> Trace(request[c].script, snapshot[c]).reads]
        ELSE IF pc[c] = "closed" THEN [kind |-> "ok", reads |-> << >>]
        ELSE reply[c]]

Contract == INSTANCE StoreContract
    WITH closed <- ~opened, request <- RequestSeen, reply <- ReplySeen, MayPanic <- TRUE, Persists <- TRUE

(* Clients see a store that serves one request at a time, whole or not at  *)
(* all, through failing commits and the death of the process; when Close   *)
(* cuts in, a call may panic, but only when the database is closed and with*)
(* nothing done (storage/store.go, the comments of Tx and Store).          *)
ImplementsContract == Contract!ContractSpec

(* Every call returns, also the Close that waits for transactions (Close). *)
EveryCallReturns ==
    \A c \in Clients : request[c] # NoRequest ~> request[c] = NoRequest

(* docs/architecture_en.md: "each Store implementation is also             *)
(* concurrency-safe"; a method must not use the pointer Close has cleared. *)
NoNilDereference ==
    \A c \in Clients :
        pc[c] = "returning" /\ reply[c].kind = "panic" =>
            request[c].op = "transaction" /\ request[c].ends = "panic"

================================================================================
