------------------------------- MODULE MemoryStore ------------------------------
(***************************************************************************)
(* storage.MemoryStore: a map behind a sync.RWMutex.  A write transaction  *)
(* clones the map, runs its callback on the clone under the write lock and *)
(* puts the clone in the place of the map if the callback returns nil.     *)
(***************************************************************************)
EXTENDS KeyValue

CONSTANT Nobody   \* the holder of a free lock, the clone of no transaction

ASSUME NobodyApart == Nobody \notin Clients \cup Contents

VARIABLES
    data,      \* MemoryStore.data
    closed,    \* MemoryStore.closed
    readers,   \* who has the read lock
    writer,    \* who has the write lock, or waits for readers to leave
    request,   \* the call each client is in
    reply,     \* how its last call ended
    working,   \* the clone a transaction works on
    done,      \* how many operations of its script its callback has run
    log        \* what they have read

tx   == <<working, done, log>>
vars == <<data, closed, readers, writer, request, reply, tx>>

Init ==
    /\ data = NoKeys
    /\ closed = FALSE
    /\ readers = {}
    /\ writer = Nobody
    /\ request = [c \in Clients |-> NoRequest]
    /\ reply = [c \in Clients |-> NoReply]
    /\ working = Nobody /\ done = 0 /\ log = << >>

Call(c, r) ==
    /\ request[c] = NoRequest
    /\ request' = [request EXCEPT ![c] = r]
    /\ reply' = [reply EXCEPT ![c] = NoReply]
    /\ UNCHANGED <<data, closed, readers, writer, tx>>

(* A return: the deferred unlock has run, after a panic too.               *)
Return(c, kind, reads) ==
    /\ request' = [request EXCEPT ![c] = NoRequest]
    /\ reply' = [reply EXCEPT ![c] = [kind |-> kind, reads |-> reads]]
    /\ readers' = readers \ {c}
    /\ writer' = IF writer = c THEN Nobody ELSE writer

DropClone == working' = Nobody /\ done' = 0 /\ log' = << >>

Reads(c) == request[c] # NoRequest /\ request[c].op = "read"
Writes(c) == request[c] # NoRequest /\ request[c].op # "read"

(* Fault: a reader does not wait for a transaction.                        *)
RLockAnyTime(c) ==
    /\ Reads(c) /\ c \notin readers
    /\ readers' = readers \cup {c}
    /\ UNCHANGED <<data, closed, writer, request, reply, tx>>

RLock(c) ==
    /\ Reads(c) /\ c \notin readers
    /\ writer = Nobody
    /\ readers' = readers \cup {c}
    /\ UNCHANGED <<data, closed, writer, request, reply, tx>>

Read(c) ==
    /\ c \in readers
    /\ IF closed THEN Return(c, "closed", << >>)
       ELSE Return(c, "ok", Trace(request[c].script, data).reads)
    /\ UNCHANGED <<data, closed, tx>>

(* A writer that waits for readers to leave keeps others out already.      *)
Lock(c) ==
    /\ Writes(c)
    /\ writer = Nobody
    /\ writer' = c
    /\ UNCHANGED <<data, closed, readers, request, reply, tx>>

Locked(c) == Writes(c) /\ writer = c /\ readers = {}

CloseStore(c) ==
    /\ Locked(c) /\ request[c].op = "close"
    /\ closed' = TRUE
    /\ Return(c, "ok", << >>)
    /\ UNCHANGED <<data, tx>>

RefuseTransaction(c) ==
    /\ Locked(c) /\ request[c].op = "transaction" /\ working = Nobody
    /\ closed
    /\ Return(c, "closed", << >>)
    /\ UNCHANGED <<data, closed, tx>>

Clone(c) ==
    /\ Locked(c) /\ request[c].op = "transaction" /\ working = Nobody
    /\ ~closed
    /\ working' = data
    /\ UNCHANGED <<data, closed, readers, writer, request, reply, done, log>>

InCallback(c) == Locked(c) /\ working # Nobody

(* Faults: the callback works on the map itself; a scan shows the writes   *)
(* that follow it in the transaction.                                      *)
OperateInPlace(c) ==
    /\ InCallback(c) /\ done < Len(request[c].script)
    /\ LET s == request[c].script[done + 1]
       IN  working' = After(working, s) /\ data' = working' /\ log' = log \o Seen(working, s)
    /\ done' = done + 1
    /\ UNCHANGED <<closed, readers, writer, request, reply>>

OperateLate(c) ==
    /\ InCallback(c) /\ done < Len(request[c].script)
    /\ LET s == request[c].script[done + 1]
           last == Trace(request[c].script, data).data
       IN  working' = After(working, s)
           /\ log' = log \o Seen(IF s.op = "scan" THEN last ELSE working, s)
    /\ done' = done + 1
    /\ UNCHANGED <<data, closed, readers, writer, request, reply>>

Operate(c) ==
    /\ InCallback(c) /\ done < Len(request[c].script)
    /\ LET s == request[c].script[done + 1]
       IN  working' = After(working, s) /\ log' = log \o Seen(working, s)
    /\ done' = done + 1
    /\ UNCHANGED <<data, closed, readers, writer, request, reply>>

(* The callback has returned nil: the assignment to s.data commits.        *)
Commit(c) ==
    /\ InCallback(c) /\ done = Len(request[c].script) /\ request[c].ends = "nil"
    /\ data' = working
    /\ Return(c, "ok", log)
    /\ DropClone
    /\ UNCHANGED closed

(* Fault: an unlock that is not deferred is skipped by a panic.            *)
RollbackKeepsLock(c) ==
    /\ InCallback(c) /\ done = Len(request[c].script) /\ request[c].ends # "nil"
    /\ request' = [request EXCEPT ![c] = NoRequest]
    /\ reply' = [reply EXCEPT ![c] =
                   [kind |-> IF request[c].ends = "panic" THEN "panic" ELSE "failed", reads |-> log]]
    /\ writer' = IF request[c].ends = "panic" THEN c ELSE Nobody
    /\ DropClone
    /\ UNCHANGED <<data, closed, readers>>

Rollback(c) ==
    /\ InCallback(c) /\ done = Len(request[c].script) /\ request[c].ends # "nil"
    /\ Return(c, IF request[c].ends = "panic" THEN "panic" ELSE "failed", log)
    /\ DropClone
    /\ UNCHANGED <<data, closed>>

Proceed(c) ==
    \/ Read(c)
    \/ CloseStore(c)
    \/ RefuseTransaction(c)
    \/ Clone(c)
    \/ Operate(c)
    \/ Commit(c)
    \/ Rollback(c)

Next == \E c \in Clients :
    \/ \E r \in CallsOf[c] : Call(c, r)
    \/ RLock(c)
    \/ Lock(c)
    \/ Proceed(c)

Spec == Init /\ [][Next]_vars

(* A goroutine inside the store runs on, and a sync.RWMutex lets nobody    *)
(* wait for ever: readers that queue behind a writer go before the next    *)
(* one, and a waiting writer holds off new readers.                        *)
FairSpec ==
    /\ Spec
    /\ \A c \in Clients : WF_vars(Proceed(c)) /\ SF_vars(RLock(c)) /\ SF_vars(Lock(c))

--------------------------------------------------------------------------------

Kinds == {"none", "ok", "failed", "closed", "panic"}

(* State has its types, and the lock its discipline: no one   *)
(* reads while a transaction has a clone, and whoever has the lock is in a  *)
(* call of the right kind (memory.go: mu in every method).                      *)
TypeOK ==
    /\ data \in Contents
    /\ closed \in BOOLEAN
    /\ readers \in SUBSET Clients
    /\ writer \in Clients \cup {Nobody}
    /\ request \in [Clients -> Calls \cup {NoRequest}]
    /\ DOMAIN reply = Clients
    /\ \A c \in Clients : reply[c].kind \in Kinds
    /\ working \in Contents \cup {Nobody}
    /\ done \in Nat
    /\ writer # Nobody => Writes(writer)
    /\ \A c \in readers : Reads(c)
    /\ working = Nobody => done = 0
    /\ working # Nobody => /\ writer # Nobody /\ readers = {}
                           /\ request[writer].op = "transaction"
                           /\ done <= Len(request[writer].script)

(* Clients see a store that serves one request at a time, whole or not at  *)
(* all, whatever their interleaving and however callbacks end              *)
(* (storage/store.go, the comments of Tx and Store).                       *)
Contract == INSTANCE StoreContract WITH MayPanic <- FALSE, Persists <- FALSE
ImplementsContract == Contract!ContractSpec

(* Every call returns: neither an error nor a panic of a callback, nor a   *)
(* Close, leaves the lock behind (the deferred unlocks of memory.go).      *)
EveryCallReturns == \A c \in Clients : request[c] # NoRequest ~> request[c] = NoRequest

================================================================================
