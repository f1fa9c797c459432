----------------------------- MODULE StoreContract ------------------------------
(***************************************************************************)
(* What storage.Store promises: every request is answered as if it ran     *)
(* alone, at one moment between its call and its return.                   *)
(***************************************************************************)
EXTENDS KeyValue

CONSTANTS
    MayPanic,   \* TRUE: a call may panic on a closed store
    Persists    \* TRUE: the contents outlive the process

VARIABLES
    data,     \* the committed contents
    closed,   \* Close has taken effect
    request,  \* the call each client waits for
    reply     \* how the last one ended, and what it has read

contractVars == <<data, closed, request, reply>>

ContractInit ==
    /\ data = NoKeys
    /\ closed = FALSE
    /\ request = [c \in Clients |-> NoRequest]
    /\ reply = [c \in Clients |-> NoReply]

ContractCall(c, r) ==
    /\ request[c] = NoRequest
    /\ request' = [request EXCEPT ![c] = r]
    /\ reply' = [reply EXCEPT ![c] = NoReply]
    /\ UNCHANGED <<data, closed>>

Replies(c, kind, reads) ==
    /\ request[c] # NoRequest
    /\ request' = [request EXCEPT ![c] = NoRequest]
    /\ reply' = [reply EXCEPT ![c] = [kind |-> kind, reads |-> reads]]

Refuse(c) ==
    /\ closed /\ request[c].op # "close"
    /\ Replies(c, "closed", << >>)
    /\ UNCHANGED <<data, closed>>

ServeRead(c) ==
    /\ ~closed /\ request[c].op = "read"
    /\ Replies(c, "ok", Trace(request[c].script, data).reads)
    /\ UNCHANGED <<data, closed>>

(* All of the script takes effect, and each operation sees those before it.*)
ServeTransaction(c) ==
    LET t == Trace(request[c].script, data) IN
    /\ ~closed /\ request[c].op = "transaction" /\ request[c].ends = "nil"
    /\ Replies(c, "ok", t.reads)
    /\ data' = t.data
    /\ UNCHANGED closed

(* None of it does: the callback's error or panic, or a failing commit.    *)
ServeRollback(c) ==
    /\ ~closed /\ request[c].op = "transaction"
    /\ Replies(c, IF request[c].ends = "panic" THEN "panic" ELSE "failed",
               Trace(request[c].script, data).reads)
    /\ UNCHANGED <<data, closed>>

ServeClose(c) ==
    /\ request[c].op = "close"
    /\ Replies(c, "ok", << >>)
    /\ closed' = TRUE
    /\ UNCHANGED data

Panic(c) ==
    /\ MayPanic /\ closed
    /\ Replies(c, "panic", << >>)
    /\ UNCHANGED <<data, closed>>

(* The process ends, and the store is opened again.                        *)
ContractReopen ==
    /\ Persists
    /\ closed' = FALSE
    /\ request' = [c \in Clients |-> NoRequest]
    /\ reply' = [c \in Clients |-> NoReply]
    /\ UNCHANGED data

Answer(c) ==
    /\ request[c] # NoRequest
    /\ \/ Refuse(c)
       \/ ServeRead(c)
       \/ ServeTransaction(c)
       \/ ServeRollback(c)
       \/ ServeClose(c)
       \/ Panic(c)

ContractNext ==
    \/ \E c \in Clients : (\E r \in CallsOf[c] : ContractCall(c, r)) \/ Answer(c)
    \/ ContractReopen

ContractSpec == ContractInit /\ [][ContractNext]_contractVars

================================================================================
