---------------------------- MODULE MemoryStore_proofs --------------------------
(***************************************************************************)
(* The type and lock invariant of MemoryStore, and that it implements the  *)
(* contract of a store, for any clients, keys, values and calls.           *)
(***************************************************************************)
EXTENDS MemoryStore, WellFoundedInduction, TLAPS

-----------------------------------------------------------------------------
(* Operations and scripts of them.                                         *)

(* An operation of a script leaves contents that are contents (storage/   *)
(* memory.go memoryTx and bbolt.go bboltTx, Put and Delete).               *)
LEMMA AfterType ==
    ASSUME NEW d \in Contents, NEW s \in Operations
    PROVE  After(d, s) \in Contents
<1>1. CASE s.op = "put"
  <2>1. s.key \in Keys /\ s.value \in Values
    BY <1>1 DEF Operations
  <2> QED BY <1>1, <2>1 DEF After, Contents
<1>2. CASE s.op = "delete"
  <2>1. s.key \in Keys
    BY <1>2 DEF Operations
  <2> QED BY <1>2, <2>1 DEF After, Contents
<1>3. CASE s.op \notin {"put", "delete"}
  BY <1>3 DEF After
<1> QED BY <1>1, <1>2, <1>3

(* A transaction has a script of operations (storage/store.go, Store).     *)
LEMMA ScriptType ==
    ASSUME NEW r \in Calls \cup {NoRequest}, r # NoRequest, r.op = "transaction"
    PROVE  r.script \in Seq(Operations)
  BY DEF Calls

-----------------------------------------------------------------------------
(* What a script computes, one operation after the other.                  *)

Begun(d) == [data |-> d, reads |-> << >>]

(* What operation s makes of what the ones before it have left and read.   *)
Continued(q, s) == [data |-> After(q.data, s), reads |-> q.reads \o Seen(q.data, s)]

(* The function t of Trace: what the first n operations leave and read.    *)
RunsAs(t, script, d, N) ==
    t = [n \in 0 .. N |-> IF n = 0 THEN Begun(d) ELSE Continued(t[n - 1], script[n])]

Run(script, d) == CHOOSE t : RunsAs(t, script, d, Len(script))

(* Induction over the numbers, from the well-foundedness of their order.   *)
LEMMA NumberInduction ==
    ASSUME NEW S \in SUBSET Nat, 0 \in S, \A n \in S : n + 1 \in S
    PROVE  S = Nat
<1> SUFFICES ASSUME Nat \ S # {} PROVE FALSE
  OBVIOUS
<1> DEFINE R == OpToRel(<, Nat)
<1>1. IsWellFoundedOn(R, Nat)
  BY NatLessThanWellFounded, Zenon
<1> HIDE DEF R
<1>2. PICK x \in Nat \ S : \A y \in Nat \ S : ~ (<<y, x>> \in R)
  BY <1>1, WFMin
<1>3. x # 0 /\ x - 1 \in Nat \ S
  OBVIOUS
<1>4. <<x - 1, x>> \in R
  BY <1>3 DEF R, OpToRel
<1> QED BY <1>2, <1>3, <1>4

(* A script of any length runs as such a function.                         *)
LEMMA RunExists ==
    ASSUME NEW script, NEW d, NEW N \in Nat
    PROVE  \E t : RunsAs(t, script, d, N)
<1> DEFINE S == {n \in Nat : \E t : RunsAs(t, script, d, n)}
<1>1. 0 \in S
  <2> DEFINE t == [n \in 0 .. 0 |-> Begun(d)]
  <2>1. RunsAs(t, script, d, 0)
    BY DEF RunsAs
  <2> QED BY <2>1
<1>2. ASSUME NEW n \in S
      PROVE  n + 1 \in S
  <2>1. PICK t : RunsAs(t, script, d, n)
    OBVIOUS
  <2> DEFINE u == [m \in 0 .. n + 1 |-> IF m <= n THEN t[m] ELSE Continued(t[n], script[n + 1])]
  <2>2. \A m \in 0 .. n : t[m] = IF m = 0 THEN Begun(d) ELSE Continued(t[m - 1], script[m])
    BY <2>1 DEF RunsAs
  <2>3. ASSUME NEW m \in 0 .. n + 1
        PROVE  u[m] = IF m = 0 THEN Begun(d) ELSE Continued(u[m - 1], script[m])
    <3>1. CASE m <= n
      <4>1. u[m] = t[m] /\ (m # 0 => u[m - 1] = t[m - 1])
        BY <3>1
      <4> QED BY <3>1, <4>1, <2>2
    <3>2. CASE m = n + 1
      <4>1. u[m] = Continued(t[n], script[n + 1]) /\ u[m - 1] = t[n] /\ m # 0
        BY <3>2
      <4> QED BY <3>2, <4>1
    <3> QED BY <3>1, <3>2
  <2>4. u = [m \in 0 .. n + 1 |-> u[m]]
    OBVIOUS
  <2> HIDE DEF u
  <2>5. RunsAs(u, script, d, n + 1)
    BY <2>3, <2>4 DEF RunsAs
  <2> QED BY <2>5
<1> HIDE DEF S
<1>3. S \in SUBSET Nat
  BY DEF S
<1>4. S = Nat
  BY <1>1, <1>2, <1>3, NumberInduction
<1> QED BY <1>4 DEF S

(* Trace is where it ends, and each operation takes it on by one.          *)
LEMMA TraceRuns ==
    ASSUME NEW script \in Seq(Operations), NEW d
    PROVE  /\ Trace(script, d) = Run(script, d)[Len(script)]
           /\ Run(script, d)[0] = Begun(d)
           /\ \A n \in 0 .. Len(script) - 1 :
                Run(script, d)[n + 1] = Continued(Run(script, d)[n], script[n + 1])
<1> DEFINE t == Run(script, d)
           N == Len(script)
<1>1. N \in Nat
  OBVIOUS
<1>2. RunsAs(t, script, d, N)
  <2>1. \E u : RunsAs(u, script, d, N)
    BY <1>1, RunExists
  <2> QED BY <2>1 DEF Run
<1>3. Trace(script, d) = t[N]
  BY DEF Trace, Run, RunsAs, Begun, Continued
<1> HIDE DEF t, N
<1>4. \A n \in 0 .. N : t[n] = IF n = 0 THEN Begun(d) ELSE Continued(t[n - 1], script[n])
  BY <1>2 DEF RunsAs
<1>5. t[0] = Begun(d)
  BY <1>1, <1>4
<1>6. ASSUME NEW n \in 0 .. N - 1
      PROVE  t[n + 1] = Continued(t[n], script[n + 1])
  <2>1. n + 1 \in 0 .. N /\ n + 1 # 0 /\ (n + 1) - 1 = n
    BY <1>1
  <2> QED BY <2>1, <1>4
<1> QED BY <1>3, <1>5, <1>6 DEF t, N

-----------------------------------------------------------------------------
(* Types and locks.                                                        *)

(* The state NewMemoryStore makes satisfies the invariant.                 *)
LEMMA InitType == Init => TypeOK
<1> SUFFICES ASSUME Init PROVE TypeOK
  OBVIOUS
<1>1. data \in Contents /\ closed \in BOOLEAN
  BY DEF Init, NoKeys, Contents
<1>2. DOMAIN reply = Clients /\ \A c \in Clients : reply[c].kind \in Kinds
  BY DEF Init, NoReply, Kinds
<1>3. request \in [Clients -> Calls \cup {NoRequest}]
  BY DEF Init
<1> QED BY <1>1, <1>2, <1>3 DEF Init, TypeOK

(* A return keeps the invariant: of a reader, or of a writer whose clone   *)
(* is dropped or was never made (every deferred unlock of memory.go).      *)
LEMMA ReturnType ==
    ASSUME TypeOK,
           NEW c \in Clients, NEW kind \in Kinds, NEW reads,
           Return(c, kind, reads),
           data' \in Contents, closed' \in BOOLEAN,
           \/ c \in readers /\ UNCHANGED tx
           \/ Locked(c) /\ working = Nobody /\ UNCHANGED tx
           \/ Locked(c) /\ DropClone
    PROVE  TypeOK'
  BY DEF TypeOK, Return, tx, Locked, DropClone, Reads, Writes, Kinds

(* One step of anybody keeps the invariant.                                *)
LEMMA NextType == TypeOK /\ [Next]_vars => TypeOK'
<1> SUFFICES ASSUME TypeOK, [Next]_vars PROVE TypeOK'
  OBVIOUS
<1>1. ASSUME NEW c \in Clients, NEW r \in CallsOf[c], Call(c, r) PROVE TypeOK'
  <2>1. r \in Calls
    BY CallsOfType
  <2>2. c \notin readers /\ c # writer
    BY <1>1, NobodyApart DEF Call, TypeOK, Reads, Writes
  <2> QED BY <1>1, <2>1, <2>2 DEF Call, TypeOK, Reads, Writes, tx, NoReply, Kinds
<1>2. ASSUME NEW c \in Clients, RLock(c) PROVE TypeOK'
  BY <1>2 DEF RLock, TypeOK, Reads, Writes, tx
<1>3. ASSUME NEW c \in Clients, Lock(c) PROVE TypeOK'
  BY <1>3 DEF Lock, TypeOK, Reads, Writes, tx
<1>4. ASSUME NEW c \in Clients, Read(c) PROVE TypeOK'
  <2>1. data' \in Contents /\ closed' \in BOOLEAN
    BY <1>4 DEF Read, TypeOK
  <2>2. c \in readers /\ UNCHANGED tx
    BY <1>4 DEF Read
  <2>3. PICK kind \in Kinds, reads \in {<< >>, Trace(request[c].script, data).reads} :
          Return(c, kind, reads)
    BY <1>4 DEF Read, Kinds
  <2> QED BY <2>1, <2>2, <2>3, ReturnType
<1>5. ASSUME NEW c \in Clients, CloseStore(c) PROVE TypeOK'
  <2>1. Locked(c) /\ working = Nobody
    BY <1>5, NobodyApart DEF CloseStore, Locked, TypeOK
  <2> QED BY <1>5, <2>1, ReturnType DEF CloseStore, TypeOK, Kinds
<1>6. ASSUME NEW c \in Clients, RefuseTransaction(c) PROVE TypeOK'
  BY <1>6, ReturnType DEF RefuseTransaction, TypeOK, Kinds
<1>7. ASSUME NEW c \in Clients, Clone(c) PROVE TypeOK'
  <2>1. request[c].script \in Seq(Operations)
    BY <1>7, ScriptType DEF Clone, Locked, Writes, TypeOK
  <2>2. done = 0
    BY <1>7 DEF Clone, TypeOK
  <2> QED BY <1>7, <2>1, <2>2, NobodyApart DEF Clone, Locked, TypeOK, Reads, Writes
<1>8. ASSUME NEW c \in Clients, Operate(c) PROVE TypeOK'
  <2>1. request[c].op = "transaction" /\ request[c] # NoRequest
    BY <1>8, NobodyApart DEF Operate, InCallback, Locked, Writes, TypeOK
  <2>2. request[c].script \in Seq(Operations)
    BY <2>1, ScriptType DEF TypeOK
  <2>3. request[c].script[done + 1] \in Operations /\ done + 1 <= Len(request[c].script)
    BY <1>8, <2>2 DEF Operate, TypeOK
  <2>4. working' \in Contents
    BY <1>8, <2>3, AfterType DEF Operate, InCallback, TypeOK
  <2> QED BY <1>8, <2>3, <2>4, NobodyApart DEF Operate, InCallback, Locked, TypeOK, Reads, Writes
<1>9. ASSUME NEW c \in Clients, Commit(c) PROVE TypeOK'
  <2>1. data' \in Contents /\ closed' \in BOOLEAN
    BY <1>9 DEF Commit, InCallback, TypeOK
  <2> QED BY <1>9, <2>1, ReturnType DEF Commit, InCallback, Kinds
<1>10. ASSUME NEW c \in Clients, Rollback(c) PROVE TypeOK'
  <2>1. data' \in Contents /\ closed' \in BOOLEAN
    BY <1>10 DEF Rollback, TypeOK
  <2> QED BY <1>10, <2>1, ReturnType DEF Rollback, InCallback, Kinds
<1>11. CASE UNCHANGED vars
  BY <1>11 DEF vars, tx, TypeOK, Reads, Writes
<1> QED BY <1>1, <1>2, <1>3, <1>4, <1>5, <1>6, <1>7, <1>8, <1>9, <1>10, <1>11
        DEF Next, Proceed

(* State has its types in every run, and the lock its discipline: nobody   *)
(* reads while a transaction has a clone, and the clone belongs to the     *)
(* writer's transaction (memory.go, mu).                                   *)
THEOREM TypeCorrect == Spec => []TypeOK
  BY InitType, NextType, PTL DEF Spec

-----------------------------------------------------------------------------
(* MemoryStore implements the contract.                                    *)

(* StoreContract extends KeyValue: its copies of the operators are the     *)
(* same ones.                                                              *)
LEMMA ContractAfter == \A d, s : Contract!After(d, s) = After(d, s)
  BY DEF Contract!After, After

(* Entries is the same.                                                    *)
LEMMA ContractEntries == \A d, keys : Contract!Entries(d, keys) = Entries(d, keys)
  BY DEF Contract!Entries, Entries, Contract!SetToSortSeq, SetToSortSeq,
         Contract!SetToSeq, SetToSeq, Contract!IsInjective, IsInjective,
         Contract!Cardinality, Cardinality, Contract!IsFiniteSet, IsFiniteSet

(* So is what an operation reads.                                          *)
LEMMA ContractSeen == \A d, s : Contract!Seen(d, s) = Seen(d, s)
  BY ContractEntries DEF Contract!Seen, Seen

(* And what a script computes.                                             *)
LEMMA ContractTrace ==
    ASSUME NEW script, NEW d
    PROVE  Contract!Trace(script, d) = Trace(script, d)
  BY ContractAfter, ContractSeen DEF Contract!Trace, Trace

(* A callback has left its clone, and read, what its operations so far make*)
(* of the committed contents; these do not change and the store is not     *)
(* closed while it runs.                                                   *)
CallbackOK ==
    /\ working = Nobody => log = << >>
    /\ working # Nobody =>
         /\ ~closed
         /\ Run(request[writer].script, data)[done] = [data |-> working, reads |-> log]

IInv == TypeOK /\ CallbackOK

(* Within a callback everything is the writer's.                           *)
LEMMA InCallbackState ==
    ASSUME IInv, NEW c \in Clients, InCallback(c)
    PROVE  /\ writer = c /\ request[c].op = "transaction" /\ request[c] # NoRequest
           /\ request[c].script \in Seq(Operations)
           /\ ~closed /\ done \in 0 .. Len(request[c].script)
           /\ Run(request[c].script, data)[done] = [data |-> working, reads |-> log]
<1>1. working # Nobody /\ writer = c /\ request[c] # NoRequest
  BY DEF InCallback, Locked, Writes
<1>2. request[c].op = "transaction" /\ done \in 0 .. Len(request[c].script)
  BY <1>1 DEF IInv, TypeOK
<1>3. request[c].script \in Seq(Operations)
  BY <1>1, <1>2, ScriptType DEF IInv, TypeOK
<1> QED BY <1>1, <1>2, <1>3 DEF IInv, CallbackOK

(* While another call holds no clone, only data and closed matter.         *)
LEMMA CallbackKept == IInv /\ [Next]_vars => CallbackOK'
<1> SUFFICES ASSUME IInv, [Next]_vars PROVE CallbackOK'
  OBVIOUS
<1>1. TypeOK /\ CallbackOK
  BY DEF IInv
<1>2. ASSUME NEW c \in Clients, NEW r \in CallsOf[c], Call(c, r) PROVE CallbackOK'
  <2>1. working # Nobody => writer # c
    BY <1>1, <1>2, NobodyApart DEF Call, TypeOK, Writes
  <2>2. working # Nobody => request'[writer] = request[writer]
    BY <1>1, <1>2, <2>1 DEF Call, TypeOK
  <2> QED BY <1>1, <1>2, <2>2 DEF Call, CallbackOK, tx
<1>3. ASSUME NEW c \in Clients, RLock(c) \/ Lock(c) PROVE CallbackOK'
  <2>1. working # Nobody => writer' = writer
    BY <1>1, <1>3 DEF RLock, Lock, TypeOK
  <2> QED BY <1>1, <1>3, <2>1 DEF RLock, Lock, CallbackOK, tx
<1>4. ASSUME NEW c \in Clients, Read(c) \/ CloseStore(c) \/ RefuseTransaction(c)
      PROVE  CallbackOK'
  <2>1. working = Nobody
    BY <1>1, <1>4, NobodyApart DEF Read, CloseStore, RefuseTransaction, Locked, TypeOK
  <2> QED BY <1>1, <1>4, <2>1 DEF Read, CloseStore, RefuseTransaction, CallbackOK, tx
<1>5. ASSUME NEW c \in Clients, Clone(c) PROVE CallbackOK'
  <2>1. /\ writer' = c /\ request' = request /\ data' = data /\ ~closed'
        /\ working' = data /\ log' = log /\ done' = done
        /\ done = 0 /\ log = << >> /\ data # Nobody
    BY <1>1, <1>5, NobodyApart DEF Clone, Locked, TypeOK, CallbackOK
  <2>2. request[c].script \in Seq(Operations)
    BY <1>1, <1>5, ScriptType DEF Clone, Locked, Writes, TypeOK
  <2>3. Run(request[c].script, data)[0] = [data |-> data, reads |-> << >>]
    BY <2>2, TraceRuns DEF Begun
  <2> QED BY <2>1, <2>3 DEF CallbackOK
<1>6. ASSUME NEW c \in Clients, Operate(c) PROVE CallbackOK'
  <2> DEFINE script == request[c].script
             s == script[done + 1]
             t == Run(script, data)
  <2>1. InCallback(c) /\ done < Len(script)
    BY <1>6 DEF Operate
  <2>2. /\ writer = c /\ script \in Seq(Operations) /\ done \in 0 .. Len(script)
        /\ ~closed /\ t[done] = [data |-> working, reads |-> log]
    BY <2>1, InCallbackState
  <2>3. /\ working' = After(working, s) /\ log' = log \o Seen(working, s)
        /\ done' = done + 1 /\ UNCHANGED <<data, closed, writer, request>>
    BY <1>6 DEF Operate
  <2>4. working' # Nobody
    <3>1. TypeOK'
      BY <1>1, <1>6, NextType DEF Next, Proceed
    <3>2. s \in Operations /\ working \in Contents
      BY <1>1, <2>1, <2>2 DEF TypeOK, InCallback
    <3> QED BY <2>3, <3>2, AfterType, NobodyApart
  <2>5. done \in 0 .. Len(script) - 1
    BY <2>1, <2>2
  <2>6. t[done + 1] = Continued(t[done], s)
    BY <2>2, <2>5, TraceRuns
  <2>7. t[done + 1] = [data |-> After(working, s), reads |-> log \o Seen(working, s)]
    <3> HIDE DEF t, s
    <3> QED BY <2>2, <2>6 DEF Continued
  <2> QED BY <2>2, <2>3, <2>4, <2>7 DEF CallbackOK
<1>7. ASSUME NEW c \in Clients, Commit(c) \/ Rollback(c) PROVE CallbackOK'
  BY <1>7 DEF Commit, Rollback, DropClone, CallbackOK
<1>8. CASE UNCHANGED vars
  BY <1>1, <1>8 DEF vars, tx, CallbackOK
<1> QED BY <1>2, <1>3, <1>4, <1>5, <1>6, <1>7, <1>8 DEF Next, Proceed

(* Every step is one of the contract, or none: the end of Get, Scan,       *)
(* Transaction and Close is where they take effect (memory.go).            *)
THEOREM StepRefines ==
    IInv /\ [Next]_vars => [Contract!ContractNext]_(Contract!contractVars)
<1> SUFFICES ASSUME IInv, [Next]_vars PROVE [Contract!ContractNext]_(Contract!contractVars)
  OBVIOUS
<1> USE DEF Contract!ContractNext, Contract!contractVars
<1>1. TypeOK
  BY DEF IInv
<1>2. ASSUME NEW c \in Clients, NEW r \in CallsOf[c], Call(c, r)
      PROVE  Contract!ContractNext
  BY <1>2 DEF Call, Contract!ContractCall, Contract!NoReply, NoReply
<1>3. ASSUME NEW c \in Clients, RLock(c) \/ Lock(c) \/ Clone(c) \/ Operate(c)
      PROVE  UNCHANGED Contract!contractVars
  BY <1>3 DEF RLock, Lock, Clone, Operate
<1>4. ASSUME NEW c \in Clients, Read(c)
      PROVE  Contract!Refuse(c) \/ Contract!ServeRead(c)
  <2>1. request[c] # NoRequest /\ request[c].op = "read"
    BY <1>1, <1>4 DEF Read, TypeOK, Reads
  <2> QED BY <1>4, <2>1, ContractTrace
          DEF Read, Return, Contract!Refuse, Contract!ServeRead, Contract!Replies
<1>5. ASSUME NEW c \in Clients, CloseStore(c)
      PROVE  Contract!ServeClose(c)
  BY <1>5 DEF CloseStore, Locked, Writes, Return, Contract!ServeClose, Contract!Replies
<1>6. ASSUME NEW c \in Clients, RefuseTransaction(c)
      PROVE  Contract!Refuse(c)
  BY <1>6 DEF RefuseTransaction, Locked, Writes, Return, Contract!Refuse, Contract!Replies
<1>7. ASSUME NEW c \in Clients, InCallback(c), done = Len(request[c].script)
      PROVE  /\ request[c] # NoRequest /\ request[c].op = "transaction" /\ ~closed
             /\ Trace(request[c].script, data).data = working
             /\ Trace(request[c].script, data).reads = log
  BY <1>7, InCallbackState, TraceRuns
<1>8. ASSUME NEW c \in Clients, Commit(c)
      PROVE  Contract!ServeTransaction(c)
  BY <1>7, <1>8, ContractTrace
     DEF Commit, Return, Contract!ServeTransaction, Contract!Replies
<1>9. ASSUME NEW c \in Clients, Rollback(c)
      PROVE  Contract!ServeRollback(c)
  BY <1>7, <1>9, ContractTrace
     DEF Rollback, Return, Contract!ServeRollback, Contract!Replies
<1>10. ASSUME NEW c \in Clients, request[c] # NoRequest,
              \/ Contract!Refuse(c) \/ Contract!ServeRead(c) \/ Contract!ServeTransaction(c)
              \/ Contract!ServeRollback(c) \/ Contract!ServeClose(c)
       PROVE  Contract!ContractNext
  BY <1>10 DEF Contract!Answer
<1>11. ASSUME NEW c \in Clients,
              \/ Read(c) \/ CloseStore(c) \/ RefuseTransaction(c) \/ Commit(c) \/ Rollback(c)
       PROVE  Contract!ContractNext
  <2>1. request[c] # NoRequest
    BY <1>1, <1>11 DEF Read, CloseStore, RefuseTransaction, Commit, Rollback, InCallback,
                       Locked, Writes, TypeOK, Reads
  <2> QED BY <2>1, <1>4, <1>5, <1>6, <1>8, <1>9, <1>10, <1>11
<1>12. CASE UNCHANGED vars
  BY <1>12 DEF vars
<1> QED BY <1>2, <1>3, <1>11, <1>12 DEF Next, Proceed

(* Clients see a store that serves one request at a time, whole or not at  *)
(* all: MemoryStore implements the contract of storage.Store, for any      *)
(* number of goroutines, scripts of any length and every way a callback    *)
(* can end.                                                                *)
THEOREM ContractKept == Spec => ImplementsContract
<1>1. Init => IInv /\ Contract!ContractInit
  BY InitType DEF Init, IInv, CallbackOK, Contract!ContractInit, Contract!NoKeys, NoKeys,
                  Contract!NoReply, NoReply
<1>2. IInv /\ [Next]_vars => IInv'
  BY NextType, CallbackKept DEF IInv
<1> QED BY <1>1, <1>2, StepRefines, PTL DEF Spec, ImplementsContract, Contract!ContractSpec

================================================================================
