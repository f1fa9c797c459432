---------------------------- MODULE BboltStore_proofs ---------------------------
(***************************************************************************)
(* The type and transaction invariant of BboltStore, and that it implements*)
(* the contract of a store, for any clients, keys, values and calls.       *)
(***************************************************************************)
EXTENDS BboltStore, WellFoundedInduction, TLAPS

-----------------------------------------------------------------------------
(* Operations and scripts of them.                                         *)

(* An operation of a script leaves contents that are contents (storage/   *)
(* memory.go memoryTx and bbolt.go bboltTx, Put and Delete).               *)
LEMMA AfterType ==
    ASSUME NEW d \in Contents, NEW s \in Operations
    PROVE  After(d, s) \in Contents
<1>1. CASE s.op = "put"
  <2>1. s.key \in Keys /\ s.value \in Values
    BY <1>1 DEF Operations
  <2> QED BY <1>1, <2>1 DEF After, Contents
<1>2. CASE s.op = "delete"
  <2>1. s.key \in Keys
    BY <1>2 DEF Operations
  <2> QED BY <1>2, <2>1 DEF After, Contents
<1>3. CASE s.op \notin {"put", "delete"}
  BY <1>3 DEF After
<1> QED BY <1>1, <1>2, <1>3

(* A transaction has a script of operations (storage/store.go, Store).     *)
LEMMA ScriptType ==
    ASSUME NEW r \in Calls \cup {NoRequest}, r # NoRequest, r.op = "transaction"
    PROVE  r.script \in Seq(Operations)
  BY DEF Calls

-----------------------------------------------------------------------------
(* What a script computes, one operation after the other.                  *)

Begun(d) == [data |-> d, reads |-> << >>]

(* What operation s makes of what the ones before it have left and read.   *)
Continued(q, s) == [data |-> After(q.data, s), reads |-> q.reads \o Seen(q.data, s)]

(* The function t of Trace: what the first n operations leave and read.    *)
RunsAs(t, script, d, N) ==
    t = [n \in 0 .. N |-> IF n = 0 THEN Begun(d) ELSE Continued(t[n - 1], script[n])]

Run(script, d) == CHOOSE t : RunsAs(t, script, d, Len(script))

(* Induction over the numbers, from the well-foundedness of their order.   *)
LEMMA NumberInduction ==
    ASSUME NEW S \in SUBSET Nat, 0 \in S, \A n \in S : n + 1 \in S
    PROVE  S = Nat
<1> SUFFICES ASSUME Nat \ S # {} PROVE FALSE
  OBVIOUS
<1> DEFINE R == OpToRel(<, Nat)
<1>1. IsWellFoundedOn(R, Nat)
  BY NatLessThanWellFounded, Zenon
<1> HIDE DEF R
<1>2. PICK x \in Nat \ S : \A y \in Nat \ S : ~ (<<y, x>> \in R)
  BY <1>1, WFMin
<1>3. x # 0 /\ x - 1 \in Nat \ S
  OBVIOUS
<1>4. <<x - 1, x>> \in R
  BY <1>3 DEF R, OpToRel
<1> QED BY <1>2, <1>3, <1>4

(* A script of any length runs as such a function.                         *)
LEMMA RunExists ==
    ASSUME NEW script, NEW d, NEW N \in Nat
    PROVE  \E t : RunsAs(t, script, d, N)
<1> DEFINE S == {n \in Nat : \E t : RunsAs(t, script, d, n)}
<1>1. 0 \in S
  <2> DEFINE t == [n \in 0 .. 0 |-> Begun(d)]
  <2>1. RunsAs(t, script, d, 0)
    BY DEF RunsAs
  <2> QED BY <2>1
<1>2. ASSUME NEW n \in S
      PROVE  n + 1 \in S
  <2>1. PICK t : RunsAs(t, script, d, n)
    OBVIOUS
  <2> DEFINE u == [m \in 0 .. n + 1 |-> IF m <= n THEN t[m] ELSE Continued(t[n], script[n + 1])]
  <2>2. \A m \in 0 .. n : t[m] = IF m = 0 THEN Begun(d) ELSE Continued(t[m - 1], script[m])
    BY <2>1 DEF RunsAs
  <2>3. ASSUME NEW m \in 0 .. n + 1
        PROVE  u[m] = IF m = 0 THEN Begun(d) ELSE Continued(u[m - 1], script[m])
    <3>1. CASE m <= n
      <4>1. u[m] = t[m] /\ (m # 0 => u[m - 1] = t[m - 1])
        BY <3>1
      <4> QED BY <3>1, <4>1, <2>2
    <3>2. CASE m = n + 1
      <4>1. u[m] = Continued(t[n], script[n + 1]) /\ u[m - 1] = t[n] /\ m # 0
        BY <3>2
      <4> QED BY <3>2, <4>1
    <3> QED BY <3>1, <3>2
  <2>4. u = [m \in 0 .. n + 1 |-> u[m]]
    OBVIOUS
  <2> HIDE DEF u
  <2>5. RunsAs(u, script, d, n + 1)
    BY <2>3, <2>4 DEF RunsAs
  <2> QED BY <2>5
<1> HIDE DEF S
<1>3. S \in SUBSET Nat
  BY DEF S
<1>4. S = Nat
  BY <1>1, <1>2, <1>3, NumberInduction
<1> QED BY <1>4 DEF S

(* Trace is where it ends, and each operation takes it on by one.          *)
LEMMA TraceRuns ==
    ASSUME NEW script \in Seq(Operations), NEW d
    PROVE  /\ Trace(script, d) = Run(script, d)[Len(script)]
           /\ Run(script, d)[0] = Begun(d)
           /\ \A n \in 0 .. Len(script) - 1 :
                Run(script, d)[n + 1] = Continued(Run(script, d)[n], script[n + 1])
<1> DEFINE t == Run(script, d)
           N == Len(script)
<1>1. N \in Nat
  OBVIOUS
<1>2. RunsAs(t, script, d, N)
  <2>1. \E u : RunsAs(u, script, d, N)
    BY <1>1, RunExists
  <2> QED BY <2>1 DEF Run
<1>3. Trace(script, d) = t[N]
  BY DEF Trace, Run, RunsAs, Begun, Continued
<1> HIDE DEF t, N
<1>4. \A n \in 0 .. N : t[n] = IF n = 0 THEN Begun(d) ELSE Continued(t[n - 1], script[n])
  BY <1>2 DEF RunsAs
<1>5. t[0] = Begun(d)
  BY <1>1, <1>4
<1>6. ASSUME NEW n \in 0 .. N - 1
      PROVE  t[n + 1] = Continued(t[n], script[n + 1])
  <2>1. n + 1 \in 0 .. N /\ n + 1 # 0 /\ (n + 1) - 1 = n
    BY <1>1
  <2> QED BY <2>1, <1>4
<1> QED BY <1>3, <1>5, <1>6 DEF t, N

-----------------------------------------------------------------------------
(* Types and locks.                                                        *)

(* The state OpenBbolt makes of an empty file satisfies the invariant.     *)
LEMMA InitType == Init => TypeOK
<1> SUFFICES ASSUME Init PROVE TypeOK
  OBVIOUS
<1>1. data \in Contents
  BY DEF Init, NoKeys, Contents
<1>2. DOMAIN reply = Clients /\ \A c \in Clients : reply[c].kind \in Kinds
  BY DEF Init, NoReply, Kinds
<1>3. \A c \in Clients : pc[c] = "idle" /\ writer # c /\ snapshot[c] = Nobody
  BY NobodyApart DEF Init
<1>4. pc \in [Clients -> PCs] /\ request \in [Clients -> Calls \cup {NoRequest}]
      /\ snapshot \in [Clients -> Contents \cup {Nobody}]
  BY DEF Init, PCs
<1> QED BY <1>1, <1>2, <1>3, <1>4 DEF Init, InitTx, TypeOK

(* The end of Update gives back the writer's place and its working copy    *)
(* (bbolt.go, Transaction).                                                *)
LEMMA EndUpdateType ==
    ASSUME TypeOK,
           NEW c \in Clients, NEW kind \in Kinds, EndUpdate(c, kind),
           data' \in Contents
    PROVE  TypeOK'
<1>1. writer = c /\ \A o \in Clients : pc[o] \in {"update", "closing"} => o = c
  BY DEF TypeOK, EndUpdate
<1>2. pc' = [pc EXCEPT ![c] = "returning"]
  BY DEF EndUpdate, Decide
<1>3. DOMAIN reply' = Clients /\ \A o \in Clients : reply'[o].kind \in Kinds
  BY DEF EndUpdate, Decide, TypeOK
<1> QED BY <1>1, <1>2, <1>3, NobodyApart DEF TypeOK, EndUpdate, PCs

(* One step of anybody, or the end of the process, keeps the invariant.    *)
LEMMA NextType == TypeOK /\ [Next]_vars => TypeOK'
<1> SUFFICES ASSUME TypeOK, [Next]_vars PROVE TypeOK'
  OBVIOUS
<1>1. ASSUME NEW c \in Clients, NEW r \in CallsOf[c], Call(c, r) PROVE TypeOK'
  <2>1. r \in Calls /\ r # NoRequest
    BY CallsOfType
  <2> QED BY <1>1, <2>1 DEF Call, TypeOK, tx, NoReply, Kinds, PCs
<1>2. ASSUME NEW c \in Clients, TestPointer(c) PROVE TypeOK'
  BY <1>2 DEF TestPointer, Decide, TypeOK, tx, Kinds, PCs
<1>3. ASSUME NEW c \in Clients, NilDereference(c) PROVE TypeOK'
  BY <1>3 DEF NilDereference, Decide, TypeOK, tx, Kinds, PCs
<1>4. ASSUME NEW c \in Clients, NotOpen(c) PROVE TypeOK'
  BY <1>4 DEF NotOpen, Decide, TypeOK, tx, Kinds, PCs
<1>5. ASSUME NEW c \in Clients, BeginView(c) PROVE TypeOK'
  BY <1>5, NobodyApart DEF BeginView, TypeOK, tx, PCs
<1>6. ASSUME NEW c \in Clients, EndView(c) PROVE TypeOK'
  BY <1>6 DEF EndView, Decide, TypeOK, tx, Kinds, PCs
<1>7. ASSUME NEW c \in Clients, BeginUpdate(c) PROVE TypeOK'
  BY <1>7, NobodyApart DEF BeginUpdate, TypeOK, PCs
<1>8. ASSUME NEW c \in Clients, Operate(c) PROVE TypeOK'
  <2>1. request[c].script \in Seq(Operations)
    BY <1>8, ScriptType DEF Operate, InCallback, TypeOK
  <2>2. request[c].script[done + 1] \in Operations
    BY <1>8, <2>1 DEF Operate, InCallback, TypeOK
  <2>3. working \in Contents
    BY <1>8 DEF Operate, InCallback, TypeOK
  <2>4. working' \in Contents /\ working' # Nobody
    BY <1>8, <2>2, <2>3, AfterType, NobodyApart DEF Operate
  <2> QED BY <1>8, <2>4 DEF Operate, InCallback, TypeOK
<1>9. ASSUME NEW c \in Clients, Commit(c) PROVE TypeOK'
  <2>1. data' \in Contents
    BY <1>9 DEF Commit, EndUpdate, TypeOK
  <2> QED BY <1>9, <2>1, EndUpdateType DEF Commit, Kinds
<1>10. ASSUME NEW c \in Clients, CommitFails(c) PROVE TypeOK'
  BY <1>10, EndUpdateType DEF CommitFails, Kinds, TypeOK
<1>11. ASSUME NEW c \in Clients, Rollback(c) PROVE TypeOK'
  BY <1>11, EndUpdateType DEF Rollback, Kinds, TypeOK
<1>12. ASSUME NEW c \in Clients, BeginClose(c) PROVE TypeOK'
  BY <1>12, NobodyApart DEF BeginClose, TypeOK, tx, PCs
<1>13. ASSUME NEW c \in Clients, CloseDatabase(c) PROVE TypeOK'
  BY <1>13, NobodyApart DEF CloseDatabase, TypeOK, tx, PCs
<1>14. ASSUME NEW c \in Clients, ClearPointer(c) PROVE TypeOK'
  BY <1>14 DEF ClearPointer, Decide, TypeOK, tx, Kinds, PCs
<1>15. ASSUME NEW c \in Clients, Return(c) PROVE TypeOK'
  BY <1>15 DEF Return, TypeOK, tx, PCs
<1>16. ASSUME Reopen PROVE TypeOK'
  <2>1. DOMAIN reply' = Clients /\ \A c \in Clients : reply'[c].kind \in Kinds
    BY <1>16 DEF Reopen, NoReply, Kinds
  <2> QED BY <1>16, <2>1, NobodyApart DEF Reopen, TypeOK, PCs
<1>17. CASE UNCHANGED vars
  BY <1>17 DEF vars, tx, TypeOK
<1> QED BY <1>1, <1>2, <1>3, <1>4, <1>5, <1>6, <1>7, <1>8, <1>9, <1>10, <1>11, <1>12,
           <1>13, <1>14, <1>15, <1>16, <1>17 DEF Next, Proceed

(* In every run a working copy belongs to the one client in Update, no     *)
(* transaction outlives the database, and s.db is nil only after it has    *)
(* been closed (bbolt.go, Transaction and Close).                          *)
THEOREM TypeCorrect == Spec => []TypeOK
  BY InitType, NextType, PTL DEF Spec

-----------------------------------------------------------------------------
(* BboltStore implements the contract.                                     *)

(* StoreContract extends KeyValue: its copies of the operators are the     *)
(* same ones.                                                              *)
LEMMA ContractAfter == \A d, s : Contract!After(d, s) = After(d, s)
  BY DEF Contract!After, After

(* Entries is the same.                                                    *)
LEMMA ContractEntries == \A d, keys : Contract!Entries(d, keys) = Entries(d, keys)
  BY DEF Contract!Entries, Entries, Contract!SetToSortSeq, SetToSortSeq,
         Contract!SetToSeq, SetToSeq, Contract!IsInjective, IsInjective,
         Contract!Cardinality, Cardinality, Contract!IsFiniteSet, IsFiniteSet

(* So is what an operation reads.                                          *)
LEMMA ContractSeen == \A d, s : Contract!Seen(d, s) = Seen(d, s)
  BY ContractEntries DEF Contract!Seen, Seen

(* And what a script computes.                                             *)
LEMMA ContractTrace ==
    ASSUME NEW script, NEW d
    PROVE  Contract!Trace(script, d) = Trace(script, d)
  BY ContractAfter, ContractSeen DEF Contract!Trace, Trace

(* The callback of an Update has left its working copy, and read, what its *)
(* operations so far make of the committed contents.                       *)
CallbackOK ==
    /\ working = Nobody => done = 0 /\ log = << >>
    /\ \A c \in Clients : pc[c] = "update" =>
         /\ done <= Len(request[c].script)
         /\ Run(request[c].script, data)[done] = [data |-> working, reads |-> log]

(* The call that reads or closes is one of that kind.                      *)
CallsFit ==
    /\ \A c \in Clients : pc[c] = "view" => request[c].op = "read"
    /\ \A c \in Clients : pc[c] = "closing" => request[c].op = "close"

IInv == TypeOK /\ CallbackOK /\ CallsFit

(* Within an Update everything is the writer's.                            *)
LEMMA UpdateState ==
    ASSUME IInv, NEW c \in Clients, pc[c] = "update"
    PROVE  /\ writer = c /\ request[c].op = "transaction" /\ request[c] # NoRequest
           /\ \A o \in Clients : pc[o] = "update" => o = c
           /\ request[c].script \in Seq(Operations) /\ working \in Contents
           /\ opened /\ done \in 0 .. Len(request[c].script)
           /\ Run(request[c].script, data)[done] = [data |-> working, reads |-> log]
<1>1. TypeOK /\ CallbackOK
  BY DEF IInv
<1>2. writer = c /\ \A o \in Clients : pc[o] = "update" => o = c
  BY <1>1 DEF TypeOK
<1>3. request[c] # NoRequest /\ request[c].op = "transaction" /\ opened
  BY <1>1 DEF TypeOK
<1>4. request[c].script \in Seq(Operations)
  BY <1>1, <1>3, ScriptType DEF TypeOK
<1>5. done \in 0 .. Len(request[c].script)
  BY <1>1, <1>4 DEF TypeOK, CallbackOK
<1>6. working \in Contents
  BY <1>1 DEF TypeOK
<1> QED BY <1>1, <1>2, <1>3, <1>4, <1>5, <1>6 DEF CallbackOK

(* A step outside of the callbacks keeps what these have computed.         *)
LEMMA OutsideKept ==
    ASSUME CallbackOK, NEW c \in Clients, pc[c] # "update", pc'[c] # "update",
           \A o \in Clients \ {c} : pc'[o] = pc[o] /\ request'[o] = request[o],
           UNCHANGED <<data, working, done, log>>
    PROVE  CallbackOK'
  BY DEF CallbackOK

(* Every step keeps the working copy as its callback has made it.          *)
LEMMA CallbackKept == IInv /\ [Next]_vars => CallbackOK'
<1> SUFFICES ASSUME IInv, [Next]_vars PROVE CallbackOK'
  OBVIOUS
<1>1. TypeOK /\ CallbackOK
  BY DEF IInv
<1>2. ASSUME NEW c \in Clients, NEW r \in CallsOf[c], Call(c, r) PROVE CallbackOK'
  BY <1>1, <1>2, OutsideKept DEF Call, TypeOK, tx
<1>3. ASSUME NEW c \in Clients,
             \/ TestPointer(c) \/ NilDereference(c) \/ NotOpen(c) \/ ClearPointer(c)
      PROVE  CallbackOK'
  BY <1>1, <1>3, OutsideKept
     DEF TestPointer, NilDereference, NotOpen, ClearPointer, Decide, TypeOK, tx
<1>4. ASSUME NEW c \in Clients,
             BeginView(c) \/ EndView(c) \/ BeginClose(c) \/ CloseDatabase(c) \/ Return(c)
      PROVE  CallbackOK'
  BY <1>1, <1>4, OutsideKept
     DEF BeginView, EndView, BeginClose, CloseDatabase, Return, Decide, TypeOK, tx
<1>5. ASSUME NEW c \in Clients, BeginUpdate(c) PROVE CallbackOK'
  <2>1. /\ pc' = [pc EXCEPT ![c] = "update"] /\ request' = request /\ data' = data
        /\ working' = data /\ log' = log /\ done' = done
    BY <1>5 DEF BeginUpdate
  <2>2. data # Nobody /\ \A o \in Clients : pc[o] # "update"
    BY <1>1, <1>5, NobodyApart DEF BeginUpdate, TypeOK
  <2>3. done = 0 /\ log = << >>
    BY <1>1, <2>2 DEF TypeOK, CallbackOK
  <2>4. request[c] # NoRequest /\ request[c].op = "transaction"
    BY <1>1, <1>5 DEF BeginUpdate, TypeOK
  <2>5. request[c].script \in Seq(Operations)
    BY <1>1, <2>4, ScriptType DEF TypeOK
  <2>6. /\ Run(request[c].script, data)[0] = [data |-> data, reads |-> << >>]
        /\ 0 <= Len(request[c].script)
    BY <2>5, TraceRuns DEF Begun
  <2>7. \A o \in Clients : pc'[o] = "update" => o = c
    BY <1>1, <2>1, <2>2 DEF TypeOK
  <2> QED BY <2>1, <2>2, <2>3, <2>6, <2>7 DEF CallbackOK
<1>6. ASSUME NEW c \in Clients, Operate(c) PROVE CallbackOK'
  <2> DEFINE script == request[c].script
             s == script[done + 1]
             t == Run(script, data)
  <2>1. pc[c] = "update" /\ done < Len(script)
    BY <1>6 DEF Operate, InCallback
  <2>2. /\ \A o \in Clients : pc[o] = "update" => o = c
        /\ script \in Seq(Operations) /\ done \in 0 .. Len(script) /\ working \in Contents
        /\ t[done] = [data |-> working, reads |-> log]
    BY <2>1, UpdateState
  <2>3. /\ working' = After(working, s) /\ log' = log \o Seen(working, s)
        /\ done' = done + 1 /\ UNCHANGED <<data, pc, request>>
    BY <1>6 DEF Operate
  <2>4. done \in 0 .. Len(script) - 1 /\ s \in Operations
    BY <2>1, <2>2
  <2>5. working' # Nobody
    BY <2>2, <2>3, <2>4, AfterType, NobodyApart
  <2>6. t[done + 1] = Continued(t[done], s)
    BY <2>2, <2>4, TraceRuns
  <2>7. t[done + 1] = [data |-> After(working, s), reads |-> log \o Seen(working, s)]
    <3> HIDE DEF t, s
    <3> QED BY <2>2, <2>6 DEF Continued
  <2>8. done' <= Len(script)
    BY <2>3, <2>4
  <2> QED BY <2>2, <2>3, <2>5, <2>7, <2>8 DEF CallbackOK
<1>7. ASSUME NEW c \in Clients, Commit(c) \/ CommitFails(c) \/ Rollback(c)
      PROVE  CallbackOK'
  <2>1. /\ pc[c] = "update" /\ pc' = [pc EXCEPT ![c] = "returning"]
        /\ done' = 0 /\ log' = << >>
    BY <1>7 DEF Commit, CommitFails, Rollback, EndUpdate, Decide
  <2>2. \A o \in Clients : pc'[o] # "update"
    BY <1>1, <2>1 DEF TypeOK
  <2> QED BY <2>1, <2>2 DEF CallbackOK
<1>8. ASSUME Reopen PROVE CallbackOK'
  BY <1>8 DEF Reopen, CallbackOK
<1>9. CASE UNCHANGED vars
  BY <1>1, <1>9 DEF vars, tx, CallbackOK
<1> QED BY <1>2, <1>3, <1>4, <1>5, <1>6, <1>7, <1>8, <1>9 DEF Next, Proceed

(* Every step keeps the kinds of the calls that read or close.             *)
LEMMA CallsFitKept == IInv /\ [Next]_vars => CallsFit'
<1> SUFFICES ASSUME IInv, [Next]_vars PROVE CallsFit'
  OBVIOUS
<1> USE DEF CallsFit, TypeOK, IInv
<1>1. ASSUME NEW c \in Clients, NEW r \in CallsOf[c], Call(c, r) PROVE CallsFit'
  BY <1>1 DEF Call
<1>2. ASSUME NEW c \in Clients,
             \/ TestPointer(c) \/ NilDereference(c) \/ NotOpen(c) \/ ClearPointer(c)
      PROVE  CallsFit'
  BY <1>2 DEF TestPointer, NilDereference, NotOpen, ClearPointer, Decide
<1>3. ASSUME NEW c \in Clients,
             BeginView(c) \/ EndView(c) \/ BeginClose(c) \/ CloseDatabase(c) \/ Return(c)
      PROVE  CallsFit'
  BY <1>3 DEF BeginView, EndView, BeginClose, CloseDatabase, Return, Decide
<1>4. ASSUME NEW c \in Clients,
             BeginUpdate(c) \/ Operate(c) \/ Commit(c) \/ CommitFails(c) \/ Rollback(c)
      PROVE  CallsFit'
  BY <1>4 DEF BeginUpdate, Operate, Commit, CommitFails, Rollback, EndUpdate, Decide
<1>5. ASSUME Reopen PROVE CallsFit'
  BY <1>5 DEF Reopen
<1>6. CASE UNCHANGED vars
  BY <1>6 DEF vars
<1> QED BY <1>1, <1>2, <1>3, <1>4, <1>5, <1>6 DEF Next, Proceed

-----------------------------------------------------------------------------
(* What others see of the calls.                                           *)

(* Only client c moves.                                                    *)
Alone(c) ==
    \A o \in Clients \ {c} :
        /\ pc'[o] = pc[o] /\ request'[o] = request[o]
        /\ reply'[o] = reply[o] /\ snapshot'[o] = snapshot[o]

(* The others are seen as before.                                          *)
LEMMA AloneSeen ==
    ASSUME NEW c \in Clients, Alone(c)
    PROVE  /\ RequestSeen' = [RequestSeen EXCEPT ![c] = RequestSeen'[c]]
           /\ ReplySeen' = [ReplySeen EXCEPT ![c] = ReplySeen'[c]]
<1>1. \A o \in Clients \ {c} : Decided(o)' = Decided(o)
  BY DEF Alone, Decided
<1>2. \A o \in Clients \ {c} : RequestSeen'[o] = RequestSeen[o]
  BY <1>1 DEF Alone, RequestSeen
<1>3. \A o \in Clients \ {c} : ReplySeen'[o] = ReplySeen[o]
  BY DEF Alone, ReplySeen
<1> QED BY <1>2, <1>3 DEF RequestSeen, ReplySeen

(* A step of which nobody can learn.                                       *)
LEMMA NothingSeen ==
    ASSUME NEW c \in Clients, Alone(c), UNCHANGED <<data, opened>>,
           RequestSeen'[c] = RequestSeen[c], ReplySeen'[c] = ReplySeen[c]
    PROVE  UNCHANGED Contract!contractVars
<1>1. RequestSeen' = [RequestSeen EXCEPT ![c] = RequestSeen[c]]
      /\ ReplySeen' = [ReplySeen EXCEPT ![c] = ReplySeen[c]]
  BY AloneSeen
<1>2. RequestSeen' = RequestSeen /\ ReplySeen' = ReplySeen
  BY <1>1 DEF RequestSeen, ReplySeen
<1> QED BY <1>2 DEF Contract!contractVars

(* The step at which a call is decided.                                    *)
LEMMA ReplyIsSeen ==
    ASSUME NEW c \in Clients, Alone(c), NEW kind, NEW reads, request[c] # NoRequest,
           ~Decided(c), Decided(c)', ReplySeen'[c] = [kind |-> kind, reads |-> reads]
    PROVE  /\ RequestSeen[c] = request[c] /\ RequestSeen[c] # NoRequest
           /\ Contract!Replies(c, kind, reads)
<1>1. RequestSeen[c] = request[c] /\ RequestSeen'[c] = NoRequest
  BY DEF RequestSeen
<1> QED BY <1>1, AloneSeen DEF Contract!Replies

(* A call that is decided by its reply.                                    *)
LEMMA DecideIsSeen ==
    ASSUME TypeOK, NEW c \in Clients, NEW kind, NEW reads, Decide(c, kind, reads),
           pc[c] \in {"called", "tested", "update", "closing"},
           UNCHANGED <<request, snapshot>>
    PROVE  /\ RequestSeen[c] = request[c] /\ RequestSeen[c] # NoRequest
           /\ Contract!Replies(c, kind, reads)
<1>1. Alone(c) /\ request[c] # NoRequest
  BY DEF Alone, Decide, TypeOK
<1>2. ~Decided(c) /\ Decided(c)'
  BY DEF Decide, Decided, TypeOK
<1>3. ReplySeen'[c] = [kind |-> kind, reads |-> reads]
  <2>1. pc'[c] = "returning" /\ reply'[c] = [kind |-> kind, reads |-> reads]
    BY DEF Decide, TypeOK
  <2> QED BY <2>1 DEF ReplySeen
<1> QED BY <1>1, <1>2, <1>3, ReplyIsSeen

(* The kinds of steps that answer a call.                                  *)
LEMMA AnswerIsNext ==
    ASSUME NEW c \in Clients, RequestSeen[c] # NoRequest,
           \/ Contract!Refuse(c) \/ Contract!ServeRead(c) \/ Contract!ServeTransaction(c)
           \/ Contract!ServeRollback(c) \/ Contract!ServeClose(c) \/ Contract!Panic(c)
    PROVE  Contract!ContractNext
  BY DEF Contract!ContractNext, Contract!Answer

(* A call begins when it is made.                                          *)
LEMMA CallStep ==
    ASSUME TypeOK, NEW c \in Clients, NEW r \in CallsOf[c], Call(c, r)
    PROVE  Contract!ContractNext
<1>1. Alone(c) /\ pc[c] = "idle" /\ pc'[c] = "called" /\ request'[c] = r /\ reply'[c] = NoReply
  BY DEF Call, Alone, TypeOK
<1>2. RequestSeen[c] = NoRequest /\ RequestSeen'[c] = r /\ ReplySeen'[c] = NoReply
  BY <1>1 DEF RequestSeen, ReplySeen, Decided
<1>3. Contract!ContractCall(c, r)
  BY <1>1, <1>2, AloneSeen DEF Call, Contract!ContractCall, Contract!NoReply, NoReply
<1> QED BY <1>3 DEF Contract!ContractNext

(* The first test of s.db goes on, or refuses the call.                    *)
LEMMA TestStep ==
    ASSUME TypeOK, NEW c \in Clients, TestPointer(c)
    PROVE  Contract!ContractNext \/ UNCHANGED Contract!contractVars
<1>1. CASE db
  <2>1. Alone(c) /\ pc[c] = "called" /\ pc'[c] = "tested" /\ request' = request /\ reply' = reply
    BY <1>1 DEF TestPointer, Alone, TypeOK
  <2>2. RequestSeen'[c] = RequestSeen[c] /\ ReplySeen'[c] = ReplySeen[c]
    BY <2>1 DEF RequestSeen, ReplySeen, Decided
  <2> QED BY <2>1, <2>2, NothingSeen DEF TestPointer
<1>2. CASE ~db
  <2> DEFINE kind == IF request[c].op = "close" THEN "ok" ELSE "closed"
  <2>1. Decide(c, kind, << >>) /\ pc[c] = "called" /\ UNCHANGED <<request, snapshot, data, opened>>
    BY <1>2 DEF TestPointer
  <2>2. /\ RequestSeen[c] = request[c] /\ RequestSeen[c] # NoRequest
        /\ Contract!Replies(c, kind, << >>)
    <3> HIDE DEF kind
    <3> QED BY <2>1, DecideIsSeen
  <2>3. ~opened
    BY <1>2 DEF TypeOK
  <2>4. Contract!Refuse(c) \/ Contract!ServeClose(c)
    BY <2>1, <2>2, <2>3 DEF Contract!Refuse, Contract!ServeClose
  <2> QED BY <2>2, <2>4, AnswerIsNext
<1> QED BY <1>1, <1>2

(* A call that Close has overtaken panics or is refused.                   *)
LEMMA OvertakenStep ==
    ASSUME TypeOK, NEW c \in Clients, NilDereference(c) \/ NotOpen(c)
    PROVE  Contract!ContractNext
<1>1. CASE NilDereference(c)
  <2>1. /\ RequestSeen[c] = request[c] /\ RequestSeen[c] # NoRequest
        /\ Contract!Replies(c, "panic", << >>)
    BY <1>1, DecideIsSeen DEF NilDereference
  <2>2. Contract!Panic(c)
    BY <1>1, <2>1 DEF NilDereference, Contract!Panic, TypeOK
  <2> QED BY <2>1, <2>2, AnswerIsNext
<1>2. CASE NotOpen(c)
  <2>1. /\ RequestSeen[c] = request[c] /\ RequestSeen[c] # NoRequest
        /\ Contract!Replies(c, "closed", << >>)
    BY <1>2, DecideIsSeen DEF NotOpen
  <2>2. Contract!Refuse(c)
    BY <1>2, <2>1 DEF NotOpen, Contract!Refuse
  <2> QED BY <2>1, <2>2, AnswerIsNext
<1> QED BY <1>1, <1>2

(* A View is decided when it takes its snapshot, and its end says the same.*)
LEMMA ViewStep ==
    ASSUME TypeOK, NEW c \in Clients, BeginView(c)
    PROVE  Contract!ContractNext
<1>1. /\ Alone(c) /\ pc[c] = "tested" /\ pc'[c] = "view" /\ snapshot'[c] = data
      /\ request' = request /\ request[c] # NoRequest /\ request[c].op = "read" /\ opened
      /\ UNCHANGED <<data, opened>>
  BY DEF BeginView, Alone, TypeOK
<1>2. ~Decided(c) /\ Decided(c)'
  BY <1>1 DEF Decided
<1>3. ReplySeen'[c] = [kind |-> "ok", reads |-> Trace(request[c].script, data).reads]
  BY <1>1 DEF ReplySeen
<1>4. /\ RequestSeen[c] = request[c] /\ RequestSeen[c] # NoRequest
      /\ Contract!Replies(c, "ok", Trace(request[c].script, data).reads)
  BY <1>1, <1>2, <1>3, ReplyIsSeen
<1>5. Contract!ServeRead(c)
  BY <1>1, <1>4, ContractTrace DEF Contract!ServeRead
<1> QED BY <1>4, <1>5, AnswerIsNext

(* What comes after a decision, and what comes before it, is not seen.     *)
LEMMA QuietStep ==
    ASSUME TypeOK, NEW c \in Clients,
           EndView(c) \/ ClearPointer(c) \/ Return(c) \/ BeginClose(c) \/ BeginUpdate(c) \/ Operate(c)
    PROVE  UNCHANGED Contract!contractVars
<1>1. Alone(c) /\ UNCHANGED <<data, opened>>
  BY DEF EndView, ClearPointer, Return, BeginClose, BeginUpdate, Operate, Decide, Alone, TypeOK
<1>2. RequestSeen'[c] = RequestSeen[c]
  BY DEF EndView, ClearPointer, Return, BeginClose, BeginUpdate, Operate, Decide, TypeOK,
         RequestSeen, Decided
<1>3. CASE EndView(c) \/ ClearPointer(c)
  <2>1. pc'[c] = "returning"
    BY <1>3 DEF EndView, ClearPointer, Decide, TypeOK
  <2>2. reply'[c] = ReplySeen[c]
    BY <1>3 DEF EndView, ClearPointer, Decide, TypeOK, ReplySeen
  <2> QED BY <1>1, <1>2, <2>1, <2>2, NothingSeen DEF ReplySeen
<1>4. CASE Return(c) \/ BeginClose(c) \/ BeginUpdate(c) \/ Operate(c)
  <2>1. reply' = reply /\ pc[c] \notin {"view", "closed"} /\ pc'[c] \notin {"view", "closed"}
    BY <1>4 DEF Return, BeginClose, BeginUpdate, Operate, InCallback, TypeOK
  <2>2. ReplySeen'[c] = ReplySeen[c]
    BY <2>1 DEF ReplySeen
  <2> QED BY <1>1, <1>2, <2>2, NothingSeen
<1> QED BY <1>3, <1>4

(* An Update is decided when it commits or is rolled back.                 *)
LEMMA UpdateStep ==
    ASSUME IInv, NEW c \in Clients, Commit(c) \/ CommitFails(c) \/ Rollback(c)
    PROVE  Contract!ContractNext
<1>1. pc[c] = "update" /\ ~InCallback(c) /\ UNCHANGED <<opened, request, snapshot>>
  BY DEF Commit, CommitFails, Rollback, EndUpdate
<1>2. /\ request[c].op = "transaction" /\ opened
      /\ request[c].script \in Seq(Operations) /\ done \in 0 .. Len(request[c].script)
      /\ Run(request[c].script, data)[done] = [data |-> working, reads |-> log]
  BY <1>1, UpdateState
<1>3. done = Len(request[c].script)
  BY <1>1, <1>2 DEF InCallback
<1>4. Trace(request[c].script, data) = [data |-> working, reads |-> log]
  BY <1>2, <1>3, TraceRuns
<1>5. ASSUME NEW kind, Decide(c, kind, log)
      PROVE  /\ RequestSeen[c] = request[c] /\ RequestSeen[c] # NoRequest
             /\ Contract!Replies(c, kind, log)
  BY <1>1, <1>5, DecideIsSeen DEF IInv
<1>6. CASE Commit(c)
  <2>1. Decide(c, "ok", log) /\ data' = working /\ request[c].ends = "nil"
    BY <1>6 DEF Commit, EndUpdate
  <2>2. Contract!ServeTransaction(c)
    BY <1>1, <1>2, <1>4, <1>5, <2>1, ContractTrace DEF Contract!ServeTransaction
  <2> QED BY <1>5, <2>1, <2>2, AnswerIsNext
<1>7. CASE CommitFails(c) \/ Rollback(c)
  <2> DEFINE kind == IF request[c].ends = "panic" THEN "panic" ELSE "failed"
  <2>1. Decide(c, kind, log) /\ data' = data
    BY <1>7 DEF CommitFails, Rollback, EndUpdate
  <2>2. /\ RequestSeen[c] = request[c] /\ RequestSeen[c] # NoRequest
        /\ Contract!Replies(c, kind, log)
    <3> HIDE DEF kind
    <3> QED BY <1>5, <2>1
  <2>3. Contract!ServeRollback(c)
    BY <1>1, <1>2, <1>4, <2>1, <2>2, ContractTrace DEF Contract!ServeRollback
  <2> QED BY <2>2, <2>3, AnswerIsNext
<1> QED BY <1>6, <1>7

(* A Close is decided when the database is closed.                         *)
LEMMA CloseStep ==
    ASSUME IInv, NEW c \in Clients, CloseDatabase(c)
    PROVE  Contract!ContractNext
<1>1. /\ Alone(c) /\ pc[c] = "closing" /\ pc'[c] = "closed" /\ request[c] # NoRequest
      /\ request[c].op = "close" /\ data' = data /\ opened' = FALSE
  BY DEF CloseDatabase, Alone, IInv, TypeOK, CallsFit
<1>2. ~Decided(c) /\ Decided(c)' /\ ReplySeen'[c] = [kind |-> "ok", reads |-> << >>]
  BY <1>1 DEF Decided, ReplySeen
<1>3. /\ RequestSeen[c] = request[c] /\ RequestSeen[c] # NoRequest
      /\ Contract!Replies(c, "ok", << >>)
  BY <1>1, <1>2, ReplyIsSeen
<1>4. Contract!ServeClose(c)
  BY <1>1, <1>3 DEF Contract!ServeClose
<1> QED BY <1>3, <1>4, AnswerIsNext

(* Every step is one of the contract, or none, through failing commits, the*)
(* end of the process and a Close that overtakes other calls (bbolt.go).   *)
THEOREM StepRefines ==
    IInv /\ [Next]_vars => [Contract!ContractNext]_(Contract!contractVars)
<1> SUFFICES ASSUME IInv, [Next]_vars
             PROVE  Contract!ContractNext \/ UNCHANGED Contract!contractVars
  OBVIOUS
<1>1. TypeOK
  BY DEF IInv
<1>2. ASSUME NEW c \in Clients, Proceed(c) \/ BeginUpdate(c) \/ BeginClose(c)
      PROVE  Contract!ContractNext \/ UNCHANGED Contract!contractVars
  BY <1>1, <1>2, TestStep, OvertakenStep, ViewStep, QuietStep, UpdateStep, CloseStep DEF Proceed
<1>3. ASSUME Reopen
      PROVE  Contract!ContractNext
  <2>1. RequestSeen' = [c \in Clients |-> NoRequest]
    BY <1>3 DEF Reopen, RequestSeen
  <2>2. ReplySeen' = [c \in Clients |-> NoReply]
    BY <1>3 DEF Reopen, ReplySeen
  <2>3. Contract!ContractReopen
    BY <1>3, <2>1, <2>2 DEF Reopen, Contract!ContractReopen, Contract!NoReply, NoReply
  <2> QED BY <2>3 DEF Contract!ContractNext
<1>4. CASE UNCHANGED vars
  <2>1. RequestSeen' = RequestSeen
    BY <1>4 DEF vars, RequestSeen, Decided
  <2>2. ReplySeen' = ReplySeen
    BY <1>4 DEF vars, ReplySeen
  <2> QED BY <1>4, <2>1, <2>2 DEF vars, Contract!contractVars
<1> QED BY <1>1, <1>2, <1>3, <1>4, CallStep DEF Next

(* Clients see a store that serves one request at a time, whole or not at  *)
(* all: BboltStore implements the contract of storage.Store, for any number*)
(* of goroutines, scripts of any length and every way a callback can end.  *)
THEOREM ContractKept == Spec => ImplementsContract
<1>1. Init => IInv
  BY InitType DEF Init, InitTx, IInv, CallbackOK, CallsFit
<1>2. Init => Contract!ContractInit
  BY DEF Init, Contract!ContractInit, Contract!NoKeys, NoKeys, Contract!NoReply, NoReply,
         RequestSeen, ReplySeen, Decided
<1>3. IInv /\ [Next]_vars => IInv'
  BY NextType, CallbackKept, CallsFitKept DEF IInv
<1> QED BY <1>1, <1>2, <1>3, StepRefines, PTL DEF Spec, ImplementsContract, Contract!ContractSpec

================================================================================
