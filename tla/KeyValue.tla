-------------------------------- MODULE KeyValue --------------------------------
(***************************************************************************)
(* The data of a Store and the operations a caller or a transaction's      *)
(* callback performs on them (storage/store.go).                           *)
(*                                                                         *)
(* Contents are a function from keys to values, Missing where there is no  *)
(* key.  A prefix scan is given by the keys that have the prefix and yields*)
(* their <<key, value>> pairs in key order.  A transaction's callback is   *)
(* the script of its operations.  Get and Scan outside of a transaction    *)
(* are scripts of one reading operation, Put and Delete are transactions   *)
(* of one writing operation.                                               *)
(***************************************************************************)
EXTENDS Integers, FiniteSets, SequencesExt

CONSTANTS
    Keys,     \* keys, numbered in the order of their bytes
    Values,   \* values
    Missing,  \* no value: ErrNotFound
    Clients,  \* goroutines that use the store
    CallsOf,  \* the calls each of them makes
    NoRequest \* no call

ASSUME KeysOrdered == Keys \subseteq Nat /\ Missing \notin Values

Contents == [Keys -> Values \cup {Missing}]

NoKeys == [k \in Keys |-> Missing]

Operations ==
         [op : {"get", "delete"}, key : Keys]
    \cup [op : {"put"}, key : Keys, value : Values]
    \cup [op : {"scan"}, keys : SUBSET Keys]

(* A read is a Get or a Scan.  The callback of a transaction returns nil   *)
(* at the end of its script, or an error, or it panics there.              *)
Calls ==      [op : {"read"}, script : Seq(Operations)]
         \cup [op : {"transaction"}, script : Seq(Operations), ends : {"nil", "error", "panic"}]
         \cup [op : {"close"}]

ASSUME CallsOfType == CallsOf \in [Clients -> SUBSET Calls] /\ NoRequest \notin Calls

NoReply == [kind |-> "none", reads |-> << >>]

Entries(d, keys) ==
    LET found == {k \in keys : d[k] # Missing}
        order == SetToSortSeq(found, LAMBDA a, b : a < b)
    IN [n \in 1 .. Cardinality(found) |-> <<order[n], d[order[n]]>>]

After(d, s) ==
    IF s.op = "put" THEN [d EXCEPT ![s.key] = s.value]
    ELSE IF s.op = "delete" THEN [d EXCEPT ![s.key] = Missing]
    ELSE d

(* What one operation reads: a value, a list of entries, or nothing.       *)
Seen(d, s) ==
    IF s.op = "get" THEN <<d[s.key]>>
    ELSE IF s.op = "scan" THEN <<Entries(d, s.keys)>>
    ELSE << >>

(* What a whole script leaves of contents d, and what it reads, alone.     *)
Trace(script, d) ==
    LET t[n \in 0 .. Len(script)] ==
          IF n = 0 THEN [data |-> d, reads |-> << >>]
          ELSE [data  |-> After(t[n - 1].data, script[n]),
                reads |-> t[n - 1].reads \o Seen(t[n - 1].data, script[n])]
    IN t[Len(script)]

================================================================================
