----------------------------- MODULE StoreRequests ------------------------------
(* The calls the small instances of both stores make: single reads,        *)
(* transactions that read what they or others have written, and every way  *)
(* a callback can end after it has written.                                *)
EXTENDS Sequences, TLC

CONSTANTS v1, v2, c1, c2, c3

LOCAL Get(k)    == [op |-> "get", key |-> k]
LOCAL Put(k, v) == [op |-> "put", key |-> k, value |-> v]
LOCAL Delete(k) == [op |-> "delete", key |-> k]
LOCAL Scan      == [op |-> "scan", keys |-> {1, 2}]
LOCAL Tx(script, ends) == [op |-> "transaction", script |-> script, ends |-> ends]

(* One client writes in every way, one reads and writes, and one closes.   *)
MCCallsOf ==
    (c1 :> { Tx(<<Put(2, v2), Scan, Delete(1), Get(1)>>, "nil"),
             Tx(<<Put(1, v2), Delete(2)>>, "error"),
             Tx(<<Put(1, v2), Get(1)>>, "panic") }) @@
    (c2 :> { [op |-> "read", script |-> <<Scan>>],
             Tx(<<Get(2), Put(1, v1)>>, "nil") }) @@
    (c3 :> { [op |-> "read", script |-> <<Get(1)>>],
             [op |-> "close"] })

================================================================================
