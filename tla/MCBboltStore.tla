------------------------------ MODULE MCBboltStore ------------------------------
(* Small instances of BboltStore for TLC. *)
EXTENDS BboltStore, TLC

CONSTANTS v1, v2, c1, c2, c3

INSTANCE StoreRequests

================================================================================
