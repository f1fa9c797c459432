----------------------------- MODULE MCMemoryStore ------------------------------
(* Small instances of MemoryStore for TLC. *)
EXTENDS MemoryStore, TLC

CONSTANTS v1, v2, c1, c2, c3

INSTANCE StoreRequests

================================================================================
