--------------------------- MODULE IndexCorrectness ----------------------------
(***************************************************************************)
(* What is checked of IndexWriter: the transaction invariants documented   *)
(* in docs/storage-schema_en.md, the discipline of locks, progress, and    *)
(* that the write path implements IndexPromise.                            *)
(***************************************************************************)
EXTENDS IndexWriter

(* Deleted or replaced text leaves no ghost posting: a docmeta has its     *)
(* document, and the postings are those of the stored term vectors, even   *)
(* when the analyzer has changed since (writer.go:64, types.go:36).        *)
NoGhosts == DocumentsPaired(store) /\ PostingsExact(store)

(* The dictionary counts the postings: df is the number of posting keys,   *)
(* total frequency the number of positions, and a term without a posting   *)
(* has no entry (schema docs, writer.go:94-110 and 171-188).               *)
DictionaryCounts == DictionaryExact(store)

(* document_count is the number of documents and each total field length   *)
(* the sum of the docmeta lengths, whatever was replaced, deleted, rolled  *)
(* back or rebuilt on the way.                                             *)
StatsAddUp == StatsExact([store EXCEPT !.global = Initialized(store).global])

(* Between any two documents of a batch or of Rebuild the private copy and *)
(* its local GlobalStats are as exact as the committed contents.           *)
WorkExact == work # Missing => Exact(work)

(* A removal never has to guess: the dictionary has each term of the old   *)
(* vectors, and no defensive clamp of removeVectors or Delete takes effect.*)
RemovalExact(id) ==
    work.meta[id] # Missing =>
      /\ ~RemoveFails(work, id)
      /\ work.global.count > 0
      /\ \A f \in Fields : work.global.total[f] >= work.meta[id].lengths[f]
      /\ \A k \in Slots : LET n == Cardinality(work.meta[id].vectors[k]) IN
            n > 0 => /\ work.term[k].df = 1 => work.term[k].tf = n
                     /\ work.term[k].df > 1 => work.term[k].tf > n

RemovalNeverGuesses == work # Missing => \A id \in IDs : RemovalExact(id)

(* Every way out of a call gives its locks back, and a goroutine inside    *)
(* the store's transaction holds its handle's lock.                        *)
LocksFollowCalls ==
    /\ \A h \in Handles, p \in Procs :
          mu[h] = p <=> HandleOf[p] = h /\ pc[p] \in {"locked", "body", "commit"}
    /\ \A p \in Procs : owner = p <=> pc[p] \in {"body", "commit"}
    /\ owner = Nobody <=> work = Missing

(* Rebuild makes every index exact again from its documents alone, however *)
(* the derived data was damaged: no ID is lost, a document of the early    *)
(* schema gets its ID as key unless a newer version is there, and all is   *)
(* analyzed by the configured analyzer (rebuild.go:11-15, architecture     *)
(* docs, "Consistency").                                                   *)
Source(s, id) ==
    LET older == {n \in LegacyKeys : s.legacy[n] # Missing /\ s.legacy[n].id = id} IN
    IF s.doc[id] # Missing \/ older = {} THEN s.doc[id]
    ELSE s.legacy[CHOOSE n \in older : \A m \in older : m <= n].fields

RebuildCommits(p) ==
    call[p].op = "rebuild" /\ call'[p] = NoCall /\ answer'[p] = "ok"

RebuildRepairs ==
    [][\A p \in Procs : RebuildCommits(p) =>
         /\ Exact(store')
         /\ \A n \in LegacyKeys : store'.legacy[n] = Missing
         /\ \A id \in IDs :
              /\ store'.doc[id] = Source(store, id)
              /\ store'.doc[id] # Missing =>
                   store'.meta[id] = MetaOf(opened[HandleOf[p]], store'.doc[id])]_vars

(* A write transaction fills in a nil TotalFieldLength before it uses it,  *)
(* so metadata of an early version makes no call panic (writer.go:207-209).*)
NoPanic == \A p \in Procs : answer[p] # "panic"

(* Every call returns: no lock is kept and no wait is for ever.            *)
EveryCallReturns == \A p \in Procs : pc[p] # "idle" ~> pc[p] = "idle"

-----------------------------------------------------------------------------
(* The documents contents s hold with their analysis, and what readers see *)
(* of them.                                                                *)
Held(s) ==
    [id \in IDs |-> IF s.doc[id] = Missing THEN Missing
                    ELSE [doc |-> s.doc[id], meta |-> s.meta[id]]]

Shown(s) ==
    [posting |-> s.posting, term |-> s.term,
     count |-> Initialized(s).global.count, total |-> Initialized(s).global.total]

Promise == INSTANCE IndexPromise WITH live <- Held(store), shown <- Shown(store)

(* Every call takes effect in one step or not at all: all documents of a   *)
(* batch with the later of two equal IDs staying, only those; an error     *)
(* answer means no effect, across failures and restarts, and readers see   *)
(* the derived data of the documents and of nothing else.                  *)
ImplementsPromise == Promise!PromiseSpec

================================================================================
