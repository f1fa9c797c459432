------------------------------ MODULE StoredIndex ------------------------------
(***************************************************************************)
(* The contents of one Koris store and what the write path does to them.   *)
(*                                                                         *)
(* A store holds six families of keys (index/schema.go).  Each family is  *)
(* a field of the record that models a store:                              *)
(*   doc[id]         document/<id>              the original Document      *)
(*   meta[id]        docmeta/<id>               lengths and term vectors   *)
(*   posting[k][id]  posting/<field>/<term>/<id> with k = <<field, term>>  *)
(*   term[k]         term/<field>/<term>        DF and total TF            *)
(*   global          meta/global                GlobalStats                *)
(*   legacy[n]       document/<16 digits>       a document of the early    *)
(*                   schema, under a number; only Rebuild reads these      *)
(* An absent key has the value Missing (storage.ErrNotFound); a posting is *)
(* absent when it has no position, since the code never writes one without.*)
(*                                                                         *)
(* The operators below are pure: they map the contents a transaction sees  *)
(* to the contents it leaves.  IndexWriter.tla says who runs them and when.*)
(***************************************************************************)
EXTENDS Integers, Sequences, FiniteSets

CONSTANTS
    IDs,         \* document IDs
    Fields,      \* field names
    Terms,       \* non-empty terms an analyzer may emit
    EmptyTerm,   \* the term "": counted in a length, never posted
    Texts,       \* field values
    Analyzers,   \* analyzer configurations of an Index (WithAnalyzer, WithFieldAnalyzer)
    LegacyKeys,  \* the numbers documents of the early schema are stored under
    Analysis,    \* Analysis[a][f][x]: the terms of the tokens of text x of field f
    Missing,     \* an absent key, an absent field, an unopened handle
    NilMap       \* the nil Go map

Slots == Fields \X Terms

Document == [Fields -> Texts \cup {Missing}]
Meta     == [lengths : [Fields -> Nat], vectors : [Slots -> SUBSET Nat]]
TermInfo == [df : Nat, tf : Nat]
LegacyDocument == [id : IDs, fields : Document]
Global   == [count : Nat, total : [Fields -> Nat] \cup {NilMap}]

Store == [doc     : [IDs -> Document \cup {Missing}],
          meta    : [IDs -> Meta \cup {Missing}],
          posting : [Slots -> [IDs -> SUBSET Nat]],
          term    : [Slots -> TermInfo \cup {Missing}],
          global  : Global \cup {Missing},
          legacy  : [LegacyKeys -> LegacyDocument \cup {Missing}]]

(* IDs is finite because a store is; the other constants only have a type, *)
(* and the markers differ from the values they stand beside.               *)
ASSUME FiniteIDs == IsFiniteSet(IDs)

ASSUME LegacyKeysNumbers == LegacyKeys \subseteq Nat

ASSUME AnalysisType ==
    Analysis \in [Analyzers -> [Fields -> [Texts -> Seq(Terms \cup {EmptyTerm})]]]

ASSUME MarkersDiffer ==
    /\ EmptyTerm \notin Terms
    /\ Missing \notin Texts \cup Analyzers
    /\ Missing \notin Document
    /\ Missing \notin LegacyDocument
    /\ Missing \notin Meta
    /\ Missing \notin TermInfo
    /\ Missing \notin Global
    /\ Missing \notin Store
    /\ Missing \notin [doc : Document, meta : Meta]
    /\ NilMap \notin [Fields -> Nat]

-----------------------------------------------------------------------------
(* Analysis of a document (writer.go:82-96).  A position is the ordinal of *)
(* its token: gaps left by a filter matter to phrase queries only.         *)

Analyze(a, d, f) == IF d[f] = Missing THEN << >> ELSE Analysis[a][f][d[f]]

PositionsOf(s, t) == {n \in 1 .. Len(s) : s[n] = t}

MetaOf(a, d) ==
    [lengths |-> [f \in Fields |-> Len(Analyze(a, d, f))],
     vectors |-> [k \in Slots |-> PositionsOf(Analyze(a, d, k[1]), k[2])]]

ZeroGlobal == [count |-> 0, total |-> [f \in Fields |-> 0]]

EmptyStore == [doc     |-> [id \in IDs |-> Missing],
               meta    |-> [id \in IDs |-> Missing],
               posting |-> [k \in Slots |-> [id \in IDs |-> {}]],
               term    |-> [k \in Slots |-> Missing],
               global  |-> Missing,
               legacy  |-> [n \in LegacyKeys |-> Missing]]

(* New(store): an existing meta/global is kept as it is. *)
Initialized(s) == IF s.global = Missing THEN [s EXCEPT !.global = ZeroGlobal] ELSE s

EnsureGlobalMaps(g) == IF g.total = NilMap THEN [g EXCEPT !.total = ZeroGlobal.total] ELSE g

-----------------------------------------------------------------------------
(* removeVectors: take back what the old term vectors contributed.  The    *)
(* lookup of a term that is not in the dictionary is an error.             *)

RemoveFails(w, id) == \E k \in Slots : w.meta[id].vectors[k] # {} /\ w.term[k] = Missing

(* Faults: an entry with no document left stays; df is never taken back.   *)
LessTermKeepsEntry(info, n) ==
    [df |-> info.df - 1, tf |-> IF info.tf >= n THEN info.tf - n ELSE info.tf]

LessTermKeepsCount(info, n) ==
    IF info.df <= 1 THEN Missing ELSE [info EXCEPT !.tf = IF @ >= n THEN @ - n ELSE @]

LessTerm(info, n) ==
    IF info.df <= 1 THEN Missing
    ELSE [df |-> info.df - 1, tf |-> IF info.tf >= n THEN info.tf - n ELSE info.tf]

RemoveVectors(w, id) ==
    LET m == w.meta[id] IN
    [w EXCEPT
       !.posting = [k \in Slots |-> IF m.vectors[k] = {} THEN @[k] ELSE [@[k] EXCEPT ![id] = {}]],
       !.term    = [k \in Slots |-> IF m.vectors[k] = {} THEN @[k]
                                    ELSE LessTerm(@[k], Cardinality(m.vectors[k]))],
       !.global.total = [f \in Fields |-> IF @[f] >= m.lengths[f] THEN @[f] - m.lengths[f] ELSE 0]]

(* The loop of addInTransaction over the fields of the new version. *)

(* Fault: the total frequency of a known term is overwritten.              *)
MoreTermOverwrites(info, n) ==
    IF info = Missing THEN [df |-> 1, tf |-> n] ELSE [df |-> info.df + 1, tf |-> n]

MoreTerm(info, n) ==
    IF info = Missing THEN [df |-> 1, tf |-> n] ELSE [df |-> info.df + 1, tf |-> info.tf + n]

AddVectors(w, id, m) ==
    [w EXCEPT
       !.posting = [k \in Slots |-> IF m.vectors[k] = {} THEN @[k]
                                    ELSE [@[k] EXCEPT ![id] = m.vectors[k]]],
       !.term    = [k \in Slots |-> IF m.vectors[k] = {} THEN @[k]
                                    ELSE MoreTerm(@[k], Cardinality(m.vectors[k]))],
       !.global.total = [f \in Fields |-> @[f] + m.lengths[f]]]

(* Faults: a replacement counts as a new document; or takes one away.      *)
ClearedCountsAll(w, id) ==
    IF w.meta[id] = Missing THEN [w EXCEPT !.global.count = @ + 1]
    ELSE [RemoveVectors(w, id) EXCEPT !.global.count = @ + 1]

ClearedTakesAway(w, id) ==
    IF w.meta[id] = Missing THEN [w EXCEPT !.global.count = @ + 1]
    ELSE [RemoveVectors(w, id) EXCEPT !.global.count = @ - 1]

(* A new ID counts; an existing one first gives back its old vectors, with *)
(* no use of the analyzer that is configured now.                          *)
Cleared(w, id) ==
    IF w.meta[id] = Missing THEN [w EXCEPT !.global.count = @ + 1] ELSE RemoveVectors(w, id)

AddFails(w, id) == w.meta[id] # Missing /\ RemoveFails(w, id)

(* Faults: the old version is analyzed again instead of using its stored   *)
(* vectors, skipping terms that are not in the dictionary; only the fields *)
(* that the new version has are cleared.                                   *)
AddAnalyzesAgain(w, a, id, d) ==
    LET m == MetaOf(a, d)
        v == IF w.meta[id] = Missing THEN w
             ELSE [w EXCEPT !.meta[id].vectors =
                      [k \in Slots |-> IF w.term[k] = Missing THEN {}
                                       ELSE MetaOf(a, w.doc[id]).vectors[k]]]
    IN [AddVectors(Cleared(v, id), id, m) EXCEPT !.doc[id] = d, !.meta[id] = m]

AddKeepsOldFields(w, a, id, d) ==
    LET m == MetaOf(a, d)
        v == IF w.meta[id] = Missing THEN w
             ELSE [w EXCEPT !.meta[id].vectors =
                      [k \in Slots |-> IF d[k[1]] = Missing THEN {} ELSE @[k]]]
    IN [AddVectors(Cleared(v, id), id, m) EXCEPT !.doc[id] = d, !.meta[id] = m]

AddInTransaction(w, a, id, d) ==
    LET m == MetaOf(a, d) IN
    [AddVectors(Cleared(w, id), id, m) EXCEPT !.doc[id] = d, !.meta[id] = m]

DeleteInTransaction(w, id) ==
    [RemoveVectors(w, id) EXCEPT
       !.global.count = IF @ > 0 THEN @ - 1 ELSE @,
       !.doc[id] = Missing, !.meta[id] = Missing]

(* Rebuild empties every family of keys before it replays the documents.   *)
ClearedForRebuild == [EmptyStore EXCEPT !.global = ZeroGlobal]

-----------------------------------------------------------------------------
(* What the documented transaction invariants say of one store's contents. *)

Live(s) == {id \in IDs : s.meta[id] # Missing}

Holders(p) == {id \in IDs : p[id] # {}}

Pairs(p) == UNION {{id} \X p[id] : id \in IDs}

(* The positions 1 .. length of every live document's field f. *)
Ordinals(s, f) == [id \in IDs |-> IF s.meta[id] = Missing THEN {} ELSE 1 .. s.meta[id].lengths[f]]

DocumentsPaired(s) == \A id \in IDs : s.doc[id] = Missing <=> s.meta[id] = Missing

PostingsExact(s) ==
    \A k \in Slots, id \in IDs :
        s.posting[k][id] = IF s.meta[id] = Missing THEN {} ELSE s.meta[id].vectors[k]

(* The dictionary entry of a term whose postings are p. *)
Entry(p) == IF Holders(p) = {} THEN Missing
            ELSE [df |-> Cardinality(Holders(p)), tf |-> Cardinality(Pairs(p))]

DictionaryExact(s) == \A k \in Slots : s.term[k] = Entry(s.posting[k])

StatsExact(s) ==
    /\ s.global.count = Cardinality(Live(s))
    /\ \A f \in Fields : s.global.total[f] = Cardinality(Pairs(Ordinals(s, f)))

Exact(s) ==
    DocumentsPaired(s) /\ PostingsExact(s) /\ DictionaryExact(s) /\ StatsExact(s)

================================================================================
