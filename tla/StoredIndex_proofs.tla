-------------------------- MODULE StoredIndex_proofs ---------------------------
(***************************************************************************)
(* Facts about the operators of StoredIndex: what a document adds to the   *)
(* counters of the dictionary and of GlobalStats is what its removal takes *)
(* away, because both are cardinalities of disjoint unions.                *)
(***************************************************************************)
EXTENDS StoredIndex, FiniteSetTheorems, TLAPS

Family == [IDs -> SUBSET Nat]

(* Setting an ID's empty set of positions to S adds that ID as a holder and*)
(* its |S| pairs (the bookkeeping of addInTransaction).                    *)
LEMMA FamilyAdd ==
    ASSUME NEW p \in Family, NEW id \in IDs, NEW S \in SUBSET Nat,
           p[id] = {}, IsFiniteSet(S), IsFiniteSet(Pairs(p))
    PROVE  LET q == [p EXCEPT ![id] = S] IN
           /\ q \in Family
           /\ IsFiniteSet(Pairs(q))
           /\ Cardinality(Pairs(q)) = Cardinality(Pairs(p)) + Cardinality(S)
           /\ S # {} => /\ Holders(q) # {}
                        /\ Cardinality(Holders(q)) = Cardinality(Holders(p)) + 1
<1> DEFINE q == [p EXCEPT ![id] = S]
           new == {id} \X S
<1>1. q \in Family
  BY DEF Family
<1>2. Pairs(q) = Pairs(p) \cup new
  BY DEF Pairs, Family
<1>3. Pairs(p) \cap new = {}
  BY DEF Pairs, Family
<1>4. IsFiniteSet(new) /\ Cardinality(new) = Cardinality(S)
  <2>1. IsFiniteSet({id}) /\ Cardinality({id}) = 1
    BY FS_Singleton
  <2>2. IsFiniteSet(new) /\ Cardinality(new) = 1 * Cardinality(S)
    BY <2>1, FS_Product
  <2>3. Cardinality(S) \in Nat
    BY FS_CardinalityType
  <2> QED BY <2>2, <2>3
<1>5. IsFiniteSet(Pairs(q)) /\ Cardinality(Pairs(q)) = Cardinality(Pairs(p)) + Cardinality(S)
  <2>1. /\ IsFiniteSet(Pairs(p) \cup new)
        /\ Cardinality(Pairs(p) \cup new)
             = Cardinality(Pairs(p)) + Cardinality(new) - Cardinality(Pairs(p) \cap new)
    BY <1>4, FS_Union
  <2>2. Cardinality(Pairs(p) \cap new) = 0
    <3>1. Cardinality({}) = 0
      BY FS_EmptySet
    <3> QED BY ONLY <3>1, <1>3
  <2>3. Cardinality(Pairs(p)) \in Nat /\ Cardinality(new) \in Nat
    BY <1>4, FS_CardinalityType
  <2>4. Cardinality(Pairs(p) \cup new) = Cardinality(Pairs(p)) + Cardinality(new)
    <3> HIDE DEF new
    <3> QED BY ONLY <2>1, <2>2, <2>3
  <2> HIDE DEF q, new
  <2> QED BY <2>1, <2>4, <1>2, <1>4
<1>6. ASSUME S # {}
      PROVE  Holders(q) # {} /\ Cardinality(Holders(q)) = Cardinality(Holders(p)) + 1
  <2>1. Holders(q) = Holders(p) \cup {id} /\ id \notin Holders(p)
    BY <1>6 DEF Holders, Family
  <2>2. IsFiniteSet(Holders(p))
    BY FiniteIDs, FS_Subset DEF Holders
  <2> QED BY <2>1, <2>2, FS_AddElement
<1> QED BY <1>1, <1>5, <1>6

(* Taking an ID's set of positions away is the converse. *)
LEMMA FamilyRemove ==
    ASSUME NEW p \in Family, NEW id \in IDs, IsFiniteSet(Pairs(p)), IsFiniteSet(p[id])
    PROVE  LET q == [p EXCEPT ![id] = {}] IN
           /\ q \in Family
           /\ IsFiniteSet(Pairs(q))
           /\ Cardinality(Pairs(p)) = Cardinality(Pairs(q)) + Cardinality(p[id])
           /\ p[id] # {} => Cardinality(Holders(p)) = Cardinality(Holders(q)) + 1
<1> DEFINE q == [p EXCEPT ![id] = {}]
<1>1. q \in Family /\ q[id] = {} /\ p[id] \in SUBSET Nat
  BY DEF Family
<1>2. p = [q EXCEPT ![id] = p[id]]
  BY DEF Family
<1>3. Pairs(q) \subseteq Pairs(p)
  BY DEF Pairs, Family
<1>4. IsFiniteSet(Pairs(q))
  BY <1>3, FS_Subset
<1> HIDE DEF q
<1>5. LET r == [q EXCEPT ![id] = p[id]] IN
      /\ Cardinality(Pairs(r)) = Cardinality(Pairs(q)) + Cardinality(p[id])
      /\ p[id] # {} => Cardinality(Holders(r)) = Cardinality(Holders(q)) + 1
  BY <1>1, <1>4, FamilyAdd
<1>6. QED BY <1>1, <1>2, <1>4, <1>5 DEF q

-----------------------------------------------------------------------------
(* The dictionary entry of a family follows its changes: MoreTerm and      *)
(* LessTerm compute from the old entry the entry of the new family, so no  *)
(* clamp of removeVectors ever takes effect on an exact entry.             *)
LEMMA EntryType ==
    ASSUME NEW p \in Family, IsFiniteSet(Pairs(p))
    PROVE  /\ Entry(p) \in TermInfo \cup {Missing}
           /\ Entry(p) = Missing <=> Holders(p) = {}
<1>1. IsFiniteSet(Holders(p))
  BY FiniteIDs, FS_Subset DEF Holders
<1>2. Cardinality(Holders(p)) \in Nat /\ Cardinality(Pairs(p)) \in Nat
  BY <1>1, FS_CardinalityType
<1>3. [df |-> Cardinality(Holders(p)), tf |-> Cardinality(Pairs(p))] \in TermInfo
  BY <1>2 DEF TermInfo
<1> QED BY <1>3, MarkersDiffer DEF Entry

(* A posting without a holder has no pair and counts nothing.              *)
LEMMA NoHolderNoPair ==
    ASSUME NEW p \in Family, Holders(p) = {}
    PROVE  Pairs(p) = {} /\ Cardinality(Pairs(p)) = 0 /\ Cardinality(Holders(p)) = 0
<1>1. Pairs(p) = {}
  BY DEF Holders, Pairs, Family
<1> QED BY <1>1, FS_EmptySet

(* Writing a new posting of one document makes the dictionary entry that   *)
(* addTerm leaves.                                                         *)
LEMMA EntryAdd ==
    ASSUME NEW p \in Family, NEW id \in IDs, NEW S \in SUBSET Nat,
           p[id] = {}, S # {}, IsFiniteSet(S), IsFiniteSet(Pairs(p))
    PROVE  Entry([p EXCEPT ![id] = S]) = MoreTerm(Entry(p), Cardinality(S))
<1> DEFINE q == [p EXCEPT ![id] = S]
<1>1. /\ Cardinality(Pairs(q)) = Cardinality(Pairs(p)) + Cardinality(S)
      /\ Holders(q) # {}
      /\ Cardinality(Holders(q)) = Cardinality(Holders(p)) + 1
  BY FamilyAdd
<1> HIDE DEF q
<1>2. Entry(q) = [df |-> Cardinality(Holders(p)) + 1, tf |-> Cardinality(Pairs(p)) + Cardinality(S)]
  BY <1>1 DEF Entry
<1>3. CASE Holders(p) = {}
  <2>1. Cardinality(Pairs(p)) = 0 /\ Cardinality(Holders(p)) = 0 /\ Entry(p) = Missing
    BY <1>3, NoHolderNoPair DEF Entry
  <2>2. Cardinality(S) \in Nat
    BY FS_CardinalityType
  <2>3. Entry(q) = [df |-> 1, tf |-> Cardinality(S)]
    BY <1>2, <2>1, <2>2
  <2> QED BY <2>1, <2>3 DEF MoreTerm, q
<1>4. CASE Holders(p) # {}
  <2>1. Entry(p) # Missing
    BY <1>4, EntryType
  <2>2. Entry(p) = [df |-> Cardinality(Holders(p)), tf |-> Cardinality(Pairs(p))]
    BY <1>4 DEF Entry
  <2> QED BY <1>2, <2>1, <2>2 DEF MoreTerm, q
<1> QED BY <1>3, <1>4

(* Removing the posting of one document leaves the entry that removeTerm   *)
(* writes.                                                                 *)
LEMMA EntryRemove ==
    ASSUME NEW p \in Family, NEW id \in IDs, p[id] # {}, IsFiniteSet(p[id]), IsFiniteSet(Pairs(p))
    PROVE  /\ Entry(p) # Missing
           /\ Entry([p EXCEPT ![id] = {}]) = LessTerm(Entry(p), Cardinality(p[id]))
<1> DEFINE q == [p EXCEPT ![id] = {}]
           n == Cardinality(p[id])
<1>1. /\ q \in Family /\ IsFiniteSet(Pairs(q))
      /\ Cardinality(Pairs(p)) = Cardinality(Pairs(q)) + n
      /\ Cardinality(Holders(p)) = Cardinality(Holders(q)) + 1
  BY FamilyRemove
<1>2. Holders(p) # {}
  BY DEF Holders
<1>3. Entry(p) # Missing
  BY <1>2, EntryType
<1>4. Entry(p) = [df |-> Cardinality(Holders(p)), tf |-> Cardinality(Pairs(p))]
  BY <1>2 DEF Entry
<1> HIDE DEF q
<1>5. IsFiniteSet(Holders(q)) /\ Cardinality(Holders(q)) \in Nat
  BY FiniteIDs, FS_Subset, FS_CardinalityType DEF Holders
<1>6. n \in Nat /\ Cardinality(Pairs(q)) \in Nat
  BY <1>1, FS_CardinalityType
<1>7. Cardinality(Holders(q)) = 0 <=> Holders(q) = {}
  BY <1>5, FS_EmptySet
<1> HIDE DEF n
<1>8. CASE Holders(q) = {}
  <2>1. Entry(p).df = 1
    BY <1>1, <1>4, <1>7, <1>8
  <2> QED BY <2>1, <1>3, <1>8 DEF LessTerm, Entry, q, n
<1>9. CASE Holders(q) # {}
  <2>1. /\ ~(Entry(p).df <= 1) /\ Entry(p).df - 1 = Cardinality(Holders(q))
        /\ Entry(p).tf >= n /\ Entry(p).tf - n = Cardinality(Pairs(q))
    BY <1>1, <1>4, <1>5, <1>6, <1>7, <1>9
  <2>2. LessTerm(Entry(p), n) = [df |-> Cardinality(Holders(q)), tf |-> Cardinality(Pairs(q))]
    BY <2>1, <1>5 DEF LessTerm
  <2> QED BY <2>2, <1>3, <1>9 DEF Entry, q, n
<1> QED BY <1>8, <1>9

-----------------------------------------------------------------------------
(* What analysis yields is a well-formed docmeta, with finite vectors.     *)
FiniteVectors(m) == \A k \in Slots : IsFiniteSet(m.vectors[k])

(* What is analyzed from a document is a docmeta with finite vectors.      *)
LEMMA MetaOfType ==
    ASSUME NEW a \in Analyzers, NEW d \in Document
    PROVE  MetaOf(a, d) \in Meta /\ FiniteVectors(MetaOf(a, d))
<1>1. ASSUME NEW f \in Fields
      PROVE  Analyze(a, d, f) \in Seq(Terms \cup {EmptyTerm})
  <2>1. d[f] \in Texts \cup {Missing}
    BY DEF Document
  <2>2. CASE d[f] = Missing
    BY <2>2 DEF Analyze
  <2>3. CASE d[f] # Missing
    BY <2>1, <2>3, AnalysisType DEF Analyze
  <2> QED BY <2>2, <2>3
<1>2. ASSUME NEW f \in Fields
      PROVE  Len(Analyze(a, d, f)) \in Nat
  BY <1>1
<1>3. ASSUME NEW k \in Slots
      PROVE  /\ PositionsOf(Analyze(a, d, k[1]), k[2]) \in SUBSET Nat
             /\ IsFiniteSet(PositionsOf(Analyze(a, d, k[1]), k[2]))
  <2> DEFINE n == Len(Analyze(a, d, k[1]))
  <2>1. n \in Nat
    BY <1>2 DEF Slots
  <2>2. PositionsOf(Analyze(a, d, k[1]), k[2]) \subseteq 1 .. n
    BY DEF PositionsOf
  <2>3. IsFiniteSet(1 .. n)
    BY <2>1, FS_Interval
  <2> HIDE DEF n
  <2>4. 1 .. n \subseteq Nat
    BY <2>1
  <2> QED BY <2>2, <2>3, <2>4, FS_Subset
<1>4. MetaOf(a, d).lengths \in [Fields -> Nat]
  BY <1>2 DEF MetaOf
<1>5. MetaOf(a, d).vectors \in [Slots -> SUBSET Nat]
  BY <1>3 DEF MetaOf
<1>6. MetaOf(a, d) \in Meta
  BY <1>4, <1>5 DEF MetaOf, Meta
<1>7. FiniteVectors(MetaOf(a, d))
  BY <1>3 DEF FiniteVectors, MetaOf
<1> QED BY <1>6, <1>7

-----------------------------------------------------------------------------
(* Contents every counter of which is exact: the inductive form of the     *)
(* documented invariants, with the finiteness that counting needs.         *)
FiniteContents(s) ==
    /\ \A k \in Slots : IsFiniteSet(Pairs(s.posting[k]))
    /\ \A k \in Slots, id \in IDs : IsFiniteSet(s.posting[k][id])
    /\ \A f \in Fields : IsFiniteSet(Pairs(Ordinals(s, f)))

Sound(s) ==
    /\ s \in Store
    /\ s.global \in Global
    /\ s.global.total \in [Fields -> Nat]
    /\ FiniteContents(s)
    /\ Exact(s)

(* Contents r of which document id is half replaced: its contributions are *)
(* gone from the postings, the dictionary and the totals of w, and its     *)
(* docmeta is still to be written.                                         *)
Detached(w, id, r) ==
    /\ r \in Store
    /\ r.doc = w.doc /\ r.meta = w.meta /\ r.legacy = w.legacy
    /\ r.global \in Global
    /\ r.global.total \in [Fields -> Nat]
    /\ \A k \in Slots : /\ r.posting[k] = [w.posting[k] EXCEPT ![id] = {}]
                        /\ r.term[k] = Entry(r.posting[k])
                        /\ IsFiniteSet(Pairs(r.posting[k]))
    /\ \A f \in Fields : LET o == [Ordinals(w, f) EXCEPT ![id] = {}] IN
                         /\ r.global.total[f] = Cardinality(Pairs(o))
                         /\ IsFiniteSet(Pairs(o))

(* The ordinals of a field count its length in each document.              *)
LEMMA OrdinalsFamily ==
    ASSUME NEW s \in Store, NEW f \in Fields
    PROVE  /\ Ordinals(s, f) \in Family
           /\ \A id \in IDs : IsFiniteSet(Ordinals(s, f)[id])
           /\ \A id \in IDs : s.meta[id] # Missing =>
                 /\ s.meta[id].lengths[f] \in Nat
                 /\ Cardinality(Ordinals(s, f)[id]) = s.meta[id].lengths[f]
<1>1. ASSUME NEW id \in IDs
      PROVE  /\ Ordinals(s, f)[id] \in SUBSET Nat
             /\ IsFiniteSet(Ordinals(s, f)[id])
             /\ s.meta[id] # Missing =>
                  /\ s.meta[id].lengths[f] \in Nat
                  /\ Cardinality(Ordinals(s, f)[id]) = s.meta[id].lengths[f]
  <2>1. CASE s.meta[id] = Missing
    BY <2>1, FS_EmptySet DEF Ordinals
  <2>2. CASE s.meta[id] # Missing
    <3> DEFINE n == s.meta[id].lengths[f]
    <3>1. s.meta[id] \in Meta
      BY <2>2 DEF Store
    <3>2. n \in Nat
      BY <3>1 DEF Meta
    <3>3. Ordinals(s, f)[id] = 1 .. n
      BY <2>2 DEF Ordinals
    <3> HIDE DEF n
    <3>4. IsFiniteSet(1 .. n) /\ Cardinality(1 .. n) = n
      BY <3>2, FS_Interval
    <3>5. 1 .. n \subseteq Nat
      BY <3>2
    <3> QED BY <3>2, <3>3, <3>4, <3>5 DEF n
  <2> QED BY <2>1, <2>2
<1> QED BY <1>1 DEF Family, Ordinals

-----------------------------------------------------------------------------
(* removeVectors on exact contents: every term of the old vectors is in the*)
(* dictionary, and exactly the contributions of id disappear.              *)
LEMMA RemoveDetaches ==
    ASSUME NEW w, Sound(w), NEW id \in IDs, w.meta[id] # Missing
    PROVE  /\ ~RemoveFails(w, id)
           /\ Detached(w, id, RemoveVectors(w, id))
           /\ RemoveVectors(w, id).global.count = w.global.count
<1> DEFINE m == w.meta[id]
           r == RemoveVectors(w, id)
<1>1. /\ w \in Store /\ m \in Meta
      /\ w.global \in Global /\ w.global.total \in [Fields -> Nat]
  BY DEF Sound, Store
<1>2. ASSUME NEW k \in Slots
      PROVE  /\ w.posting[k] \in Family /\ w.posting[k][id] = m.vectors[k]
             /\ IsFiniteSet(m.vectors[k]) /\ IsFiniteSet(Pairs(w.posting[k]))
             /\ w.term[k] = Entry(w.posting[k])
  <2>1. w.posting[k] \in Family
    BY <1>1 DEF Store, Family
  <2>2. w.posting[k][id] = m.vectors[k]
    BY DEF Sound, Exact, PostingsExact
  <2>3. IsFiniteSet(w.posting[k][id]) /\ IsFiniteSet(Pairs(w.posting[k]))
    BY DEF Sound, FiniteContents
  <2>4. w.term[k] = Entry(w.posting[k])
    BY DEF Sound, Exact, DictionaryExact
  <2> QED BY <2>1, <2>2, <2>3, <2>4
<1>3. ~RemoveFails(w, id)
  <2> SUFFICES ASSUME NEW k \in Slots, m.vectors[k] # {}
               PROVE  w.term[k] # Missing
    BY DEF RemoveFails
  <2> QED BY <1>2, EntryRemove
<1>4. /\ r.doc = w.doc /\ r.meta = w.meta /\ r.legacy = w.legacy
      /\ r.global.count = w.global.count
      /\ r.posting = [k \in Slots |-> IF m.vectors[k] = {} THEN w.posting[k]
                                      ELSE [w.posting[k] EXCEPT ![id] = {}]]
      /\ r.term = [k \in Slots |-> IF m.vectors[k] = {} THEN w.term[k]
                                   ELSE LessTerm(w.term[k], Cardinality(m.vectors[k]))]
      /\ r.global = [count |-> w.global.count,
                     total |-> [f \in Fields |-> IF w.global.total[f] >= m.lengths[f]
                                   THEN w.global.total[f] - m.lengths[f] ELSE 0]]
      /\ r = [doc |-> r.doc, meta |-> r.meta, posting |-> r.posting, term |-> r.term,
              global |-> r.global, legacy |-> r.legacy]
  <2> DEFINE P == [k \in Slots |-> IF m.vectors[k] = {} THEN w.posting[k]
                                   ELSE [w.posting[k] EXCEPT ![id] = {}]]
             T == [k \in Slots |-> IF m.vectors[k] = {} THEN w.term[k]
                                   ELSE LessTerm(w.term[k], Cardinality(m.vectors[k]))]
             L == [f \in Fields |-> IF w.global.total[f] >= m.lengths[f]
                                    THEN w.global.total[f] - m.lengths[f] ELSE 0]
  <2>1. r = [w EXCEPT !.posting = P, !.term = T, !.global.total = L]
    BY DEF RemoveVectors
  <2> HIDE DEF P, T, L, r
  <2> QED BY <2>1, <1>1 DEF Store, Global, P, T, L
<1>5. ASSUME NEW k \in Slots
      PROVE  /\ r.posting[k] = [w.posting[k] EXCEPT ![id] = {}]
             /\ r.posting[k] \in Family
             /\ r.term[k] = Entry(r.posting[k])
             /\ r.term[k] \in TermInfo \cup {Missing}
             /\ IsFiniteSet(Pairs(r.posting[k]))
  <2> DEFINE p == w.posting[k]
             q == [p EXCEPT ![id] = {}]
  <2>1. r.posting[k] = q
    <3>1. CASE m.vectors[k] = {}
      <4>1. p[id] = {} /\ p \in Family
        BY <3>1, <1>2
      <4>2. q = p
        BY <4>1 DEF Family
      <4> QED BY <3>1, <4>2, <1>4
    <3>2. CASE m.vectors[k] # {}
      BY <3>2, <1>4
    <3> QED BY <3>1, <3>2
  <2>2. q \in Family /\ IsFiniteSet(Pairs(q))
    BY <1>2, FamilyRemove
  <2>3. r.term[k] = Entry(q)
    <3>1. CASE m.vectors[k] = {}
      <4>1. r.term[k] = Entry(p)
        BY <3>1, <1>2, <1>4
      <4>2. q = p
        BY <3>1, <1>2 DEF Family
      <4> QED BY <4>1, <4>2
    <3>2. CASE m.vectors[k] # {}
      <4>1. Entry(q) = LessTerm(Entry(p), Cardinality(p[id]))
        BY <3>2, <1>2, EntryRemove
      <4> QED BY <4>1, <3>2, <1>2, <1>4
    <3> QED BY <3>1, <3>2
  <2> HIDE DEF q
  <2>4. Entry(q) \in TermInfo \cup {Missing}
    BY <2>2, EntryType
  <2> QED BY <2>1, <2>2, <2>3, <2>4 DEF q
<1>6. ASSUME NEW f \in Fields
      PROVE  LET o == [Ordinals(w, f) EXCEPT ![id] = {}] IN
             /\ r.global.total[f] = Cardinality(Pairs(o))
             /\ IsFiniteSet(Pairs(o))
             /\ r.global.total[f] \in Nat
  <2> DEFINE p == Ordinals(w, f)
             o == [p EXCEPT ![id] = {}]
  <2>1. p \in Family /\ IsFiniteSet(p[id]) /\ m.lengths[f] \in Nat /\ Cardinality(p[id]) = m.lengths[f]
    BY <1>1, OrdinalsFamily
  <2>2. IsFiniteSet(Pairs(p)) /\ w.global.total[f] = Cardinality(Pairs(p))
    BY DEF Sound, FiniteContents, Exact, StatsExact
  <2> HIDE DEF p
  <2>3. IsFiniteSet(Pairs(o)) /\ Cardinality(Pairs(p)) = Cardinality(Pairs(o)) + Cardinality(p[id])
    BY <2>1, <2>2, FamilyRemove
  <2>4. Cardinality(Pairs(o)) \in Nat
    BY <2>3, FS_CardinalityType
  <2>5. r.global.total[f] = IF w.global.total[f] >= m.lengths[f]
                            THEN w.global.total[f] - m.lengths[f] ELSE 0
    BY <1>4
  <2> HIDE DEF o, m, r
  <2>6. r.global.total[f] = Cardinality(Pairs(o))
    BY <2>1, <2>2, <2>3, <2>4, <2>5
  <2> QED BY <2>3, <2>4, <2>6 DEF o, p
<1>7. r.global \in Global /\ r.global.total \in [Fields -> Nat]
  <2>1. r.global.total \in [Fields -> Nat]
    <3> HIDE DEF r, m
    <3>1. \A f \in Fields : r.global.total[f] \in Nat
      BY <1>6
    <3>2. r.global.total = [f \in Fields |-> r.global.total[f]]
      BY <1>4
    <3> QED BY <3>1, <3>2
  <2>2. w.global.count \in Nat
    BY <1>1 DEF Global
  <2> HIDE DEF r, m
  <2> QED BY <2>1, <2>2, <1>4 DEF Global
<1>8. r \in Store
  <2> HIDE DEF r, m
  <2>1. r.posting \in [Slots -> [IDs -> SUBSET Nat]]
    BY <1>4, <1>5 DEF Family
  <2>2. r.term \in [Slots -> TermInfo \cup {Missing}]
    BY <1>4, <1>5
  <2> QED BY <1>1, <1>4, <1>7, <2>1, <2>2 DEF Store
<1> HIDE DEF r
<1>9. Detached(w, id, r)
  BY <1>4, <1>5, <1>6, <1>7, <1>8 DEF Detached
<1> QED BY <1>3, <1>4, <1>9 DEF r

-----------------------------------------------------------------------------
(* The loop of addInTransaction, on contents without contributions of id,  *)
(* followed by the puts of the document and of its docmeta.                *)
LEMMA AttachSound ==
    ASSUME NEW w, Sound(w), NEW id \in IDs, NEW r, Detached(w, id, r),
           NEW m \in Meta, FiniteVectors(m), NEW d \in Document,
           r.global.count = Cardinality(Live(w) \cup {id})
    PROVE  Sound([AddVectors(r, id, m) EXCEPT !.doc[id] = d, !.meta[id] = m])
<1> DEFINE s == [AddVectors(r, id, m) EXCEPT !.doc[id] = d, !.meta[id] = m]
<1>1. /\ w \in Store /\ r \in Store
      /\ r.global \in Global /\ r.global.total \in [Fields -> Nat]
      /\ r.doc = w.doc /\ r.meta = w.meta /\ r.legacy = w.legacy
  BY DEF Sound, Detached
<1>2. /\ s.doc = [w.doc EXCEPT ![id] = d]
      /\ s.meta = [w.meta EXCEPT ![id] = m]
      /\ s.legacy = w.legacy
      /\ s.posting = [k \in Slots |-> IF m.vectors[k] = {} THEN r.posting[k]
                                      ELSE [r.posting[k] EXCEPT ![id] = m.vectors[k]]]
      /\ s.term = [k \in Slots |-> IF m.vectors[k] = {} THEN r.term[k]
                                   ELSE MoreTerm(r.term[k], Cardinality(m.vectors[k]))]
      /\ s.global = [count |-> r.global.count,
                     total |-> [f \in Fields |-> r.global.total[f] + m.lengths[f]]]
      /\ s = [doc |-> s.doc, meta |-> s.meta, posting |-> s.posting, term |-> s.term,
              global |-> s.global, legacy |-> s.legacy]
  <2> DEFINE P == [k \in Slots |-> IF m.vectors[k] = {} THEN r.posting[k]
                                   ELSE [r.posting[k] EXCEPT ![id] = m.vectors[k]]]
             T == [k \in Slots |-> IF m.vectors[k] = {} THEN r.term[k]
                                   ELSE MoreTerm(r.term[k], Cardinality(m.vectors[k]))]
             L == [f \in Fields |-> r.global.total[f] + m.lengths[f]]
             v == [r EXCEPT !.posting = P, !.term = T, !.global.total = L]
  <2>1. /\ s = [v EXCEPT !.doc[id] = d, !.meta[id] = m]
        /\ v = [r EXCEPT !.posting = P, !.term = T, !.global.total = L]
    BY DEF AddVectors
  <2> HIDE DEF P, T, L, s, v
  <2>2. /\ v.doc = r.doc /\ v.meta = r.meta /\ v.legacy = r.legacy
        /\ v.posting = P /\ v.term = T
        /\ v.global = [count |-> r.global.count, total |-> L]
        /\ v = [doc |-> v.doc, meta |-> v.meta, posting |-> v.posting, term |-> v.term,
                global |-> v.global, legacy |-> v.legacy]
    BY <1>1, <2>1 DEF Store, Global
  <2> QED BY <2>1, <2>2, <1>1 DEF P, T, L
<1>3. ASSUME NEW k \in Slots
      PROVE  LET q == [r.posting[k] EXCEPT ![id] = m.vectors[k]] IN
             /\ s.posting[k] = q
             /\ q \in Family
             /\ s.term[k] = Entry(q)
             /\ Entry(q) \in TermInfo \cup {Missing}
             /\ IsFiniteSet(Pairs(q))
             /\ \A x \in IDs : q[x] = IF x = id THEN m.vectors[k] ELSE w.posting[k][x]
             /\ \A x \in IDs : IsFiniteSet(q[x])
  <2> DEFINE p == r.posting[k]
             S == m.vectors[k]
             q == [p EXCEPT ![id] = S]
  <2>1. /\ p \in Family /\ p[id] = {} /\ IsFiniteSet(Pairs(p)) /\ r.term[k] = Entry(p)
        /\ \A x \in IDs : x # id => p[x] = w.posting[k][x]
    <3>1. r.posting[k] \in Family /\ w.posting[k] \in Family
      BY <1>1 DEF Store, Family
    <3>2. p = [w.posting[k] EXCEPT ![id] = {}] /\ IsFiniteSet(Pairs(p)) /\ r.term[k] = Entry(p)
      BY DEF Detached
    <3> QED BY <3>1, <3>2 DEF Family
  <2>2. S \in SUBSET Nat /\ IsFiniteSet(S)
    BY DEF Meta, FiniteVectors
  <2>3. q \in Family /\ IsFiniteSet(Pairs(q))
    BY <2>1, <2>2, FamilyAdd
  <2>4. s.posting[k] = q /\ s.term[k] = Entry(q)
    <3>1. CASE S = {}
      <4>1. q = p
        BY <3>1, <2>1 DEF Family
      <4> QED BY <3>1, <4>1, <2>1, <1>2
    <3>2. CASE S # {}
      <4>1. Entry(q) = MoreTerm(Entry(p), Cardinality(S))
        BY <3>2, <2>1, <2>2, EntryAdd
      <4> QED BY <3>2, <4>1, <2>1, <1>2
    <3> QED BY <3>1, <3>2
  <2>5. Entry(q) \in TermInfo \cup {Missing}
    BY <2>3, EntryType
  <2>6. \A x \in IDs : q[x] = IF x = id THEN S ELSE w.posting[k][x]
    BY <2>1 DEF Family
  <2>7. \A x \in IDs : IsFiniteSet(w.posting[k][x])
    BY DEF Sound, FiniteContents
  <2>8. \A x \in IDs : IsFiniteSet(q[x])
    BY <2>2, <2>6, <2>7
  <2> QED BY <2>3, <2>4, <2>5, <2>6, <2>8
<1>4. ASSUME NEW f \in Fields
      PROVE  /\ s.global.total[f] = Cardinality(Pairs(Ordinals(s, f)))
             /\ s.global.total[f] \in Nat
             /\ IsFiniteSet(Pairs(Ordinals(s, f)))
  <2> DEFINE n == m.lengths[f]
             o == [Ordinals(w, f) EXCEPT ![id] = {}]
             q == [o EXCEPT ![id] = 1 .. n]
  <2>1. n \in Nat
    BY DEF Meta
  <2>2. /\ 1 .. n \in SUBSET Nat
        /\ IsFiniteSet(1 .. n) /\ Cardinality(1 .. n) = n
    <3> HIDE DEF n
    <3> QED BY <2>1, FS_Interval
  <2>3. Ordinals(w, f) \in Family
    BY <1>1, OrdinalsFamily
  <2>4. o \in Family /\ o[id] = {}
    BY <2>3 DEF Family
  <2>5. r.global.total[f] = Cardinality(Pairs(o)) /\ IsFiniteSet(Pairs(o))
    BY DEF Detached
  <2>6. Ordinals(s, f) = q
    <3> HIDE DEF s
    <3>1. \A x \in IDs : s.meta[x] = IF x = id THEN m ELSE w.meta[x]
      BY <1>1, <1>2 DEF Store
    <3>2. m # Missing
      BY MarkersDiffer
    <3>3. Ordinals(s, f) = [x \in IDs |-> IF x = id THEN 1 .. n ELSE Ordinals(w, f)[x]]
      BY <3>1, <3>2 DEF Ordinals
    <3> QED BY <3>3, <2>3 DEF Family
  <2> HIDE DEF o, s, n
  <2>7. IsFiniteSet(Pairs(q)) /\ Cardinality(Pairs(q)) = Cardinality(Pairs(o)) + Cardinality(1 .. n)
    BY <2>2, <2>4, <2>5, FamilyAdd
  <2>8. Cardinality(Pairs(o)) \in Nat
    BY <2>5, FS_CardinalityType
  <2>9. s.global.total[f] = r.global.total[f] + n
    BY <1>2 DEF n
  <2> HIDE DEF q
  <2> QED BY <2>1, <2>2, <2>5, <2>6, <2>7, <2>8, <2>9
<1> HIDE DEF s
<1>5. s.global \in Global /\ s.global.total \in [Fields -> Nat]
  <2>1. s.global.total \in [Fields -> Nat]
    <3>1. s.global.total = [f \in Fields |-> s.global.total[f]]
      BY <1>2
    <3> QED BY <3>1, <1>4
  <2>2. r.global.count \in Nat
    BY <1>1 DEF Global
  <2> QED BY <2>1, <2>2, <1>2 DEF Global
<1>6. s \in Store
  <2>1. s.posting \in [Slots -> [IDs -> SUBSET Nat]]
    <3>1. \A k \in Slots : s.posting[k] \in [IDs -> SUBSET Nat]
      BY <1>3 DEF Family
    <3> QED BY <3>1, <1>2
  <2>2. s.term \in [Slots -> TermInfo \cup {Missing}]
    <3>1. \A k \in Slots : s.term[k] \in TermInfo \cup {Missing}
      BY <1>3
    <3> QED BY <3>1, <1>2
  <2>3. s.doc \in [IDs -> Document \cup {Missing}] /\ s.meta \in [IDs -> Meta \cup {Missing}]
    BY <1>1, <1>2 DEF Store
  <2>4. s.legacy \in [LegacyKeys -> LegacyDocument \cup {Missing}]
    BY <1>1, <1>2 DEF Store
  <2> QED BY <1>2, <1>5, <2>1, <2>2, <2>3, <2>4 DEF Store
<1>7. FiniteContents(s)
  <2>1. \A k \in Slots : IsFiniteSet(Pairs(s.posting[k]))
    BY <1>3
  <2>2. \A k \in Slots, x \in IDs : IsFiniteSet(s.posting[k][x])
    BY <1>3
  <2> QED BY <2>1, <2>2, <1>4 DEF FiniteContents
<1>8. \A x \in IDs : /\ s.meta[x] = IF x = id THEN m ELSE w.meta[x]
                     /\ s.doc[x] = IF x = id THEN d ELSE w.doc[x]
  BY <1>1, <1>2 DEF Store
<1>9. m # Missing /\ d # Missing
  BY MarkersDiffer
<1>10. DocumentsPaired(s)
  <2>1. DocumentsPaired(w)
    BY DEF Sound, Exact
  <2> QED BY <2>1, <1>8, <1>9 DEF DocumentsPaired
<1>11. PostingsExact(s)
  <2>1. PostingsExact(w)
    BY DEF Sound, Exact
  <2>2. \A k \in Slots, x \in IDs :
          s.posting[k][x] = IF x = id THEN m.vectors[k] ELSE w.posting[k][x]
    <3> TAKE k \in Slots, x \in IDs
    <3> DEFINE q == [r.posting[k] EXCEPT ![id] = m.vectors[k]]
    <3>1. s.posting[k] = q /\ q[x] = IF x = id THEN m.vectors[k] ELSE w.posting[k][x]
      BY <1>3
    <3> HIDE DEF q
    <3> QED BY <3>1
  <2> QED BY <2>1, <2>2, <1>8, <1>9 DEF PostingsExact
<1>12. DictionaryExact(s)
  BY <1>3 DEF DictionaryExact
<1>13. StatsExact(s)
  <2>1. Live(s) = Live(w) \cup {id}
    BY <1>8, <1>9 DEF Live
  <2>2. s.global.count = Cardinality(Live(s))
    BY <2>1, <1>2
  <2> QED BY <2>2, <1>4 DEF StatsExact
<1> QED BY <1>5, <1>6, <1>7, <1>10, <1>11, <1>12, <1>13 DEF Sound, Exact, s

-----------------------------------------------------------------------------
(* The three things a transaction does to exact contents keep them exact.  *)

(* There are finitely many live documents.                                 *)
LEMMA LiveFinite ==
    ASSUME NEW s
    PROVE  IsFiniteSet(Live(s)) /\ Cardinality(Live(s)) \in Nat
BY FiniteIDs, FS_Subset, FS_CardinalityType DEF Live

(* Adding or replacing a document (addInTransaction). *)
THEOREM AddSound ==
    ASSUME NEW w, Sound(w), NEW a \in Analyzers, NEW id \in IDs, NEW d \in Document
    PROVE  ~AddFails(w, id) /\ Sound(AddInTransaction(w, a, id, d))
<1> DEFINE m == MetaOf(a, d)
           r == Cleared(w, id)
<1>1. m \in Meta /\ FiniteVectors(m)
  BY MetaOfType
<1>2. w.global.count = Cardinality(Live(w)) /\ IsFiniteSet(Live(w))
  BY LiveFinite DEF Sound, Exact, StatsExact
<1>3. CASE w.meta[id] # Missing
  <2>1. r = RemoveVectors(w, id)
    BY <1>3 DEF Cleared
  <2>2. ~AddFails(w, id) /\ Detached(w, id, r) /\ r.global.count = w.global.count
    BY <1>3, <2>1, RemoveDetaches DEF AddFails
  <2>3. Live(w) \cup {id} = Live(w)
    BY <1>3 DEF Live
  <2>4. r.global.count = Cardinality(Live(w) \cup {id})
    BY <2>2, <2>3, <1>2
  <2> HIDE DEF m, r
  <2>5. Sound([AddVectors(r, id, m) EXCEPT !.doc[id] = d, !.meta[id] = m])
    BY <2>2, <2>4, <1>1, AttachSound
  <2> QED BY <2>2, <2>5 DEF AddInTransaction, m, r
<1>4. CASE w.meta[id] = Missing
  <2>1. ~AddFails(w, id)
    BY <1>4 DEF AddFails
  <2>2. r = [w EXCEPT !.global.count = @ + 1]
    BY <1>4 DEF Cleared
  <2>3. /\ w \in Store /\ w.global \in Global /\ w.global.total \in [Fields -> Nat]
    BY DEF Sound
  <2>4. /\ r.doc = w.doc /\ r.meta = w.meta /\ r.legacy = w.legacy
        /\ r.posting = w.posting /\ r.term = w.term
        /\ r.global = [count |-> w.global.count + 1, total |-> w.global.total]
        /\ r = [doc |-> r.doc, meta |-> r.meta, posting |-> r.posting, term |-> r.term,
                global |-> r.global, legacy |-> r.legacy]
    <3> HIDE DEF r
    <3> QED BY <2>2, <2>3 DEF Store, Global
  <2> HIDE DEF r, m
  <2>5. r.global \in Global /\ r.global.total \in [Fields -> Nat]
    BY <2>3, <2>4 DEF Global
  <2>6. r \in Store
    BY <2>3, <2>4, <2>5 DEF Store
  <2>7. ASSUME NEW k \in Slots
        PROVE  /\ r.posting[k] = [w.posting[k] EXCEPT ![id] = {}]
               /\ r.term[k] = Entry(r.posting[k])
               /\ IsFiniteSet(Pairs(r.posting[k]))
    <3>1. w.posting[k] \in [IDs -> SUBSET Nat] /\ w.posting[k][id] = {}
      BY <1>4, <2>3 DEF Store, Sound, Exact, PostingsExact
    <3>2. w.posting[k] = [w.posting[k] EXCEPT ![id] = {}]
      BY <3>1
    <3> QED BY <2>4, <3>2 DEF Sound, FiniteContents, Exact, DictionaryExact
  <2>8. ASSUME NEW f \in Fields
        PROVE  LET o == [Ordinals(w, f) EXCEPT ![id] = {}] IN
               r.global.total[f] = Cardinality(Pairs(o)) /\ IsFiniteSet(Pairs(o))
    <3>1. Ordinals(w, f)[id] = {}
      BY <1>4 DEF Ordinals
    <3>2. Ordinals(w, f) = [Ordinals(w, f) EXCEPT ![id] = {}]
      BY <3>1 DEF Ordinals
    <3>3. w.global.total[f] = Cardinality(Pairs(Ordinals(w, f)))
      BY DEF Sound, Exact, StatsExact
    <3>4. r.global.total[f] = w.global.total[f]
      BY <2>4
    <3>5. IsFiniteSet(Pairs(Ordinals(w, f)))
      BY DEF Sound, FiniteContents
    <3> QED BY ONLY <3>2, <3>3, <3>4, <3>5
  <2>9. Detached(w, id, r)
    BY <2>4, <2>5, <2>6, <2>7, <2>8 DEF Detached
  <2>10. Cardinality(Live(w) \cup {id}) = Cardinality(Live(w)) + 1
    BY <1>2, <1>4, FS_AddElement DEF Live
  <2>11. r.global.count = Cardinality(Live(w) \cup {id})
    BY <2>4, <2>10, <1>2
  <2>12. Sound([AddVectors(r, id, m) EXCEPT !.doc[id] = d, !.meta[id] = m])
    BY <2>9, <2>11, <1>1, AttachSound
  <2> QED BY <2>1, <2>12 DEF AddInTransaction, m, r
<1> QED BY <1>3, <1>4

(* Deleting a document that is there. *)
THEOREM DeleteSound ==
    ASSUME NEW w, Sound(w), NEW id \in IDs, w.meta[id] # Missing
    PROVE  ~RemoveFails(w, id) /\ Sound(DeleteInTransaction(w, id))
<1> DEFINE r == RemoveVectors(w, id)
           s == DeleteInTransaction(w, id)
<1>1. ~RemoveFails(w, id) /\ Detached(w, id, r) /\ r.global.count = w.global.count
  BY RemoveDetaches
<1>2. s = [r EXCEPT !.global.count = IF @ > 0 THEN @ - 1 ELSE @,
                    !.doc[id] = Missing, !.meta[id] = Missing]
  BY DEF DeleteInTransaction
<1> HIDE DEF r, s
<1>3. /\ w \in Store /\ r \in Store
      /\ r.doc = w.doc /\ r.meta = w.meta /\ r.legacy = w.legacy
      /\ r.global \in Global /\ r.global.total \in [Fields -> Nat]
  BY <1>1 DEF Sound, Detached
<1>4. /\ s.doc = [w.doc EXCEPT ![id] = Missing]
      /\ s.meta = [w.meta EXCEPT ![id] = Missing]
      /\ s.posting = r.posting /\ s.term = r.term /\ s.legacy = r.legacy
      /\ s.global = [count |-> IF r.global.count > 0 THEN r.global.count - 1 ELSE r.global.count,
                     total |-> r.global.total]
      /\ s = [doc |-> s.doc, meta |-> s.meta, posting |-> s.posting, term |-> s.term,
              global |-> s.global, legacy |-> s.legacy]
  <2>1. r.global = [count |-> r.global.count, total |-> r.global.total]
    BY <1>3 DEF Global
  <2> QED BY <2>1, <1>2, <1>3 DEF Store
<1>5. \A x \in IDs : /\ s.meta[x] = IF x = id THEN Missing ELSE w.meta[x]
                     /\ s.doc[x] = IF x = id THEN Missing ELSE w.doc[x]
  BY <1>3, <1>4 DEF Store
<1>6. s.global.count = Cardinality(Live(s))
  <2>1. IsFiniteSet(Live(s)) /\ Cardinality(Live(s)) \in Nat
    BY LiveFinite
  <2>2. Live(w) = Live(s) \cup {id} /\ id \notin Live(s)
    BY <1>5 DEF Live
  <2>3. Cardinality(Live(w)) = Cardinality(Live(s)) + 1
    BY <2>1, <2>2, FS_AddElement
  <2>4. w.global.count = Cardinality(Live(w))
    BY DEF Sound, Exact, StatsExact
  <2> QED BY <2>1, <2>3, <2>4, <1>1, <1>4
<1>7. s.global \in Global /\ s.global.total \in [Fields -> Nat]
  <2>1. r.global.count \in Nat
    BY <1>3 DEF Global
  <2>2. (IF r.global.count > 0 THEN r.global.count - 1 ELSE r.global.count) \in Nat
    BY <2>1
  <2> QED BY <2>2, <1>3, <1>4 DEF Global
<1>8. s \in Store
  <2>1. s.doc \in [IDs -> Document \cup {Missing}] /\ s.meta \in [IDs -> Meta \cup {Missing}]
    BY <1>3, <1>4 DEF Store
  <2>2. /\ s.posting \in [Slots -> [IDs -> SUBSET Nat]]
        /\ s.term \in [Slots -> TermInfo \cup {Missing}]
        /\ s.legacy \in [LegacyKeys -> LegacyDocument \cup {Missing}]
    BY <1>3, <1>4 DEF Store
  <2> QED BY <2>1, <2>2, <1>4, <1>7 DEF Store
<1>9. ASSUME NEW k \in Slots
      PROVE  /\ s.term[k] = Entry(s.posting[k])
             /\ IsFiniteSet(Pairs(s.posting[k]))
             /\ \A x \in IDs : s.posting[k][x] = IF x = id THEN {} ELSE w.posting[k][x]
  <2>1. w.posting[k] \in [IDs -> SUBSET Nat]
    BY <1>3 DEF Store
  <2>2. /\ r.posting[k] = [w.posting[k] EXCEPT ![id] = {}]
        /\ r.term[k] = Entry(r.posting[k])
        /\ IsFiniteSet(Pairs(r.posting[k]))
    BY <1>1 DEF Detached
  <2>3. \A x \in IDs : r.posting[k][x] = IF x = id THEN {} ELSE w.posting[k][x]
    BY <2>1, <2>2
  <2> QED BY <2>2, <2>3, <1>4
<1>10. ASSUME NEW f \in Fields
       PROVE  /\ s.global.total[f] = Cardinality(Pairs(Ordinals(s, f)))
              /\ IsFiniteSet(Pairs(Ordinals(s, f)))
  <2> DEFINE o == [Ordinals(w, f) EXCEPT ![id] = {}]
  <2>1. r.global.total[f] = Cardinality(Pairs(o)) /\ IsFiniteSet(Pairs(o))
    BY <1>1 DEF Detached
  <2>2. Ordinals(s, f) = o
    BY <1>5 DEF Ordinals
  <2>3. s.global.total[f] = r.global.total[f]
    BY <1>4
  <2> QED BY ONLY <2>1, <2>2, <2>3
<1>11. FiniteContents(s)
  <2>1. \A k \in Slots, x \in IDs : IsFiniteSet(w.posting[k][x])
    BY DEF Sound, FiniteContents
  <2>2. \A k \in Slots, x \in IDs : IsFiniteSet(s.posting[k][x])
    BY <2>1, <1>9, FS_EmptySet
  <2> QED BY <2>2, <1>9, <1>10 DEF FiniteContents
<1>12. DocumentsPaired(s)
  BY <1>5 DEF DocumentsPaired, Sound, Exact
<1>13. PostingsExact(s)
  BY <1>5, <1>9 DEF PostingsExact, Sound, Exact
<1>14. DictionaryExact(s)
  BY <1>9 DEF DictionaryExact
<1>15. StatsExact(s)
  BY <1>6, <1>10 DEF StatsExact
<1> QED BY <1>1, <1>7, <1>8, <1>11, <1>12, <1>13, <1>14, <1>15 DEF Sound, Exact, s

(* The contents New initializes and Rebuild starts from: nothing, exactly. *)
LEMMA EmptyType ==
    /\ EmptyStore \in Store /\ ZeroGlobal \in Global /\ ZeroGlobal.total \in [Fields -> Nat]
<1>1. ZeroGlobal \in Global /\ ZeroGlobal.total \in [Fields -> Nat]
  BY DEF ZeroGlobal, Global
<1> QED BY <1>1 DEF EmptyStore, Store

(* A cleared index is exact, and is what New leaves in an empty store      *)
(* (clearForRebuild).                                                      *)
THEOREM ClearedSound == Sound(ClearedForRebuild) /\ ClearedForRebuild = Initialized(EmptyStore)
<1> DEFINE s == ClearedForRebuild
<1>1. s = [doc     |-> [id \in IDs |-> Missing],
           meta    |-> [id \in IDs |-> Missing],
           posting |-> [k \in Slots |-> [id \in IDs |-> {}]],
           term    |-> [k \in Slots |-> Missing],
           global  |-> ZeroGlobal,
           legacy  |-> [n \in LegacyKeys |-> Missing]]
  <2> DEFINE D == [id \in IDs |-> Missing]
             P == [k \in Slots |-> [id \in IDs |-> {}]]
             T == [k \in Slots |-> Missing]
             L == [n \in LegacyKeys |-> Missing]
  <2>1. EmptyStore = [doc |-> D, meta |-> D, posting |-> P, term |-> T,
                      global |-> Missing, legacy |-> L]
    BY DEF EmptyStore
  <2> HIDE DEF D, P, T, L
  <2>2. s = [doc |-> D, meta |-> D, posting |-> P, term |-> T,
             global |-> ZeroGlobal, legacy |-> L]
    BY <2>1 DEF ClearedForRebuild
  <2> QED BY <2>2 DEF D, P, T, L
<1>2. s = Initialized(EmptyStore)
  BY DEF ClearedForRebuild, Initialized, EmptyStore
<1> HIDE DEF s
<1>3. s \in Store /\ s.global \in Global /\ s.global.total \in [Fields -> Nat]
  <2>1. s.global = ZeroGlobal
    BY <1>1
  <2> QED BY <2>1, <1>1, EmptyType DEF Store
<1>4. ASSUME NEW p \in Family, \A id \in IDs : p[id] = {}
      PROVE  Pairs(p) = {} /\ IsFiniteSet(Pairs(p)) /\ Cardinality(Pairs(p)) = 0 /\ Entry(p) = Missing
  <2>1. Pairs(p) = {} /\ Holders(p) = {}
    BY <1>4 DEF Pairs, Holders
  <2> QED BY <2>1, FS_EmptySet DEF Entry
<1>5. ASSUME NEW k \in Slots
      PROVE  /\ s.posting[k] \in Family /\ \A id \in IDs : s.posting[k][id] = {}
             /\ s.term[k] = Entry(s.posting[k])
             /\ IsFiniteSet(Pairs(s.posting[k]))
  <2>1. s.posting[k] = [id \in IDs |-> {}] /\ s.term[k] = Missing
    BY <1>1
  <2>2. s.posting[k] \in Family /\ \A id \in IDs : s.posting[k][id] = {}
    BY <2>1 DEF Family
  <2> QED BY <2>1, <2>2, <1>4
<1>6. ASSUME NEW f \in Fields
      PROVE  /\ IsFiniteSet(Pairs(Ordinals(s, f)))
             /\ s.global.total[f] = Cardinality(Pairs(Ordinals(s, f)))
  <2>1. Ordinals(s, f) \in Family /\ \A id \in IDs : Ordinals(s, f)[id] = {}
    BY <1>1 DEF Ordinals, Family
  <2>2. s.global.total[f] = 0
    BY <1>1 DEF ZeroGlobal
  <2> QED BY <2>1, <2>2, <1>4
<1>7. s.global.count = Cardinality(Live(s))
  <2>1. Live(s) = {}
    BY <1>1 DEF Live
  <2>2. s.global.count = 0
    BY <1>1 DEF ZeroGlobal
  <2> QED BY <2>1, <2>2, FS_EmptySet
<1>8. FiniteContents(s)
  <2>1. \A k \in Slots, id \in IDs : IsFiniteSet(s.posting[k][id])
    BY <1>5, FS_EmptySet
  <2> QED BY <2>1, <1>5, <1>6 DEF FiniteContents
<1>9. DocumentsPaired(s) /\ PostingsExact(s)
  BY <1>1, <1>5 DEF DocumentsPaired, PostingsExact
<1>10. DictionaryExact(s)
  BY <1>5 DEF DictionaryExact
<1>11. StatsExact(s)
  BY <1>6, <1>7 DEF StatsExact
<1>12. Sound(s)
  BY <1>3, <1>8, <1>9, <1>10, <1>11 DEF Sound, Exact
<1> QED BY <1>2, <1>12 DEF s

-----------------------------------------------------------------------------
(* Contents of any kind, exact or not: all that is asked of them is that   *)
(* they can be decoded.  Transactions that do not fail keep them so.       *)
Readable(s) == s \in Store /\ \A id \in IDs : s.meta[id] # Missing => FiniteVectors(s.meta[id])

(* A transaction's copy of them, whose GlobalStats has its map.            *)
Writable(w) == Readable(w) /\ w.global \in Global /\ w.global.total \in [Fields -> Nat]

(* removeVectors never writes a negative count, whatever it takes away.    *)
LEMMA RemoveReadable ==
    ASSUME NEW w, Writable(w), NEW id \in IDs, w.meta[id] # Missing, ~RemoveFails(w, id)
    PROVE  LET r == RemoveVectors(w, id) IN
           Writable(r) /\ r.meta = w.meta /\ r.doc = w.doc /\ r.legacy = w.legacy
<1> DEFINE m == w.meta[id]
           P == [k \in Slots |-> IF m.vectors[k] = {} THEN w.posting[k]
                                 ELSE [w.posting[k] EXCEPT ![id] = {}]]
           T == [k \in Slots |-> IF m.vectors[k] = {} THEN w.term[k]
                                 ELSE LessTerm(w.term[k], Cardinality(m.vectors[k]))]
           L == [f \in Fields |-> IF w.global.total[f] >= m.lengths[f]
                                  THEN w.global.total[f] - m.lengths[f] ELSE 0]
           r == RemoveVectors(w, id)
<1>1. /\ w \in Store /\ m \in Meta /\ FiniteVectors(m)
      /\ w.global \in Global /\ w.global.total \in [Fields -> Nat]
  BY DEF Writable, Readable, Store
<1>2. P \in [Slots -> [IDs -> SUBSET Nat]]
  BY <1>1 DEF Store
<1>3. T \in [Slots -> TermInfo \cup {Missing}]
  <2> SUFFICES ASSUME NEW k \in Slots, m.vectors[k] # {}
               PROVE  LessTerm(w.term[k], Cardinality(m.vectors[k])) \in TermInfo \cup {Missing}
    BY <1>1 DEF Store
  <2>1. w.term[k] \in TermInfo
    BY <1>1 DEF Store, RemoveFails
  <2>2. Cardinality(m.vectors[k]) \in Nat
    BY <1>1, FS_CardinalityType DEF FiniteVectors
  <2> HIDE DEF m
  <2> QED BY <2>1, <2>2 DEF LessTerm, TermInfo
<1>4. L \in [Fields -> Nat]
  <2> SUFFICES ASSUME NEW f \in Fields
               PROVE  (IF w.global.total[f] >= m.lengths[f]
                       THEN w.global.total[f] - m.lengths[f] ELSE 0) \in Nat
    OBVIOUS
  <2>1. w.global.total[f] \in Nat /\ m.lengths[f] \in Nat
    BY <1>1 DEF Meta
  <2> QED BY <2>1
<1>5. r = [w EXCEPT !.posting = P, !.term = T, !.global.total = L]
  BY DEF RemoveVectors
<1> HIDE DEF P, T, L, r, m
<1>6. /\ r = [doc |-> w.doc, meta |-> w.meta, posting |-> P, term |-> T,
              global |-> [count |-> w.global.count, total |-> L], legacy |-> w.legacy]
  BY <1>1, <1>5 DEF Store, Global
<1>7. r.global \in Global /\ r.global.total \in [Fields -> Nat]
  BY <1>1, <1>4, <1>6 DEF Global
<1>8. r \in Store
  BY <1>1, <1>2, <1>3, <1>6, <1>7 DEF Store
<1> QED BY <1>6, <1>7, <1>8 DEF Writable, Readable, r

(* A document can be added to contents of any kind, if no error stops it,  *)
(* and be taken away from them.                                            *)
LEMMA AddReadable ==
    ASSUME NEW w, Writable(w), NEW a \in Analyzers, NEW id \in IDs, NEW d \in Document,
           ~AddFails(w, id)
    PROVE  Writable(AddInTransaction(w, a, id, d))
<1> DEFINE m == MetaOf(a, d)
           c == Cleared(w, id)
           P == [k \in Slots |-> IF m.vectors[k] = {} THEN c.posting[k]
                                 ELSE [c.posting[k] EXCEPT ![id] = m.vectors[k]]]
           T == [k \in Slots |-> IF m.vectors[k] = {} THEN c.term[k]
                                 ELSE MoreTerm(c.term[k], Cardinality(m.vectors[k]))]
           L == [f \in Fields |-> c.global.total[f] + m.lengths[f]]
           v == AddInTransaction(w, a, id, d)
<1>1. m \in Meta /\ FiniteVectors(m)
  BY MetaOfType
<1>2. Writable(c) /\ c.meta = w.meta /\ c.doc = w.doc /\ c.legacy = w.legacy
  <2>1. CASE w.meta[id] = Missing
    <3>1. w \in Store /\ w.global \in Global /\ w.global.total \in [Fields -> Nat]
      BY DEF Writable, Readable
    <3>2. c = [w EXCEPT !.global.count = @ + 1]
      BY <2>1 DEF Cleared
    <3> HIDE DEF c
    <3>3. c = [doc |-> w.doc, meta |-> w.meta, posting |-> w.posting, term |-> w.term,
               global |-> [count |-> w.global.count + 1, total |-> w.global.total],
               legacy |-> w.legacy]
      BY <3>1, <3>2 DEF Store, Global
    <3>4. c.global \in Global /\ c.global.total \in [Fields -> Nat]
      BY <3>1, <3>3 DEF Global
    <3>5. c \in Store
      BY <3>1, <3>3, <3>4 DEF Store
    <3> QED BY <3>3, <3>4, <3>5 DEF Writable, Readable
  <2>2. CASE w.meta[id] # Missing
    <3>1. c = RemoveVectors(w, id) /\ ~RemoveFails(w, id)
      BY <2>2 DEF Cleared, AddFails
    <3> QED BY <3>1, <2>2, RemoveReadable
  <2> QED BY <2>1, <2>2
<1>3. c \in Store /\ c.global \in Global /\ c.global.total \in [Fields -> Nat]
  BY <1>2 DEF Writable, Readable
<1>4. v = [AddVectors(c, id, m) EXCEPT !.doc[id] = d, !.meta[id] = m]
  BY DEF AddInTransaction
<1> HIDE DEF c, m, v
<1>5. P \in [Slots -> [IDs -> SUBSET Nat]]
  BY <1>1, <1>3 DEF Store, Meta
<1>6. T \in [Slots -> TermInfo \cup {Missing}]
  <2> SUFFICES ASSUME NEW k \in Slots
               PROVE  MoreTerm(c.term[k], Cardinality(m.vectors[k])) \in TermInfo
    BY <1>3 DEF Store
  <2>1. Cardinality(m.vectors[k]) \in Nat
    BY <1>1, FS_CardinalityType DEF FiniteVectors
  <2>2. c.term[k] \in TermInfo \cup {Missing}
    BY <1>3 DEF Store
  <2> QED BY <2>1, <2>2 DEF MoreTerm, TermInfo
<1>7. L \in [Fields -> Nat]
  BY <1>1, <1>3 DEF Meta
<1>8. AddVectors(c, id, m) = [c EXCEPT !.posting = P, !.term = T, !.global.total = L]
  BY DEF AddVectors
<1> HIDE DEF P, T, L
<1>9. v = [doc |-> [w.doc EXCEPT ![id] = d], meta |-> [w.meta EXCEPT ![id] = m],
           posting |-> P, term |-> T,
           global |-> [count |-> c.global.count, total |-> L], legacy |-> w.legacy]
  BY <1>2, <1>3, <1>4, <1>8 DEF Store, Global
<1>10. v.global \in Global /\ v.global.total \in [Fields -> Nat]
  BY <1>3, <1>7, <1>9 DEF Global
<1>11. w \in Store
  BY DEF Writable, Readable
<1>12. v \in Store
  BY <1>1, <1>5, <1>6, <1>9, <1>10, <1>11 DEF Store
<1>13. \A i \in IDs : v.meta[i] # Missing => FiniteVectors(v.meta[i])
  <2>1. \A i \in IDs : v.meta[i] = IF i = id THEN m ELSE w.meta[i]
    BY <1>9, <1>11 DEF Store
  <2> QED BY <2>1, <1>1 DEF Writable, Readable
<1> QED BY <1>10, <1>12, <1>13 DEF Writable, Readable, v

(* A delete that does not fail leaves contents that can be read.           *)
LEMMA DeleteReadable ==
    ASSUME NEW w, Writable(w), NEW id \in IDs, w.meta[id] # Missing, ~RemoveFails(w, id)
    PROVE  Writable(DeleteInTransaction(w, id))
<1> DEFINE r == RemoveVectors(w, id)
           v == DeleteInTransaction(w, id)
<1>1. Writable(r) /\ r.meta = w.meta
  BY RemoveReadable
<1>2. v = [r EXCEPT !.global.count = IF @ > 0 THEN @ - 1 ELSE @,
                    !.doc[id] = Missing, !.meta[id] = Missing]
  BY DEF DeleteInTransaction
<1> HIDE DEF r, v
<1>3. r \in Store /\ r.global \in Global /\ r.global.total \in [Fields -> Nat]
  BY <1>1 DEF Writable, Readable
<1>4. v = [doc |-> [r.doc EXCEPT ![id] = Missing], meta |-> [r.meta EXCEPT ![id] = Missing],
           posting |-> r.posting, term |-> r.term,
           global |-> [count |-> IF r.global.count > 0 THEN r.global.count - 1 ELSE r.global.count,
                       total |-> r.global.total],
           legacy |-> r.legacy]
  BY <1>2, <1>3 DEF Store, Global
<1>5. v.global \in Global /\ v.global.total \in [Fields -> Nat]
  <2>1. r.global.count \in Nat
    BY <1>3 DEF Global
  <2>2. (IF r.global.count > 0 THEN r.global.count - 1 ELSE r.global.count) \in Nat
    BY <2>1
  <2> QED BY <2>2, <1>3, <1>4 DEF Global
<1>6. v \in Store
  BY <1>3, <1>4, <1>5 DEF Store
<1>7. \A i \in IDs : v.meta[i] # Missing => FiniteVectors(v.meta[i])
  <2>1. \A i \in IDs : v.meta[i] = IF i = id THEN Missing ELSE r.meta[i]
    BY <1>3, <1>4 DEF Store
  <2> QED BY <2>1, <1>1 DEF Writable, Readable
<1> QED BY <1>5, <1>6, <1>7 DEF Writable, Readable, v

-----------------------------------------------------------------------------
(* Contents that hold document d under ID id as analyzer a indexes it. *)
HasIndexed(s, id, a, d) == s.doc[id] = d /\ s.meta[id] = MetaOf(a, d)

SameDocument(s, t, id) == s.doc[id] = t.doc[id] /\ s.meta[id] = t.meta[id]

(* What writing and deleting one document change of the documents.         *)
LEMMA WrittenFields ==
    ASSUME NEW w \in Store, NEW a, NEW id \in IDs, NEW d
    PROVE  LET v == AddInTransaction(w, a, id, d) IN
           /\ v.legacy = w.legacy
           /\ HasIndexed(v, id, a, d)
           /\ \A i \in IDs \ {id} : SameDocument(v, w, i)
<1> DEFINE m == MetaOf(a, d)
           c == Cleared(w, id)
           r == AddVectors(c, id, m)
           v == AddInTransaction(w, a, id, d)
<1>1. c.doc = w.doc /\ c.meta = w.meta /\ c.legacy = w.legacy /\ DOMAIN c = DOMAIN w
  BY DEF Cleared, RemoveVectors, Store
<1>2. DOMAIN w = {"doc", "meta", "posting", "term", "global", "legacy"}
  BY DEF Store
<1> HIDE DEF c, m
<1>3. r.doc = c.doc /\ r.meta = c.meta /\ r.legacy = c.legacy /\ DOMAIN r = DOMAIN c
  BY <1>1, <1>2 DEF AddVectors
<1>4. v = [r EXCEPT !.doc[id] = d, !.meta[id] = m]
  BY DEF AddInTransaction, c, m
<1> HIDE DEF r, v
<1>5. /\ v.doc = [w.doc EXCEPT ![id] = d] /\ v.meta = [w.meta EXCEPT ![id] = m]
      /\ v.legacy = w.legacy
  BY <1>1, <1>2, <1>3, <1>4
<1>6. DOMAIN w.doc = IDs /\ DOMAIN w.meta = IDs
  BY DEF Store
<1>7. HasIndexed(v, id, a, d)
  BY <1>5, <1>6 DEF HasIndexed, m
<1>8. ASSUME NEW i \in IDs \ {id}
      PROVE  SameDocument(v, w, i)
  BY <1>5, <1>6 DEF SameDocument
<1> QED BY <1>5, <1>7, <1>8 DEF v

(* What deleting one document changes of the documents.                    *)
LEMMA DeletedFields ==
    ASSUME NEW w \in Store, NEW id \in IDs
    PROVE  LET v == DeleteInTransaction(w, id) IN
           /\ v.legacy = w.legacy
           /\ v.doc[id] = Missing /\ v.meta[id] = Missing
           /\ \A i \in IDs \ {id} : SameDocument(v, w, i)
<1> DEFINE r == RemoveVectors(w, id)
           v == DeleteInTransaction(w, id)
<1>1. r.doc = w.doc /\ r.meta = w.meta /\ r.legacy = w.legacy /\ DOMAIN r = DOMAIN w
  BY DEF RemoveVectors, Store
<1>2. DOMAIN w = {"doc", "meta", "posting", "term", "global", "legacy"}
  BY DEF Store
<1>3. v = [r EXCEPT !.global.count = IF @ > 0 THEN @ - 1 ELSE @,
                    !.doc[id] = Missing, !.meta[id] = Missing]
  BY DEF DeleteInTransaction
<1> HIDE DEF r, v
<1>4. /\ v.doc = [w.doc EXCEPT ![id] = Missing] /\ v.meta = [w.meta EXCEPT ![id] = Missing]
      /\ v.legacy = w.legacy
  BY <1>1, <1>2, <1>3
<1>5. DOMAIN w.doc = IDs /\ DOMAIN w.meta = IDs
  BY DEF Store
<1> QED BY <1>4, <1>5 DEF SameDocument, v

================================================================================
