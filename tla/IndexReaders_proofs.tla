-------------------------- MODULE IndexReaders_proofs --------------------------
(***************************************************************************)
(* What readers can rely on while others write, for every set of documents,*)
(* queries, readers and handles.                                           *)
(*                                                                         *)
(* Every commit, a Rebuild that replays all documents included, leaves     *)
(* exact contents, and leaves the documents alone that it does not write.  *)
(* So what a reader has read of a document stays true until that document  *)
(* is written, and what is left to read of it decides the same answer.     *)
(***************************************************************************)
EXTENDS IndexReaders, StoredIndex_proofs, SequenceTheorems

-----------------------------------------------------------------------------
(* A recursion over the subsets of a finite set defines a function.        *)

(* Induction over the numbers, from the well-foundedness of their order.   *)
LEMMA NumberInduction ==
    ASSUME NEW S \in SUBSET Nat, 0 \in S, \A n \in S : n + 1 \in S
    PROVE  S = Nat
<1> SUFFICES ASSUME Nat \ S # {} PROVE FALSE
  OBVIOUS
<1> DEFINE R == OpToRel(<, Nat)
<1>1. IsWellFoundedOn(R, Nat)
  BY NatLessThanWellFounded, Zenon
<1> HIDE DEF R
<1>2. PICK x \in Nat \ S : \A y \in Nat \ S : ~ (<<y, x>> \in R)
  BY <1>1, WFMin
<1>3. x # 0 /\ x - 1 \in Nat \ S
  OBVIOUS
<1>4. <<x - 1, x>> \in R
  BY <1>3 DEF R, OpToRel
<1> QED BY <1>2, <1>3, <1>4

Pick(S) == CHOOSE x \in S : TRUE

(* An element is taken from a set that is not empty, and a smaller set     *)
(* remains.                                                                *)
LEMMA PickSmaller ==
    ASSUME NEW D, IsFiniteSet(D), NEW S \in SUBSET D, S # {}
    PROVE  /\ Pick(S) \in S /\ S \ {Pick(S)} \in SUBSET D
           /\ Cardinality(S) \in Nat /\ Cardinality(S \ {Pick(S)}) = Cardinality(S) - 1
           /\ Cardinality(S \ {Pick(S)}) \in Nat
<1>1. Pick(S) \in S
  BY DEF Pick
<1>2. IsFiniteSet(S) /\ Cardinality(S) \in Nat
  BY FS_Subset, FS_CardinalityType
<1>3. IsFiniteSet(S \ {Pick(S)}) /\ Cardinality(S \ {Pick(S)}) = Cardinality(S) - 1
  BY <1>1, <1>2, FS_RemoveElement
<1>4. Cardinality(S \ {Pick(S)}) \in Nat
  BY <1>3, FS_CardinalityType
<1> QED BY <1>1, <1>2, <1>3, <1>4

(* What holds of the empty set and is passed on when an element is added   *)
(* holds of every subset of a finite set.                                  *)
LEMMA SetInduction ==
    ASSUME NEW D, IsFiniteSet(D), NEW G \in SUBSET (SUBSET D), {} \in G,
           \A S \in SUBSET D : S # {} /\ S \ {Pick(S)} \in G => S \in G
    PROVE  SUBSET D = G
<1> DEFINE N == {n \in Nat : \A S \in SUBSET D : Cardinality(S) <= n => S \in G}
<1>1. 0 \in N
  <2> SUFFICES ASSUME NEW S \in SUBSET D, Cardinality(S) <= 0
               PROVE  S \in G
    OBVIOUS
  <2>1. S = {}
    <3> SUFFICES ASSUME S # {} PROVE FALSE
      OBVIOUS
    <3>1. Cardinality(S) \in Nat /\ Cardinality(S \ {Pick(S)}) = Cardinality(S) - 1
          /\ Cardinality(S \ {Pick(S)}) \in Nat
      BY PickSmaller
    <3> QED BY <3>1
  <2> QED BY <2>1
<1>2. ASSUME NEW n \in N
      PROVE  n + 1 \in N
  <2> SUFFICES ASSUME NEW S \in SUBSET D, Cardinality(S) <= n + 1
               PROVE  S \in G
    OBVIOUS
  <2>1. CASE S = {}
    BY <2>1
  <2>2. CASE S # {}
    <3>1. S \ {Pick(S)} \in SUBSET D /\ Cardinality(S \ {Pick(S)}) <= n
      BY <2>2, PickSmaller
    <3> QED BY <3>1, <2>2
  <2> QED BY <2>1, <2>2
<1> HIDE DEF N
<1>3. N = Nat
  <2>1. N \subseteq Nat
    BY DEF N
  <2> QED BY <2>1, <1>1, <1>2, NumberInduction
<1>4. ASSUME NEW S \in SUBSET D
      PROVE  S \in G
  <2>1. Cardinality(S) \in Nat
    BY FS_Subset, FS_CardinalityType
  <2>2. Cardinality(S) \in N /\ Cardinality(S) <= Cardinality(S)
    BY <2>1, <1>3
  <2> QED BY <2>2 DEF N
<1> QED BY <1>4

(* The function g on the subsets of D that a step takes on from the base. *)
Follows(g, D, base, step) ==
    \A S \in SUBSET D :
        g[S] = IF S = {} THEN base ELSE step[<<g[S \ {Pick(S)}], Pick(S)>>]

(* Every base and every step define such a function.                       *)
LEMMA SetRecursion ==
    ASSUME NEW D, IsFiniteSet(D), NEW V, NEW base \in V, NEW step \in [V \X D -> V]
    PROVE  \E g \in [SUBSET D -> V] : Follows(g, D, base, step)
<1> DEFINE Upto(n) == {S \in SUBSET D : Cardinality(S) <= n}
           Eq(g, S) == g[S] = IF S = {} THEN base ELSE step[<<g[S \ {Pick(S)}], Pick(S)>>]
           N == {n \in Nat : \E g \in [Upto(n) -> V] : \A S \in Upto(n) : Eq(g, S)}
<1>1. \A S \in SUBSET D : Cardinality(S) \in Nat
  BY FS_Subset, FS_CardinalityType
<1>2. 0 \in N
  <2>1. \A S \in Upto(0) : S = {}
    <3> SUFFICES ASSUME NEW S \in Upto(0), S # {} PROVE FALSE
      OBVIOUS
    <3>1. Cardinality(S) - 1 \in Nat /\ Cardinality(S) \in Nat
      BY PickSmaller
    <3> QED BY <3>1
  <2>2. [S \in Upto(0) |-> base] \in [Upto(0) -> V]
    OBVIOUS
  <2>3. \A S \in Upto(0) : Eq([T \in Upto(0) |-> base], S)
    BY <2>1
  <2> QED BY <2>2, <2>3
<1>3. ASSUME NEW n \in N
      PROVE  n + 1 \in N
  <2>1. PICK g \in [Upto(n) -> V] : \A S \in Upto(n) : Eq(g, S)
    BY <1>3
  <2> DEFINE h == [S \in Upto(n + 1) |->
                     IF S = {} THEN base ELSE step[<<g[S \ {Pick(S)}], Pick(S)>>]]
  <2>2. ASSUME NEW S \in Upto(n + 1), S # {}
        PROVE  S \ {Pick(S)} \in Upto(n) /\ Pick(S) \in D
    BY <2>2, PickSmaller, <1>1
  <2>3. h \in [Upto(n + 1) -> V]
    BY <2>2
  <2>4. \A S \in Upto(n) : S \in Upto(n + 1) /\ h[S] = g[S]
    <3> TAKE S \in Upto(n)
    <3>1. S \in Upto(n + 1)
      BY <1>1
    <3> QED BY <3>1, <2>1
  <2>5. \A S \in Upto(n + 1) : Eq(h, S)
    BY <2>2, <2>4
  <2> HIDE DEF h, Eq, Upto
  <2> QED BY <2>3, <2>5
<1>4. N = Nat
  <2>1. N \subseteq Nat
    OBVIOUS
  <2> HIDE DEF N
  <2> QED BY <2>1, <1>2, <1>3, NumberInduction
<1>5. Cardinality(D) \in Nat /\ Cardinality(D) \in N
  BY <1>1, <1>4
<1>6. Upto(Cardinality(D)) = SUBSET D
  <2>1. \A S \in SUBSET D : Cardinality(S) <= Cardinality(D)
    BY FS_Subset
  <2> QED BY <2>1
<1> HIDE DEF Upto
<1>7. PICK g \in [SUBSET D -> V] : \A S \in SUBSET D : Eq(g, S)
  BY <1>5, <1>6
<1> QED BY <1>7 DEF Follows

-----------------------------------------------------------------------------
(* What a commit leaves.                                                   *)

(* The documents a Rebuild replays, and the contents it replays them into. *)
ToReplay == {id \in IDs : store.doc[id] # Missing}

SoundStores == {v \in Store : Sound(v)}

ReplayStep(a) ==
    [q \in SoundStores \X ToReplay |-> AddInTransaction(q[1], a, q[2], store.doc[q[2]])]

(* The step of the replay takes exact contents to exact contents.          *)
LEMMA ReplayStepType ==
    ASSUME Sound(store), NEW a \in Analyzers
    PROVE  /\ ReplayStep(a) \in [SoundStores \X ToReplay -> SoundStores]
           /\ \A v \in SoundStores, id \in ToReplay :
                ReplayStep(a)[<<v, id>>] = AddInTransaction(v, a, id, store.doc[id])
<1>1. ASSUME NEW v \in SoundStores, NEW id \in ToReplay
      PROVE  AddInTransaction(v, a, id, store.doc[id]) \in SoundStores
  <2>1. id \in IDs /\ store.doc[id] \in Document /\ Sound(v)
    BY DEF ToReplay, SoundStores, Sound, Store
  <2>2. Sound(AddInTransaction(v, a, id, store.doc[id]))
    BY <2>1, AddSound
  <2> QED BY <2>2 DEF SoundStores, Sound
<1>2. \A q \in SoundStores \X ToReplay : q[1] \in SoundStores /\ q[2] \in ToReplay
  OBVIOUS
<1>3. \A q \in SoundStores \X ToReplay :
        AddInTransaction(q[1], a, q[2], store.doc[q[2]]) \in SoundStores
  BY <1>1, <1>2
<1>4. ReplayStep(a) \in [SoundStores \X ToReplay -> SoundStores]
  BY <1>3 DEF ReplayStep
<1>5. ASSUME NEW v \in SoundStores, NEW id \in ToReplay
      PROVE  ReplayStep(a)[<<v, id>>] = AddInTransaction(v, a, id, store.doc[id])
  BY DEF ReplayStep
<1> QED BY <1>4, <1>5

(* The fold over the documents is the function that its equation defines.  *)
LEMMA ReplayRecursion ==
    ASSUME Sound(store), NEW a \in Analyzers
    PROVE  \E g \in [SUBSET ToReplay -> SoundStores] :
              /\ g[ToReplay] = Replayed(ClearedForRebuild, a, ToReplay)
              /\ \A S \in SUBSET ToReplay :
                   g[S] = IF S = {} THEN ClearedForRebuild
                          ELSE AddInTransaction(g[S \ {Pick(S)}], a, Pick(S), store.doc[Pick(S)])
<1> DEFINE D == ToReplay
           base == ClearedForRebuild
           Body(f, S) == IF S = {} THEN base
                         ELSE AddInTransaction(f[S \ {Pick(S)}], a, Pick(S), store.doc[Pick(S)])
           F(f) == f = [S \in SUBSET D |-> Body(f, S)]
           replay == CHOOSE f : F(f)
<1>1. IsFiniteSet(D)
  BY FiniteIDs, FS_Subset DEF ToReplay
<1>2. base \in SoundStores
  BY ClearedSound DEF SoundStores, Sound
<1>3. PICK g \in [SUBSET D -> SoundStores] : \A S \in SUBSET D :
         g[S] = IF S = {} THEN base ELSE ReplayStep(a)[<<g[S \ {Pick(S)}], Pick(S)>>]
  <2>1. ReplayStep(a) \in [SoundStores \X D -> SoundStores]
    BY ReplayStepType
  <2>2. \E g \in [SUBSET D -> SoundStores] : Follows(g, D, base, ReplayStep(a))
    <3> HIDE DEF D, base
    <3> QED BY <2>1, <1>1, <1>2, SetRecursion
  <2> QED BY <2>2 DEF Follows
<1>4. ASSUME NEW S \in SUBSET D
      PROVE  g[S] = Body(g, S)
  <2>1. CASE S = {}
    BY <2>1, <1>3
  <2>2. CASE S # {}
    <3>1. Pick(S) \in D /\ S \ {Pick(S)} \in SUBSET D
      BY <2>2, <1>1, PickSmaller
    <3>2. g[S \ {Pick(S)}] \in SoundStores
      BY <3>1
    <3> QED BY <2>2, <3>1, <3>2, <1>3, ReplayStepType
  <2> QED BY <2>1, <2>2
<1>5. F(g)
  <2> HIDE DEF Body, D
  <2>1. g = [S \in SUBSET D |-> g[S]]
    OBVIOUS
  <2> QED BY <2>1, <1>4
<1>6. F(replay)
  <2> HIDE DEF F
  <2> QED BY <1>5
<1>7. \A S \in SUBSET D : replay[S] = Body(replay, S)
  <2> HIDE DEF Body, replay, D
  <2> QED BY <1>6
<1>8. Replayed(base, a, D) = replay[D]
  BY DEF Replayed, FoldSet, MapThenFoldSet, Pick
<1> DEFINE G == {S \in SUBSET D : replay[S] \in SoundStores}
<1> HIDE DEF replay
<1>9. SUBSET D = G
  <2> HIDE DEF D, base
  <2>1. {} \in G
    BY <1>2, <1>7
  <2>2. ASSUME NEW S \in SUBSET D, S # {}, S \ {Pick(S)} \in G
        PROVE  S \in G
    <3>1. Pick(S) \in D /\ replay[S \ {Pick(S)}] \in SoundStores
      BY <2>2, <1>1, PickSmaller
    <3>2. replay[S] = ReplayStep(a)[<<replay[S \ {Pick(S)}], Pick(S)>>]
      BY <3>1, <2>2, <1>7, ReplayStepType DEF D
    <3>3. replay[S] \in SoundStores
      BY <3>1, <3>2, ReplayStepType DEF D
    <3> QED BY <3>3
  <2>3. G \in SUBSET (SUBSET D)
    OBVIOUS
  <2> HIDE DEF G
  <2> QED BY <2>1, <2>2, <2>3, <1>1, SetInduction
<1>10. replay \in [SUBSET D -> SoundStores]
  <2>1. replay = [S \in SUBSET D |-> replay[S]]
    <3> HIDE DEF Body, D
    <3>1. replay = [S \in SUBSET D |-> Body(replay, S)]
      BY <1>6
    <3> QED BY <3>1, <1>7
  <2> HIDE DEF Body, D
  <2> QED BY <2>1, <1>9
<1> QED BY <1>7, <1>8, <1>10

(* Every document is indexed again with the present analyzer, and no other *)
(* comes up.                                                               *)
THEOREM ReplayedExact ==
    ASSUME Sound(store), NEW a \in Analyzers
    PROVE  LET v == Replayed(ClearedForRebuild, a, ToReplay) IN
           /\ Sound(v)
           /\ \A id \in IDs : IF id \in ToReplay THEN HasIndexed(v, id, a, store.doc[id])
                              ELSE v.doc[id] = Missing /\ v.meta[id] = Missing
<1> DEFINE D == ToReplay
           Of(v, S, id) == IF id \in S THEN HasIndexed(v, id, a, store.doc[id])
                           ELSE v.doc[id] = Missing /\ v.meta[id] = Missing
<1>1. IsFiniteSet(D)
  BY FiniteIDs, FS_Subset DEF ToReplay
<1>2. PICK g \in [SUBSET D -> SoundStores] :
              /\ g[D] = Replayed(ClearedForRebuild, a, D)
              /\ \A S \in SUBSET D :
                   g[S] = IF S = {} THEN ClearedForRebuild
                          ELSE AddInTransaction(g[S \ {Pick(S)}], a, Pick(S), store.doc[Pick(S)])
  BY ReplayRecursion
<1> DEFINE G == {S \in SUBSET D : \A id \in IDs : Of(g[S], S, id)}
<1>3. {} \in G
  <2>1. \A id \in IDs : ClearedForRebuild.doc[id] = Missing /\ ClearedForRebuild.meta[id] = Missing
    BY DEF ClearedForRebuild, EmptyStore
  <2> QED BY <1>2, <2>1
<1>4. ASSUME NEW S \in SUBSET D, S # {}, S \ {Pick(S)} \in G
      PROVE  S \in G
  <2> DEFINE i == Pick(S)
             w == g[S \ {i}]
  <2>1. i \in S /\ i \in D /\ S \ {i} \in SUBSET D
    BY <1>4, <1>1, PickSmaller
  <2>2. i \in IDs /\ w \in Store
    BY <2>1 DEF ToReplay, SoundStores
  <2>3. g[S] = AddInTransaction(w, a, i, store.doc[i])
    BY <1>2, <1>4
  <2> HIDE DEF i
  <2>4. \A id \in IDs : Of(w, S \ {i}, id)
    BY <1>4 DEF i
  <2> HIDE DEF w
  <2>5. /\ HasIndexed(g[S], i, a, store.doc[i])
        /\ \A id \in IDs \ {i} : SameDocument(g[S], w, id)
    BY <2>2, <2>3, WrittenFields
  <2>6. ASSUME NEW id \in IDs
        PROVE  Of(g[S], S, id)
    <3>1. CASE id = i
      BY <3>1, <2>1, <2>5
    <3>2. CASE id # i
      BY <3>2, <2>4, <2>5 DEF SameDocument, HasIndexed
    <3> QED BY <3>1, <3>2
  <2> QED BY <2>6
<1>5. D \in G
  <2>1. G \in SUBSET (SUBSET D)
    OBVIOUS
  <2> HIDE DEF G, D
  <2> QED BY <2>1, <1>1, <1>3, <1>4, SetInduction
<1>6. g[D] \in SoundStores
  OBVIOUS
<1>7. Sound(g[D])
  BY <1>6 DEF SoundStores
<1> QED BY <1>2, <1>5, <1>7

(* Contents that some handles of the store have written.                   *)
Written(s) ==
    /\ Sound(s)
    /\ \A id \in Live(s) : \E a \in Analyzers : s.meta[id] = MetaOf(a, s.doc[id])

(* Contents t are what a commit leaves that writes other versions of these *)
(* documents, and adds or removes an ID only if these events say so.       *)
Leaves(t, written, events) ==
    /\ Written(t)
    /\ \A id \in IDs \ written : SameDocument(t, store, id)
    /\ "grew" \notin events => Live(t) \subseteq Live(store)
    /\ "shrank" \notin events => Live(store) \subseteq Live(t)

(* Add leaves exact contents; an ID comes in only if it was not live.      *)
LEMMA AddLeaves ==
    ASSUME Written(store), NEW a \in Analyzers, NEW id \in IDs, NEW d \in Document
    PROVE  Leaves(AddInTransaction(store, a, id, d), {id},
                  IF store.meta[id] = Missing THEN {"grew"} ELSE {})
<1> DEFINE t == AddInTransaction(store, a, id, d)
           e == IF store.meta[id] = Missing THEN {"grew"} ELSE {}
<1>1. store \in Store
  BY DEF Written, Sound
<1>2. Sound(t)
  BY AddSound DEF Written
<1>3. HasIndexed(t, id, a, d) /\ \A i \in IDs \ {id} : SameDocument(t, store, i)
  BY <1>1, WrittenFields
<1> HIDE DEF t
<1>4. MetaOf(a, d) # Missing
  BY MetaOfType, MarkersDiffer
<1>5. ASSUME NEW i \in Live(t)
      PROVE  \E b \in Analyzers : t.meta[i] = MetaOf(b, t.doc[i])
  <2>1. CASE i = id
    BY <2>1, <1>3 DEF HasIndexed
  <2>2. CASE i # id
    BY <2>2, <1>3, <1>5 DEF SameDocument, Live, Written
  <2> QED BY <2>1, <2>2
<1>6. "grew" \notin e => Live(t) \subseteq Live(store)
  BY <1>3 DEF SameDocument, Live
<1>7. Live(store) \subseteq Live(t)
  BY <1>3, <1>4 DEF SameDocument, HasIndexed, Live
<1> QED BY <1>2, <1>3, <1>5, <1>6, <1>7 DEF Leaves, Written, t

(* Delete leaves exact contents without the ID.                            *)
LEMMA DeleteLeaves ==
    ASSUME Written(store), NEW id \in IDs, store.meta[id] # Missing
    PROVE  Leaves(DeleteInTransaction(store, id), {id}, {"shrank"})
<1> DEFINE t == DeleteInTransaction(store, id)
<1>1. store \in Store
  BY DEF Written, Sound
<1>2. Sound(t)
  BY DeleteSound DEF Written
<1>3. t.meta[id] = Missing /\ \A i \in IDs \ {id} : SameDocument(t, store, i)
  BY <1>1, DeletedFields
<1> HIDE DEF t
<1>4. Live(t) \subseteq Live(store) \ {id}
  BY <1>3 DEF SameDocument, Live
<1>5. ASSUME NEW i \in Live(t)
      PROVE  \E b \in Analyzers : t.meta[i] = MetaOf(b, t.doc[i])
  BY <1>3, <1>4, <1>5 DEF SameDocument, Live, Written
<1> QED BY <1>2, <1>3, <1>4, <1>5 DEF Leaves, Written, t

(* Rebuild leaves the same documents, analyzed again.                      *)
LEMMA RebuildLeaves ==
    ASSUME Written(store), NEW a \in Analyzers
    PROVE  Leaves(Replayed(ClearedForRebuild, a, {id \in IDs : store.doc[id] # Missing}),
                  Reanalyzed(a), {})
<1> DEFINE t == Replayed(ClearedForRebuild, a, ToReplay)
<1>1. /\ Sound(t)
      /\ \A id \in IDs : IF id \in ToReplay THEN HasIndexed(t, id, a, store.doc[id])
                         ELSE t.doc[id] = Missing /\ t.meta[id] = Missing
  BY ReplayedExact DEF Written
<1> HIDE DEF t
<1>2. ToReplay = Live(store)
  BY DEF ToReplay, Live, Written, Sound, Exact, DocumentsPaired
<1>3. ASSUME NEW id \in Live(store)
      PROVE  t.doc[id] = store.doc[id] /\ t.meta[id] = MetaOf(a, store.doc[id])
  BY <1>1, <1>2 DEF HasIndexed, Live
<1>4. ASSUME NEW id \in IDs \ Live(store)
      PROVE  t.doc[id] = Missing /\ t.meta[id] = Missing
  BY <1>1, <1>2
<1>5. \A id \in IDs \ Live(store) : store.doc[id] = Missing /\ store.meta[id] = Missing
  BY <1>2 DEF Live, ToReplay
<1>6. \A id \in Live(store) : MetaOf(a, store.doc[id]) # Missing
  <2> TAKE id \in Live(store)
  <2>1. store.doc[id] \in Document
    BY <1>2 DEF ToReplay, Written, Sound, Store
  <2> QED BY <2>1, MetaOfType, MarkersDiffer
<1>7. Live(t) = Live(store)
  BY <1>3, <1>4, <1>6 DEF Live
<1>8. \A id \in IDs \ Reanalyzed(a) : SameDocument(t, store, id)
  BY <1>3, <1>4, <1>5 DEF SameDocument, Reanalyzed
<1>9. \A id \in Live(t) : \E b \in Analyzers : t.meta[id] = MetaOf(b, t.doc[id])
  BY <1>3, <1>7
<1> QED BY <1>1, <1>7, <1>8, <1>9 DEF Leaves, Written, t, ToReplay

(* Every write of another operation is such a commit.                      *)
Write(h) ==
    \/ \E id \in IDs : \/ \E d \in Document : Add(h, id, d)
                       \/ Delete(h, id)
    \/ Rebuild(h)

(* Every write is recorded as what it did.                                 *)
LEMMA WriteLeaves ==
    ASSUME Written(store), NEW h \in Handles, Write(h)
    PROVE  \E written \in SUBSET IDs, events \in SUBSET {"grew", "shrank"} :
              Committed(h, written, events) /\ Leaves(store', written, events)
<1> DEFINE a == AnalyzerOf[h]
<1>1. a \in Analyzers
  BY ReadersAssigned
<1> HIDE DEF a
<1>2. CASE \E id \in IDs, d \in Document : Add(h, id, d)
  <2>1. PICK id \in IDs, d \in Document : Add(h, id, d)
    BY <1>2
  <2> DEFINE e == IF store.meta[id] = Missing THEN {"grew"} ELSE {}
  <2>2. Committed(h, {id}, e) /\ store' = AddInTransaction(store, a, id, d)
    BY <2>1 DEF Add, a
  <2>3. Leaves(store', {id}, e)
    BY <2>2, <1>1, AddLeaves
  <2>4. {id} \in SUBSET IDs /\ e \in SUBSET {"grew", "shrank"}
    OBVIOUS
  <2> HIDE DEF e
  <2> QED BY <2>2, <2>3, <2>4
<1>3. CASE \E id \in IDs : Delete(h, id)
  <2>1. PICK id \in IDs : Delete(h, id)
    BY <1>3
  <2>2. Committed(h, {id}, {"shrank"}) /\ Leaves(store', {id}, {"shrank"})
    BY <2>1, DeleteLeaves DEF Delete
  <2>3. {id} \in SUBSET IDs /\ {"shrank"} \in SUBSET {"grew", "shrank"}
    OBVIOUS
  <2> QED BY <2>2, <2>3
<1>4. CASE Rebuild(h)
  <2>1. Committed(h, Reanalyzed(a), {}) /\ Leaves(store', Reanalyzed(a), {})
    BY <1>1, <1>4, RebuildLeaves DEF Rebuild, a
  <2>2. Reanalyzed(a) \in SUBSET IDs /\ {} \in SUBSET {"grew", "shrank"}
    BY DEF Reanalyzed, Live
  <2> QED BY <2>1, <2>2
<1> QED BY <1>2, <1>3, <1>4 DEF Write

-----------------------------------------------------------------------------
(* Queries, their clauses and the terms of a prefix.                       *)

Has(s, id, k) == s.posting[k][id] # {}

(* The clauses todo ask for slot k in this role.                           *)
Asks(todo, role, k) == \E n \in 1 .. Len(todo) : todo[n] = <<role, k>>

(* Slots in one role are clauses of that role, in their order.             *)
LEMMA AsClauses ==
    ASSUME NEW role \in Roles, NEW slots \in Seq(Slots)
    PROVE  /\ As(role, slots) \in Seq(Roles \X Slots) /\ Len(As(role, slots)) = Len(slots)
           /\ \A n \in 1 .. Len(slots) : As(role, slots)[n] = <<role, slots[n]>>
<1>1. Len(slots) \in Nat /\ \A n \in 1 .. Len(slots) : slots[n] \in Slots
  OBVIOUS
<1>2. As(role, slots) \in [1 .. Len(slots) -> Roles \X Slots]
  BY <1>1 DEF As
<1> QED BY <1>1, <1>2 DEF As

Joins(S, s, t) ==
    /\ s \o t \in Seq(S) /\ Len(s \o t) = Len(s) + Len(t)
    /\ \A n \in 1 .. Len(s) : (s \o t)[n] = s[n]
    /\ \A n \in 1 .. Len(t) : (s \o t)[Len(s) + n] = t[n]

(* What two sequences joined are.                                          *)
LEMMA Joined ==
    ASSUME NEW S, NEW s \in Seq(S), NEW t \in Seq(S)
    PROVE  Joins(S, s, t)
<1>1. /\ s \o t \in Seq(S) /\ Len(s \o t) = Len(s) + Len(t)
      /\ \A i \in 1 .. Len(s) + Len(t) :
           (s \o t)[i] = IF i <= Len(s) THEN s[i] ELSE t[i - Len(s)]
  BY ConcatProperties
<1>2. Len(s) \in Nat /\ Len(t) \in Nat
  OBVIOUS
<1>3. ASSUME NEW n \in 1 .. Len(s)
      PROVE  (s \o t)[n] = s[n]
  <2>1. n \in 1 .. Len(s) + Len(t) /\ n <= Len(s)
    BY <1>2
  <2> QED BY <2>1, <1>1
<1>4. ASSUME NEW n \in 1 .. Len(t)
      PROVE  (s \o t)[Len(s) + n] = t[n]
  <2>1. Len(s) + n \in 1 .. Len(s) + Len(t) /\ ~(Len(s) + n <= Len(s)) /\ (Len(s) + n) - Len(s) = n
    BY <1>2
  <2> QED BY <2>1, <1>1
<1> QED BY <1>1, <1>3, <1>4 DEF Joins

(* The clauses of a query: required, then optional, then excluded ones.    *)
LEMMA ClausesShape ==
    ASSUME NEW q \in Query
    PROVE  LET c == Clauses(q)
               m == Len(q.must)
               s == Len(q.should)
               x == Len(q.mustNot)
           IN  /\ c \in Seq(Roles \X Slots) /\ m \in Nat /\ s \in Nat /\ x \in Nat
               /\ Len(c) = m + s + x
               /\ \A n \in 1 .. m : c[n] = <<"must", q.must[n]>>
               /\ \A n \in 1 .. s : c[m + n] = <<"should", q.should[n]>>
               /\ \A n \in 1 .. x : c[m + s + n] = <<"mustNot", q.mustNot[n]>>
<1>1. q.must \in Seq(Slots) /\ q.should \in Seq(Slots) /\ q.mustNot \in Seq(Slots)
  BY DEF Query
<1> DEFINE A == As("must", q.must)
           B == As("should", q.should)
           C == As("mustNot", q.mustNot)
<1>2. /\ A \in Seq(Roles \X Slots) /\ Len(A) = Len(q.must)
      /\ \A n \in 1 .. Len(q.must) : A[n] = <<"must", q.must[n]>>
  BY <1>1, AsClauses DEF Roles
<1>3. /\ B \in Seq(Roles \X Slots) /\ Len(B) = Len(q.should)
      /\ \A n \in 1 .. Len(q.should) : B[n] = <<"should", q.should[n]>>
  BY <1>1, AsClauses DEF Roles
<1>4. /\ C \in Seq(Roles \X Slots) /\ Len(C) = Len(q.mustNot)
      /\ \A n \in 1 .. Len(q.mustNot) : C[n] = <<"mustNot", q.mustNot[n]>>
  BY <1>1, AsClauses DEF Roles
<1>5. Clauses(q) = (A \o B) \o C
  BY DEF Clauses
<1> HIDE DEF A, B, C
<1>6. Len(A) \in Nat /\ Len(B) \in Nat /\ Len(C) \in Nat
  BY <1>2, <1>3, <1>4
<1>7. /\ A \o B \in Seq(Roles \X Slots) /\ Len(A \o B) = Len(A) + Len(B)
      /\ \A n \in 1 .. Len(A) : (A \o B)[n] = A[n]
      /\ \A n \in 1 .. Len(B) : (A \o B)[Len(A) + n] = B[n]
  <2> DEFINE T == Roles \X Slots
  <2>1. A \in Seq(T) /\ B \in Seq(T)
    BY <1>2, <1>3
  <2> HIDE DEF T
  <2>2. Joins(T, A, B)
    BY <2>1, Joined
  <2> QED BY <2>2 DEF T, Joins
<1> DEFINE D == A \o B
<1> HIDE DEF D
<1>8. /\ D \o C \in Seq(Roles \X Slots) /\ Len(D \o C) = Len(D) + Len(C)
      /\ \A n \in 1 .. Len(D) : (D \o C)[n] = D[n]
      /\ \A n \in 1 .. Len(C) : (D \o C)[Len(D) + n] = C[n]
  <2>1. D \in Seq(Roles \X Slots) /\ Len(D) \in Nat
    BY <1>7 DEF D
  <2> DEFINE T == Roles \X Slots
  <2>2. D \in Seq(T) /\ C \in Seq(T)
    BY <2>1, <1>4
  <2> HIDE DEF T
  <2>3. Joins(T, D, C)
    BY <2>2, Joined
  <2> QED BY <2>3 DEF T, Joins
<1>9. Clauses(q) = D \o C /\ Len(D) = Len(A) + Len(B)
  BY <1>5, <1>7 DEF D
<1>10. ASSUME NEW n \in 1 .. Len(q.must)
       PROVE  Clauses(q)[n] = <<"must", q.must[n]>>
  <2>1. n \in 1 .. Len(A) /\ n \in 1 .. Len(D)
    BY <1>2, <1>6, <1>9
  <2> QED BY <2>1, <1>2, <1>7, <1>8, <1>9 DEF D
<1>11. ASSUME NEW n \in 1 .. Len(q.should)
       PROVE  Clauses(q)[Len(q.must) + n] = <<"should", q.should[n]>>
  <2>1. n \in 1 .. Len(B) /\ Len(A) + n \in 1 .. Len(D)
    BY <1>3, <1>6, <1>9
  <2>2. Clauses(q)[Len(A) + n] = D[Len(A) + n]
    BY <2>1, <1>8, <1>9
  <2>3. D[Len(A) + n] = B[n]
    BY <2>1, <1>7 DEF D
  <2> QED BY <2>2, <2>3, <1>2, <1>3
<1>12. ASSUME NEW n \in 1 .. Len(q.mustNot)
       PROVE  Clauses(q)[Len(q.must) + Len(q.should) + n] = <<"mustNot", q.mustNot[n]>>
  <2>1. n \in 1 .. Len(C)
    BY <1>4
  <2>2. Clauses(q)[Len(D) + n] = C[n]
    BY <2>1, <1>8, <1>9
  <2> QED BY <2>2, <1>9, <1>2, <1>3, <1>4
<1> QED BY <1>2, <1>3, <1>4, <1>6, <1>8, <1>9, <1>10, <1>11, <1>12

(* The clauses ask for exactly what the query lists.                       *)
LEMMA ClausesAsk ==
    ASSUME NEW q \in Query, NEW k
    PROVE  /\ Asks(Clauses(q), "must", k) <=> k \in ToSet(q.must)
           /\ Asks(Clauses(q), "should", k) <=> k \in ToSet(q.should)
           /\ Asks(Clauses(q), "mustNot", k) <=> k \in ToSet(q.mustNot)
<1> DEFINE c == Clauses(q)
           m == Len(q.must)
           s == Len(q.should)
           x == Len(q.mustNot)
<1>1. /\ m \in Nat /\ s \in Nat /\ x \in Nat /\ Len(c) = m + s + x
      /\ \A n \in 1 .. m : c[n] = <<"must", q.must[n]>>
      /\ \A n \in 1 .. s : c[m + n] = <<"should", q.should[n]>>
      /\ \A n \in 1 .. x : c[m + s + n] = <<"mustNot", q.mustNot[n]>>
  BY ClausesShape
<1>2. /\ ToSet(q.must) = {q.must[n] : n \in 1 .. m}
      /\ ToSet(q.should) = {q.should[n] : n \in 1 .. s}
      /\ ToSet(q.mustNot) = {q.mustNot[n] : n \in 1 .. x}
  BY DEF ToSet, Query
<1> HIDE DEF c, m, s, x
<1>3. ASSUME NEW n \in 1 .. Len(c)
      PROVE  \/ n \in 1 .. m
             \/ \E j \in 1 .. s : n = m + j
             \/ \E j \in 1 .. x : n = m + s + j
  <2>1. CASE n <= m
    BY <2>1, <1>1
  <2>2. CASE n > m /\ n <= m + s
    <3>1. n - m \in 1 .. s /\ n = m + (n - m)
      BY <2>2, <1>1
    <3> QED BY <3>1
  <2>3. CASE n > m + s
    <3>1. n - (m + s) \in 1 .. x /\ n = m + s + (n - (m + s))
      BY <2>3, <1>1
    <3> QED BY <3>1
  <2> QED BY <2>1, <2>2, <2>3, <1>1
<1>4. /\ \A n \in 1 .. m : n \in 1 .. Len(c)
      /\ \A n \in 1 .. s : m + n \in 1 .. Len(c)
      /\ \A n \in 1 .. x : m + s + n \in 1 .. Len(c)
  BY <1>1
<1>5. Asks(c, "must", k) <=> \E n \in 1 .. m : q.must[n] = k
  <2>1. ASSUME NEW n \in 1 .. Len(c), c[n] = <<"must", k>>
        PROVE  \E j \in 1 .. m : q.must[j] = k
    <3>1. CASE n \in 1 .. m
      <4>1. c[n] = <<"must", q.must[n]>>
        BY <3>1, <1>1
      <4> QED BY <4>1, <3>1, <2>1
    <3>2. CASE \E j \in 1 .. s : n = m + j
      <4>1. PICK j \in 1 .. s : n = m + j
        BY <3>2
      <4>2. c[n] = <<"should", q.should[j]>>
        BY <4>1, <1>1
      <4> QED BY <4>2, <2>1
    <3>3. CASE \E j \in 1 .. x : n = m + s + j
      <4>1. PICK j \in 1 .. x : n = m + s + j
        BY <3>3
      <4>2. c[n] = <<"mustNot", q.mustNot[j]>>
        BY <4>1, <1>1
      <4> QED BY <4>2, <2>1
    <3> QED BY <3>1, <3>2, <3>3, <1>3
  <2> QED BY <2>1, <1>1, <1>4 DEF Asks
<1>6. Asks(c, "should", k) <=> \E n \in 1 .. s : q.should[n] = k
  <2>1. ASSUME NEW n \in 1 .. Len(c), c[n] = <<"should", k>>
        PROVE  \E j \in 1 .. s : q.should[j] = k
    <3>1. CASE n \in 1 .. m
      <4>1. c[n] = <<"must", q.must[n]>>
        BY <3>1, <1>1
      <4> QED BY <4>1, <3>1, <2>1
    <3>2. CASE \E j \in 1 .. s : n = m + j
      <4>1. PICK j \in 1 .. s : n = m + j
        BY <3>2
      <4>2. c[n] = <<"should", q.should[j]>>
        BY <4>1, <1>1
      <4> QED BY <4>2, <2>1
    <3>3. CASE \E j \in 1 .. x : n = m + s + j
      <4>1. PICK j \in 1 .. x : n = m + s + j
        BY <3>3
      <4>2. c[n] = <<"mustNot", q.mustNot[j]>>
        BY <4>1, <1>1
      <4> QED BY <4>2, <2>1
    <3> QED BY <3>1, <3>2, <3>3, <1>3
  <2> QED BY <2>1, <1>1, <1>4 DEF Asks
<1>7. Asks(c, "mustNot", k) <=> \E n \in 1 .. x : q.mustNot[n] = k
  <2>1. ASSUME NEW n \in 1 .. Len(c), c[n] = <<"mustNot", k>>
        PROVE  \E j \in 1 .. x : q.mustNot[j] = k
    <3>1. CASE n \in 1 .. m
      <4>1. c[n] = <<"must", q.must[n]>>
        BY <3>1, <1>1
      <4> QED BY <4>1, <3>1, <2>1
    <3>2. CASE \E j \in 1 .. s : n = m + j
      <4>1. PICK j \in 1 .. s : n = m + j
        BY <3>2
      <4>2. c[n] = <<"should", q.should[j]>>
        BY <4>1, <1>1
      <4> QED BY <4>2, <2>1
    <3>3. CASE \E j \in 1 .. x : n = m + s + j
      <4>1. PICK j \in 1 .. x : n = m + s + j
        BY <3>3
      <4>2. c[n] = <<"mustNot", q.mustNot[j]>>
        BY <4>1, <1>1
      <4> QED BY <4>2, <2>1
    <3> QED BY <3>1, <3>2, <3>3, <1>3
  <2> QED BY <2>1, <1>1, <1>4 DEF Asks
<1> QED BY <1>2, <1>5, <1>6, <1>7 DEF c

(* The first clause, or one of the others.                                 *)
LEMMA TailAsks ==
    ASSUME NEW todo \in Seq(Roles \X Slots), todo # << >>, NEW role, NEW k
    PROVE  Asks(todo, role, k) <=> (Head(todo) = <<role, k>> \/ Asks(Tail(todo), role, k))
<1>1. /\ Len(todo) \in Nat /\ Len(todo) > 0 /\ Head(todo) = todo[1]
      /\ Len(Tail(todo)) = Len(todo) - 1
      /\ \A n \in 1 .. Len(todo) - 1 : Tail(todo)[n] = todo[n + 1]
  OBVIOUS
<1>2. ASSUME NEW n \in 1 .. Len(todo), todo[n] = <<role, k>>, n # 1
      PROVE  Asks(Tail(todo), role, k)
  <2>1. n - 1 \in 1 .. Len(todo) - 1 /\ Tail(todo)[n - 1] = todo[n]
    BY <1>1, <1>2
  <2> QED BY <2>1, <1>1, <1>2 DEF Asks
<1>3. ASSUME Asks(Tail(todo), role, k)
      PROVE  Asks(todo, role, k)
  <2>1. PICK n \in 1 .. Len(todo) - 1 : Tail(todo)[n] = <<role, k>>
    BY <1>1, <1>3 DEF Asks
  <2>2. n + 1 \in 1 .. Len(todo) /\ todo[n + 1] = <<role, k>>
    BY <2>1, <1>1
  <2> QED BY <2>2 DEF Asks
<1>4. Head(todo) = <<role, k>> => Asks(todo, role, k)
  <2>1. 1 \in 1 .. Len(todo)
    BY <1>1
  <2> QED BY <2>1, <1>1 DEF Asks
<1> QED BY <1>1, <1>2, <1>3, <1>4 DEF Asks

(* The image of a finite set is finite.                                    *)
LEMMA ImageFinite ==
    ASSUME NEW S, IsFiniteSet(S), NEW f, DOMAIN f = S, f = [x \in S |-> f[x]]
    PROVE  IsFiniteSet({f[x] : x \in S})
<1> DEFINE T == {f[x] : x \in S}
<1>1. f \in [S -> T]
  OBVIOUS
<1>2. f \in Surjection(S, T)
  BY <1>1 DEF Surjection
<1> HIDE DEF T
<1>3. IsFiniteSet(T)
  BY <1>2, FS_Surjection
<1> QED BY <1>3 DEF T

(* A set in some order, each element once.                                 *)
LEMMA SetToSeqLists ==
    ASSUME NEW S, IsFiniteSet(S)
    PROVE  SetToSeq(S) \in Seq(S) /\ ToSet(SetToSeq(S)) = S
<1> DEFINE n == Cardinality(S)
           f == SetToSeq(S)
<1>1. n \in Nat /\ ExistsBijection(1 .. n, S)
  BY FS_CardinalityType
<1>2. \E g \in [1 .. n -> S] : IsInjective(g)
  BY <1>1 DEF ExistsBijection, Bijection, Injection
<1>3. f \in [1 .. n -> S] /\ IsInjective(f)
  BY <1>2 DEF SetToSeq
<1> HIDE DEF f
<1>4. IsFiniteSet(1 .. n) /\ Cardinality(1 .. n) = n
  BY <1>1, FS_Interval
<1>5. f \in Injection(1 .. n, S)
  BY <1>3 DEF Injection
<1>6. f \in Surjection(1 .. n, S)
  BY <1>4, <1>5, FS_Injection
<1>7. {f[i] : i \in 1 .. n} = S
  BY <1>3, <1>6 DEF Surjection
<1>8. f \in Seq(S) /\ DOMAIN f = 1 .. n
  BY <1>1, <1>3
<1> QED BY <1>7, <1>8 DEF ToSet, f

(* The terms of the dictionary that have the prefix of a query.            *)
WithPrefix(q) == {k \in q.prefix : store.term[k] # Missing}

(* They are finitely many, because they come from the analysis of finitely *)
(* many documents.                                                         *)
LEMMA WithPrefixFinite ==
    ASSUME Written(store), NEW q \in Queries
    PROVE  IsFiniteSet(WithPrefix(q)) /\ WithPrefix(q) \subseteq Slots
<1>1. q.prefix \subseteq Slots
  BY QueriesAsk DEF Query
<1>2. CASE q.prefix = {}
  BY <1>2, FS_EmptySet DEF WithPrefix
<1>3. CASE q.prefix # {}
  <2>1. PICK g \in q.prefix : TRUE
    BY <1>3
  <2> DEFINE f == g[1]
             T == [id \in IDs |-> {k \in Slots : /\ k[1] = f /\ store.meta[id] # Missing
                                                 /\ store.meta[id].vectors[k] # {}}]
  <2>2. f \in Fields /\ \A k \in q.prefix : k[1] = f
    BY <1>1, QueriesAsk DEF Slots
  <2> HIDE DEF f
  <2>3. ASSUME NEW id \in IDs
        PROVE  IsFiniteSet(T[id])
    <3>1. CASE store.meta[id] = Missing
      <4>1. T[id] = {}
        BY <3>1
      <4> QED BY <4>1, FS_EmptySet
    <3>2. CASE store.meta[id] # Missing
      <4>1. PICK a \in Analyzers : store.meta[id] = MetaOf(a, store.doc[id])
        BY <3>2 DEF Written, Live
      <4>2. store.doc[id] \in Document
        BY <3>2 DEF Written, Sound, Exact, DocumentsPaired, Store
      <4> DEFINE s == Analyze(a, store.doc[id], f)
                 h == [n \in 1 .. Len(s) |-> <<f, s[n]>>]
                 H == {h[n] : n \in 1 .. Len(s)}
      <4>3. Len(s) \in Nat
        <5>1. MetaOf(a, store.doc[id]) \in Meta
          BY <4>2, MetaOfType
        <5>2. MetaOf(a, store.doc[id]).lengths[f] = Len(s)
          BY <2>2 DEF MetaOf
        <5> QED BY <5>1, <5>2, <2>2 DEF Meta
      <4>4. IsFiniteSet(H)
        <5>1. IsFiniteSet(1 .. Len(s))
          BY <4>3, FS_Interval
        <5> QED BY <5>1, ImageFinite
      <4>5. ASSUME NEW k \in T[id]
            PROVE  k \in H
        <5>1. k \in Slots /\ k[1] = f /\ store.meta[id].vectors[k] # {}
          BY <4>5
        <5>2. store.meta[id].vectors[k] = PositionsOf(s, k[2])
          BY <4>1, <5>1 DEF MetaOf
        <5> HIDE DEF s
        <5>3. PICK n \in 1 .. Len(s) : s[n] = k[2]
          BY <5>1, <5>2 DEF PositionsOf
        <5>4. k = <<f, s[n]>>
          BY <5>1, <5>3 DEF Slots
        <5> QED BY <5>4
      <4> HIDE DEF H, T
      <4> QED BY <4>4, <4>5, FS_Subset
    <3> QED BY <3>1, <3>2
  <2> DEFINE U == {T[id] : id \in IDs}
  <2>4. IsFiniteSet(U) /\ \A V \in U : IsFiniteSet(V)
    <3>1. DOMAIN T = IDs /\ T = [id \in IDs |-> T[id]]
      OBVIOUS
    <3> HIDE DEF T
    <3> QED BY <2>3, <3>1, FiniteIDs, ImageFinite
  <2>5. IsFiniteSet(UNION U)
    <3> HIDE DEF U
    <3> QED BY <2>4, FS_UNION
  <2>6. ASSUME NEW k \in WithPrefix(q)
        PROVE  k \in UNION U
    <3>1. k \in Slots /\ k[1] = f /\ store.term[k] # Missing
      BY <1>1, <2>2 DEF WithPrefix
    <3>2. store.term[k] = Entry(store.posting[k])
      BY <3>1 DEF Written, Sound, Exact, DictionaryExact
    <3>3. PICK id \in IDs : store.posting[k][id] # {}
      BY <3>1, <3>2 DEF Entry, Holders
    <3>4. store.meta[id] # Missing /\ store.meta[id].vectors[k] # {}
      BY <3>1, <3>3 DEF Written, Sound, Exact, PostingsExact
    <3>5. k \in T[id]
      BY <3>1, <3>4
    <3> QED BY <3>5
  <2> HIDE DEF U
  <2>7. WithPrefix(q) \subseteq UNION U
    BY <2>6
  <2> QED BY <2>5, <2>7, <1>1, FS_Subset DEF WithPrefix
<1> QED BY <1>2, <1>3

(* They are executed like optional clauses, each once.                     *)
LEMMA PrefixClauses ==
    ASSUME Written(store), NEW q \in Queries
    PROVE  LET c == As("should", SetToSeq(WithPrefix(q))) IN
           /\ c \in Seq(Roles \X Slots)
           /\ WithPrefix(q) # {} => c # << >>
           /\ \A n \in 1 .. Len(c) : c[n][1] = "should"
           /\ \A role, k : Asks(c, role, k) <=> role = "should" /\ k \in WithPrefix(q)
<1> DEFINE w == WithPrefix(q)
           s == SetToSeq(w)
           c == As("should", s)
<1>1. IsFiniteSet(w) /\ w \subseteq Slots
  BY WithPrefixFinite
<1>2. s \in Seq(w) /\ ToSet(s) = w
  <2> HIDE DEF w
  <2> QED BY <1>1, SetToSeqLists
<1> HIDE DEF s, w
<1>3. s \in Seq(Slots) /\ \A k : k \in w <=> \E n \in 1 .. Len(s) : s[n] = k
  BY <1>1, <1>2 DEF ToSet
<1>4. /\ c \in Seq(Roles \X Slots) /\ Len(c) = Len(s)
      /\ \A n \in 1 .. Len(s) : c[n] = <<"should", s[n]>>
  BY <1>3, AsClauses DEF Roles
<1> HIDE DEF c
<1>5. ASSUME NEW role, NEW k
      PROVE  Asks(c, role, k) <=> role = "should" /\ k \in w
  BY <1>3, <1>4 DEF Asks
<1>6. w # {} => c # << >>
  <2> SUFFICES ASSUME w # {}, c = << >> PROVE FALSE
    OBVIOUS
  <2>1. PICK k : k \in w
    OBVIOUS
  <2>2. Len(s) = 0
    BY <1>4
  <2> QED BY <2>1, <2>2, <1>3
<1>7. \A n \in 1 .. Len(c) : c[n][1] = "should"
  BY <1>4
<1> QED BY <1>4, <1>5, <1>6, <1>7 DEF c, s, w

-----------------------------------------------------------------------------
(* What a clause makes of the candidates.                                  *)

NonNegative(a) == \A id \in DOMAIN a : a[id] # "negative"

AllOf(sign, a) == \A id \in DOMAIN a : a[id] = sign

(* Scores are functions of some of the IDs.                                *)
LEMMA ScoresIn ==
    /\ NoScores \in Scores /\ DOMAIN NoScores = {}
    /\ \A a \in Scores : /\ DOMAIN a \subseteq IDs
                         /\ a = [id \in DOMAIN a |-> a[id]]
                         /\ \A id \in DOMAIN a : a[id] \in Signs
<1>1. DOMAIN NoScores = {} /\ NoScores \in [{} -> Signs]
  BY DEF NoScores
<1>2. {} \in SUBSET IDs
  OBVIOUS
<1> HIDE DEF NoScores
<1>3. NoScores \in Scores
  BY <1>1, <1>2 DEF Scores
<1>4. \A a \in Scores : \E S \in SUBSET IDs : a \in [S -> Signs]
  BY DEF Scores
<1> QED BY <1>1, <1>3, <1>4

(* Functions of some of the IDs to signs are scores.                       *)
LEMMA IsScores ==
    ASSUME NEW a, NEW S \in SUBSET IDs, a = [id \in S |-> a[id]], \A id \in S : a[id] \in Signs
    PROVE  a \in Scores /\ DOMAIN a = S
<1>1. a \in [S -> Signs]
  OBVIOUS
<1> QED BY <1>1 DEF Scores

(* Summed scores are of the documents of either side, and not negative if  *)
(* no summand is.                                                          *)
LEMMA SummedScores ==
    ASSUME NEW a \in Scores, NEW b \in Scores
    PROVE  /\ Summed(a, b) \in Scores /\ DOMAIN Summed(a, b) = DOMAIN a \cup DOMAIN b
           /\ NonNegative(a) /\ NonNegative(b) => NonNegative(Summed(a, b))
           /\ AllOf("positive", a) /\ AllOf("positive", b) => AllOf("positive", Summed(a, b))
<1> DEFINE D == DOMAIN a \cup DOMAIN b
           X(id) == {m[id] : m \in {n \in {a, b} : id \in DOMAIN n}}
           t == Summed(a, b)
<1>1. /\ DOMAIN a \subseteq IDs /\ \A id \in DOMAIN a : a[id] \in Signs
      /\ DOMAIN b \subseteq IDs /\ \A id \in DOMAIN b : b[id] \in Signs
  BY ScoresIn
<1>2. t = [id \in D |-> LeastSign(X(id))]
  BY DEF Summed
<1>3. ASSUME NEW id \in D
      PROVE  /\ \A x \in X(id) : (id \in DOMAIN a /\ x = a[id]) \/ (id \in DOMAIN b /\ x = b[id])
             /\ X(id) # {}
  OBVIOUS
<1> HIDE DEF X, D, t
<1>4. ASSUME NEW id \in D
      PROVE  t[id] = LeastSign(X(id)) /\ t[id] \in Signs
  BY <1>2 DEF LeastSign, Signs
<1>5. t \in Scores /\ DOMAIN t = D
  <2>1. D \in SUBSET IDs
    BY <1>1 DEF D
  <2>2. t = [id \in D |-> t[id]]
    BY <1>2
  <2> QED BY <2>1, <2>2, <1>4, IsScores
<1>6. ASSUME NonNegative(a), NonNegative(b)
      PROVE  NonNegative(t)
  <2> SUFFICES ASSUME NEW id \in D PROVE t[id] # "negative"
    BY <1>5 DEF NonNegative
  <2>1. "negative" \notin X(id)
    BY <1>3, <1>6 DEF NonNegative
  <2> QED BY <2>1, <1>4 DEF LeastSign
<1>7. ASSUME AllOf("positive", a), AllOf("positive", b)
      PROVE  AllOf("positive", t)
  <2> SUFFICES ASSUME NEW id \in D PROVE t[id] = "positive"
    BY <1>5 DEF AllOf
  <2>1. "negative" \notin X(id) /\ "zero" \notin X(id)
    BY <1>3, <1>7 DEF AllOf
  <2> QED BY <2>1, <1>4 DEF LeastSign
<1> QED BY <1>5, <1>6, <1>7 DEF D, t

(* Restricted scores are those of the documents that are left.             *)
LEMMA RestrictedScores ==
    ASSUME NEW a \in Scores, NEW S \in SUBSET DOMAIN a
    PROVE  /\ Restrict(a, S) \in Scores /\ DOMAIN Restrict(a, S) = S
           /\ NonNegative(a) => NonNegative(Restrict(a, S))
           /\ \A sign : AllOf(sign, a) => AllOf(sign, Restrict(a, S))
<1> DEFINE t == Restrict(a, S)
<1>1. DOMAIN a \subseteq IDs /\ \A id \in DOMAIN a : a[id] \in Signs
  BY ScoresIn
<1>2. t = [id \in S |-> a[id]]
  BY DEF Restrict
<1> HIDE DEF t
<1>3. t = [id \in S |-> t[id]] /\ \A id \in S : t[id] = a[id]
  BY <1>2
<1>4. t \in Scores /\ DOMAIN t = S
  <2>1. S \in SUBSET IDs /\ \A id \in S : t[id] \in Signs
    BY <1>1, <1>3
  <2> QED BY <2>1, <1>3, IsScores
<1> QED BY <1>3, <1>4 DEF NonNegative, AllOf, t

(* The documents that are left after a clause, by its role, and the signs  *)
(* of their scores.                                                        *)
Combines(q, role, first, a, b, t) ==
    /\ t \in Scores
    /\ role = "must" => DOMAIN t = IF first THEN DOMAIN b ELSE DOMAIN a \cap DOMAIN b
    /\ role = "should" => DOMAIN t = IF q.must = << >> THEN DOMAIN a \cup DOMAIN b ELSE DOMAIN a
    /\ role = "mustNot" => DOMAIN t = DOMAIN a \ DOMAIN b
    /\ NonNegative(a) /\ NonNegative(b) => NonNegative(t)
    /\ AllOf("positive", a) /\ AllOf("positive", b) => AllOf("positive", t)
    /\ role = "mustNot" => \A sign : AllOf(sign, a) => AllOf(sign, t)

(* Combined does what its role demands.                                    *)
LEMMA CombinedScores ==
    ASSUME NEW q, NEW role \in Roles, NEW first \in BOOLEAN, NEW a \in Scores, NEW b \in Scores
    PROVE  Combines(q, role, first, a, b, Combined(q, role, first, a, b))
<1> DEFINE t == Combined(q, role, first, a, b)
<1>1. /\ Summed(a, b) \in Scores /\ DOMAIN Summed(a, b) = DOMAIN a \cup DOMAIN b
      /\ NonNegative(a) /\ NonNegative(b) => NonNegative(Summed(a, b))
      /\ AllOf("positive", a) /\ AllOf("positive", b) => AllOf("positive", Summed(a, b))
  BY SummedScores
<1>2. CASE role = "must" /\ first
  <2>1. t = b
    BY <1>2 DEF Combined
  <2> QED BY <2>1, <1>2 DEF Combines
<1>3. CASE role = "must" /\ ~first
  <2>1. t = Restrict(Summed(a, b), DOMAIN a \cap DOMAIN b)
    BY <1>3 DEF Combined
  <2>2. DOMAIN a \cap DOMAIN b \in SUBSET DOMAIN Summed(a, b)
    BY <1>1
  <2> QED BY <2>1, <2>2, <1>1, <1>3, RestrictedScores DEF Combines
<1>4. CASE role = "should" /\ q.must = << >>
  <2>1. t = Summed(a, b)
    BY <1>4 DEF Combined
  <2> QED BY <2>1, <1>1, <1>4 DEF Combines
<1>5. CASE role = "should" /\ q.must # << >>
  <2>1. t = Restrict(Summed(a, b), DOMAIN a)
    BY <1>5 DEF Combined
  <2>2. DOMAIN a \in SUBSET DOMAIN Summed(a, b)
    BY <1>1
  <2> QED BY <2>1, <2>2, <1>1, <1>5, RestrictedScores DEF Combines
<1>6. CASE role = "mustNot"
  <2>1. t = Restrict(a, DOMAIN a \ DOMAIN b)
    BY <1>6 DEF Combined
  <2>2. DOMAIN a \ DOMAIN b \in SUBSET DOMAIN a
    OBVIOUS
  <2> QED BY <2>1, <2>2, <1>6, RestrictedScores DEF Combines
<1> QED BY <1>2, <1>3, <1>4, <1>5, <1>6 DEF Roles

-----------------------------------------------------------------------------
(* What holds of a reader between its reads.                               *)

Scanning == {"postings", "stats", "term", "score"}
Querying == Scanning \cup {"terms", "all", "document"}

(* The clauses of q that are still to execute come in the order of their   *)
(* roles; a query with required clauses begins with one.                   *)
ClausesLeft(q, todo) ==
    /\ todo # << >>
    /\ \A n \in 1 .. Len(todo) : todo[n][1] = "must" => q.must # << >>
    /\ \A n \in 1 .. Len(todo) : \A m \in 1 .. n :
         todo[m][1] = "mustNot" => todo[n][1] = "mustNot"
    /\ q.must # << >> => /\ Len(todo) <= Len(Clauses(q))
                         /\ todo = Clauses(q) => todo[1][1] = "must"
    /\ FirstRead(q) = "all" => \A n \in 1 .. Len(todo) : todo[n][1] = "mustNot"

Shape(r) ==
    /\ pc[r] \in Querying => asked[r] \in Queries
    /\ pc[r] = "terms" => asked[r].prefix # {} /\ hits[r] = NoScores
    /\ pc[r] = "all" => FirstRead(asked[r]) = "all" /\ rest[r] = Clauses(asked[r])
    /\ pc[r] \in Scanning => ClausesLeft(asked[r], rest[r])
    /\ pc[r] = "document" => rest[r] = << >>
    /\ pc[r] # "score" => scored[r] = NoScores
    /\ pc[r] = "df" => left[r] \subseteq Slots \X Nat
    /\ pc[r] \in {"score", "document"} => left[r] \subseteq IDs
    /\ pc[r] \in {"ids", "count", "scan", "df"} => goal[r] = "check"

(* Whether the document is an answer when the clauses todo are executed on *)
(* the contents s, after clauses that left the candidates.                 *)
Final(s, q, todo, candidates, id) ==
    /\ \A k \in Slots : Asks(todo, "must", k) => Has(s, id, k)
    /\ \A k \in Slots : Asks(todo, "mustNot", k) => ~Has(s, id, k)
    /\ \/ id \in candidates
       \/ q.must = << >> /\ (\E k \in Slots : Asks(todo, "should", k) /\ Has(s, id, k))
       \/ q.must # << >> /\ todo = Clauses(q)

(* What was read of a document that is not written meanwhile is still so,  *)
(* and with what is left to read gives the answer that the contents give.  *)
Exactly(r) == \A id \in IDs \ touched[r] :
    /\ pc[r] \in Scanning \cup {"document"} =>
         (Final(store, asked[r], rest[r], DOMAIN hits[r], id) <=> Satisfied(store, asked[r], id))
    /\ pc[r] \in {"stats", "term"} => (id \in ids[r] <=> Has(store, id, SlotOf(r)))
    /\ pc[r] = "score" => (id \in left[r] \cup DOMAIN scored[r] <=> Has(store, id, SlotOf(r)))

(* While no ID is removed, every document that was read is live.           *)
Alive(r) == "shrank" \notin saw[r] /\ pc[r] \in Querying =>
    /\ DOMAIN hits[r] \subseteq Live(store)
    /\ pc[r] \in {"stats", "term"} => ids[r] \subseteq Live(store)
    /\ pc[r] = "score" => left[r] \cup DOMAIN scored[r] \subseteq Live(store)
    /\ pc[r] = "document" => left[r] \subseteq Live(store)

(* While no ID comes in, the document count that was read is not too small.*)
Bounded(r) == "grew" \notin saw[r] =>
    /\ NonNegative(hits[r]) /\ NonNegative(scored[r])
    /\ pc[r] = "term" => Cardinality(Live(store)) <= docCount[r]
    /\ pc[r] = "score" => df[r] <= docCount[r]

(* While nothing is committed, a posting that was read has its term in the *)
(* dictionary.                                                             *)
Quiet(r) == saw[r] = {} /\ pc[r] \in Scanning \cup {"document"} =>
    /\ AllOf(IF FirstRead(asked[r]) = "all" THEN "zero" ELSE "positive", hits[r])
    /\ AllOf("positive", scored[r])
    /\ pc[r] \in {"stats", "term"} => ids[r] \subseteq Holders(store.posting[SlotOf(r)])
    /\ pc[r] = "score" /\ left[r] # {} => df[r] # 0

(* What Check has still to compare agrees with the contents.               *)
Checking(r) ==
    /\ "foreign" \notin saw[r] =>
         /\ "dictionary" \notin problems[r]
         /\ pc[r] = "df" => \A e \in left[r] : Cardinality(Holders(store.posting[e[1]])) = e[2]
    /\ saw[r] \cap {"grew", "shrank"} = {} =>
         /\ "count" \notin problems[r]
         /\ pc[r] = "count" => ids[r] = Live(store)

Answered(r) == answer[r] = "missing" => "shrank" \in saw[r]

ReaderOK(r) ==
    /\ Shape(r) /\ Exactly(r) /\ Alive(r) /\ Bounded(r) /\ Quiet(r) /\ Checking(r)
    /\ Answered(r)

IInv == TypeOK /\ Written(store) /\ \A r \in Readers : ReaderOK(r)

-----------------------------------------------------------------------------
(* A commit keeps it for every reader.                                     *)

(* Of a document that a commit leaves alone, all that a reader may read is *)
(* as before.                                                              *)
LEMMA UntouchedSame ==
    ASSUME Written(store), NEW t, Written(t), NEW id \in IDs, SameDocument(t, store, id)
    PROVE  /\ \A k \in Slots : Has(t, id, k) <=> Has(store, id, k)
           /\ \A q, todo, c : Final(t, q, todo, c, id) <=> Final(store, q, todo, c, id)
           /\ \A q \in Query : Satisfied(t, q, id) <=> Satisfied(store, q, id)
<1>1. \A k \in Slots : t.posting[k][id] = store.posting[k][id]
  BY DEF Written, Sound, Exact, PostingsExact, SameDocument
<1>2. \A k \in Slots : Has(t, id, k) <=> Has(store, id, k)
  BY <1>1 DEF Has
<1>3. ASSUME NEW q, NEW todo, NEW c
      PROVE  Final(t, q, todo, c, id) <=> Final(store, q, todo, c, id)
  BY <1>2 DEF Final
<1>4. ASSUME NEW q \in Query
      PROVE  Satisfied(t, q, id) <=> Satisfied(store, q, id)
  <2> DEFINE has(s, slots) == {k \in slots : s.posting[k][id] # {}}
  <2>1. /\ ToSet(q.must) \subseteq Slots /\ ToSet(q.mustNot) \subseteq Slots
        /\ ToSet(q.should) \cup q.prefix \subseteq Slots
    BY DEF Query, ToSet
  <2>2. \A slots \in SUBSET Slots : has(t, slots) = has(store, slots)
    BY <1>1
  <2>3. t.meta[id] = store.meta[id]
    BY DEF SameDocument
  <2>4. \A s : Satisfied(s, q, id) <=>
              /\ s.meta[id] # Missing
              /\ has(s, ToSet(q.must)) = ToSet(q.must)
              /\ has(s, ToSet(q.mustNot)) = {}
              /\ q.must = << >> /\ ToSet(q.should) \cup q.prefix # {} =>
                   has(s, ToSet(q.should) \cup q.prefix) # {}
    BY DEF Satisfied
  <2> HIDE DEF has
  <2> QED BY <2>1, <2>2, <2>3, <2>4
<1> QED BY <1>2, <1>3, <1>4

(* Every commit keeps the invariant.                                       *)
LEMMA CommitKept ==
    ASSUME IInv, NEW h \in Handles, NEW written \in SUBSET IDs,
           NEW events \in SUBSET {"grew", "shrank"},
           Committed(h, written, events), Leaves(store', written, events)
    PROVE  IInv'
<1>1. /\ pc' = pc /\ goal' = goal /\ asked' = asked /\ ids' = ids /\ docCount' = docCount
      /\ df' = df /\ left' = left /\ rest' = rest /\ scored' = scored /\ hits' = hits
      /\ problems' = problems /\ answer' = answer
  BY DEF Committed, query, found, outcome
<1>2. Written(store)' /\ Written(store)
  BY DEF IInv, Leaves
<1>3. ASSUME NEW r \in Readers
      PROVE  /\ pc[r] = "idle" => saw'[r] = saw[r] /\ touched'[r] = touched[r]
             /\ pc[r] # "idle" =>
                  /\ saw[r] \subseteq saw'[r] /\ events \subseteq saw'[r] /\ "write" \in saw'[r]
                  /\ h # ReaderOf[r] => "foreign" \in saw'[r]
                  /\ touched'[r] = touched[r] \cup written
             /\ saw'[r] \in SUBSET Events /\ touched'[r] \in SUBSET IDs
  BY DEF Committed, IInv, TypeOK, Events
<1>4. TypeOK'
  <2>1. saw' \in [Readers -> SUBSET Events]
    BY <1>3 DEF Committed
  <2>2. touched' \in [Readers -> SUBSET IDs]
    BY <1>3 DEF Committed
  <2>3. store' \in Store
    BY <1>2 DEF Written, Sound
  <2> QED BY <1>1, <2>1, <2>2, <2>3 DEF TypeOK, IInv
<1>5. ASSUME NEW r \in Readers
      PROVE  ReaderOK(r)'
  <2>1. ReaderOK(r)
    BY DEF IInv
  <2>2. Shape(r)'
    BY <2>1, <1>1 DEF ReaderOK, Shape
  <2>3. Exactly(r)'
    <3> SUFFICES ASSUME NEW id \in IDs \ touched'[r]
                 PROVE  /\ pc[r] \in Scanning \cup {"document"} =>
                             (Final(store', asked[r], rest[r], DOMAIN hits[r], id)
                                <=> Satisfied(store', asked[r], id))
                        /\ pc[r] \in {"stats", "term"} =>
                             (id \in ids[r] <=> Has(store', id, SlotOf(r)))
                        /\ pc[r] = "score" =>
                             (id \in left[r] \cup DOMAIN scored[r] <=> Has(store', id, SlotOf(r)))
      BY <1>1 DEF Exactly, SlotOf
    <3>1. CASE pc[r] = "idle"
      BY <3>1 DEF Scanning
    <3>2. CASE pc[r] # "idle"
      <4>1. id \in IDs \ touched[r] /\ id \in IDs \ written
        BY <3>2, <1>3
      <4>2. SameDocument(store', store, id)
        BY <4>1 DEF Leaves
      <4>3. /\ \A k \in Slots : Has(store', id, k) <=> Has(store, id, k)
            /\ \A q, todo, c : Final(store', q, todo, c, id) <=> Final(store, q, todo, c, id)
            /\ \A q \in Query : Satisfied(store', q, id) <=> Satisfied(store, q, id)
        BY <4>1, <4>2, <1>2, UntouchedSame
      <4>4. asked[r] \in Query
        BY DEF IInv, TypeOK
      <4>5. pc[r] \in Scanning => SlotOf(r) \in Slots
        <5> SUFFICES ASSUME pc[r] \in Scanning PROVE SlotOf(r) \in Slots
          OBVIOUS
        <5>1. rest[r] \in Seq(Roles \X Slots) /\ rest[r] # << >>
          BY <2>1 DEF IInv, TypeOK, ReaderOK, Shape, ClausesLeft
        <5>2. Head(rest[r]) \in Roles \X Slots
          BY <5>1
        <5> QED BY <5>2 DEF SlotOf
      <4>6. /\ pc[r] \in Scanning \cup {"document"} =>
                 (Final(store, asked[r], rest[r], DOMAIN hits[r], id)
                    <=> Satisfied(store, asked[r], id))
            /\ pc[r] \in {"stats", "term"} => (id \in ids[r] <=> Has(store, id, SlotOf(r)))
            /\ pc[r] = "score" =>
                 (id \in left[r] \cup DOMAIN scored[r] <=> Has(store, id, SlotOf(r)))
        BY <2>1, <4>1 DEF ReaderOK, Exactly
      <4> QED BY <4>3, <4>4, <4>5, <4>6 DEF Scanning
    <3> QED BY <3>1, <3>2
  <2>4. Alive(r)'
    <3> SUFFICES ASSUME "shrank" \notin saw'[r], pc[r] \in Querying
                 PROVE  /\ DOMAIN hits[r] \subseteq Live(store')
                        /\ pc[r] \in {"stats", "term"} => ids[r] \subseteq Live(store')
                        /\ pc[r] = "score" => left[r] \cup DOMAIN scored[r] \subseteq Live(store')
                        /\ pc[r] = "document" => left[r] \subseteq Live(store')
      BY <1>1 DEF Alive
    <3>1. "shrank" \notin saw[r] /\ "shrank" \notin events
      BY <1>3 DEF Querying, Scanning
    <3>2. Live(store) \subseteq Live(store')
      BY <3>1 DEF Leaves
    <3> QED BY <2>1, <3>1, <3>2 DEF ReaderOK, Alive
  <2>5. Bounded(r)'
    <3> SUFFICES ASSUME "grew" \notin saw'[r]
                 PROVE  /\ NonNegative(hits[r]) /\ NonNegative(scored[r])
                        /\ pc[r] = "term" => Cardinality(Live(store')) <= docCount[r]
                        /\ pc[r] = "score" => df[r] <= docCount[r]
      BY <1>1 DEF Bounded
    <3>1. "grew" \notin saw[r]
      BY <1>3
    <3>2. ASSUME pc[r] = "term"
          PROVE  Cardinality(Live(store')) <= docCount[r]
      <4>1. "grew" \notin events
        BY <3>2, <1>3
      <4>2. Live(store') \subseteq Live(store)
        BY <4>1 DEF Leaves
      <4>3. Cardinality(Live(store)) <= docCount[r] /\ docCount[r] \in Nat
        BY <3>1, <3>2, <2>1 DEF ReaderOK, Bounded, IInv, TypeOK
      <4>4. /\ IsFiniteSet(Live(store)) /\ Cardinality(Live(store)) \in Nat
            /\ Cardinality(Live(store')) \in Nat
        BY LiveFinite
      <4>5. Cardinality(Live(store')) <= Cardinality(Live(store))
        BY <4>2, <4>4, FS_Subset
      <4> QED BY <4>3, <4>4, <4>5
    <3> QED BY <2>1, <3>1, <3>2 DEF ReaderOK, Bounded
  <2>6. Quiet(r)'
    <3>1. pc'[r] \in Scanning \cup {"document"} => saw'[r] # {}
      BY <1>1, <1>3 DEF Scanning
    <3> QED BY <3>1 DEF Quiet
  <2>7. Checking(r)'
    <3>1. ASSUME "foreign" \notin saw'[r]
          PROVE  "foreign" \notin saw[r] /\ pc[r] # "df"
      <4>1. CASE pc[r] = "idle"
        BY <4>1, <3>1, <1>3
      <4>2. CASE pc[r] # "idle"
        <5>1. "foreign" \notin saw[r] /\ h = ReaderOf[r]
          BY <4>2, <3>1, <1>3
        <5>2. pc[r] # "df"
          BY <5>1 DEF Committed, Unlocked
        <5> QED BY <5>1, <5>2, <2>1 DEF ReaderOK, Checking
      <4> QED BY <4>1, <4>2
    <3>2. ASSUME saw'[r] \cap {"grew", "shrank"} = {}
          PROVE  /\ saw[r] \cap {"grew", "shrank"} = {}
                 /\ pc[r] = "count" => Live(store') = Live(store)
      <4>1. CASE pc[r] = "idle"
        BY <4>1, <3>2, <1>3
      <4>2. CASE pc[r] # "idle"
        <5>1. saw[r] \cap {"grew", "shrank"} = {} /\ "grew" \notin events /\ "shrank" \notin events
          BY <4>2, <3>2, <1>3
        <5>2. Live(store') = Live(store)
          BY <5>1 DEF Leaves
        <5> QED BY <5>1, <5>2
      <4> QED BY <4>1, <4>2
    <3> QED BY <2>1, <3>1, <3>2, <1>1 DEF ReaderOK, Checking
  <2>8. Answered(r)'
    BY <2>1, <1>1, <1>3 DEF ReaderOK, Answered
  <2> QED BY <2>2, <2>3, <2>4, <2>5, <2>6, <2>7, <2>8 DEF ReaderOK
<1> QED BY <1>2, <1>4, <1>5 DEF IInv

-----------------------------------------------------------------------------
(* A read of one reader.                                                   *)

TypeAt(r) ==
    /\ pc[r] \in PCs
    /\ goal[r] \in {"search", "facet", "check"}
    /\ asked[r] \in Query
    /\ rest[r] \in Seq(Roles \X Slots)
    /\ ids[r] \in SUBSET IDs
    /\ docCount[r] \in Nat
    /\ df[r] \in Nat
    /\ left[r] \in (SUBSET IDs) \cup (SUBSET (Slots \X Nat))
    /\ scored[r] \in Scores
    /\ hits[r] \in Scores
    /\ problems[r] \in SUBSET {"count", "dictionary"}
    /\ answer[r] \in {"none", "ok", "missing"}
    /\ saw[r] \in SUBSET Events
    /\ touched[r] \in SUBSET IDs

Domains ==
    /\ DOMAIN pc = Readers /\ DOMAIN goal = Readers /\ DOMAIN asked = Readers
    /\ DOMAIN rest = Readers /\ DOMAIN ids = Readers /\ DOMAIN docCount = Readers
    /\ DOMAIN df = Readers /\ DOMAIN left = Readers /\ DOMAIN scored = Readers
    /\ DOMAIN hits = Readers /\ DOMAIN problems = Readers /\ DOMAIN answer = Readers
    /\ DOMAIN saw = Readers /\ DOMAIN touched = Readers

(* Only the reader's own state changes.                                    *)
OnlyReader(r) ==
    /\ store' = store
    /\ pc' = [pc EXCEPT ![r] = pc'[r]]
    /\ goal' = [goal EXCEPT ![r] = goal'[r]]
    /\ asked' = [asked EXCEPT ![r] = asked'[r]]
    /\ rest' = [rest EXCEPT ![r] = rest'[r]]
    /\ ids' = [ids EXCEPT ![r] = ids'[r]]
    /\ docCount' = [docCount EXCEPT ![r] = docCount'[r]]
    /\ df' = [df EXCEPT ![r] = df'[r]]
    /\ left' = [left EXCEPT ![r] = left'[r]]
    /\ scored' = [scored EXCEPT ![r] = scored'[r]]
    /\ hits' = [hits EXCEPT ![r] = hits'[r]]
    /\ problems' = [problems EXCEPT ![r] = problems'[r]]
    /\ answer' = [answer EXCEPT ![r] = answer'[r]]
    /\ saw' = [saw EXCEPT ![r] = saw'[r]]
    /\ touched' = [touched EXCEPT ![r] = touched'[r]]

(* TypeOK says of every reader what TypeAt does.                           *)
LEMMA TypeIsTypeAt ==
    ASSUME TypeOK
    PROVE  Domains /\ \A r \in Readers : TypeAt(r)
<1>1. Domains
  BY DEF TypeOK, Domains
<1>2. ASSUME NEW r \in Readers
      PROVE  TypeAt(r)
  BY DEF TypeOK, TypeAt
<1> QED BY <1>1, <1>2

(* What was assigned is a function of the readers.                         *)
LEMMA AssignedType ==
    ASSUME NEW S, NEW f \in [Readers -> S], NEW r \in Readers, NEW g,
           g = [f EXCEPT ![r] = g[r]], g[r] \in S
    PROVE  g \in [Readers -> S]
OBVIOUS

(* A read keeps the invariant if it does so for the reader that reads.     *)
LEMMA ReadKept ==
    ASSUME IInv, NEW r \in Readers, OnlyReader(r), TypeAt(r)', ReaderOK(r)'
    PROVE  IInv'
<1>1. TypeOK'
  <2>1. TypeOK
    BY DEF IInv
  <2>2. store' \in Store
    BY <2>1 DEF TypeOK, OnlyReader
  <2>3. pc' \in [Readers -> PCs]
    BY <2>1 DEF TypeOK, TypeAt, OnlyReader
  <2>4. goal' \in [Readers -> {"search", "facet", "check"}]
    BY <2>1 DEF TypeOK, TypeAt, OnlyReader
  <2>5. asked' \in [Readers -> Query]
    BY <2>1 DEF TypeOK, TypeAt, OnlyReader
  <2>6. rest' \in [Readers -> Seq(Roles \X Slots)]
    BY <2>1, AssignedType DEF TypeOK, TypeAt, OnlyReader
  <2>7. ids' \in [Readers -> SUBSET IDs]
    BY <2>1 DEF TypeOK, TypeAt, OnlyReader
  <2>8. docCount' \in [Readers -> Nat] /\ df' \in [Readers -> Nat]
    BY <2>1 DEF TypeOK, TypeAt, OnlyReader
  <2>9. left' \in [Readers -> (SUBSET IDs) \cup (SUBSET (Slots \X Nat))]
    BY <2>1 DEF TypeOK, TypeAt, OnlyReader
  <2>10. scored' \in [Readers -> Scores] /\ hits' \in [Readers -> Scores]
    BY <2>1 DEF TypeOK, TypeAt, OnlyReader
  <2>11. problems' \in [Readers -> SUBSET {"count", "dictionary"}]
    BY <2>1 DEF TypeOK, TypeAt, OnlyReader
  <2>12. answer' \in [Readers -> {"none", "ok", "missing"}]
    BY <2>1 DEF TypeOK, TypeAt, OnlyReader
  <2>13. saw' \in [Readers -> SUBSET Events]
    BY <2>1 DEF TypeOK, TypeAt, OnlyReader
  <2>14. touched' \in [Readers -> SUBSET IDs]
    BY <2>1 DEF TypeOK, TypeAt, OnlyReader
  <2> QED BY <2>2, <2>3, <2>4, <2>5, <2>6, <2>7, <2>8, <2>9, <2>10, <2>11, <2>12, <2>13, <2>14
          DEF TypeOK
<1>2. Written(store)'
  <2>1. store' = store /\ Written(store)
    BY DEF IInv, OnlyReader
  <2> QED BY <2>1
<1>3. ASSUME NEW o \in Readers \ {r}
      PROVE  ReaderOK(o)'
  <2>1. /\ store' = store /\ pc'[o] = pc[o] /\ goal'[o] = goal[o] /\ asked'[o] = asked[o]
        /\ rest'[o] = rest[o] /\ ids'[o] = ids[o] /\ docCount'[o] = docCount[o]
        /\ df'[o] = df[o] /\ left'[o] = left[o] /\ scored'[o] = scored[o] /\ hits'[o] = hits[o]
        /\ problems'[o] = problems[o] /\ answer'[o] = answer[o] /\ saw'[o] = saw[o]
        /\ touched'[o] = touched[o]
    BY TypeIsTypeAt DEF IInv, OnlyReader, Domains
  <2>2. ReaderOK(o)
    BY DEF IInv
  <2>3. Shape(o)'
    BY <2>1, <2>2 DEF ReaderOK, Shape
  <2>4. Exactly(o)'
    <3>1. SlotOf(o)' = SlotOf(o)
      BY <2>1 DEF SlotOf
    <3> QED BY <2>1, <2>2, <3>1 DEF ReaderOK, Exactly
  <2>5. Alive(o)'
    BY <2>1, <2>2 DEF ReaderOK, Alive
  <2>6. Bounded(o)'
    BY <2>1, <2>2 DEF ReaderOK, Bounded
  <2>7. Quiet(o)'
    <3>1. SlotOf(o)' = SlotOf(o)
      BY <2>1 DEF SlotOf
    <3> QED BY <2>1, <2>2, <3>1 DEF ReaderOK, Quiet
  <2>8. Checking(o)'
    BY <2>1, <2>2 DEF ReaderOK, Checking
  <2>9. Answered(o)'
    BY <2>1, <2>2 DEF ReaderOK, Answered
  <2> QED BY <2>3, <2>4, <2>5, <2>6, <2>7, <2>8, <2>9 DEF ReaderOK
<1> QED BY <1>1, <1>2, <1>3 DEF IInv

(* An operation that ends leaves its reader in order.                      *)
LEMMA FinishKeeps ==
    ASSUME TypeOK, NEW r \in Readers, NEW a \in {"ok", "missing"}, NEW h \in Scores,
           Finish(r, a, h), UNCHANGED <<store, goal, problems, saw>>, Checking(r),
           a = "missing" => "shrank" \in saw[r],
           "grew" \notin saw[r] => NonNegative(h)
    PROVE  OnlyReader(r) /\ TypeAt(r)' /\ ReaderOK(r)'
<1>1. Domains /\ TypeAt(r)
  BY TypeIsTypeAt
<1>2. /\ pc'[r] = "idle" /\ answer'[r] = a /\ hits'[r] = h /\ asked'[r] = NoQuery
      /\ rest'[r] = << >> /\ ids'[r] = {} /\ left'[r] = {} /\ scored'[r] = NoScores
      /\ docCount'[r] = 0 /\ df'[r] = 0 /\ touched'[r] = {}
      /\ goal'[r] = goal[r] /\ problems'[r] = problems[r] /\ saw'[r] = saw[r]
  BY <1>1 DEF Finish, Goto, Domains
<1>3. OnlyReader(r)
  <2>1. /\ store' = store
        /\ goal' = [goal EXCEPT ![r] = goal'[r]]
        /\ problems' = [problems EXCEPT ![r] = problems'[r]]
        /\ saw' = [saw EXCEPT ![r] = saw'[r]]
    BY DEF TypeOK
  <2> QED BY <2>1, <1>2 DEF OnlyReader, Finish, Goto
<1>4. TypeAt(r)'
  <2>1. NoQuery \in Query
    BY DEF NoQuery, Query
  <2>2. << >> \in Seq(Roles \X Slots)
    OBVIOUS
  <2> QED BY <2>1, <2>2, <1>1, <1>2, ScoresIn DEF TypeAt, PCs
<1>5. ReaderOK(r)'
  <2>1. Shape(r)'
    BY <1>2 DEF Shape, Querying, Scanning
  <2>2. Exactly(r)'
    BY <1>2 DEF Exactly, Scanning
  <2>3. Alive(r)'
    BY <1>2 DEF Alive, Querying, Scanning
  <2>4. Bounded(r)'
    BY <1>2, ScoresIn DEF Bounded, NonNegative
  <2>5. Quiet(r)'
    BY <1>2 DEF Quiet, Scanning
  <2>6. Checking(r)'
    BY <1>2 DEF Checking
  <2>7. Answered(r)'
    BY <1>2 DEF Answered
  <2> QED BY <2>1, <2>2, <2>3, <2>4, <2>5, <2>6, <2>7 DEF ReaderOK
<1> QED BY <1>3, <1>4, <1>5

(* At its first read a query has all its clauses left and no candidate.    *)
LEMMA FirstClauses ==
    ASSUME NEW q \in Queries
    PROVE  /\ FirstRead(q) \in {"terms", "all", "postings"}
           /\ FirstRead(q) = "terms" <=> q.prefix # {}
           /\ FirstRead(q) # "terms" => ClausesLeft(q, Clauses(q))
           /\ FirstRead(q) = "terms" => /\ q.must = << >> /\ q.should = << >> /\ q.mustNot = << >>
           /\ FirstRead(q) = "all" => q.must = << >> /\ q.should = << >>
           /\ FirstRead(q) = "postings" => q.must # << >> \/ q.should # << >>
           /\ Clauses(q) \in Seq(Roles \X Slots)
<1> DEFINE c == Clauses(q)
           m == Len(q.must)
           s == Len(q.should)
           x == Len(q.mustNot)
<1>1. q \in Query /\ q # NoQuery
  BY QueriesAsk
<1>2. /\ c \in Seq(Roles \X Slots) /\ m \in Nat /\ s \in Nat /\ x \in Nat
      /\ Len(c) = m + s + x
      /\ \A n \in 1 .. m : c[n] = <<"must", q.must[n]>>
      /\ \A n \in 1 .. s : c[m + n] = <<"should", q.should[n]>>
      /\ \A n \in 1 .. x : c[m + s + n] = <<"mustNot", q.mustNot[n]>>
  BY <1>1, ClausesShape
<1>3. q.must \in Seq(Slots) /\ q.should \in Seq(Slots) /\ q.mustNot \in Seq(Slots)
  BY <1>1 DEF Query
<1>4. /\ m = 0 <=> q.must = << >>
      /\ s = 0 <=> q.should = << >>
      /\ x = 0 <=> q.mustNot = << >>
  BY <1>3
<1>5. q.must \o q.should = << >> <=> (q.must = << >> /\ q.should = << >>)
  <2>1. Len(q.must \o q.should) = m + s /\ q.must \o q.should \in Seq(Slots)
    BY <1>3
  <2> QED BY <2>1, <1>2, <1>4
<1>6. q.prefix # {} => q.must = << >> /\ q.should = << >> /\ q.mustNot = << >>
  <2> SUFFICES ASSUME q.prefix # {}
               PROVE  q.must = << >> /\ q.should = << >> /\ q.mustNot = << >>
    OBVIOUS
  <2>1. [q EXCEPT !.prefix = {}] = NoQuery
    BY QueriesAsk
  <2>2. NoQuery.must = << >> /\ NoQuery.should = << >> /\ NoQuery.mustNot = << >>
    BY DEF NoQuery
  <2>3. DOMAIN q = {"must", "should", "mustNot", "prefix"}
    BY <1>1 DEF Query
  <2>4. /\ [q EXCEPT !.prefix = {}].must = q.must
        /\ [q EXCEPT !.prefix = {}].should = q.should
        /\ [q EXCEPT !.prefix = {}].mustNot = q.mustNot
    BY <2>3
  <2> QED BY <2>1, <2>2, <2>4
<1>7. q.prefix = {} => c # << >>
  <2> SUFFICES ASSUME q.prefix = {}, c = << >> PROVE FALSE
    OBVIOUS
  <2>1. m = 0 /\ s = 0 /\ x = 0
    <3>1. Len(c) = 0
      OBVIOUS
    <3> HIDE DEF c, m, s, x
    <3> QED BY <3>1, <1>2
  <2>2. q = [must |-> q.must, should |-> q.should, mustNot |-> q.mustNot, prefix |-> q.prefix]
    BY <1>1 DEF Query
  <2> QED BY <2>1, <2>2, <1>1, <1>4 DEF NoQuery
<1> HIDE DEF c, m, s, x
<1>8. ASSUME NEW n \in 1 .. Len(c)
      PROVE  /\ n <= m => c[n][1] = "must"
             /\ n > m /\ n <= m + s => c[n][1] = "should"
             /\ n > m + s => c[n][1] = "mustNot"
  <2>1. CASE n <= m
    <3>1. n \in 1 .. m
      BY <2>1, <1>2
    <3>2. c[n] = <<"must", q.must[n]>>
      BY <3>1, <1>2
    <3> QED BY <3>2, <2>1, <1>2
  <2>2. CASE n > m /\ n <= m + s
    <3>1. n - m \in 1 .. s /\ m + (n - m) = n
      BY <2>2, <1>2
    <3>2. c[n] = <<"should", q.should[n - m]>>
      BY <3>1, <1>2
    <3> QED BY <3>2, <2>2, <1>2
  <2>3. CASE n > m + s
    <3>1. n - (m + s) \in 1 .. x /\ m + s + (n - (m + s)) = n
      BY <2>3, <1>2
    <3>2. c[n] = <<"mustNot", q.mustNot[n - (m + s)]>>
      BY <3>1, <1>2
    <3> QED BY <3>2, <2>3, <1>2
  <2> QED BY <2>1, <2>2, <2>3, <1>2
<1>9. ASSUME q.prefix = {}
      PROVE  ClausesLeft(q, c)
  <2>1. \A n \in 1 .. Len(c) : c[n][1] = "must" => q.must # << >>
    <3> SUFFICES ASSUME NEW n \in 1 .. Len(c), c[n][1] = "must", m = 0 PROVE FALSE
      BY <1>4
    <3>1. c[n][1] = "should" \/ c[n][1] = "mustNot"
      <4>1. n > m /\ (n <= m + s \/ n > m + s)
        BY <1>2
      <4> QED BY <4>1, <1>8
    <3> QED BY <3>1
  <2>2. \A n \in 1 .. Len(c) : \A j \in 1 .. n : c[j][1] = "mustNot" => c[n][1] = "mustNot"
    <3> SUFFICES ASSUME NEW n \in 1 .. Len(c), NEW j \in 1 .. n, c[j][1] = "mustNot"
                 PROVE  c[n][1] = "mustNot"
      OBVIOUS
    <3>1. j \in 1 .. Len(c) /\ j <= n
      BY <1>2
    <3>2. j > m + s
      BY <3>1, <1>2, <1>8
    <3>3. n > m + s
      BY <3>1, <3>2, <1>2
    <3> QED BY <3>3, <1>8
  <2>3. q.must # << >> => c[1][1] = "must"
    <3> SUFFICES ASSUME q.must # << >> PROVE c[1][1] = "must"
      OBVIOUS
    <3>1. 1 \in 1 .. Len(c) /\ 1 <= m
      BY <1>2, <1>4
    <3> QED BY <3>1, <1>8
  <2>4. FirstRead(q) = "all" => \A n \in 1 .. Len(c) : c[n][1] = "mustNot"
    <3> SUFFICES ASSUME FirstRead(q) = "all", NEW n \in 1 .. Len(c)
                 PROVE  c[n][1] = "mustNot"
      OBVIOUS
    <3>1. m = 0 /\ s = 0
      BY <1>4, <1>5 DEF FirstRead
    <3>2. n > m + s
      BY <3>1, <1>2
    <3> QED BY <3>2, <1>8
  <2>5. Len(c) <= Len(c)
    BY <1>2
  <2> QED BY <2>1, <2>2, <2>3, <2>4, <2>5, <1>7, <1>9 DEF ClausesLeft, c
<1> QED BY <1>2, <1>5, <1>6, <1>9 DEF FirstRead, c

(* With all clauses left and no candidate, the final answer is the answer. *)
LEMMA FinalAtFirst ==
    ASSUME Written(store), NEW q \in Queries, NEW id \in IDs
    PROVE  /\ FirstRead(q) = "postings" =>
                (Final(store, q, Clauses(q), {}, id) <=> Satisfied(store, q, id))
           /\ FirstRead(q) = "all" =>
                (Final(store, q, Clauses(q), Live(store), id) <=> Satisfied(store, q, id))
<1> DEFINE c == Clauses(q)
           has(k) == Has(store, id, k)
<1>1. q \in Query
  BY QueriesAsk
<1>2. /\ ToSet(q.must) \subseteq Slots /\ ToSet(q.should) \subseteq Slots
      /\ ToSet(q.mustNot) \subseteq Slots
  BY <1>1 DEF Query, ToSet
<1>3. /\ q.must = << >> <=> ToSet(q.must) = {}
      /\ q.should = << >> <=> ToSet(q.should) = {}
  <2>1. q.must \in Seq(Slots) /\ q.should \in Seq(Slots)
    BY <1>1 DEF Query
  <2>2. ASSUME NEW s \in Seq(Slots)
        PROVE  s = << >> <=> ToSet(s) = {}
    <3>1. CASE s = << >>
      BY <3>1 DEF ToSet
    <3>2. CASE s # << >>
      <4>1. 1 \in DOMAIN s
        BY <3>2
      <4> QED BY <4>1, <3>2 DEF ToSet
    <3> QED BY <3>1, <3>2
  <2> QED BY <2>1, <2>2
<1>4. \A k \in Slots : has(k) => store.meta[id] # Missing
  BY DEF Has, Written, Sound, Exact, PostingsExact
<1>5. \A k : /\ Asks(c, "must", k) <=> k \in ToSet(q.must)
             /\ Asks(c, "should", k) <=> k \in ToSet(q.should)
             /\ Asks(c, "mustNot", k) <=> k \in ToSet(q.mustNot)
  BY <1>1, ClausesAsk
<1>6. FirstRead(q) # "terms" => q.prefix = {}
  BY FirstClauses
<1>7. Satisfied(store, q, id) <=>
        /\ store.meta[id] # Missing
        /\ \A k \in ToSet(q.must) : has(k)
        /\ \A k \in ToSet(q.mustNot) : ~has(k)
        /\ q.must = << >> /\ ToSet(q.should) \cup q.prefix # {} =>
             \E k \in ToSet(q.should) \cup q.prefix : has(k)
  BY DEF Satisfied, Has
<1> HIDE DEF c, has
<1>8. \A H : Final(store, q, c, H, id) <=>
        /\ \A k \in ToSet(q.must) : has(k)
        /\ \A k \in ToSet(q.mustNot) : ~has(k)
        /\ \/ id \in H
           \/ q.must = << >> /\ (\E k \in ToSet(q.should) : has(k))
           \/ q.must # << >>
  BY <1>2, <1>5 DEF Final, c, has
<1>9. ASSUME FirstRead(q) = "postings"
      PROVE  Final(store, q, c, {}, id) <=> Satisfied(store, q, id)
  <2>1. q.prefix = {} /\ (q.must # << >> \/ q.should # << >>)
    BY <1>6, <1>9, FirstClauses
  <2> QED BY <2>1, <1>2, <1>3, <1>4, <1>7, <1>8
<1>10. ASSUME FirstRead(q) = "all"
       PROVE  Final(store, q, c, Live(store), id) <=> Satisfied(store, q, id)
  <2>1. q.prefix = {} /\ q.must = << >> /\ q.should = << >>
    BY <1>6, <1>10, FirstClauses
  <2> QED BY <2>1, <1>3, <1>7, <1>8 DEF Live
<1> QED BY <1>9, <1>10 DEF c

(* Search and Facet begin (Index.Search, Index.Facet).                     *)
LEMMA BeginQueryKeeps ==
    ASSUME IInv, NEW r \in Readers, NEW g \in {"search", "facet"}, NEW q \in Queries,
           BeginQuery(r, g, q)
    PROVE  IInv'
<1>1. Domains /\ TypeAt(r) /\ ReaderOK(r) /\ Written(store)
  BY TypeIsTypeAt DEF IInv
<1>2. /\ pc[r] = "idle" /\ store' = store
      /\ pc'[r] = FirstRead(q) /\ goal'[r] = g /\ asked'[r] = q /\ rest'[r] = Clauses(q)
      /\ hits'[r] = NoScores /\ problems'[r] = {} /\ answer'[r] = "none" /\ saw'[r] = {}
      /\ ids' = ids /\ docCount' = docCount /\ df' = df /\ left' = left /\ scored' = scored
      /\ touched' = touched
  BY <1>1 DEF BeginQuery, Begin, Goto, Domains
<1>3. OnlyReader(r)
  <2>1. /\ ids' = [ids EXCEPT ![r] = ids'[r]] /\ docCount' = [docCount EXCEPT ![r] = docCount'[r]]
        /\ df' = [df EXCEPT ![r] = df'[r]] /\ left' = [left EXCEPT ![r] = left'[r]]
        /\ scored' = [scored EXCEPT ![r] = scored'[r]]
        /\ touched' = [touched EXCEPT ![r] = touched'[r]]
    BY <1>2 DEF IInv, TypeOK
  <2> QED BY <2>1, <1>2 DEF OnlyReader, BeginQuery, Begin, Goto
<1>4. q \in Query
  BY QueriesAsk
<1>5. TypeAt(r)'
  BY <1>1, <1>2, <1>4, FirstClauses, ScoresIn DEF TypeAt, PCs
<1>6. scored[r] = NoScores
  BY <1>1, <1>2 DEF ReaderOK, Shape
<1>7. FirstRead(q) \in {"terms", "all", "postings"}
  BY FirstClauses
<1>8. Shape(r)'
  BY <1>2, <1>6, <1>7, FirstClauses DEF Shape, Scanning
<1>9. Exactly(r)'
  <2> SUFFICES ASSUME NEW id \in IDs, FirstRead(q) = "postings"
               PROVE  Final(store, q, Clauses(q), {}, id) <=> Satisfied(store, q, id)
    BY <1>2, <1>7, ScoresIn DEF Exactly, Scanning
  <2> QED BY <1>1, FinalAtFirst
<1>10. Alive(r)'
  BY <1>2, <1>7, ScoresIn DEF Alive
<1>11. Bounded(r)'
  BY <1>2, <1>6, <1>7, ScoresIn DEF Bounded, NonNegative
<1>12. Quiet(r)'
  BY <1>2, <1>6, <1>7, ScoresIn DEF Quiet, AllOf
<1>13. Checking(r)'
  BY <1>2, <1>7 DEF Checking
<1>14. Answered(r)'
  BY <1>2 DEF Answered
<1>15. ReaderOK(r)'
  BY <1>8, <1>9, <1>10, <1>11, <1>12, <1>13, <1>14 DEF ReaderOK
<1> QED BY <1>3, <1>5, <1>15, ReadKept

(* Check begins (Index.Check).                                             *)
LEMMA BeginCheckKeeps ==
    ASSUME IInv, NEW r \in Readers, BeginCheck(r)
    PROVE  IInv'
<1>1. Domains /\ TypeAt(r) /\ ReaderOK(r) /\ Written(store)
  BY TypeIsTypeAt DEF IInv
<1>2. /\ pc[r] = "idle" /\ store' = store /\ pc'[r] = "ids" /\ goal'[r] = "check"
      /\ hits'[r] = NoScores /\ problems'[r] = {} /\ answer'[r] = "none" /\ saw'[r] = {}
      /\ asked' = asked /\ rest' = rest
      /\ ids' = ids /\ docCount' = docCount /\ df' = df /\ left' = left /\ scored' = scored
      /\ touched' = touched
  BY <1>1 DEF BeginCheck, Begin, Goto, Domains
<1>3. OnlyReader(r)
  <2>1. /\ ids' = [ids EXCEPT ![r] = ids'[r]] /\ docCount' = [docCount EXCEPT ![r] = docCount'[r]]
        /\ df' = [df EXCEPT ![r] = df'[r]] /\ left' = [left EXCEPT ![r] = left'[r]]
        /\ scored' = [scored EXCEPT ![r] = scored'[r]]
        /\ touched' = [touched EXCEPT ![r] = touched'[r]]
        /\ asked' = [asked EXCEPT ![r] = asked'[r]] /\ rest' = [rest EXCEPT ![r] = rest'[r]]
    BY <1>2 DEF IInv, TypeOK
  <2> QED BY <2>1, <1>2 DEF OnlyReader, BeginCheck, Begin, Goto
<1>4. TypeAt(r)'
  BY <1>1, <1>2, ScoresIn DEF TypeAt, PCs
<1>5. scored[r] = NoScores
  BY <1>1, <1>2 DEF ReaderOK, Shape
<1>6. Shape(r)'
  BY <1>2, <1>5 DEF Shape, Querying, Scanning
<1>7. Exactly(r)'
  BY <1>2 DEF Exactly, Scanning
<1>8. Alive(r)' /\ Bounded(r)' /\ Quiet(r)'
  BY <1>2, <1>5, ScoresIn DEF Alive, Bounded, Quiet, Querying, Scanning, NonNegative
<1>9. Checking(r)' /\ Answered(r)'
  BY <1>2 DEF Checking, Answered
<1>10. ReaderOK(r)'
  BY <1>6, <1>7, <1>8, <1>9 DEF ReaderOK
<1> QED BY <1>3, <1>4, <1>10, ReadKept

(* For a document of which a prefix query has read no posting, the terms   *)
(* with the prefix decide.                                                 *)
LEMMA FinalAtTerms ==
    ASSUME Written(store), NEW q \in Queries, q.prefix # {}, NEW id \in IDs
    PROVE  /\ WithPrefix(q) # {} =>
                (Final(store, q, As("should", SetToSeq(WithPrefix(q))), {}, id)
                   <=> Satisfied(store, q, id))
           /\ WithPrefix(q) = {} => ~Satisfied(store, q, id)
<1> DEFINE c == As("should", SetToSeq(WithPrefix(q)))
           has(k) == Has(store, id, k)
<1>1. q \in Query /\ q.must = << >> /\ q.should = << >> /\ q.mustNot = << >>
  BY QueriesAsk, FirstClauses
<1>2. q.prefix \subseteq Slots
  BY <1>1 DEF Query
<1>3. ToSet(q.must) = {} /\ ToSet(q.should) = {} /\ ToSet(q.mustNot) = {}
  BY <1>1 DEF ToSet
<1>4. \A k \in Slots : has(k) => store.meta[id] # Missing
  BY DEF Has, Written, Sound, Exact, PostingsExact
<1>5. \A k \in Slots : has(k) => store.term[k] # Missing
  <2> TAKE k \in Slots
  <2> HAVE has(k)
  <2>1. Holders(store.posting[k]) # {}
    BY DEF Has, Holders
  <2>2. store.term[k] = Entry(store.posting[k])
    BY DEF Written, Sound, Exact, DictionaryExact
  <2>3. Entry(store.posting[k]) # Missing
    <3>1. store.posting[k] \in Family /\ IsFiniteSet(Pairs(store.posting[k]))
      BY DEF Written, Sound, FiniteContents, Store, Family
    <3> QED BY <2>1, <3>1, EntryType
  <2> QED BY <2>2, <2>3
<1>6. Satisfied(store, q, id) <=> store.meta[id] # Missing /\ (\E k \in q.prefix : has(k))
  BY <1>1, <1>3 DEF Satisfied, Has
<1>7. \A role, k : Asks(c, role, k) <=> role = "should" /\ k \in WithPrefix(q)
  BY PrefixClauses
<1> HIDE DEF c, has
<1>8. Satisfied(store, q, id) <=> \E k \in WithPrefix(q) : has(k)
  BY <1>2, <1>4, <1>5, <1>6 DEF WithPrefix
<1>9. Final(store, q, c, {}, id) <=> \E k \in WithPrefix(q) : has(k)
  BY <1>1, <1>2, <1>7 DEF Final, WithPrefix, has
<1> QED BY <1>8, <1>9 DEF c

(* PrefixQuery.Execute reads the terms with the prefix.                    *)
LEMMA ReadTermsKeeps ==
    ASSUME IInv, NEW r \in Readers, ReadTerms(r)
    PROVE  IInv' /\ (Ends(r) => answer'[r] = "ok" /\ hits'[r] = NoScores /\ WithPrefix(asked[r]) = {})
<1>1. Domains /\ TypeAt(r) /\ ReaderOK(r) /\ Written(store) /\ TypeOK
  BY TypeIsTypeAt DEF IInv
<1> DEFINE q == asked[r]
           w == WithPrefix(q)
           c == As("should", SetToSeq(w))
<1>2. /\ pc[r] = "terms" /\ q \in Queries /\ q.prefix # {} /\ hits[r] = NoScores
      /\ scored[r] = NoScores
  BY <1>1 DEF ReadTerms, ReaderOK, Shape, Querying
<1>3. CASE w = {}
  <2>1. Finish(r, "ok", NoScores) /\ UNCHANGED <<store, goal, problems, saw>>
    BY <1>3 DEF ReadTerms, WithPrefix
  <2>2. OnlyReader(r) /\ TypeAt(r)' /\ ReaderOK(r)'
    BY <2>1, <1>1, ScoresIn, FinishKeeps DEF NonNegative, ReaderOK
  <2>3. answer'[r] = "ok" /\ hits'[r] = NoScores
    BY <2>1, <1>1 DEF Finish, Domains
  <2> QED BY <2>2, <2>3, <1>3, ReadKept
<1>4. CASE w # {}
  <2>1. /\ rest' = [rest EXCEPT ![r] = c] /\ pc' = [pc EXCEPT ![r] = "postings"]
        /\ UNCHANGED <<asked, ids, docCount, df, left, scored, hits, answer, touched>>
        /\ UNCHANGED <<store, goal, problems, saw>>
    BY <1>4 DEF ReadTerms, WithPrefix, Goto
  <2>2. /\ pc'[r] = "postings" /\ rest'[r] = c
    BY <2>1, <1>1 DEF Domains
  <2>3. /\ c \in Seq(Roles \X Slots) /\ c # << >>
        /\ \A n \in 1 .. Len(c) : c[n][1] = "should"
    BY <1>1, <1>2, <1>4, PrefixClauses
  <2>4. OnlyReader(r)
    BY <2>1, <2>2, <1>1 DEF OnlyReader, TypeOK
  <2> HIDE DEF c
  <2>5. TypeAt(r)'
    BY <2>1, <2>2, <2>3, <1>1 DEF TypeAt, PCs
  <2>6. ClausesLeft(q, c)
    <3>1. q.must = << >> /\ FirstRead(q) = "terms"
      BY <1>2, FirstClauses
    <3> QED BY <3>1, <2>3 DEF ClausesLeft
  <2>7. Shape(r)'
    BY <2>1, <2>2, <2>6, <1>2 DEF Shape
  <2>8. Exactly(r)'
    <3> SUFFICES ASSUME NEW id \in IDs
                 PROVE  Final(store, q, c, {}, id) <=> Satisfied(store, q, id)
      BY <2>1, <2>2, <1>2, ScoresIn DEF Exactly
    <3> QED BY <1>1, <1>2, <1>4, FinalAtTerms DEF c
  <2>9. Alive(r)' /\ Bounded(r)'
    BY <2>1, <2>2, <1>2, ScoresIn DEF Alive, Bounded, NonNegative
  <2>10. Quiet(r)'
    BY <2>1, <2>2, <1>2, ScoresIn DEF Quiet, AllOf
  <2>11. Checking(r)'
    BY <2>1, <2>2, <1>1 DEF Checking, ReaderOK
  <2>12. Answered(r)'
    BY <2>1, <1>1 DEF Answered, ReaderOK
  <2>13. ReaderOK(r)'
    BY <2>7, <2>8, <2>9, <2>10, <2>11, <2>12 DEF ReaderOK
  <2> QED BY <2>2, <2>4, <2>5, <2>13, ReadKept DEF Ends
<1> QED BY <1>3, <1>4

(* A query of excluded clauses only reads all documents.                   *)
LEMMA ReadAllDocumentIDsKeeps ==
    ASSUME IInv, NEW r \in Readers, ReadAllDocumentIDs(r)
    PROVE  IInv' /\ ~Ends(r)
<1>1. Domains /\ TypeAt(r) /\ ReaderOK(r) /\ Written(store) /\ TypeOK
  BY TypeIsTypeAt DEF IInv
<1> DEFINE q == asked[r]
           h == [id \in Live(store) |-> "zero"]
<1>2. /\ pc[r] = "all" /\ q \in Queries /\ FirstRead(q) = "all" /\ rest[r] = Clauses(q)
      /\ scored[r] = NoScores
  BY <1>1 DEF ReadAllDocumentIDs, ReaderOK, Shape, Querying
<1>3. /\ hits' = [hits EXCEPT ![r] = h] /\ pc' = [pc EXCEPT ![r] = "postings"]
      /\ UNCHANGED <<store, goal, asked, ids, docCount, df, left, rest, scored, problems, answer,
                     saw, touched>>
  BY DEF ReadAllDocumentIDs, Goto, query, found, history
<1>4. pc'[r] = "postings" /\ hits'[r] = h
  BY <1>3, <1>1 DEF Domains
<1>5. h \in Scores /\ DOMAIN h = Live(store) /\ AllOf("zero", h) /\ NonNegative(h)
  <2>1. Live(store) \in SUBSET IDs
    BY DEF Live
  <2>2. h \in [Live(store) -> Signs]
    BY DEF Signs
  <2> QED BY <2>1, <2>2 DEF Scores, AllOf, NonNegative
<1> HIDE DEF h
<1>6. OnlyReader(r)
  BY <1>3, <1>4, <1>1 DEF OnlyReader, TypeOK
<1>7. TypeAt(r)'
  BY <1>1, <1>3, <1>4, <1>5 DEF TypeAt, PCs
<1>8. Shape(r)'
  BY <1>2, <1>3, <1>4, FirstClauses DEF Shape
<1>9. Exactly(r)'
  <2> SUFFICES ASSUME NEW id \in IDs
               PROVE  Final(store, q, Clauses(q), Live(store), id) <=> Satisfied(store, q, id)
    BY <1>2, <1>3, <1>4, <1>5 DEF Exactly
  <2> QED BY <1>1, <1>2, FinalAtFirst
<1>10. Alive(r)' /\ Bounded(r)'
  BY <1>2, <1>3, <1>4, <1>5, ScoresIn DEF Alive, Bounded, NonNegative
<1>11. Quiet(r)'
  BY <1>2, <1>3, <1>4, <1>5, ScoresIn DEF Quiet, AllOf
<1>12. Checking(r)' /\ Answered(r)'
  BY <1>1, <1>3, <1>4 DEF Checking, Answered, ReaderOK
<1>13. ReaderOK(r)'
  BY <1>8, <1>9, <1>10, <1>11, <1>12 DEF ReaderOK
<1> QED BY <1>4, <1>6, <1>7, <1>13, ReadKept DEF Ends

(* A scan is of the slot of its first clause.                              *)
LEMMA SlotType ==
    ASSUME TypeOK, NEW r \in Readers, Shape(r), pc[r] \in Scanning
    PROVE  /\ rest[r] \in Seq(Roles \X Slots) /\ rest[r] # << >>
           /\ SlotOf(r) \in Slots /\ Head(rest[r])[1] \in Roles
           /\ Head(rest[r]) = <<Head(rest[r])[1], SlotOf(r)>>
           /\ Head(rest[r]) = rest[r][1] /\ Len(rest[r]) \in Nat \ {0}
           /\ asked[r] \in Queries
<1>1. rest[r] \in Seq(Roles \X Slots) /\ rest[r] # << >>
  BY DEF TypeOK, Shape, ClausesLeft
<1>2. Head(rest[r]) \in Roles \X Slots /\ Head(rest[r]) = rest[r][1] /\ Len(rest[r]) \in Nat \ {0}
  BY <1>1
<1>3. asked[r] \in Queries
  BY DEF Shape, Querying
<1> QED BY <1>1, <1>2, <1>3 DEF SlotOf

(* A posting of exact contents is of live documents.                       *)
LEMMA HoldersLive ==
    ASSUME NEW s, Sound(s), NEW k \in Slots
    PROVE  /\ Holders(s.posting[k]) \subseteq Live(s) /\ Holders(s.posting[k]) \subseteq IDs
           /\ Cardinality(Holders(s.posting[k])) \in Nat
           /\ Cardinality(Holders(s.posting[k])) <= Cardinality(Live(s))
           /\ \A id \in IDs : id \in Holders(s.posting[k]) <=> Has(s, id, k)
<1>1. Holders(s.posting[k]) \subseteq Live(s)
  BY DEF Holders, Live, Sound, Exact, PostingsExact
<1>2. IsFiniteSet(Live(s))
  BY LiveFinite
<1>3. /\ Cardinality(Holders(s.posting[k])) \in Nat
      /\ Cardinality(Holders(s.posting[k])) <= Cardinality(Live(s))
  BY <1>1, <1>2, FS_Subset, FS_CardinalityType
<1> QED BY <1>1, <1>3 DEF Holders, Has

(* TermQuery.Execute reads the postings of its term.                       *)
LEMMA ReadPostingsKeeps ==
    ASSUME IInv, NEW r \in Readers, ReadPostings(r)
    PROVE  IInv' /\ ~Ends(r)
<1>1. Domains /\ TypeAt(r) /\ ReaderOK(r) /\ Written(store) /\ TypeOK
  BY TypeIsTypeAt DEF IInv
<1> DEFINE k == SlotOf(r)
           H == Holders(store.posting[k])
<1>2. /\ ids' = [ids EXCEPT ![r] = H] /\ pc' = [pc EXCEPT ![r] = "stats"] /\ pc[r] = "postings"
      /\ UNCHANGED <<store, goal, asked, docCount, df, left, rest, scored, hits, problems, answer,
                     saw, touched>>
  BY DEF ReadPostings, Goto, query, outcome, history
<1>3. pc'[r] = "stats" /\ ids'[r] = H
  BY <1>1, <1>2 DEF Domains
<1>4. k \in Slots /\ SlotOf(r)' = k
  BY <1>1, <1>2, SlotType DEF ReaderOK, Scanning, SlotOf
<1>5. /\ H \subseteq Live(store) /\ H \subseteq IDs
      /\ \A id \in IDs : id \in H <=> Has(store, id, k)
  BY <1>1, <1>4, HoldersLive DEF Written
<1> HIDE DEF H, k
<1>6. OnlyReader(r)
  BY <1>2, <1>3, <1>1 DEF OnlyReader, TypeOK
<1>7. TypeAt(r)'
  BY <1>1, <1>2, <1>3, <1>5 DEF TypeAt, PCs
<1>8. Shape(r)'
  BY <1>1, <1>2, <1>3 DEF Shape, ReaderOK, Querying, Scanning
<1>9. Exactly(r)'
  BY <1>1, <1>2, <1>3, <1>4, <1>5 DEF Exactly, ReaderOK, Scanning
<1>10. Alive(r)' /\ Bounded(r)'
  BY <1>1, <1>2, <1>3, <1>5 DEF Alive, Bounded, ReaderOK, Querying, Scanning
<1>11. Quiet(r)'
  BY <1>1, <1>2, <1>3, <1>4 DEF Quiet, ReaderOK, Scanning, H
<1>12. Checking(r)' /\ Answered(r)'
  BY <1>1, <1>2, <1>3 DEF Checking, Answered, ReaderOK
<1>13. ReaderOK(r)'
  BY <1>8, <1>9, <1>10, <1>11, <1>12 DEF ReaderOK
<1> QED BY <1>3, <1>6, <1>7, <1>13, ReadKept DEF Ends

(* It reads the document count.                                            *)
LEMMA ReadSearchStatsKeeps ==
    ASSUME IInv, NEW r \in Readers, ReadSearchStats(r)
    PROVE  IInv' /\ ~Ends(r)
<1>1. Domains /\ TypeAt(r) /\ ReaderOK(r) /\ Written(store) /\ TypeOK
  BY TypeIsTypeAt DEF IInv
<1> DEFINE n == store.global.count
<1>2. /\ docCount' = [docCount EXCEPT ![r] = n] /\ pc' = [pc EXCEPT ![r] = "term"]
      /\ pc[r] = "stats"
      /\ UNCHANGED <<store, goal, asked, ids, df, left, rest, scored, hits, problems, answer,
                     saw, touched>>
  BY DEF ReadSearchStats, Goto, query, outcome, history
<1>3. pc'[r] = "term" /\ docCount'[r] = n
  BY <1>1, <1>2 DEF Domains
<1>4. n = Cardinality(Live(store)) /\ n \in Nat
  BY <1>1, LiveFinite DEF Written, Sound, Exact, StatsExact
<1> HIDE DEF n
<1>5. SlotOf(r)' = SlotOf(r)
  BY <1>2 DEF SlotOf
<1>6. OnlyReader(r)
  BY <1>2, <1>3, <1>1 DEF OnlyReader, TypeOK
<1>7. TypeAt(r)'
  BY <1>1, <1>2, <1>3, <1>4 DEF TypeAt, PCs
<1>8. Shape(r)'
  BY <1>1, <1>2, <1>3 DEF Shape, ReaderOK, Querying, Scanning
<1>9. Exactly(r)'
  BY <1>1, <1>2, <1>3, <1>5 DEF Exactly, ReaderOK, Scanning
<1>10. Alive(r)'
  BY <1>1, <1>2, <1>3 DEF Alive, ReaderOK, Querying, Scanning
<1>11. Bounded(r)'
  BY <1>1, <1>2, <1>3, <1>4 DEF Bounded, ReaderOK
<1>12. Quiet(r)'
  BY <1>1, <1>2, <1>3, <1>5 DEF Quiet, ReaderOK, Scanning
<1>13. Checking(r)' /\ Answered(r)'
  BY <1>1, <1>2, <1>3 DEF Checking, Answered, ReaderOK
<1>14. ReaderOK(r)'
  BY <1>8, <1>9, <1>10, <1>11, <1>12, <1>13 DEF ReaderOK
<1> QED BY <1>3, <1>6, <1>7, <1>14, ReadKept DEF Ends

(* It reads the document frequency of its term.                            *)
LEMMA ReadTermInfoKeeps ==
    ASSUME IInv, NEW r \in Readers, ReadTermInfo(r)
    PROVE  IInv' /\ ~Ends(r)
<1>1. Domains /\ TypeAt(r) /\ ReaderOK(r) /\ Written(store) /\ TypeOK
  BY TypeIsTypeAt DEF IInv
<1> DEFINE k == SlotOf(r)
           H == Holders(store.posting[k])
           f == IF store.term[k] = Missing THEN 0 ELSE store.term[k].df
<1>2. /\ df' = [df EXCEPT ![r] = f] /\ left' = [left EXCEPT ![r] = ids[r]]
      /\ ids' = [ids EXCEPT ![r] = {}] /\ pc' = [pc EXCEPT ![r] = "score"] /\ pc[r] = "term"
      /\ UNCHANGED <<store, goal, asked, docCount, rest, scored, hits, problems, answer,
                     saw, touched>>
  BY DEF ReadTermInfo, Goto, query, outcome, history
<1>3. pc'[r] = "score" /\ df'[r] = f /\ left'[r] = ids[r] /\ ids'[r] = {}
  BY <1>1, <1>2 DEF Domains
<1>4. k \in Slots /\ SlotOf(r)' = k
  BY <1>1, <1>2, SlotType DEF ReaderOK, Scanning, SlotOf
<1>5. f = Cardinality(H) /\ (H = {} => f = 0) /\ (H # {} => f # 0)
  <2>1. store.term[k] = Entry(store.posting[k])
    BY <1>1, <1>4 DEF Written, Sound, Exact, DictionaryExact
  <2>2. store.posting[k] \in Family /\ IsFiniteSet(Pairs(store.posting[k]))
    BY <1>1, <1>4 DEF Written, Sound, FiniteContents, Store, Family
  <2>3. store.term[k] = Missing <=> H = {}
    BY <2>1, <2>2, EntryType
  <2>4. IsFiniteSet(H)
    <3>1. H \subseteq IDs
      BY DEF Holders
    <3> QED BY <3>1, FiniteIDs, FS_Subset
  <2>5. H # {} => store.term[k].df = Cardinality(H)
    BY <2>1 DEF Entry
  <2>6. Cardinality(H) = 0 <=> H = {}
    BY <2>4, FS_EmptySet
  <2> QED BY <2>3, <2>5, <2>6
<1>6. f \in Nat /\ f <= Cardinality(Live(store)) /\ Cardinality(Live(store)) \in Nat
  BY <1>1, <1>4, <1>5, HoldersLive, LiveFinite DEF Written
<1> HIDE DEF H, k, f
<1>7. OnlyReader(r)
  BY <1>2, <1>3, <1>1 DEF OnlyReader, TypeOK
<1>8. TypeAt(r)'
  BY <1>1, <1>2, <1>3, <1>6 DEF TypeAt, PCs
<1>9. Shape(r)'
  BY <1>1, <1>2, <1>3 DEF Shape, ReaderOK, Querying, Scanning, TypeAt
<1>10. scored[r] = NoScores
  BY <1>1, <1>2 DEF Shape, ReaderOK
<1>11. Exactly(r)'
  BY <1>1, <1>2, <1>3, <1>4, <1>10, ScoresIn DEF Exactly, ReaderOK, Scanning, k
<1>12. Alive(r)'
  BY <1>1, <1>2, <1>3, <1>10, ScoresIn DEF Alive, ReaderOK, Querying, Scanning
<1>13. Bounded(r)'
  <2> SUFFICES ASSUME "grew" \notin saw[r]
               PROVE  NonNegative(hits[r]) /\ NonNegative(scored[r]) /\ f <= docCount[r]
    BY <1>2, <1>3 DEF Bounded
  <2>1. /\ NonNegative(hits[r]) /\ NonNegative(scored[r])
        /\ Cardinality(Live(store)) <= docCount[r] /\ docCount[r] \in Nat
    BY <1>1, <1>2 DEF Bounded, ReaderOK, TypeAt
  <2> QED BY <2>1, <1>6
<1>14. Quiet(r)'
  <2> SUFFICES ASSUME saw[r] = {}
               PROVE  /\ AllOf(IF FirstRead(asked[r]) = "all" THEN "zero" ELSE "positive", hits[r])
                      /\ AllOf("positive", scored[r])
                      /\ ids[r] # {} => f # 0
    BY <1>2, <1>3 DEF Quiet
  <2>1. /\ AllOf(IF FirstRead(asked[r]) = "all" THEN "zero" ELSE "positive", hits[r])
        /\ AllOf("positive", scored[r]) /\ ids[r] \subseteq H
    BY <1>1, <1>2 DEF Quiet, ReaderOK, Scanning, H, k
  <2> QED BY <2>1, <1>5
<1>15. Checking(r)' /\ Answered(r)'
  BY <1>1, <1>2, <1>3 DEF Checking, Answered, ReaderOK
<1>16. ReaderOK(r)'
  BY <1>9, <1>11, <1>12, <1>13, <1>14, <1>15 DEF ReaderOK
<1> QED BY <1>3, <1>7, <1>8, <1>16, ReadKept DEF Ends

(* A score is negative only if more documents have the term than there are.*)
LEMMA SignOfScore ==
    ASSUME NEW f \in Nat, NEW n \in Nat
    PROVE  /\ ScoreSign(1, f, n) \in Signs
           /\ f <= n => ScoreSign(1, f, n) # "negative"
           /\ f <= n /\ f # 0 => ScoreSign(1, f, n) = "positive"
BY DEF ScoreSign, Signs

(* It reads the length of each document, and skips one that is gone.       *)
LEMMA ScorePostingKeeps ==
    ASSUME IInv, NEW r \in Readers, ScorePosting(r)
    PROVE  IInv' /\ (Ends(r) => answer'[r] = "missing" /\ "shrank" \in saw[r])
<1>1. Domains /\ TypeAt(r) /\ ReaderOK(r) /\ Written(store) /\ TypeOK
  BY TypeIsTypeAt DEF IInv
<1>2. pc[r] = "score" /\ UNCHANGED <<store, goal, problems, saw>>
  BY DEF ScorePosting
<1>3. PICK id \in left[r] :
         \/ store.meta[id] = Missing /\ Finish(r, "missing", NoScores)
         \/ /\ store.meta[id] # Missing
            /\ scored' = [scored EXCEPT ![r] =
                 [d \in DOMAIN @ \cup {id} |->
                    IF d = id THEN ScoreSign(1, df[r], docCount[r]) ELSE @[d]]]
            /\ left' = [left EXCEPT ![r] = @ \ {id}]
            /\ UNCHANGED <<pc, asked, ids, docCount, df, rest, hits, answer, touched>>
  BY DEF ScorePosting
<1>4. id \in IDs /\ left[r] \subseteq IDs
  BY <1>1, <1>2, <1>3 DEF ReaderOK, Shape
<1>5. CASE store.meta[id] = Missing /\ Finish(r, "missing", NoScores)
  <2>1. "shrank" \in saw[r]
    <3> SUFFICES ASSUME "shrank" \notin saw[r] PROVE FALSE
      OBVIOUS
    <3>1. left[r] \subseteq Live(store)
      BY <1>1, <1>2 DEF ReaderOK, Alive, Querying, Scanning
    <3> QED BY <3>1, <1>3, <1>5 DEF Live
  <2>2. OnlyReader(r) /\ TypeAt(r)' /\ ReaderOK(r)'
    BY <2>1, <1>5, <1>1, <1>2, ScoresIn, FinishKeeps DEF NonNegative, ReaderOK
  <2>3. answer'[r] = "missing"
    BY <1>5, <1>1 DEF Finish, Domains
  <2> QED BY <2>1, <2>2, <2>3, ReadKept
<1>6. CASE /\ store.meta[id] # Missing
           /\ scored' = [scored EXCEPT ![r] =
                [d \in DOMAIN @ \cup {id} |->
                   IF d = id THEN ScoreSign(1, df[r], docCount[r]) ELSE @[d]]]
           /\ left' = [left EXCEPT ![r] = @ \ {id}]
           /\ UNCHANGED <<pc, asked, ids, docCount, df, rest, hits, answer, touched>>
  <2> DEFINE a == scored[r]
             x == ScoreSign(1, df[r], docCount[r])
             b == [d \in DOMAIN a \cup {id} |-> IF d = id THEN x ELSE a[d]]
  <2>1. scored'[r] = b /\ left'[r] = left[r] \ {id} /\ scored' = [scored EXCEPT ![r] = b]
    BY <1>6, <1>1 DEF Domains
  <2>2. pc'[r] = "score" /\ SlotOf(r)' = SlotOf(r) /\ ~Ends(r)
    BY <1>2, <1>6 DEF SlotOf, Ends
  <2>3. a \in Scores /\ DOMAIN a \subseteq IDs /\ \A d \in DOMAIN a : a[d] \in Signs
    BY <1>1, ScoresIn DEF TypeAt
  <2>4. /\ x \in Signs
        /\ df[r] <= docCount[r] => x # "negative"
        /\ df[r] <= docCount[r] /\ df[r] # 0 => x = "positive"
    BY <1>1, SignOfScore DEF TypeAt
  <2> HIDE DEF x, a
  <2>5. /\ DOMAIN b = DOMAIN a \cup {id} /\ b \in Scores
        /\ \A d \in DOMAIN b : b[d] = x \/ (d \in DOMAIN a /\ b[d] = a[d])
    <3>1. DOMAIN a \cup {id} \in SUBSET IDs
      BY <1>4, <2>3
    <3>2. b \in [DOMAIN a \cup {id} -> Signs]
      BY <2>3, <2>4
    <3> QED BY <3>1, <3>2 DEF Scores
  <2> HIDE DEF b
  <2>6. OnlyReader(r)
    BY <1>2, <1>6, <2>1, <1>1 DEF OnlyReader, TypeOK
  <2>7. TypeAt(r)'
    BY <1>1, <1>2, <1>4, <1>6, <2>1, <2>5 DEF TypeAt
  <2>8. Shape(r)'
    BY <1>1, <1>2, <1>6, <2>1, <2>2 DEF Shape, ReaderOK, Querying, Scanning
  <2>9. Exactly(r)'
    BY <1>1, <1>2, <1>3, <1>6, <2>1, <2>2, <2>5 DEF Exactly, ReaderOK, Scanning, a
  <2>10. Alive(r)'
    BY <1>1, <1>2, <1>3, <1>6, <2>1, <2>2, <2>5 DEF Alive, ReaderOK, Querying, Scanning, a
  <2>11. Bounded(r)'
    <3> SUFFICES ASSUME "grew" \notin saw[r]
                 PROVE  NonNegative(hits[r]) /\ NonNegative(b) /\ df[r] <= docCount[r]
      BY <1>2, <1>6, <2>1, <2>2 DEF Bounded
    <3>1. NonNegative(hits[r]) /\ NonNegative(a) /\ df[r] <= docCount[r]
      BY <1>1, <1>2 DEF Bounded, ReaderOK, a
    <3> QED BY <3>1, <2>4, <2>5 DEF NonNegative
  <2>12. Quiet(r)'
    <3> SUFFICES ASSUME saw[r] = {}
                 PROVE  /\ AllOf(IF FirstRead(asked[r]) = "all" THEN "zero" ELSE "positive", hits[r])
                        /\ AllOf("positive", b)
                        /\ df[r] # 0
      BY <1>2, <1>6, <2>1, <2>2 DEF Quiet
    <3>1. /\ AllOf(IF FirstRead(asked[r]) = "all" THEN "zero" ELSE "positive", hits[r])
          /\ AllOf("positive", a) /\ df[r] # 0
      BY <1>1, <1>2, <1>3 DEF Quiet, ReaderOK, Scanning, a
    <3>2. df[r] <= docCount[r]
      BY <1>1, <1>2 DEF Bounded, ReaderOK
    <3> QED BY <3>1, <3>2, <2>4, <2>5 DEF AllOf
  <2>13. Checking(r)'
    BY <1>1, <1>2, <1>6, <2>2 DEF Checking, ReaderOK
  <2>14. Answered(r)'
    BY <1>1, <1>2, <1>6 DEF Answered, ReaderOK
  <2>15. ReaderOK(r)'
    BY <2>8, <2>9, <2>10, <2>11, <2>12, <2>13, <2>14 DEF ReaderOK
  <2> QED BY <2>2, <2>6, <2>7, <2>15, ReadKept
<1> QED BY <1>3, <1>5, <1>6

(* What a clause that has been executed makes of the candidates.           *)
Total(r) == Combined(asked[r], Head(rest[r])[1], rest[r] = Clauses(asked[r]),
                     hits[r], scored[r])

(* What is left after a clause comes in order, too.                        *)
LEMMA TailLeft ==
    ASSUME NEW q, NEW todo \in Seq(Roles \X Slots), ClausesLeft(q, todo), Len(todo) > 1
    PROVE  ClausesLeft(q, Tail(todo)) /\ Tail(todo) \in Seq(Roles \X Slots)
<1> DEFINE t == Tail(todo)
<1>1. /\ Len(todo) \in Nat /\ t \in Seq(Roles \X Slots) /\ Len(t) = Len(todo) - 1
      /\ \A n \in 1 .. Len(t) : t[n] = todo[n + 1] /\ n + 1 \in 1 .. Len(todo)
  <2>1. todo # << >>
    BY DEF ClausesLeft
  <2>2. /\ t \in Seq(Roles \X Slots) /\ Len(t) = Len(todo) - 1 /\ Len(todo) \in Nat
        /\ \A n \in 1 .. Len(t) : t[n] = todo[n + 1]
    BY <2>1
  <2> QED BY <2>2
<1> HIDE DEF t
<1>2. t # << >>
  <2> SUFFICES ASSUME t = << >> PROVE FALSE
    OBVIOUS
  <2>1. Len(t) = 0
    OBVIOUS
  <2>2. Len(todo) \in Nat /\ Len(t) = Len(todo) - 1
    BY <1>1
  <2> DEFINE n == Len(todo)
  <2>3. n \in Nat /\ 0 = n - 1 /\ n > 1
    BY <2>1, <2>2
  <2> HIDE DEF n
  <2> QED BY <2>3
<1>3. \A n \in 1 .. Len(t) : t[n][1] = "must" => q.must # << >>
  BY <1>1 DEF ClausesLeft
<1>4. ASSUME NEW n \in 1 .. Len(t), NEW m \in 1 .. n, t[m][1] = "mustNot"
      PROVE  t[n][1] = "mustNot"
  <2>1. m \in 1 .. Len(t) /\ n + 1 \in 1 .. Len(todo) /\ m + 1 \in 1 .. n + 1
    BY <1>1
  <2>2. todo[m + 1][1] = "mustNot"
    BY <2>1, <1>1, <1>4
  <2>3. todo[n + 1][1] = "mustNot"
    BY <2>1, <2>2 DEF ClausesLeft
  <2> QED BY <2>3, <1>1
<1>5. ASSUME q.must # << >>
      PROVE  Len(t) <= Len(Clauses(q)) /\ t # Clauses(q)
  <2>1. Len(todo) <= Len(Clauses(q))
    BY <1>5 DEF ClausesLeft
  <2>2. CASE t = Clauses(q)
    BY <2>1, <2>2, <1>1
  <2>3. CASE t # Clauses(q)
    <3>1. CASE todo = Clauses(q)
      BY <3>1, <1>1, <2>3
    <3>2. CASE ~(Len(Clauses(q)) \in Int)
      BY <3>2, <2>1, <1>1
    <3> QED BY <2>1, <2>3, <1>1
  <2> QED BY <2>2, <2>3
<1>6. FirstRead(q) = "all" => \A n \in 1 .. Len(t) : t[n][1] = "mustNot"
  BY <1>1 DEF ClausesLeft
<1> QED BY <1>1, <1>2, <1>3, <1>4, <1>5, <1>6 DEF ClausesLeft, t

(* After a clause, candidates and clauses left decide the answer as before *)
(* it.                                                                     *)
LEMMA TotalExact ==
    ASSUME TypeOK, Written(store), NEW r \in Readers, ReaderOK(r), pc[r] = "score",
           left[r] = {}
    PROVE  /\ Total(r) \in Scores
           /\ \A id \in IDs \ touched[r] :
                Final(store, asked[r], Tail(rest[r]), DOMAIN Total(r), id)
                  <=> Satisfied(store, asked[r], id)
           /\ "shrank" \notin saw[r] => DOMAIN Total(r) \subseteq Live(store)
           /\ "grew" \notin saw[r] => NonNegative(Total(r))
           /\ saw[r] = {} =>
                AllOf(IF FirstRead(asked[r]) = "all" THEN "zero" ELSE "positive", Total(r))
<1> DEFINE q == asked[r]
           todo == rest[r]
           role == Head(todo)[1]
           k == SlotOf(r)
           first == todo = Clauses(q)
           a == hits[r]
           b == scored[r]
           t == Total(r)
<1>1. /\ todo \in Seq(Roles \X Slots) /\ todo # << >> /\ k \in Slots /\ role \in Roles
      /\ Head(todo) = <<role, k>> /\ Head(todo) = todo[1] /\ Len(todo) \in Nat \ {0}
      /\ q \in Queries
  BY SlotType DEF ReaderOK, Scanning
<1>2. ClausesLeft(q, todo)
  BY DEF ReaderOK, Shape, Scanning
<1>3. a \in Scores /\ b \in Scores /\ first \in BOOLEAN
  BY DEF TypeOK
<1>4. t = Combined(q, role, first, a, b)
  BY DEF Total
<1>5. /\ t \in Scores
      /\ role = "must" => DOMAIN t = IF first THEN DOMAIN b ELSE DOMAIN a \cap DOMAIN b
      /\ role = "should" => DOMAIN t = IF q.must = << >> THEN DOMAIN a \cup DOMAIN b
                                       ELSE DOMAIN a
      /\ role = "mustNot" => DOMAIN t = DOMAIN a \ DOMAIN b
      /\ NonNegative(a) /\ NonNegative(b) => NonNegative(t)
      /\ AllOf("positive", a) /\ AllOf("positive", b) => AllOf("positive", t)
      /\ role = "mustNot" => \A sign : AllOf(sign, a) => AllOf(sign, t)
  <2> HIDE DEF role, first, a, b, t, q
  <2>1. Combines(q, role, first, a, b, Combined(q, role, first, a, b))
    BY <1>1, <1>3, CombinedScores
  <2> QED BY <2>1, <1>4 DEF Combines
<1>6. \A id \in IDs \ touched[r] : id \in DOMAIN b <=> Has(store, id, k)
  BY DEF ReaderOK, Exactly
<1>7. \A id \in IDs \ touched[r] : Final(store, q, todo, DOMAIN a, id) <=> Satisfied(store, q, id)
  BY DEF ReaderOK, Exactly, Scanning
<1>8. /\ role = "must" => q.must # << >>
      /\ role = "mustNot" => \A n \in 1 .. Len(todo) : todo[n][1] = "mustNot"
      /\ q.must # << >> /\ first => role = "must"
      /\ FirstRead(q) = "all" => role = "mustNot"
  <2>1. 1 \in 1 .. Len(todo) /\ \A n \in 1 .. Len(todo) : 1 \in 1 .. n
    BY <1>1
  <2>2. role = todo[1][1]
    BY <1>1
  <2> QED BY <2>1, <2>2, <1>2 DEF ClausesLeft
<1>9. q.must # << >> => Tail(todo) # Clauses(q)
  <2> SUFFICES ASSUME q.must # << >>, Tail(todo) = Clauses(q) PROVE FALSE
    OBVIOUS
  <2>1. Len(todo) <= Len(Clauses(q))
    BY <1>2 DEF ClausesLeft
  <2>2. Len(Tail(todo)) = Len(todo) - 1 /\ Len(todo) \in Nat
    BY <1>1
  <2>3. Len(Tail(todo)) = Len(Clauses(q))
    OBVIOUS
  <2> DEFINE n == Len(todo)
             m == Len(Clauses(q))
  <2>4. n <= m /\ m = n - 1 /\ n \in Nat
    BY <2>1, <2>2, <2>3
  <2> HIDE DEF n, m
  <2> QED BY <2>4
<1>10. \A o, j : Asks(todo, o, j) <=> (<<role, k>> = <<o, j>> \/ Asks(Tail(todo), o, j))
  BY <1>1, TailAsks
<1>11. \A o, j : Asks(Tail(todo), o, j) /\ role = "mustNot" => o = "mustNot"
  <2> SUFFICES ASSUME NEW o, NEW j, Asks(Tail(todo), o, j), role = "mustNot"
               PROVE  o = "mustNot"
    OBVIOUS
  <2>1. Asks(todo, o, j)
    BY <1>10
  <2>2. PICK n \in 1 .. Len(todo) : todo[n] = <<o, j>>
    BY <2>1 DEF Asks
  <2> QED BY <2>2, <1>8
<1> DEFINE tail == Tail(todo)
           has(id, j) == Has(store, id, j)
<1>12. ASSUME NEW id \in IDs \ touched[r]
       PROVE  Final(store, q, tail, DOMAIN t, id) <=> Satisfied(store, q, id)
  <2> HIDE DEF t, a, b, role, first, k, tail, q, has
  <2>1. Final(store, q, todo, DOMAIN a, id) <=>
          /\ \A j \in Slots : Asks(todo, "must", j) => has(id, j)
          /\ \A j \in Slots : Asks(todo, "mustNot", j) => ~has(id, j)
          /\ \/ id \in DOMAIN a
             \/ q.must = << >> /\ (\E j \in Slots : Asks(todo, "should", j) /\ has(id, j))
             \/ q.must # << >> /\ first
    BY DEF Final, has, first
  <2>2. Final(store, q, tail, DOMAIN t, id) <=>
          /\ \A j \in Slots : Asks(tail, "must", j) => has(id, j)
          /\ \A j \in Slots : Asks(tail, "mustNot", j) => ~has(id, j)
          /\ \/ id \in DOMAIN t
             \/ q.must = << >> /\ (\E j \in Slots : Asks(tail, "should", j) /\ has(id, j))
    BY <1>9 DEF Final, has, tail
  <2>3. \A o, j : Asks(todo, o, j) <=> (role = o /\ k = j) \/ Asks(tail, o, j)
    BY <1>10 DEF tail
  <2>4. id \in DOMAIN b <=> has(id, k)
    BY <1>6 DEF has
  <2>5. \A o, j : Asks(tail, o, j) /\ role = "mustNot" => o = "mustNot"
    BY <1>11 DEF tail
  <2> HIDE DEF todo
  <2>6. CASE role = "must"
    BY <2>6, <2>1, <2>2, <2>3, <2>4, <1>1, <1>5, <1>8, <1>7
  <2>7. CASE role = "should"
    BY <2>7, <2>1, <2>2, <2>3, <2>4, <1>1, <1>5, <1>8, <1>7
  <2>8. CASE role = "mustNot"
    BY <2>8, <2>1, <2>2, <2>3, <2>4, <2>5, <1>1, <1>5, <1>8, <1>7
  <2> QED BY <2>6, <2>7, <2>8, <1>1 DEF Roles
<1>13. ASSUME "shrank" \notin saw[r]
       PROVE  DOMAIN t \subseteq Live(store)
  <2>1. DOMAIN a \subseteq Live(store) /\ DOMAIN b \subseteq Live(store)
    BY <1>13 DEF ReaderOK, Alive, Querying, Scanning
  <2> HIDE DEF t, a, b, role, first
  <2> QED BY <2>1, <1>5, <1>1 DEF Roles
<1>14. ASSUME "grew" \notin saw[r]
       PROVE  NonNegative(t)
  <2>1. NonNegative(a) /\ NonNegative(b)
    BY <1>14 DEF ReaderOK, Bounded
  <2> QED BY <2>1, <1>5
<1>15. ASSUME saw[r] = {}
       PROVE  AllOf(IF FirstRead(q) = "all" THEN "zero" ELSE "positive", t)
  <2>1. /\ AllOf(IF FirstRead(q) = "all" THEN "zero" ELSE "positive", a)
        /\ AllOf("positive", b)
    BY <1>15 DEF ReaderOK, Quiet, Scanning
  <2> HIDE DEF t, a, b, role
  <2> QED BY <2>1, <1>5, <1>8
<1> QED BY <1>5, <1>12, <1>13, <1>14, <1>15

(* At the end no clause is left, and the candidates are the answer.        *)
LEMMA FinalAtEnd ==
    ASSUME NEW q \in Queries, NEW c, NEW id
    PROVE  Final(store, q, << >>, c, id) <=> id \in c
<1>1. \A role, k : ~Asks(<< >>, role, k)
  BY DEF Asks
<1>2. q.must # << >> => Clauses(q) # << >>
  BY FirstClauses DEF ClausesLeft
<1> QED BY <1>1, <1>2 DEF Final

(* What an operation that ends has to answer.                              *)
Right(r) == Ends(r) => UntouchedExact(r) /\ QuietExact(r)

(* An answer is right if it is what the contents give.                     *)
LEMMA RightAnswer ==
    ASSUME TypeOK, NEW r \in Readers, ReaderOK(r), problems'[r] = problems[r],
           goal[r] # "check" /\ answer'[r] = "ok" =>
              \A id \in IDs \ touched[r] :
                 id \in DOMAIN hits'[r] <=> Satisfied(store, asked[r], id),
           saw[r] = {} =>
              /\ answer'[r] = "ok"
              /\ AllOf(IF FirstRead(asked[r]) = "all" THEN "zero" ELSE "positive", hits'[r])
    PROVE  Right(r)
<1>1. UntouchedExact(r)
  BY DEF UntouchedExact
<1>2. ASSUME saw[r] = {}
      PROVE  problems'[r] = {}
  <2>1. "dictionary" \notin problems[r] /\ "count" \notin problems[r]
    BY <1>2 DEF ReaderOK, Checking
  <2>2. problems[r] \subseteq {"count", "dictionary"}
    BY DEF TypeOK
  <2> QED BY <2>1, <2>2
<1>3. QuietExact(r)
  BY <1>2 DEF QuietExact, AllOf
<1> QED BY <1>1, <1>3 DEF Right

(* A clause is done: the candidates are combined, and the next one begins  *)
(* or the query ends.                                                      *)
LEMMA ClauseDoneKeeps ==
    ASSUME IInv, NEW r \in Readers, ClauseDone(r)
    PROVE  IInv' /\ Right(r)
<1>1. Domains /\ TypeAt(r) /\ ReaderOK(r) /\ Written(store) /\ TypeOK
  BY TypeIsTypeAt DEF IInv
<1> DEFINE q == asked[r]
           t == Total(r)
           sign == IF FirstRead(q) = "all" THEN "zero" ELSE "positive"
<1>2. /\ pc[r] = "score" /\ left[r] = {}
      /\ \/ /\ Len(rest[r]) > 1
            /\ Goto(r, "postings")
            /\ rest' = [rest EXCEPT ![r] = Tail(@)]
            /\ UNCHANGED <<left, asked, answer, touched>>
         \/ /\ Len(rest[r]) = 1 /\ goal[r] = "facet" /\ t # NoScores
            /\ Goto(r, "document")
            /\ rest' = [rest EXCEPT ![r] = << >>]
            /\ left' = [left EXCEPT ![r] = DOMAIN t]
            /\ UNCHANGED <<asked, answer, touched>>
         \/ /\ Len(rest[r]) = 1 /\ (goal[r] = "search" \/ t = NoScores)
            /\ Finish(r, "ok", t)
      /\ hits' = [hits EXCEPT ![r] = t]
      /\ scored' = [scored EXCEPT ![r] = NoScores]
      /\ docCount' = [docCount EXCEPT ![r] = 0]
      /\ df' = [df EXCEPT ![r] = 0]
      /\ UNCHANGED <<store, goal, ids, problems, saw>>
  BY DEF ClauseDone, Total
<1>3. /\ t \in Scores
      /\ \A id \in IDs \ touched[r] :
           Final(store, q, Tail(rest[r]), DOMAIN t, id) <=> Satisfied(store, q, id)
      /\ "shrank" \notin saw[r] => DOMAIN t \subseteq Live(store)
      /\ "grew" \notin saw[r] => NonNegative(t)
      /\ saw[r] = {} => AllOf(sign, t)
  BY <1>1, <1>2, TotalExact
<1>4. /\ rest[r] \in Seq(Roles \X Slots) /\ rest[r] # << >> /\ q \in Queries
      /\ ClausesLeft(q, rest[r])
  BY <1>1, <1>2, SlotType DEF ReaderOK, Scanning, Shape
<1>5. DOMAIN t \subseteq IDs
  BY <1>3, ScoresIn
<1>6. Len(rest[r]) = 1 => Tail(rest[r]) = << >>
  <2> SUFFICES ASSUME Len(rest[r]) = 1 PROVE Tail(rest[r]) = << >>
    OBVIOUS
  <2> DEFINE s == Tail(rest[r])
  <2>1. s \in Seq(Roles \X Slots) /\ Len(s) = Len(rest[r]) - 1
    BY <1>4
  <2>2. s \in Seq(Roles \X Slots) /\ Len(s) = 0
    BY <2>1
  <2> HIDE DEF s
  <2>3. s = << >>
    BY <2>2
  <2> QED BY <2>3 DEF s
<1> HIDE DEF t
<1>7. /\ hits'[r] = t /\ scored'[r] = NoScores /\ docCount'[r] = 0 /\ df'[r] = 0
      /\ ids'[r] = ids[r] /\ goal'[r] = goal[r] /\ problems'[r] = problems[r] /\ saw'[r] = saw[r]
  BY <1>1, <1>2 DEF Domains
<1>8. CASE Len(rest[r]) = 1 /\ Finish(r, "ok", t)
  <2>1. OnlyReader(r) /\ TypeAt(r)' /\ ReaderOK(r)'
    BY <1>1, <1>2, <1>3, <1>8, FinishKeeps DEF ReaderOK
  <2>2. answer'[r] = "ok"
    BY <1>8, <1>1 DEF Finish, Domains
  <2>3. \A id \in IDs \ touched[r] : id \in DOMAIN t <=> Satisfied(store, q, id)
    <3> TAKE id \in IDs \ touched[r]
    <3>1. Final(store, q, << >>, DOMAIN t, id) <=> Satisfied(store, q, id)
      BY <1>3, <1>6, <1>8
    <3>2. Final(store, q, << >>, DOMAIN t, id) <=> id \in DOMAIN t
      BY <1>4, FinalAtEnd
    <3> QED BY <3>1, <3>2
  <2>4. Right(r)
    BY <1>1, <1>3, <1>7, <2>2, <2>3, RightAnswer
  <2> QED BY <2>1, <2>4, ReadKept
<1>9. CASE /\ Len(rest[r]) > 1
           /\ Goto(r, "postings")
           /\ rest' = [rest EXCEPT ![r] = Tail(@)]
           /\ UNCHANGED <<left, asked, answer, touched>>
  <2> DEFINE todo == Tail(rest[r])
  <2>1. /\ pc' = [pc EXCEPT ![r] = "postings"] /\ pc'[r] = "postings"
        /\ rest' = [rest EXCEPT ![r] = todo] /\ rest'[r] = todo
    BY <1>9, <1>1 DEF Goto, Domains
  <2>2. ClausesLeft(q, todo) /\ todo \in Seq(Roles \X Slots)
    BY <1>4, <1>9, TailLeft
  <2> HIDE DEF todo
  <2>3. OnlyReader(r)
    BY <1>2, <1>7, <1>9, <2>1, <1>1 DEF OnlyReader, TypeOK
  <2>4. TypeAt(r)'
    BY <1>1, <1>3, <1>7, <1>9, <2>1, <2>2, ScoresIn DEF TypeAt, PCs
  <2>5. Shape(r)'
    BY <1>4, <1>7, <1>9, <2>1, <2>2 DEF Shape
  <2>6. Exactly(r)'
    BY <1>2, <1>3, <1>7, <1>9, <2>1 DEF Exactly, todo
  <2>7. Alive(r)' /\ Bounded(r)'
    BY <1>2, <1>3, <1>7, <2>1, ScoresIn DEF Alive, Bounded, NonNegative
  <2>8. Quiet(r)'
    BY <1>2, <1>3, <1>7, <1>9, <2>1, ScoresIn DEF Quiet, AllOf
  <2>9. Checking(r)' /\ Answered(r)'
    BY <1>1, <1>7, <1>9, <2>1 DEF Checking, Answered, ReaderOK
  <2>10. ReaderOK(r)'
    BY <2>5, <2>6, <2>7, <2>8, <2>9 DEF ReaderOK
  <2> QED BY <2>1, <2>3, <2>4, <2>10, ReadKept DEF Right, Ends
<1>10. CASE /\ Len(rest[r]) = 1
            /\ Goto(r, "document")
            /\ rest' = [rest EXCEPT ![r] = << >>]
            /\ left' = [left EXCEPT ![r] = DOMAIN t]
            /\ UNCHANGED <<asked, answer, touched>>
  <2>1. /\ pc' = [pc EXCEPT ![r] = "document"] /\ pc'[r] = "document"
        /\ rest'[r] = << >> /\ left'[r] = DOMAIN t
    BY <1>10, <1>1 DEF Goto, Domains
  <2>2. << >> \in Seq(Roles \X Slots)
    OBVIOUS
  <2>3. OnlyReader(r)
    BY <1>2, <1>7, <1>10, <2>1, <1>1 DEF OnlyReader, TypeOK
  <2>4. TypeAt(r)'
    BY <1>1, <1>3, <1>5, <1>7, <1>10, <2>1, <2>2, ScoresIn DEF TypeAt, PCs
  <2>5. Shape(r)'
    BY <1>4, <1>5, <1>7, <1>10, <2>1 DEF Shape, Scanning
  <2>6. Exactly(r)'
    BY <1>2, <1>3, <1>6, <1>7, <1>10, <2>1 DEF Exactly, Scanning
  <2>7. Alive(r)' /\ Bounded(r)'
    BY <1>2, <1>3, <1>7, <2>1, ScoresIn DEF Alive, Bounded, NonNegative
  <2>8. Quiet(r)'
    BY <1>2, <1>3, <1>7, <1>10, <2>1, ScoresIn DEF Quiet, AllOf
  <2>9. Checking(r)' /\ Answered(r)'
    BY <1>1, <1>7, <1>10, <2>1 DEF Checking, Answered, ReaderOK
  <2>10. ReaderOK(r)'
    BY <2>5, <2>6, <2>7, <2>8, <2>9 DEF ReaderOK
  <2> QED BY <2>1, <2>3, <2>4, <2>10, ReadKept DEF Right, Ends
<1> QED BY <1>2, <1>8, <1>9, <1>10

(* Search and Facet read the documents of their hits.                      *)
LEMMA ReadDocumentKeeps ==
    ASSUME IInv, NEW r \in Readers, ReadDocument(r)
    PROVE  IInv' /\ Right(r)
<1>1. Domains /\ TypeAt(r) /\ ReaderOK(r) /\ Written(store) /\ TypeOK
  BY TypeIsTypeAt DEF IInv
<1> DEFINE q == asked[r]
<1>2. pc[r] = "document" /\ UNCHANGED <<store, goal, problems, saw>>
  BY DEF ReadDocument
<1>3. PICK id \in left[r] :
         \/ store.doc[id] = Missing /\ Finish(r, "missing", NoScores)
         \/ store.doc[id] # Missing /\ left[r] = {id} /\ Finish(r, "ok", hits[r])
         \/ /\ store.doc[id] # Missing /\ left[r] # {id}
            /\ left' = [left EXCEPT ![r] = @ \ {id}]
            /\ UNCHANGED <<pc, asked, ids, docCount, df, rest, scored, hits, answer, touched>>
  BY DEF ReadDocument
<1>4. id \in IDs /\ left[r] \subseteq IDs /\ q \in Queries /\ rest[r] = << >>
  BY <1>1, <1>2, <1>3 DEF ReaderOK, Shape, Querying
<1>5. problems'[r] = problems[r] /\ goal'[r] = goal[r] /\ saw'[r] = saw[r]
  BY <1>2
<1>6. CASE store.doc[id] = Missing /\ Finish(r, "missing", NoScores)
  <2>1. "shrank" \in saw[r]
    <3> SUFFICES ASSUME "shrank" \notin saw[r] PROVE FALSE
      OBVIOUS
    <3>1. left[r] \subseteq Live(store)
      BY <1>1, <1>2 DEF ReaderOK, Alive, Querying
    <3>2. store.meta[id] = Missing
      BY <1>1, <1>4, <1>6 DEF Written, Sound, Exact, DocumentsPaired
    <3> QED BY <3>1, <3>2, <1>3 DEF Live
  <2>2. OnlyReader(r) /\ TypeAt(r)' /\ ReaderOK(r)'
    BY <2>1, <1>6, <1>1, <1>2, ScoresIn, FinishKeeps DEF NonNegative, ReaderOK
  <2>3. answer'[r] = "missing"
    BY <1>6, <1>1 DEF Finish, Domains
  <2>4. Right(r)
    BY <1>1, <1>5, <2>1, <2>3, RightAnswer
  <2> QED BY <2>2, <2>4, ReadKept
<1>7. CASE Finish(r, "ok", hits[r])
  <2>1. OnlyReader(r) /\ TypeAt(r)' /\ ReaderOK(r)'
    <3>1. hits[r] \in Scores /\ ("grew" \notin saw[r] => NonNegative(hits[r])) /\ Checking(r)
      BY <1>1 DEF TypeAt, ReaderOK, Bounded
    <3> QED BY <3>1, <1>1, <1>2, <1>7, FinishKeeps
  <2>2. answer'[r] = "ok" /\ hits'[r] = hits[r]
    BY <1>7, <1>1 DEF Finish, Domains
  <2>3. \A i \in IDs \ touched[r] : i \in DOMAIN hits[r] <=> Satisfied(store, q, i)
    BY <1>1, <1>2, <1>4, FinalAtEnd DEF ReaderOK, Exactly
  <2>4. saw[r] = {} =>
          AllOf(IF FirstRead(q) = "all" THEN "zero" ELSE "positive", hits[r])
    BY <1>1, <1>2 DEF ReaderOK, Quiet
  <2>5. Right(r)
    BY <1>1, <1>5, <2>2, <2>3, <2>4, RightAnswer
  <2> QED BY <2>1, <2>5, ReadKept
<1>8. CASE /\ left' = [left EXCEPT ![r] = @ \ {id}]
           /\ UNCHANGED <<pc, asked, ids, docCount, df, rest, scored, hits, answer, touched>>
  <2>1. left'[r] = left[r] \ {id} /\ pc'[r] = "document"
    BY <1>8, <1>1, <1>2 DEF Domains
  <2>2. OnlyReader(r)
    BY <1>2, <1>8, <2>1, <1>1 DEF OnlyReader, TypeOK
  <2>3. TypeAt(r)'
    BY <1>1, <1>2, <1>4, <1>8, <2>1 DEF TypeAt
  <2>4. Shape(r)'
    BY <1>1, <1>2, <1>4, <1>8, <2>1 DEF Shape, ReaderOK, Scanning
  <2>5. Exactly(r)'
    BY <1>1, <1>2, <1>8, <2>1 DEF Exactly, ReaderOK
  <2>6. Alive(r)' /\ Bounded(r)'
    BY <1>1, <1>2, <1>8, <2>1 DEF Alive, Bounded, ReaderOK
  <2>7. Quiet(r)'
    BY <1>1, <1>2, <1>8, <2>1 DEF Quiet, ReaderOK
  <2>8. Checking(r)' /\ Answered(r)'
    BY <1>1, <1>2, <1>8, <2>1 DEF Checking, Answered, ReaderOK
  <2>9. ReaderOK(r)'
    BY <2>4, <2>5, <2>6, <2>7, <2>8 DEF ReaderOK
  <2> QED BY <2>1, <2>2, <2>3, <2>9, ReadKept DEF Right, Ends
<1> QED BY <1>3, <1>6, <1>7, <1>8

(* Check reads the IDs.                                                    *)
LEMMA CheckIDsKeeps ==
    ASSUME IInv, NEW r \in Readers, CheckIDs(r)
    PROVE  IInv' /\ ~Ends(r)
<1>1. Domains /\ TypeAt(r) /\ ReaderOK(r) /\ Written(store) /\ TypeOK
  BY TypeIsTypeAt DEF IInv
<1>2. /\ ids' = [ids EXCEPT ![r] = Live(store)] /\ pc' = [pc EXCEPT ![r] = "count"]
      /\ pc[r] = "ids"
      /\ UNCHANGED <<store, goal, asked, docCount, df, left, rest, scored, hits, problems, answer,
                     saw, touched>>
  BY DEF CheckIDs, Goto, query, outcome, history
<1>3. pc'[r] = "count" /\ ids'[r] = Live(store) /\ Live(store) \subseteq IDs
  BY <1>1, <1>2 DEF Domains, Live
<1>4. OnlyReader(r)
  BY <1>2, <1>3, <1>1 DEF OnlyReader, TypeOK
<1>5. TypeAt(r)'
  BY <1>1, <1>2, <1>3 DEF TypeAt, PCs
<1>6. Shape(r)' /\ Exactly(r)' /\ Alive(r)' /\ Bounded(r)' /\ Quiet(r)'
  BY <1>1, <1>2, <1>3
     DEF Shape, Exactly, Alive, Bounded, Quiet, ReaderOK, Querying, Scanning
<1>7. Checking(r)' /\ Answered(r)'
  BY <1>1, <1>2, <1>3 DEF Checking, Answered, ReaderOK
<1>8. ReaderOK(r)'
  BY <1>6, <1>7 DEF ReaderOK
<1> QED BY <1>3, <1>4, <1>5, <1>8, ReadKept DEF Ends

(* It reads the document count, and compares.                              *)
LEMMA CheckStatsKeeps ==
    ASSUME IInv, NEW r \in Readers, CheckStats(r)
    PROVE  IInv' /\ ~Ends(r)
<1>1. Domains /\ TypeAt(r) /\ ReaderOK(r) /\ Written(store) /\ TypeOK
  BY TypeIsTypeAt DEF IInv
<1> DEFINE p == IF Cardinality(ids[r]) # store.global.count THEN problems[r] \cup {"count"}
                ELSE problems[r]
<1>2. /\ problems' = [problems EXCEPT ![r] = p] /\ pc' = [pc EXCEPT ![r] = "scan"]
      /\ pc[r] = "count"
      /\ UNCHANGED <<store, goal, asked, ids, docCount, df, left, rest, scored, hits, answer,
                     saw, touched>>
  BY DEF CheckStats, Goto, query, found, history
<1>3. pc'[r] = "scan" /\ problems'[r] = p
  BY <1>1, <1>2 DEF Domains
<1>4. p \in SUBSET {"count", "dictionary"} /\ ("dictionary" \in p => "dictionary" \in problems[r])
  BY <1>1 DEF TypeAt
<1>5. saw[r] \cap {"grew", "shrank"} = {} => "count" \notin p
  <2> SUFFICES ASSUME saw[r] \cap {"grew", "shrank"} = {} PROVE "count" \notin p
    OBVIOUS
  <2>1. "count" \notin problems[r] /\ ids[r] = Live(store)
    BY <1>1, <1>2 DEF ReaderOK, Checking
  <2>2. store.global.count = Cardinality(Live(store))
    BY <1>1 DEF Written, Sound, Exact, StatsExact
  <2> QED BY <2>1, <2>2
<1> HIDE DEF p
<1>6. OnlyReader(r)
  BY <1>2, <1>3, <1>1 DEF OnlyReader, TypeOK
<1>7. TypeAt(r)'
  BY <1>1, <1>2, <1>3, <1>4 DEF TypeAt, PCs
<1>8. Shape(r)' /\ Exactly(r)' /\ Alive(r)' /\ Bounded(r)' /\ Quiet(r)'
  BY <1>1, <1>2, <1>3
     DEF Shape, Exactly, Alive, Bounded, Quiet, ReaderOK, Querying, Scanning
<1>9. Checking(r)' /\ Answered(r)'
  BY <1>1, <1>2, <1>3, <1>4, <1>5 DEF Checking, Answered, ReaderOK
<1>10. ReaderOK(r)'
  BY <1>8, <1>9 DEF ReaderOK
<1> QED BY <1>3, <1>6, <1>7, <1>10, ReadKept DEF Ends

(* It reads the entries of the dictionary.                                 *)
LEMMA CheckScanKeeps ==
    ASSUME IInv, NEW r \in Readers, CheckScan(r)
    PROVE  IInv' /\ ~Ends(r)
<1>1. Domains /\ TypeAt(r) /\ ReaderOK(r) /\ Written(store) /\ TypeOK
  BY TypeIsTypeAt DEF IInv
<1> DEFINE l == {<<k, store.term[k].df>> : k \in {s \in Slots : store.term[s] # Missing}}
<1>2. /\ left' = [left EXCEPT ![r] = l] /\ pc' = [pc EXCEPT ![r] = "df"] /\ pc[r] = "scan"
      /\ UNCHANGED <<store, goal, asked, ids, docCount, df, rest, scored, hits, problems, answer,
                     saw, touched>>
  BY DEF CheckScan, Goto, query, outcome, history
<1>3. pc'[r] = "df" /\ left'[r] = l
  BY <1>1, <1>2 DEF Domains
<1>4. ASSUME NEW e \in l
      PROVE  e \in Slots \X Nat /\ Cardinality(Holders(store.posting[e[1]])) = e[2]
  <2>1. PICK k \in Slots : store.term[k] # Missing /\ e = <<k, store.term[k].df>>
    BY <1>4
  <2>2. store.term[k] = Entry(store.posting[k]) /\ store.term[k] \in TermInfo \cup {Missing}
    BY <1>1 DEF Written, Sound, Exact, DictionaryExact, Store
  <2>3. store.term[k].df = Cardinality(Holders(store.posting[k]))
    BY <2>1, <2>2 DEF Entry
  <2>4. store.term[k].df \in Nat
    BY <2>1, <2>2 DEF TermInfo
  <2> QED BY <2>1, <2>3, <2>4
<1> HIDE DEF l
<1>5. l \in SUBSET (Slots \X Nat)
  BY <1>4
<1>6. OnlyReader(r)
  BY <1>2, <1>3, <1>1 DEF OnlyReader, TypeOK
<1>7. TypeAt(r)'
  BY <1>1, <1>2, <1>3, <1>5 DEF TypeAt, PCs
<1>8. Shape(r)' /\ Exactly(r)' /\ Alive(r)' /\ Bounded(r)' /\ Quiet(r)'
  BY <1>1, <1>2, <1>3, <1>5
     DEF Shape, Exactly, Alive, Bounded, Quiet, ReaderOK, Querying, Scanning
<1>9. Checking(r)' /\ Answered(r)'
  BY <1>1, <1>2, <1>3, <1>4 DEF Checking, Answered, ReaderOK
<1>10. ReaderOK(r)'
  BY <1>8, <1>9 DEF ReaderOK
<1> QED BY <1>3, <1>6, <1>7, <1>10, ReadKept DEF Ends

(* It counts the postings of each, and compares.                           *)
LEMMA CheckTermKeeps ==
    ASSUME IInv, NEW r \in Readers, CheckTerm(r)
    PROVE  IInv' /\ ~Ends(r)
<1>1. Domains /\ TypeAt(r) /\ ReaderOK(r) /\ Written(store) /\ TypeOK
  BY TypeIsTypeAt DEF IInv
<1>2. PICK e \in left[r] :
         /\ problems' = [problems EXCEPT ![r] =
               IF Cardinality(Holders(store.posting[e[1]])) # e[2] THEN @ \cup {"dictionary"} ELSE @]
         /\ left' = [left EXCEPT ![r] = @ \ {e}]
  BY DEF CheckTerm
<1> DEFINE l == left[r] \ {e}
           p == IF Cardinality(Holders(store.posting[e[1]])) # e[2]
                THEN problems[r] \cup {"dictionary"} ELSE problems[r]
<1>3. /\ left' = [left EXCEPT ![r] = l] /\ problems' = [problems EXCEPT ![r] = p] /\ pc[r] = "df"
      /\ UNCHANGED <<store, pc, goal, asked, ids, docCount, df, rest, scored, hits, answer,
                     saw, touched>>
  BY <1>2 DEF CheckTerm, query, history
<1>4. left'[r] = l /\ problems'[r] = p
  BY <1>1, <1>3 DEF Domains
<1>5. p \in SUBSET {"count", "dictionary"} /\ ("count" \in p => "count" \in problems[r])
  BY <1>1 DEF TypeAt
<1>6. l \subseteq left[r] /\ left[r] \subseteq Slots \X Nat
  BY <1>1, <1>3 DEF ReaderOK, Shape
<1>7. "foreign" \notin saw[r] =>
        "dictionary" \notin p /\ \A x \in l : Cardinality(Holders(store.posting[x[1]])) = x[2]
  BY <1>1, <1>2, <1>3 DEF ReaderOK, Checking
<1> HIDE DEF l, p
<1>8. OnlyReader(r)
  BY <1>3, <1>4, <1>1 DEF OnlyReader, TypeOK
<1>9. TypeAt(r)'
  <2>1. l \in SUBSET (Slots \X Nat)
    BY <1>6
  <2> QED BY <2>1, <1>1, <1>3, <1>4, <1>5 DEF TypeAt
<1>10. Shape(r)' /\ Exactly(r)' /\ Alive(r)' /\ Bounded(r)' /\ Quiet(r)'
  BY <1>1, <1>3, <1>4, <1>6
     DEF Shape, Exactly, Alive, Bounded, Quiet, ReaderOK, Querying, Scanning
<1>11. Checking(r)' /\ Answered(r)'
  BY <1>1, <1>3, <1>4, <1>5, <1>7 DEF Checking, Answered, ReaderOK
<1>12. ReaderOK(r)'
  BY <1>10, <1>11 DEF ReaderOK
<1> QED BY <1>3, <1>8, <1>9, <1>12, ReadKept DEF Ends

(* It reports what it found.                                               *)
LEMMA CheckDoneKeeps ==
    ASSUME IInv, NEW r \in Readers, CheckDone(r)
    PROVE  IInv' /\ Right(r)
<1>1. Domains /\ TypeAt(r) /\ ReaderOK(r) /\ Written(store) /\ TypeOK
  BY TypeIsTypeAt DEF IInv
<1>2. pc[r] = "df" /\ Finish(r, "ok", NoScores) /\ UNCHANGED <<store, goal, problems, saw>>
  BY DEF CheckDone
<1>3. OnlyReader(r) /\ TypeAt(r)' /\ ReaderOK(r)'
  BY <1>1, <1>2, ScoresIn, FinishKeeps DEF NonNegative, ReaderOK
<1>4. answer'[r] = "ok" /\ hits'[r] = NoScores /\ problems'[r] = problems[r]
  BY <1>1, <1>2 DEF Finish, Domains
<1>5. goal[r] = "check"
  BY <1>1, <1>2 DEF ReaderOK, Shape
<1>6. AllOf(IF FirstRead(asked[r]) = "all" THEN "zero" ELSE "positive", NoScores)
  BY ScoresIn DEF AllOf
<1>7. Right(r)
  BY <1>1, <1>4, <1>5, <1>6, RightAnswer
<1> QED BY <1>3, <1>7, ReadKept

-----------------------------------------------------------------------------
(* The theorems.                                                           *)

(* An empty store that no reader has read is in order.                     *)
LEMMA InitInv == Init => IInv
<1> SUFFICES ASSUME Init PROVE IInv
  OBVIOUS
<1>1. store = ClearedForRebuild
  BY ClearedSound DEF Init
<1>2. Sound(store) /\ Live(store) = {}
  <2>1. Sound(store)
    BY <1>1, ClearedSound
  <2>2. \A id \in IDs : store.meta[id] = Missing
    BY <1>1 DEF ClearedForRebuild, EmptyStore
  <2> QED BY <2>1, <2>2 DEF Live
<1>3. Written(store)
  BY <1>2 DEF Written
<1>4. TypeOK
  <2>1. NoQuery \in Query
    BY DEF NoQuery, Query
  <2>2. << >> \in Seq(Roles \X Slots)
    OBVIOUS
  <2>3. store \in Store
    BY <1>2 DEF Sound
  <2> HIDE DEF NoQuery, NoScores
  <2> QED BY <2>1, <2>2, <2>3, ScoresIn DEF Init, TypeOK, PCs
<1>5. ASSUME NEW r \in Readers
      PROVE  ReaderOK(r)
  <2>1. /\ pc[r] = "idle" /\ scored[r] = NoScores /\ hits[r] = NoScores /\ problems[r] = {}
        /\ answer[r] = "none"
    BY DEF Init
  <2>2. Shape(r) /\ Exactly(r) /\ Alive(r) /\ Quiet(r)
    BY <2>1 DEF Shape, Exactly, Alive, Quiet, Querying, Scanning
  <2>3. Bounded(r)
    BY <2>1, ScoresIn DEF Bounded, NonNegative
  <2>4. Checking(r) /\ Answered(r)
    BY <2>1 DEF Checking, Answered
  <2> QED BY <2>2, <2>3, <2>4 DEF ReaderOK
<1> QED BY <1>3, <1>4, <1>5 DEF IInv

(* A read of another reader ends nothing for this one.                     *)
LEMMA OthersRight ==
    ASSUME IInv, NEW r \in Readers, NEW o \in Readers \ {r}, pc'[o] = pc[o]
    PROVE  Right(o)
BY DEF Right, Ends

(* A prefix query that finds no term is answered right.                    *)
LEMMA ReadTermsRight ==
    ASSUME IInv, NEW r \in Readers, ReadTerms(r)
    PROVE  Right(r)
<1> SUFFICES ASSUME Ends(r) PROVE Right(r)
  BY DEF Right
<1>1. ReaderOK(r) /\ Written(store) /\ TypeOK
  BY DEF IInv
<1>2. answer'[r] = "ok" /\ hits'[r] = NoScores /\ WithPrefix(asked[r]) = {}
  BY ReadTermsKeeps
<1>3. asked[r] \in Queries /\ asked[r].prefix # {} /\ problems'[r] = problems[r]
  BY <1>1 DEF ReadTerms, ReaderOK, Shape, Querying
<1>4. \A id \in IDs : ~Satisfied(store, asked[r], id)
  BY <1>1, <1>2, <1>3, FinalAtTerms
<1>5. AllOf(IF FirstRead(asked[r]) = "all" THEN "zero" ELSE "positive", NoScores)
  BY ScoresIn DEF AllOf
<1> QED BY <1>1, <1>2, <1>3, <1>4, <1>5, ScoresIn, RightAnswer

(* A read of a length ends no operation but by its failure, which a delete *)
(* explains.                                                               *)
LEMMA ScorePostingRight ==
    ASSUME IInv, NEW r \in Readers, ScorePosting(r)
    PROVE  Right(r)
<1> SUFFICES ASSUME Ends(r) PROVE Right(r)
  BY DEF Right
<1>1. ReaderOK(r) /\ TypeOK /\ problems'[r] = problems[r]
  BY DEF IInv, ScorePosting
<1>2. answer'[r] = "missing" /\ "shrank" \in saw[r]
  BY ScorePostingKeeps
<1> QED BY <1>1, <1>2, RightAnswer

(* Only the reader that reads moves on.                                    *)
LEMMA ReadMovesOne ==
    ASSUME TypeOK, NEW r \in Readers, NEW o \in Readers \ {r},
           \/ Read(r) \/ BeginCheck(r)
           \/ \E g \in {"search", "facet"}, q \in Queries : BeginQuery(r, g, q)
    PROVE  pc'[o] = pc[o]
<1>1. DOMAIN pc = Readers
  BY DEF TypeOK
<1>2. (\E n : Goto(r, n)) \/ pc' = pc
  BY DEF Read, BeginCheck, BeginQuery, ReadTerms, ReadAllDocumentIDs, ReadPostings,
         ReadSearchStats, ReadTermInfo, ScorePosting, ClauseDone, ReadDocument, CheckIDs,
         CheckStats, CheckScan, CheckTerm, CheckDone, Finish
<1> QED BY <1>1, <1>2 DEF Goto

(* Every step keeps the invariant, and an operation that ends with it is   *)
(* answered right.                                                         *)
LEMMA StepKeeps ==
    ASSUME IInv, [Next]_vars
    PROVE  IInv' /\ \A r \in Readers : Right(r)
<1>1. TypeOK /\ Written(store)
  BY DEF IInv
<1>2. CASE \E h \in Handles : Write(h)
  <2>1. PICK h \in Handles : Write(h)
    BY <1>2
  <2>2. PICK written \in SUBSET IDs, events \in SUBSET {"grew", "shrank"} :
           Committed(h, written, events) /\ Leaves(store', written, events)
    BY <1>1, <2>1, WriteLeaves
  <2>3. IInv'
    BY <2>2, CommitKept
  <2>4. pc' = pc
    BY <2>2 DEF Committed
  <2> QED BY <2>3, <2>4 DEF Right, Ends
<1>3. ASSUME NEW r \in Readers, NEW g \in {"search", "facet"}, NEW q \in Queries,
             BeginQuery(r, g, q)
      PROVE  IInv' /\ \A o \in Readers : Right(o)
  <2>1. IInv'
    BY <1>3, BeginQueryKeeps
  <2>2. pc[r] = "idle"
    BY <1>3 DEF BeginQuery, Begin
  <2>3. \A o \in Readers \ {r} : pc'[o] = pc[o]
    BY <1>1, <1>3, ReadMovesOne
  <2> QED BY <2>1, <2>2, <2>3 DEF Right, Ends
<1>4. ASSUME NEW r \in Readers, BeginCheck(r)
      PROVE  IInv' /\ \A o \in Readers : Right(o)
  <2>1. IInv'
    BY <1>4, BeginCheckKeeps
  <2>2. pc[r] = "idle"
    BY <1>4 DEF BeginCheck, Begin
  <2>3. \A o \in Readers \ {r} : pc'[o] = pc[o]
    BY <1>1, <1>4, ReadMovesOne
  <2> QED BY <2>1, <2>2, <2>3 DEF Right, Ends
<1>5. ASSUME NEW r \in Readers, Read(r)
      PROVE  IInv' /\ \A o \in Readers : Right(o)
  <2>1. IInv' /\ Right(r)
    <3>1. CASE ReadTerms(r)
      BY <3>1, ReadTermsKeeps, ReadTermsRight
    <3>2. CASE ReadAllDocumentIDs(r)
      BY <3>2, ReadAllDocumentIDsKeeps DEF Right
    <3>3. CASE ReadPostings(r)
      BY <3>3, ReadPostingsKeeps DEF Right
    <3>4. CASE ReadSearchStats(r)
      BY <3>4, ReadSearchStatsKeeps DEF Right
    <3>5. CASE ReadTermInfo(r)
      BY <3>5, ReadTermInfoKeeps DEF Right
    <3>6. CASE ScorePosting(r)
      BY <3>6, ScorePostingKeeps, ScorePostingRight
    <3>7. CASE ClauseDone(r)
      BY <3>7, ClauseDoneKeeps
    <3>8. CASE ReadDocument(r)
      BY <3>8, ReadDocumentKeeps
    <3>9. CASE CheckIDs(r)
      BY <3>9, CheckIDsKeeps DEF Right
    <3>10. CASE CheckStats(r)
      BY <3>10, CheckStatsKeeps DEF Right
    <3>11. CASE CheckScan(r)
      BY <3>11, CheckScanKeeps DEF Right
    <3>12. CASE CheckTerm(r)
      BY <3>12, CheckTermKeeps DEF Right
    <3>13. CASE CheckDone(r)
      BY <3>13, CheckDoneKeeps
    <3> QED BY <1>5, <3>1, <3>2, <3>3, <3>4, <3>5, <3>6, <3>7, <3>8, <3>9, <3>10, <3>11, <3>12,
               <3>13 DEF Read
  <2>2. \A o \in Readers \ {r} : pc'[o] = pc[o]
    BY <1>1, <1>5, ReadMovesOne
  <2> QED BY <2>1, <2>2 DEF Right, Ends
<1>6. CASE UNCHANGED vars
  <2>1. /\ store' = store /\ pc' = pc /\ goal' = goal /\ asked' = asked /\ ids' = ids
        /\ docCount' = docCount /\ df' = df /\ left' = left /\ rest' = rest /\ scored' = scored
        /\ hits' = hits /\ problems' = problems /\ answer' = answer /\ saw' = saw
        /\ touched' = touched
    BY <1>6 DEF vars, query, found, outcome, history
  <2>2. TypeOK' /\ Written(store)'
    BY <1>1, <2>1 DEF TypeOK
  <2>3. ASSUME NEW r \in Readers
        PROVE  ReaderOK(r)'
    <3>1. ReaderOK(r) /\ SlotOf(r)' = SlotOf(r)
      BY <2>1 DEF IInv, SlotOf
    <3> QED BY <2>1, <3>1 DEF ReaderOK, Shape, Exactly, Alive, Bounded, Quiet, Checking, Answered
  <2> QED BY <2>1, <2>2, <2>3 DEF IInv, Right, Ends
<1> QED BY <1>2, <1>3, <1>4, <1>5, <1>6 DEF Next, Write

(* The contents are exact, and every reader is where its operation may be  *)
(* with what it may have read, in every state (Index.Add, AddBatch, Delete,*)
(* Rebuild beside Search, Facet and Check).                                *)
THEOREM Invariant == Spec => []IInv
<1>1. ASSUME IInv, [Next]_vars
      PROVE  IInv'
  BY <1>1, StepKeeps
<1> QED BY <1>1, InitInv, PTL DEF Spec

(* TypeOK of every state.                                                  *)
THEOREM TypeCorrect == Spec => []TypeOK
<1>1. IInv => TypeOK
  BY DEF IInv
<1> QED BY <1>1, Invariant, PTL

(* A search or facet count reports a missing document only if a document   *)
(* was deleted under it (index/concurrency_test.go).                       *)
THEOREM MissingMeansDeleted == Spec => []FailsOnlyOnDelete
<1>1. IInv => FailsOnlyOnDelete
  BY DEF IInv, ReaderOK, Answered, FailsOnlyOnDelete
<1> QED BY <1>1, Invariant, PTL

(* A score is negative only if a document came in between the reads        *)
(* (BM25.Score over ReadSearchStats and TermInfo).                         *)
THEOREM NegativeMeansGrown == Spec => []NegativeOnlyIfGrown
<1>1. IInv => NegativeOnlyIfGrown
  BY DEF IInv, ReaderOK, Bounded, NonNegative, NegativeOnlyIfGrown
<1> QED BY <1>1, Invariant, PTL

(* Check reports a problem of the dictionary that is none only if another  *)
(* handle wrote under it (check.go, the read lock of mu).                  *)
THEOREM DictionaryReportReal == Spec => []DictionaryProblemsReal
<1>1. IInv => DictionaryProblemsReal
  BY DEF IInv, ReaderOK, Checking, DictionaryProblemsReal
<1> QED BY <1>1, Invariant, PTL

(* Check reports a count problem only if a document came or went under it. *)
THEOREM CountReportReal == Spec => []CountProblemsReal
<1>1. IInv => CountProblemsReal
  BY DEF IInv, ReaderOK, Checking, CountProblemsReal
<1> QED BY <1>1, Invariant, PTL

(* What a query answers of a document that is not written meanwhile is     *)
(* what the index has of it, and an operation that no commit disturbs      *)
(* answers as if it were alone (BooleanQuery.Execute, PrefixQuery.Execute, *)
(* Facet and Check over the Searcher interface).                           *)
THEOREM QuietReads == Spec => QuietReadsExact
<1>1. ASSUME IInv, [Next]_vars
      PROVE  [\A r \in Readers : Ends(r) => UntouchedExact(r) /\ QuietExact(r)]_vars
  BY <1>1, StepKeeps DEF Right
<1> QED BY <1>1, Invariant, PTL DEF Spec, QuietReadsExact

================================================================================
