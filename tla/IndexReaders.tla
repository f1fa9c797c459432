------------------------------ MODULE IndexReaders -----------------------------
(***************************************************************************)
(* Searches, facet counts and consistency checks against an index that     *)
(* changes under them.                                                     *)
(*                                                                         *)
(* Each method of the Searcher interface takes the handle's read lock for  *)
(* itself and sees one committed version; a query is a sequence of such    *)
(* reads, some for each of its clauses, so its reads may be of different   *)
(* versions.  Check reads IDs and statistics that way too, and keeps the   *)
(* read lock only for its scan of the dictionary.  Writes are the          *)
(* committed transactions of IndexWriter, one step each, which is what     *)
(* IndexCorrectness shows them to be.                                      *)
(*                                                                         *)
(* A clause is one term; a query of a single term is a boolean query with  *)
(* one required clause.  Of a score the sign of its least part is kept.    *)
(***************************************************************************)
EXTENDS StoredIndex, SequencesExt

CONSTANTS
    Queries,    \* the queries that are asked
    Readers,    \* goroutines that read
    Handles,    \* Index values opened on the store
    ReaderOf,   \* the handle each reader uses
    AnalyzerOf  \* the analyzer configuration of each handle

ASSUME ReadersAssigned == ReaderOf \in [Readers -> Handles] /\ AnalyzerOf \in [Handles -> Analyzers]

(* The clauses of a boolean query, or the terms that have the prefix of a  *)
(* prefix query.                                                           *)
Query == [must : Seq(Slots), should : Seq(Slots), mustNot : Seq(Slots), prefix : SUBSET Slots]

NoQuery == [must |-> << >>, should |-> << >>, mustNot |-> << >>, prefix |-> {}]

(* A query asks for something; a prefix query has no other clauses and is  *)
(* of one field.                                                           *)
ASSUME QueriesAsk ==
    /\ Queries \subseteq Query \ {NoQuery}
    /\ \A q \in Queries : q.prefix # {} => [q EXCEPT !.prefix = {}] = NoQuery
    /\ \A q \in Queries : \A k, l \in q.prefix : k[1] = l[1]

VARIABLES
    store,     \* the committed contents
    pc,        \* the next read of each reader
    goal,      \* what it is computing: "search", "facet" or "check"
    asked,     \* the query it answers
    rest,      \* the <<role, slot>> of the clauses it has still to execute
    ids,       \* the document IDs of its posting or docmeta scan
    docCount,  \* the document count it read
    df,        \* the document frequency it read
    left,      \* what its loop has still to visit: IDs, or <<slot, df>> pairs
    scored,    \* the signs of the scores of the present clause, by document
    hits,      \* those of the clauses before it, combined
    problems,  \* what Check has reported
    answer,    \* how its last operation ended
    saw,       \* what the writes committed since it began have done
    touched    \* the documents that they wrote

query   == <<goal, asked>>
found   == <<ids, docCount, df, left, rest, scored>>
outcome == <<hits, problems, answer>>
history == <<saw, touched>>
vars == <<store, pc, query, found, outcome, history>>

PCs   == {"idle", "terms", "all", "postings", "stats", "term", "score", "document",
          "ids", "count", "scan", "df"}
Signs == {"negative", "zero", "positive"}
Roles == {"must", "should", "mustNot"}

Scores   == UNION {[S -> Signs] : S \in SUBSET IDs}
NoScores == [id \in {} |-> "zero"]

(* A commit at all, one that added an ID, one that removed one, and one    *)
(* made through another handle than the reader's.                          *)
Events == {"write", "grew", "shrank", "foreign"}

TypeOK ==
    /\ store \in Store
    /\ pc \in [Readers -> PCs]
    /\ goal \in [Readers -> {"search", "facet", "check"}]
    /\ asked \in [Readers -> Query]
    /\ rest \in [Readers -> Seq(Roles \X Slots)]
    /\ ids \in [Readers -> SUBSET IDs]
    /\ docCount \in [Readers -> Nat]
    /\ df \in [Readers -> Nat]
    /\ left \in [Readers -> (SUBSET IDs) \cup (SUBSET (Slots \X Nat))]
    /\ scored \in [Readers -> Scores]
    /\ hits \in [Readers -> Scores]
    /\ problems \in [Readers -> SUBSET {"count", "dictionary"}]
    /\ answer \in [Readers -> {"none", "ok", "missing"}]
    /\ saw \in [Readers -> SUBSET Events]
    /\ touched \in [Readers -> SUBSET IDs]

Init ==
    /\ store = Initialized(EmptyStore)
    /\ pc = [r \in Readers |-> "idle"]
    /\ goal = [r \in Readers |-> "search"]
    /\ asked = [r \in Readers |-> NoQuery]
    /\ rest = [r \in Readers |-> << >>]
    /\ ids = [r \in Readers |-> {}]
    /\ docCount = [r \in Readers |-> 0]
    /\ df = [r \in Readers |-> 0]
    /\ left = [r \in Readers |-> {}]
    /\ scored = [r \in Readers |-> NoScores]
    /\ hits = [r \in Readers |-> NoScores]
    /\ problems = [r \in Readers |-> {}]
    /\ answer = [r \in Readers |-> "none"]
    /\ saw = [r \in Readers |-> {}]
    /\ touched = [r \in Readers |-> {}]

-----------------------------------------------------------------------------
(* Fault: Check holds no lock while it scans. *)
UnlockedAlways(h) == TRUE

(* A write through handle h waits for the readers that hold its read lock. *)
Unlocked(h) == \A r \in Readers : ReaderOf[r] = h => pc[r] # "df"

(* A commit through handle h that writes other versions of some documents. *)
Committed(h, written, events) ==
    /\ Unlocked(h)
    /\ saw' = [r \in Readers |->
                 IF pc[r] = "idle" THEN saw[r]
                 ELSE saw[r] \cup {"write"} \cup events
                        \cup (IF h = ReaderOf[r] THEN {} ELSE {"foreign"})]
    /\ touched' = [r \in Readers |->
                     IF pc[r] = "idle" THEN touched[r] ELSE touched[r] \cup written]
    /\ UNCHANGED <<pc, query, found, outcome>>

Add(h, id, d) ==
    /\ \E f \in Fields : d[f] # Missing
    /\ store' = AddInTransaction(store, AnalyzerOf[h], id, d)
    /\ Committed(h, {id}, IF store.meta[id] = Missing THEN {"grew"} ELSE {})

Delete(h, id) ==
    /\ store.meta[id] # Missing
    /\ store' = DeleteInTransaction(store, id)
    /\ Committed(h, {id}, {"shrank"})

(* What Rebuild changes: documents that another analyzer has indexed.      *)
Reanalyzed(a) == {id \in Live(store) : store.meta[id] # MetaOf(a, store.doc[id])}

(* The documents are replayed one after the other; their IDs are distinct. *)
Replayed(w, a, todo) ==
    FoldSet(LAMBDA id, v : AddInTransaction(v, a, id, store.doc[id]), w, todo)

(* Fault: the old data is deleted in a transaction of its own.             *)
RebuildInTwo(h) ==
    /\ store' = ClearedForRebuild
    /\ Committed(h, Reanalyzed(AnalyzerOf[h]), {})

Rebuild(h) ==
    /\ store' = Replayed(ClearedForRebuild, AnalyzerOf[h], {id \in IDs : store.doc[id] # Missing})
    /\ Committed(h, Reanalyzed(AnalyzerOf[h]), {})

-----------------------------------------------------------------------------
Goto(r, next) == pc' = [pc EXCEPT ![r] = next]

(* Back to idle: what the operation read is forgotten, its outcome stays.  *)
Finish(r, a, answerHits) ==
    /\ Goto(r, "idle")
    /\ answer' = [answer EXCEPT ![r] = a]
    /\ hits' = [hits EXCEPT ![r] = answerHits]
    /\ asked' = [asked EXCEPT ![r] = NoQuery]
    /\ rest' = [rest EXCEPT ![r] = << >>]
    /\ ids' = [ids EXCEPT ![r] = {}]
    /\ left' = [left EXCEPT ![r] = {}]
    /\ scored' = [scored EXCEPT ![r] = NoScores]
    /\ docCount' = [docCount EXCEPT ![r] = 0]
    /\ df' = [df EXCEPT ![r] = 0]
    /\ touched' = [touched EXCEPT ![r] = {}]

As(role, slots) == [n \in 1 .. Len(slots) |-> <<role, slots[n]>>]

Clauses(q) == As("must", q.must) \o As("should", q.should) \o As("mustNot", q.mustNot)

(* A purely negative query begins with all documents, a prefix query with  *)
(* the dictionary.                                                         *)
FirstRead(q) ==
    IF q.prefix # {} THEN "terms"
    ELSE IF q.must \o q.should = << >> THEN "all"
    ELSE "postings"

Begin(r, g) ==
    /\ pc[r] = "idle"
    /\ goal' = [goal EXCEPT ![r] = g]
    /\ hits' = [hits EXCEPT ![r] = NoScores]
    /\ problems' = [problems EXCEPT ![r] = {}]
    /\ answer' = [answer EXCEPT ![r] = "none"]
    /\ saw' = [saw EXCEPT ![r] = {}]
    /\ UNCHANGED <<store, ids, docCount, df, left, scored, touched>>

BeginQuery(r, g, q) ==
    /\ Begin(r, g)
    /\ Goto(r, FirstRead(q))
    /\ asked' = [asked EXCEPT ![r] = q]
    /\ rest' = [rest EXCEPT ![r] = Clauses(q)]

BeginCheck(r) ==
    /\ Begin(r, "check")
    /\ Goto(r, "ids")
    /\ UNCHANGED <<asked, rest>>

(* Index.Terms: the terms with the prefix, in order; each is executed like *)
(* an optional clause.                                                     *)
ReadTerms(r) ==
    /\ pc[r] = "terms"
    /\ LET terms == {k \in asked[r].prefix : store.term[k] # Missing} IN
         \/ /\ terms # {}
            /\ rest' = [rest EXCEPT ![r] = As("should", SetToSeq(terms))]
            /\ Goto(r, "postings")
            /\ UNCHANGED <<asked, ids, docCount, df, left, scored, hits, answer, touched>>
         \/ terms = {} /\ Finish(r, "ok", NoScores)
    /\ UNCHANGED <<store, goal, problems, saw>>

ReadAllDocumentIDs(r) ==
    /\ pc[r] = "all"
    /\ hits' = [hits EXCEPT ![r] = [id \in Live(store) |-> "zero"]]
    /\ Goto(r, "postings")
    /\ UNCHANGED <<store, query, found, problems, answer, history>>

(* The slot of the clause that is being executed. *)
SlotOf(r) == Head(rest[r])[2]

ReadPostings(r) ==
    /\ pc[r] = "postings"
    /\ ids' = [ids EXCEPT ![r] = Holders(store.posting[SlotOf(r)])]
    /\ Goto(r, "stats")
    /\ UNCHANGED <<store, query, docCount, df, left, rest, scored, outcome, history>>

ReadSearchStats(r) ==
    /\ pc[r] = "stats"
    /\ docCount' = [docCount EXCEPT ![r] = store.global.count]
    /\ Goto(r, "term")
    /\ UNCHANGED <<store, query, ids, df, left, rest, scored, outcome, history>>

(* A term that is not in the dictionary has the zero TermInfo, no error.   *)
ReadTermInfo(r) ==
    /\ pc[r] = "term"
    /\ df' = [df EXCEPT ![r] =
                 IF store.term[SlotOf(r)] = Missing THEN 0 ELSE store.term[SlotOf(r)].df]
    /\ left' = [left EXCEPT ![r] = ids[r]]
    /\ ids' = [ids EXCEPT ![r] = {}]
    /\ Goto(r, "score")
    /\ UNCHANGED <<store, query, docCount, rest, scored, outcome, history>>

(* Fault: the logarithm is of a number below 1 when all documents match. *)
ScoreSignOffByOne(freq, f, n) ==
    IF freq = 0 \/ f = 0 \/ n = 0 THEN "zero" ELSE IF f >= n THEN "negative" ELSE "positive"

(* The sign of BM25.Score: the logarithm is of a number below 1 exactly    *)
(* when documentCount - df + 0.5 is negative; all its other factors are    *)
(* positive for a posting, whose frequency is at least 1.                  *)
ScoreSign(freq, f, n) ==
    IF freq = 0 \/ f = 0 \/ n = 0 THEN "zero" ELSE IF f > n THEN "negative" ELSE "positive"

ScorePosting(r) ==
    /\ pc[r] = "score"
    /\ \E id \in left[r] :
         \/ store.meta[id] = Missing /\ Finish(r, "missing", NoScores)
         \/ /\ store.meta[id] # Missing
            /\ scored' = [scored EXCEPT ![r] =
                 [d \in DOMAIN @ \cup {id} |->
                    IF d = id THEN ScoreSign(1, df[r], docCount[r]) ELSE @[d]]]
            /\ left' = [left EXCEPT ![r] = @ \ {id}]
            /\ UNCHANGED <<pc, asked, ids, docCount, df, rest, hits, answer, touched>>
    /\ UNCHANGED <<store, goal, problems, saw>>

(* The sum of two maps of scores. *)
LeastSign(S) == IF "negative" \in S THEN "negative" ELSE IF "zero" \in S THEN "zero" ELSE "positive"

Summed(a, b) ==
    [id \in DOMAIN a \cup DOMAIN b |->
       LeastSign({m[id] : m \in {n \in {a, b} : id \in DOMAIN n}})]

(* Fault: candidates that are all gone pass for candidates not yet there.  *)
CombinedRestarts(q, role, first, a, b) ==
    CASE role = "must" /\ DOMAIN a = {}     -> b
      [] role = "must" /\ DOMAIN a # {}     -> Restrict(Summed(a, b), DOMAIN a \cap DOMAIN b)
      [] role = "should" /\ q.must = << >>  -> Summed(a, b)
      [] role = "should" /\ q.must # << >>  -> Restrict(Summed(a, b), DOMAIN a)
      [] role = "mustNot"                   -> Restrict(a, DOMAIN a \ DOMAIN b)

(* BooleanQuery and PrefixQuery: what a clause that scored b makes of the  *)
(* candidates a.                                                           *)
Combined(q, role, first, a, b) ==
    CASE role = "must" /\ first             -> b
      [] role = "must" /\ ~first            -> Restrict(Summed(a, b), DOMAIN a \cap DOMAIN b)
      [] role = "should" /\ q.must = << >>  -> Summed(a, b)
      [] role = "should" /\ q.must # << >>  -> Restrict(Summed(a, b), DOMAIN a)
      [] role = "mustNot"                   -> Restrict(a, DOMAIN a \ DOMAIN b)

(* The end of a clause: the next one, or the answer.  Facet goes on to     *)
(* read the original document of each hit.                                 *)
ClauseDone(r) ==
    LET total == Combined(asked[r], Head(rest[r])[1], rest[r] = Clauses(asked[r]),
                          hits[r], scored[r])
    IN  /\ pc[r] = "score" /\ left[r] = {}
        /\ \/ /\ Len(rest[r]) > 1
              /\ Goto(r, "postings")
              /\ rest' = [rest EXCEPT ![r] = Tail(@)]
              /\ UNCHANGED <<left, asked, answer, touched>>
           \/ /\ Len(rest[r]) = 1 /\ goal[r] = "facet" /\ total # NoScores
              /\ Goto(r, "document")
              /\ rest' = [rest EXCEPT ![r] = << >>]
              /\ left' = [left EXCEPT ![r] = DOMAIN total]
              /\ UNCHANGED <<asked, answer, touched>>
           \/ /\ Len(rest[r]) = 1 /\ (goal[r] = "search" \/ total = NoScores)
              /\ Finish(r, "ok", total)
        /\ hits' = [hits EXCEPT ![r] = total]
        /\ scored' = [scored EXCEPT ![r] = NoScores]
        /\ docCount' = [docCount EXCEPT ![r] = 0]
        /\ df' = [df EXCEPT ![r] = 0]
        /\ UNCHANGED <<store, goal, ids, problems, saw>>

ReadDocument(r) ==
    /\ pc[r] = "document"
    /\ \E id \in left[r] :
         \/ store.doc[id] = Missing /\ Finish(r, "missing", NoScores)
         \/ store.doc[id] # Missing /\ left[r] = {id} /\ Finish(r, "ok", hits[r])
         \/ /\ store.doc[id] # Missing /\ left[r] # {id}
            /\ left' = [left EXCEPT ![r] = @ \ {id}]
            /\ UNCHANGED <<pc, asked, ids, docCount, df, rest, scored, hits, answer, touched>>
    /\ UNCHANGED <<store, goal, problems, saw>>

-----------------------------------------------------------------------------
(* Check: AllDocumentIDs and Stats are reads of their own. *)

CheckIDs(r) ==
    /\ pc[r] = "ids"
    /\ ids' = [ids EXCEPT ![r] = Live(store)]
    /\ Goto(r, "count")
    /\ UNCHANGED <<store, query, docCount, df, left, rest, scored, outcome, history>>

CheckStats(r) ==
    /\ pc[r] = "count"
    /\ problems' = [problems EXCEPT ![r] =
                      IF Cardinality(ids[r]) # store.global.count THEN @ \cup {"count"} ELSE @]
    /\ Goto(r, "scan")
    /\ UNCHANGED <<store, query, found, hits, answer, history>>

(* The read lock is taken and the dictionary copied (Scan is a snapshot).  *)
CheckScan(r) ==
    /\ pc[r] = "scan"
    /\ left' = [left EXCEPT ![r] =
                  {<<k, store.term[k].df>> : k \in {s \in Slots : store.term[s] # Missing}}]
    /\ Goto(r, "df")
    /\ UNCHANGED <<store, query, ids, docCount, df, rest, scored, outcome, history>>

CheckTerm(r) ==
    /\ pc[r] = "df"
    /\ \E e \in left[r] :
         /\ problems' = [problems EXCEPT ![r] =
               IF Cardinality(Holders(store.posting[e[1]])) # e[2] THEN @ \cup {"dictionary"} ELSE @]
         /\ left' = [left EXCEPT ![r] = @ \ {e}]
    /\ UNCHANGED <<store, pc, query, ids, docCount, df, rest, scored, hits, answer, history>>

CheckDone(r) ==
    /\ pc[r] = "df" /\ left[r] = {}
    /\ Finish(r, "ok", NoScores)
    /\ UNCHANGED <<store, goal, problems, saw>>

-----------------------------------------------------------------------------
Read(r) ==
    \/ ReadTerms(r) \/ ReadAllDocumentIDs(r)
    \/ ReadPostings(r) \/ ReadSearchStats(r) \/ ReadTermInfo(r) \/ ScorePosting(r)
    \/ ClauseDone(r) \/ ReadDocument(r)
    \/ CheckIDs(r) \/ CheckStats(r) \/ CheckScan(r) \/ CheckTerm(r) \/ CheckDone(r)

Next ==
    \/ \E h \in Handles : \/ \E id \in IDs : \/ \E d \in Document : Add(h, id, d)
                                             \/ Delete(h, id)
                          \/ Rebuild(h)
    \/ \E r \in Readers : \/ \E g \in {"search", "facet"}, q \in Queries : BeginQuery(r, g, q)
                          \/ BeginCheck(r)
                          \/ Read(r)

Spec == Init /\ [][Next]_vars

-----------------------------------------------------------------------------
Ends(r) == pc[r] # "idle" /\ pc'[r] = "idle"

(* Whether the contents s have the document answer the query. *)
Satisfied(s, q, id) ==
    LET has(slots) == {k \in slots : s.posting[k][id] # {}}
        optional   == ToSet(q.should) \cup q.prefix
    IN  /\ s.meta[id] # Missing
        /\ has(ToSet(q.must)) = ToSet(q.must)
        /\ has(ToSet(q.mustNot)) = {}
        /\ q.must = << >> /\ optional # {} => has(optional) # {}

(* A query that is answered answers for every document exactly as the index *)
(* has it, whatever was committed between its reads, unless that document   *)
(* itself was written meanwhile: other documents, and a Rebuild that leaves *)
(* a document's terms alone, can neither lose it nor make it a hit          *)
(* (BooleanQuery.Execute and PrefixQuery.Execute over Index.Rebuild).       *)
UntouchedExact(r) ==
    goal[r] # "check" /\ answer'[r] = "ok" =>
      \A id \in IDs \ touched[r] :
        id \in DOMAIN hits'[r] <=> Satisfied(store, asked[r], id)

(* An operation during which nothing is committed succeeds, with no problem *)
(* for Check and a positive part of the score for every clause that scores. *)
QuietExact(r) ==
    saw[r] = {} =>
      /\ answer'[r] = "ok"
      /\ problems'[r] = {}
      /\ \A id \in DOMAIN hits'[r] :
           hits'[r][id] = IF FirstRead(asked[r]) = "all" THEN "zero" ELSE "positive"

(* What an operation answers is right as far as commits left it alone:      *)
(* UntouchedExact and QuietExact of each one that ends.                     *)
QuietReadsExact ==
    [][\A r \in Readers : Ends(r) => UntouchedExact(r) /\ QuietExact(r)]_vars

(* A search or facet count reports a missing document only if a document   *)
(* was deleted under it: additions, replacements and a Rebuild, even by    *)
(* another handle, never make one fail (index/concurrency_test.go).        *)
FailsOnlyOnDelete == \A r \in Readers : answer[r] = "missing" => "shrank" \in saw[r]

(* A score is negative only if a new document came in between the reads:   *)
(* a replaced, deleted or rebuilt document cannot lift DF above N.         *)
NegativeOnlyIfGrown ==
    \A r \in Readers : (\E id \in DOMAIN hits[r] : hits[r][id] = "negative") => "grew" \in saw[r]

(* What Check reports as a problem of the dictionary is one, unless a write*)
(* went through another handle: its read lock keeps out those of its own.  *)
DictionaryProblemsReal ==
    \A r \in Readers : "dictionary" \in problems[r] => "foreign" \in saw[r]

(* A count problem, too, needs a document to come or go meanwhile. *)
CountProblemsReal == \A r \in Readers : "count" \in problems[r] => saw[r] \cap {"grew", "shrank"} # {}

(* BM25.Score is "the non-negative BM25 contribution of a term" (bm25.go:23)*)
ScoresNonNegative == \A r \in Readers : \A id \in DOMAIN hits[r] : hits[r][id] # "negative"

(* Check of a consistent index reports none of its problems (check.go:9-13,*)
(* index.go:14: mu makes composite management operations consistent).      *)
CheckIsConsistent == \A r \in Readers : Exact(store) => problems[r] = {}

================================================================================
