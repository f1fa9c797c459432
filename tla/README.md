# Koris in TLA+

Specifications, model checks and proofs of Koris, an embedded full-text search
engine in Go. An index is a set of documents kept in an ordered key-value store
together with data derived from them: postings, a term dictionary, per-document
metadata and global statistics. What makes Koris correct is that the derived
data is, in every state anyone can see, that of exactly the stored documents;
what makes that hard is replacement, deletion, analyzer changes, failures inside
a transaction, several handles on one store, and reads that span commits.

## 1. The system

| Component | State | Operations | Interacts with | Hard behaviour | What makes it correct |
|---|---|---|---|---|---|
| Index write path (`index/writer.go`, `rebuild.go`, `index.go`) | the six key families of `index/schema.go`, `Index.mu` | `New`, `Add`, `AddBatch`, `Delete`, `Rebuild`, `Close` | analyzers (calls), Store transaction (callback) | replacement by another analyzer, the same ID twice in a batch, failure in mid-batch, two handles on one store, death of the process, stores of the early schema | postings, dictionary and statistics are exact; a call has its whole effect or none; every call returns |
| Index readers (`index/reader.go`, `search.go`, `facet.go`, `check.go`, `query/score.go`) | read locks, what was read so far | `Search`, `Facet`, `Check`, `Document`, `Stats`, ... | the store, one locked read at a time | reads of one query are of different versions | an undisturbed read is exact; what a disturbed one can get wrong is bounded |
| Storage (`storage/`) | the map or Bbolt file, its lock, `closed` | `Get`, `Scan`, `Put`, `Delete`, `Transaction`, `Close` | the callback of a transaction, iterators | copy and swap, use after `Close`, callbacks that use the store | serializable transactions, snapshots, rollback |
| Queries (`query/`) | none; each query reads through `Searcher` | `Execute` of term, match, boolean, phrase, prefix, fuzzy; `Parse` | `Searcher`, analyzers | greedy phrase matching, early exits, nil against empty candidates, precedence, quotes | results equal a declarative definition |
| Posting structures (`inverted/`, `iterator/`) | a cursor | codec, `Intersect`, `Union`, `Next`, `SkipTo` | queries and the writer (codec) | boundaries of cursors and skip points | equal to set operations; never move back |
| Scoring (`scoring/`) | none | `BM25.Score` | queries | inconsistent inputs | a score is not negative for consistent inputs |
| Analysis (`analysis/`) | none | tokenizers, filters, streams, HMM | writer, queries, highlighting | segmentation, offsets | tokens cover the text in order |
| Highlighting (`highlight/`) | none | `Extract` | analysis | byte windows in UTF-8 text | fragments contain their matches |
| Root package, `document/`, examples | none | aliases | index | - | - |

## 2. Modules

| Module | Kind | Models |
|---|---|---|
| `StoredIndex` | data and operators | The contents of a store as a record with one field per key family; what `addInTransaction`, `removeVectors`, `Delete` and `Rebuild` do to them; the predicates of exact contents |
| `IndexWriter` | state machine | The write path: handles with a write lock each, goroutines in their calls, the store's exclusive transaction with its private copy, failures, `Close`, restart |
| `IndexPromise` | abstract specification | An index as a map from IDs to analyzed documents; calls that succeed or are refused in one step |
| `IndexCorrectness` | properties | The invariants and properties of `IndexWriter`, and the mapping to `IndexPromise` |
| `IndexReaders` | state machine | Term, boolean and prefix queries, `Facet` and `Check` as sequences of separately locked reads, among atomic commits |
| `KeyValue` | data and operators | Contents of a `Store`, the operations of a `Tx`, scripts of them, what they read and leave |
| `StoreContract` | abstract specification | A store that serves one request at a time, whole or not at all |
| `MemoryStore` | state machine | `storage.MemoryStore`: map, `sync.RWMutex`, clone, callback, swap |
| `BboltStore` | state machine | `storage.BboltStore`: the pointer `s.db` as it is tested and used, over a database modelled from its use |
| `ForwardCursor` | abstract specification | A cursor over a set of keys: the least one left, or the least one not below a target |
| `Cursors` | state machine | `PostingIterator`, `SkipListIterator`, `docid.Slice` and the iterator of the storage backends |
| `Postings` | operators | `NewPosting`, the posting codec, `Intersect`, `Union` |
| `Tokenizers` | operators | Whitespace, simple and standard tokenizer, lowercase and stop-word filter, the standard analyzer |
| `Segmentation` | operators | Maximum matching in three modes; the hidden Markov model and its Viterbi path |
| `Highlighting` | operators | `highlight.Extract` |
| `Matching` | operators | Whether positions match a phrase; the edit distance of two terms; what both promise |
| `Queries` | operators | The six kinds of query over a fixed index |
| `QueryResults` | properties | What queries promise, without the algorithms: which documents satisfy a query and what each clause adds |
| `QueryLexer` | operators | The lexer of the query language, and what it promises |
| `QueryParser` | operators | Recursive descent, atoms, `Index.SearchString` |
| `Operations` | state machine | A client that calls one of these operations on one input at a time (codec, merge, tokenizers, segmentation, summaries, phrases, distances, queries, expressions), and what each call promises |
| `QueryMeaning` | properties | What expressions of the query language mean, without the parser |
| `StoredIndex_proofs`, `IndexWriter_proofs`, `IndexReaders_proofs`, `MemoryStore_proofs`, `BboltStore_proofs`, `Postings_proofs`, `Parts_proofs`, `Operations_proofs` | proofs | See section 6 |
| `MCIndexWriter`, `MCIndexReaders` | instances | Texts, analyzers, batches and damaged stores for TLC |
| `StoreRequests`, `MCMemoryStore`, `MCBboltStore` | instances | The calls the goroutines of a store make |
| `MCAlgorithms` | instance | The parts without shared state: the calls of `Operations`, and cursors, on small inputs |

### Correspondence with the code

*Contents.* `doc`, `meta`, `posting`, `term`, `global` are the keys `document/`,
`docmeta/`, `posting/`, `term/` and `meta/global`; `legacy` holds documents of
the early schema, which lie under `document/<16 digits>` and which only
`Rebuild` sees. `Missing` is an absent key. An analyzer is an arbitrary function
from texts to sequences of terms, one per handle and field; the term `""` is
counted in a field's length and never posted, as in `writer.go:88`. A position
is the ordinal of its token.

*Control.* A goroutine goes `idle -> called -> locked -> body -> commit -> idle`.
`Call` is the entry, `AnswerEarly` the validation and the empty batch before any
lock, `Lock` is `i.mu.Lock()`, `Begin` the store's transaction up to its
callback, with the reads the callback starts with. `AddNext`, `ReplayLegacy` and
`ReplayNext` write one document each, so failure and interleaving can come
between any two. `BodyDone` and `DeleteBody` end the callback, `Commit` is the
swap of the map or Bbolt's commit. `Abort` is any error of the store or of a
decoding, at any point of the callback or at the commit. `TransactionClosed`
is `ErrClosed`. `CloseStore` is `Index.Close`. `Restart` ends the process
at any point and starts another, with other analyzers if it wants: a durable
store keeps its committed contents, a `MemoryStore` nothing.

*Reading.* Each step of `IndexReaders` is one method of `Searcher` (or the part
of `Check` under its read lock), which is one critical section of the code; a
commit is one step, which `IndexCorrectness` shows to be sound. A query executes
its clauses one after the other (`ReadPostings`, `ReadSearchStats`,
`ReadTermInfo`, one `ScorePosting` per document, `ClauseDone`); `rest` are the
clauses to come, `scored` is the map of the present one, `hits` the candidates.
A purely negative query begins with `ReadAllDocumentIDs`, a prefix query with
`ReadTerms`. Of a score the sign of its least part is kept. `saw` and `touched` are
history variables: what kind of commits have come since the operation began, and
which documents they wrote.

*Storage.* A call of a store is a read (`Get` or `Scan`), a transaction with the
script its callback runs and how the callback ends (nil, error, panic), or
`Close`. In `MemoryStore`, `RLock` and `Lock` enter the mutex; `Lock` announces a
writer, which goes on when the readers have left. `Clone`, one `Operate` per
operation, `Commit` or `Rollback` are the body of `Transaction`; the deferred unlock is
part of every return. In `BboltStore` a call goes `called -> tested -> view |
update | closing -> closed -> returning -> idle`: `TestPointer` is `s.db == nil`, and what
follows loads `s.db` again or goes on with the loaded value, so
`NilDereference` and `NotOpen` are both possible once `Close` has cleared it. A scan
yields a list of entries; the cursor over that list (`storage/iterator.go`) is the
kind `entries` of `Cursors`. `IndexWriter` uses its own, coarser form of
the contract: an exclusive transaction whose copy is committed or dropped.

*Refinement of the contract.* `MemoryStore` maps by the identity. In `BboltStore` others
can learn of a `View` as soon as its snapshot is taken and of a `Close` as soon as the
database is closed, both before the call returns, so `RequestSeen` and
`ReplySeen` give the contract its answer at those moments.

*Cursors.* `kind`, `list`, `index` and `open` are the fields of the four types;
`request` records the last call and is a history variable, so that the abstract
cursor knows which target a `SkipTo` had. `SkipTo` is the binary search of
`PostingIterator` and `Slice`, or the skip points of `SkipListIterator` followed
by its linear scan. `Close` drops the entries and leaves the index, as the code does.

*Text.* A text is a sequence of runes of a few classes, each with its width in
bytes, so that offsets are those of UTF-8. Every tokenizer is the loop of
the code, `Scan`: from a place in the text it takes a span as a token or skips it and
goes on behind it; backward matching goes on before it. What differs is the span: where a run ends, what is given back,
what type the token has. Words of a
dictionary are sequences of runes and the trie is their set. Log probabilities
are integers with an explicit minus infinity (`NegInf`, which is no number), which addition
keeps and which lies below every number.

*Queries.* `Queries` follows `Execute` of each type: which scores are added to
which map, which are deleted, when a map is still nil. A document is what its
fields say, analyzed as the index does it, so the queries, the analyzer and
`NewPosting` are checked together. BM25 is a number that grows with the
frequency and falls with the document frequency; a multiple of `Unit`, so that
the boosts of phrases and fuzzy matches divide it. Queries nest: a set of queries that holds with each
its clauses is executed as a function of them (`Scores`), in which a boolean query uses what its
clauses scored; a query that was written is executed in the set of all that was read on the way (`QueriesIn`).
`QueryLexer` is a loop over the expression like those of the tokenizers. `QueryParser` keeps the
token index of the recursive descent as part of what each function returns (`Read`). The four functions
call each other at later tokens only, so what they read is one function of the token they begin with
(`Reads`), with a value for each round of the loops of `parseAnd` and `parseOr`.

*Codec.* Encoded data is a sequence of bytes. `Uvarint` writes the digits of a number from the lowest on, all but
the last with the high bit set (`PutUvarint`); `IsVarint` is what `Uvarint` of `encoding/binary` reads, which is more: a
number may end in digits that are zero, up to the most bytes a 64-bit number can take. `Varints` yields
the numbers up to the end of the data, or `Broken` where none can be read. Widths are kept: 32 and
64 bits are `W32` and `W64`, the digits of a varint `VarintBase`, its bytes at most `MaxVarintLen`,
all scaled down, with the sums taken modulo `W64`.

Operators whose comment begins with *Fault* are variants of the definition that
follows, each with one plausible mistake. No specification uses them. They show
of every property that it can fail: with the variant in the place of the
definition TLC finds the property violated.

## 3. Runs

| Run | Instance | Checks | Distinct states |
|---|---|---|---|
| `writer` | 2 goroutines, 2 handles, 2 analyzers, 1 field, 2 IDs, 2 texts, durable | `TypeOK`, `NoGhosts`, `DictionaryCounts`, `StatsAddUp`, `WorkExact`, `RemovalNeverGuesses`, `LocksFollowCalls`, `ImplementsPromise` | 182,732 |
| `damaged` | 1 goroutine on every damaged store of `DamagedStores` | `RebuildRepairs` | 46,784 |
| `progress` | 2 goroutines on 1 handle, 2 fields which may be absent, memory store, fair | `ImplementsPromise`, `EveryCallReturns` | 5,582 |
| `readers` | 1 reader, 6 queries of one or two clauses, 2 handles with different analyzers | `TypeOK`, `QuietReadsExact`, `FailsOnlyOnDelete`, `NegativeOnlyIfGrown`, `DictionaryProblemsReal`, `CountProblemsReal` | 692,653 |
| `memory` | 3 goroutines with the calls of `MCCallsOf`, 2 keys, 2 values, fair | `TypeOK`, `ImplementsContract`, `EveryCallReturns` | 5,032 |
| `bbolt` | the same | `TypeOK`, `ImplementsContract`, `EveryCallReturns` | 33,296 |
| `algorithms` | every input of the bounded sets of `MCAlgorithms`; every cursor over every sorted list of 9 keys | 17 properties, one or two for each algorithm: section 4 | 141,622 |
| `nilmap`, `negative_score`, `check_report`, `bbolt_nil`, `corrupt_posting` | as `damaged`, `readers`, `bbolt` and `algorithms` | one property each, violated: section 5 | - |

*What they show.* `writer` answers whether the transaction invariants documented
in `docs/storage-schema_en.md` survive every interleaving of two handles with
different analyzers, every failure and every restart, and whether a caller can
tell the write path from the abstract index. `damaged` starts from every
combination of documents, stale metadata, foreign postings, wrong dictionary and
statistics, and legacy documents. `progress` is about locks given back, and about
replacement when the old and the new version have different fields. `memory` and
`bbolt` ask whether callers of either backend can tell it from a store that serves one
request at a time, and whether every call returns. The contract lets a call on a
closed store panic and the contents be opened again in `bbolt` (the first is section 5) but not in `memory`.
`readers` says what a read that spans commits may get wrong and, above all,
what it may not. `algorithms` compares each algorithm with a definition that
does not search, scan or recurse as the code does.

*Bounds.* Two goroutines are enough for every conflict over two locks; a third
only waits. Two IDs, one of them possibly twice in a batch, give replacement,
deletion of the last and of not the last holder of a term, and a batch that
fails after its first document. Two texts and two analyzers give terms that
both, one or no version has, a repeated term, the empty term, and a text with
no token at all. The texts of `MCAnalysis` are chosen for that. Nothing in the
model counts without bound, so no state constraint is needed: the reachable
states are finite because contents are sets and counters count them. Symmetry is
not used. In `readers` one reader is enough, since readers do not see each other. Its queries are
one term, two required terms, a required and an optional one, a required and an
excluded one, an excluded one alone, and a prefix of two terms: each way
`BooleanQuery` combines a map with the next, with one commit or more between any two reads.
In the storage runs one goroutine writes in every way a callback can end, one
reads and writes what the first one touches, and one reads and closes: three are
needed for overlapping readers to hold off a writer, and for a `Close` among a
reader and a writer. Two keys give scans that see part of a transaction if
any do; scripts are of at most four operations, and read after they write.

In `algorithms` a list of 9 keys is the shortest with a skip distance above the
minimum and three skip points of which a search can pass two. `W32 = 8` and `W64 = 32`
let sums of deltas pass both; with `VarintBase = 4` a varint has up to three bytes, and the data that is decoded has
varints with zeros at the end, cut off and too large for 64 bits, in the header and behind it; positions of phrases stay far enough below `W32` that
`previous + expectedGap` does not wrap, which in the code takes a document of
four thousand million tokens. Texts of five or six runes hold a URL with closing
punctuation, an email address, a number, two groups of matches, a window at either end
and inside a rune of three bytes. Five Chinese characters hold overlapping words
of two and three of which forward, backward and bidirectional matching choose
differently; the paths of three characters hold every pair of transitions.
Expressions of four and five words, with and without parentheses, hold every
combination of two operators, explicit or not, with a `NOT` and an operand
missing.

*Fairness* (`progress`, `memory`, `bbolt`). A goroutine that can take a step is scheduled
eventually: weak fairness of `Step` or `Proceed`. `sync.Mutex` hands over in FIFO order once
a waiter has waited a millisecond, a waiting writer of a `RWMutex` keeps new
readers out, and Bbolt's writer lock is a `sync.Mutex`: strong fairness of the
steps that take a lock. Calls, failures, opening and restarts are not fair. That a waiting writer keeps new
readers out is not left to fairness: in the storage modules it is a guard.

## 4. Properties

`NoGhosts`, `DictionaryCounts` and `StatsAddUp` together say that the derived
data are those of the documents. They hold of committed contents; `WorkExact`
says the same of the private copy between two documents of one transaction,
where the local `GlobalStats` and the keys must agree for the next document of
the same ID to be replaced correctly. `RemovalNeverGuesses` says that the
defensive branches (`writer.go:162-166`, `182`, `144`) never act, so they hide
nothing. `ImplementsPromise` is refinement: atomicity, rollback, the last of two
equal IDs in a batch, the answers. `RebuildRepairs` is an action property about
stores that are not exact. `QuietReadsExact` says that a query that succeeds answers exactly for every
document that no commit wrote meanwhile, though its clauses may have read different
versions, and though a `Rebuild` deletes and replays everything; and that an operation during which
nothing is committed succeeds without a fault. For a document that was written meanwhile no
such thing holds: it may be found by two clauses that no version of it satisfies together.
The other four properties of `readers` name the only kind of commit that can disturb each result.

For the parts without shared state (run `algorithms`):

| Property | Says |
|---|---|
| `ImplementsForwardCursor` | The four cursors are one: they visit the keys in order, each once, never go back, and `SkipTo` stops at the first key not below its target. |
| `CursorTypeOK` | A cursor never stands beyond one past its end, whatever is called after the end or after `Close`. |
| `CodecIsExact` | Decoding inverts encoding, whatever order the positions came in. Data that is read as a posting is read to its last byte (cut off anywhere it is refused); short of an overflow of the 64-bit sum the posting is one that can be written and read again, and the data is its encoding or a longer form of it, with zeros at the end of varints. |
| `ListsMergeExactly` | `Intersect` and `Union` are set operations, with the left posting where both have one. |
| `TextsAreCovered`, `ChineseIsCovered` | Tokens follow each other in the text, with offsets of whole runes, and leave out only what their tokenizer skips; positions count them. |
| `WordsAreMaximal` | Forward and backward matching take the longest word at each place; the bidirectional result is no worse than either. |
| `LabelsAreOptimal` | The Viterbi labels have the highest score of all paths, and are a legal path if any has a score. |
| `FragmentsFit`, `FragmentsAreExact` | Fragments lie on whole runes, contain their group and are as long as asked for; rendering keeps the text and tags each match inside once. |
| `PhrasesAreExact` | The greedy choice finds a placement of the words within the slop exactly if there is one. |
| `DistancesAreExact` | The edit distance is exact up to the cutoff and beyond it if the distance is: neither early exit rejects a candidate. |
| `QueriesAreExact` | Hits are exactly the documents that satisfy the query, with the sum of what their clauses are worth, in order. |
| `LexingIsExact`, `WritingIsRead` | Expressions are cut exactly at the spaces and parentheses outside quotes and refused if a quote stays open; a field, a phrase, a prefix and a word are read as written. |
| `SearchesFollowGrammar` | An expression is refused exactly if the grammar has no reading of it, and finds the documents of its only reading. |
| `QuotationsFind` | A phrase quoted from a document, gaps of stop words included, finds it. Asked of texts without quotes only: quoted again, a quote of the text would end the phrase. |

`ImplementsContract` is refinement again: no lost update between clone and swap, no
read of a transaction that fails or panics later, scans that do not move with later
writes, `ErrClosed` exactly after `Close`. `EveryCallReturns` is about a lock or a read
transaction that an error, a panic or an iterator leaves behind, and about a `Close` that
waits for others. `TypeOK` of the storage modules also states their lock discipline.

## 5. Disagreements with the documentation

1. `nilmap`: `Delete` on a store whose `meta/global` has no
   `total_field_length` panics when the document has a docmeta with a field (assignment to a nil map, `writer.go:163-165`),
   though `writer.go:208-209` says that every write transaction fills it in.
   `AddBatch` does.
2. `negative_score`: `scorePostings` reads N and DF separately
   (`query/score.go:11-15`); with a batch committed in between DF > N and the
   score is negative, though `scoring/bm25.go:23` promises a non-negative one.
3. `check_report`: `Check` reads IDs and statistics separately before it takes
   its read lock (`check.go:15-28`), and reports a problem of a consistent index
   when a write commits in between; `index.go:14-15` says the mutex makes
   composite management operations consistent.

4. `bbolt_nil`: a call on a `BboltStore` that has found `s.db` not nil panics when
   `Close` clears it before the pointer is loaded again (`bbolt.go:48`, `73`, `89`,
   `99-103`), though `docs/architecture_en.md:106` calls each store concurrency-safe.
   `Index.Close` excludes it for the calls of one handle, whose mutex it holds; two
   handles on one store, or direct users of the store, can meet it.

5. `corrupt_posting`: `DecodePosting` compares the sum of the deltas with
   2^32 - 1 only after an addition that can wrap at 2^64 (`inverted/codec.go:61`), so
   damaged data can be read as a posting whose positions do not ascend, though
   `codec.go:36-37` and `codec.go:59` promise that an overflow is refused and
   `query/phrase.go:103` relies on the order. Everything else `DecodePosting` accepts is the
   encoding of what it returns, or that encoding with varints that are longer than they need be, which
   `binary.Uvarint` accepts and no comment excludes: `01 61 80 00 00` is read like `01 61 00 00` (`CodecIsExact`).

Smaller ones, met while modelling and without a run:

- `TokenStream.Token` returns the last token after the end, not the zero value of
  the comment at `analysis/stream.go:47`: `current` never exceeds the number of tokens.
- `"a:b"` without a field is split at the colon inside the quotes (`query/parser.go:191`), so
  a quoted phrase with a colon needs an explicit field. `WritingIsRead` excludes it.
- A word keeps the full stop that ends its sentence: `fast.` is a term of its own
  (`standard.go:52`). A query for `fast` does not find it; a quotation does.
- Matches chained by distances no larger than `FragmentSize` make one group, which
  can be longer than `FragmentSize`; fragments of neighbouring groups can overlap, in spite of
  `highlight.go:63`. `FragmentsFit` states the bound that holds.
- `hmm.go:44-45` says that no legal path is ever left. When every path has the score minus
  infinity, it may be. `LabelsAreOptimal` asks for a legal path only if one has a score.

## 6. Proofs

TLAPS proves, for every set of IDs, fields, terms, texts, analyzers, goroutines,
handles, readers, queries and batches, from the assumptions named in the modules:

- of the index: IDs are a finite set, an analyzer yields a sequence of terms for every text, markers
  differ from values, a batch is a sequence of inputs, a prefix query asks for terms of one field;
- of texts: letters, digits, spaces and punctuation are told apart as Unicode does, a rune has one to
  four bytes, a URL prefix begins with a letter; a word of the dictionary consists of letters and digits only (of a
  dictionary with symbols, connectors or marks in its words nothing is shown); parentheses and quotes are no
  spaces; scores of labels are integers or minus infinity (rounding of floats is not modelled);
- of postings and phrases: a byte of a varint holds a digit, 64 bits take a whole number of them and one bit, an ID is a
  sequence of bytes shorter than 2^64; positions are below 2^32, as are their number and the place at which a phrase
  wants its next word; a phrase has a word, and the places of its words increase; posting lists ascend;
- of queries: the collection is finite, its fields have names, its texts have fewer than 2^32 tokens, also
  with those of a phrase added; queries are built from the bottom, so that the clauses of a boolean query are earlier queries;
  IDs are numbers, which stand for strings in their order;
- of expressions: a field that is written is a word without a colon, and the text written for it holds no
  quotes (of a text with quotes `WritingIsRead` says nothing; `SearchesFollowGrammar` and `LexingIsExact` do).

| Theorem | Module | Says |
|---|---|---|
| `TypeCorrect`, `LocksCorrect`, `NoGhostsEver`, `DictionaryCorrect`, `StatsCorrect`, `WorkCorrect`, `RemovalCorrect` | `IndexWriter_proofs` | the seven invariants of run `writer` |
| `PanicsOnlyOnOld` | `IndexWriter_proofs` | `NoPanic` holds of every store that the index wrote itself: the panic of run `nilmap` needs a store of an early version |
| `PromiseKept` | `IndexWriter_proofs` | `ImplementsPromise`: the write path implements the abstract index, step by step |
| `RepairedFromAny`, `Repaired` | `IndexWriter_proofs` | `RebuildRepairs`, from any contents that can be decoded at all |
| `TypeCorrect`, `MissingMeansDeleted`, `NegativeMeansGrown`, `DictionaryReportReal`, `CountReportReal` | `IndexReaders_proofs` | the five invariants of run `readers` |
| `QuietReads` | `IndexReaders_proofs` | `QuietReadsExact`, the action property of run `readers` |
| `TypeCorrect` | `MemoryStore_proofs`, `BboltStore_proofs` | the type and lock invariants of runs `memory` and `bbolt` |
| `ContractKept` | `MemoryStore_proofs`, `BboltStore_proofs` | `ImplementsContract`: both backends implement the contract of a store, step by step |
| `CursorTypeCorrect`, `CursorsGoForward` | `Parts_proofs` | the type invariant of the four cursors, and that each implements `ForwardCursor` |
| `RoundTrips`, `AcceptsPostings`, `EndsAreNoticed`, `MergingIsExact` | `Postings_proofs` | the posting codec and the merging of posting lists, for all postings, bytes and lists |
| `CallsAreMade` | `Operations_proofs` | every call of `Operations` is made on an input of the constants |
| `CodecCorrect`, `MergeCorrect` | `Operations_proofs` | `CodecIsExact` and `ListsMergeExactly` |
| `TokensAreExact`, `TokenizersCorrect` | `Parts_proofs`, `Operations_proofs` | the tokenizers, for every text: `TextsAreCovered` |
| `SegmentsAreExact`, `SegmentersCorrect` | `Parts_proofs`, `Operations_proofs` | every way of cutting Chinese, for every text, dictionary and model: `ChineseIsCovered` |
| `MatchingIsExact`, `MatchingCorrect` | `Parts_proofs`, `Operations_proofs` | maximum matching: `WordsAreMaximal` |
| `LabelsAreBest`, `LabelsCorrect` | `Operations_proofs` | the Viterbi path: `LabelsAreOptimal` |
| `PhrasesMatchExactly`, `PhrasesCorrect` | `Parts_proofs`, `Operations_proofs` | greedy phrase matching, for all positions, places and slops: `PhrasesAreExact` |
| `FragmentsFitAnyText`, `FragmentsCorrect` | `Operations_proofs` | the windows of search summaries: `FragmentsFit` |
| `RenderingIsExactForAnyText`, `RenderingCorrect` | `Operations_proofs` | their rendering: `FragmentsAreExact` |
| `DistancesAreBest`, `DistancesCorrect` | `Parts_proofs`, `Operations_proofs` | the edit distance with its cutoff: `DistancesAreExact` |
| `LexingIsExactForAnyText`, `LexingCorrect` | `Parts_proofs`, `Operations_proofs` | the lexer of the query language, for every text: `LexingIsExact` |
| `QueriesAnswerExactly`, `QueriesCorrect` | `Operations_proofs` | the execution of every query, however nested, on every collection: `QueriesAreExact` |
| `WritingIsReadForAnyText`, `WritingCorrect` | `Parts_proofs`, `Operations_proofs` | atoms, for every field and text: `WritingIsRead` |
| `GrammarIsFollowed`, `SearchesCorrect` | `Operations_proofs` | the whole way from an expression to its hits, for every expression: `SearchesFollowGrammar` |

### The write path

None of its invariants but type and locks is inductive. Committed contents stay
exact because they are replaced by the private copy, and that must be exact;
it is because it starts as a copy of exact contents or empty, and because each
document written to it is valid, was analyzed by an opened handle, and replaces
a version that is fully accounted for. `IInv` is the conjunction of `Protocol`
(`TypeOK`; `LocksFollowCalls`: there is one private copy, and it belongs to the goroutine
inside the transaction; a call past the lock has been validated and its handle is open),
`StoreOK` and `WorkOK` (both contents are `Sound`: exact and finite). `Protocol` is inductive
by itself and says nothing of the contents, so it serves the proofs about damaged stores too.

`StoredIndex_proofs` carries the arithmetic: `df` and total frequency are
cardinalities of the holders and of the <<ID, position>> pairs of a posting
family, a total field length that of the pairs of <<ID, ordinal>>. `FamilyAdd`
and `FamilyRemove` say what one document changes in such a cardinality,
`EntryAdd` and `EntryRemove` that the code's dictionary update computes it, and
`RemoveDetaches` and `AttachSound` put them together for the two halves of a
replacement. `AddSound` and `DeleteSound` are what the actions use; `WrittenFields` and
`DeletedFields` say what they do to the documents.
`IndexWriter_proofs` has one lemma per action and two for the ways a call ends.

### The abstract index

`IndexCorrectness` maps the contents to what `IndexPromise` has: `Held` is the map from IDs to
documents with their docmeta, `Shown` what a reader can see of dictionary and statistics. Everything up to the
commit is a stutter; the commit is the abstract step. So the proof has to know,
at the commit, what the whole transaction has written: `InProgress` (inductive,
theorem `ProgressKept`) says of a call in its body that the documents written so far, followed by
those left to write, are what its request asks for: for a batch the last of several inputs of
one ID wins, for a `Rebuild` the stored documents, then the legacy ones that no later
document replaces. `PInv` adds it to `IInv`, and that a store which the index wrote itself has no legacy documents. `StepRefines` has a
case for each action, `RebuildEffect`, `BatchEffect` and `DeleteEffect` give the contents a commit puts in
place, and `ViewOfStore` says that exact contents show what the promise computes from the
documents alone.

`RebuildRepairs` needs less: `RInv` is `Protocol`, `InProgress` and `ReadableOK`, which asks of the contents
only that their docmetas can be read. `InitOnAny` begins in any such contents: documents without docmeta and
the reverse, any postings, dictionary and statistics, a nil `TotalFieldLength`,
legacy documents. Run `damaged` begins in some of these.

### The readers

A query holds no lock between its reads, so nothing it has read need still be
so. The invariant says what does hold, for each reader (`ReaderOK`):

- `Exactly`: for a document that no commit has written since the operation began, what is read of it
  is what the present contents have of it, and what the query will answer after the clauses that are
  left (`Final`) is what the present contents satisfy;
- `Alive`, `Bounded`, `Quiet`: as long as no ID was removed, everything read is live; as long as none came in, the
  document count read is no less than that of live documents; as long as nothing was committed,
  a posting that was read has its term in the dictionary;
- `Checking`: what `Check` has still to compare is what the contents have, as long as the kind of commit that would
  change it has not come;
- `Shape`: the clauses left are the end of the query's clauses, in the order of their roles.

Contents are `Written`: exact, and each docmeta made by some handle's analyzer from its
document. `Leaves` says what a commit leaves alone, and is proved of `Add`, `Delete` and `Rebuild`;
`CommitKept` is the only lemma about a commit, and knows nothing of which it was. Each read has a lemma that it keeps the
invariant for its own reader. `TotalExact` is the heart: after a clause, combining
its scores with the candidates leaves the answer the same, with every role, first or
not, nil or not. `RightAnswer` turns the invariant at the end of an operation into
`UntouchedExact` and `QuietExact`.

In `IndexReaders` a `Rebuild` is one step, a fold over the stored documents in any order. `SetRecursion` shows that
such a recursion over the subsets of a finite set defines a function,
`SetInduction` that what the empty set has and an added element passes on holds of
every subset, and `ReplayedExact` uses both: each document is indexed again, and no
other.

### Stores and cursors

The type invariants of the stores are inductive: at most one
transaction, the private copy is its own, nobody reads a `MemoryStore` meanwhile, and
`s.db` is nil only when the database is closed. For the refinement of `StoreContract` they need
`CallbackOK`: what the callback has left and read so far is what its operations so far
make of the committed contents, which do not change meanwhile. What a script makes of contents is the recursive function in
`Trace`; `RunExists` shows by induction over the length of the script that its equation has a
solution, and `TraceRuns` that each operation takes it on by one. The contract
answers a call at the commit, the rollback, the read of a `MemoryStore` and the snapshot of
Bbolt's `View`; every other step is a stutter.

`SkipListIsBinary` says that the two ways to skip always stop
at the same key: below a skip point that is not beyond the target, no key reaches the target, because
the list ascends. `SkipStops` gives the first key at or after the cursor that
is not below the target; `SkippedKeys` and `SuffixSplits` turn that index into the set of keys left, and
`CursorStepRefines` has one case for each operation.

### The operations

`Operations` has one variable, the call that is being made. `CallsAreMade` says of each call that its input is
one of the constants; each invariant then follows from a theorem about the operator for all
inputs of its kind. Those need induction over data, which the library's induction theorems cannot
give (they take an operator as a parameter). Two lemmas stand in for them, both proved from the
well-foundedness of `<`: `Recursion` (a function that is defined step by step exists and
obeys its equation) and `MeasureInduction` (what passes on from all smaller
arguments holds for all). Each recursive function of the models is tied to its equation once by such a lemma
(`NextRowIs`, `GroupsAreRecursive`, `RenderIs`, ...), and everything else uses the equation.

*Codec and merge.* Where a varint ends can be told from its bytes, whatever follows, and its value from its digits; so
the varints of a list of numbers are read back one after the other (`ReadsBack`), and the deltas of sorted positions
sum up to the positions (`DeltasSumUp`). Conversely, of data that is read as a posting each number has a varint there that is
at least as long as the shortest one; if all are the shortest, the data is the encoding of what was
read, because the sums are at most 2^32 - 1 and no addition wrapped, and otherwise it is longer (`WritesNoMore`). With its end cut off
the same varints stand in the data up to one that is broken or missing (`CutNumbers`), so the count no longer agrees. `Intersect` and `Union` are by induction over what is left of both lists; the IDs ascend, so
what is passed over is in the other list no more.

*Tokenizers and segmenters.* All are a `Scan`. `Tiles` and `Scanned` say what such a loop yields: spans that
follow each other from the start of the text to its end, each taken whole as a token or skipped. So
nothing is lost or read twice, whatever the spans are; what is special to a tokenizer is shown of a single span
(`StandardSpan` never reaches back, leaves out only blanks and punctuation, and gives back the
closing punctuation of a URL). Backward matching
yields such spans too (`BackwardCuts`). Both are maximal because each span is.

*Lexer.* It is such a `Scan` too, with spaces for blanks, but it skips only those outside quotes: an atom runs over the
others. So the scan is shown to come only by places outside quotes (counted from the start of the text; `QuotesJoin` adds up
the quotes of two stretches), where the quotes an atom counts from its own start are those of the
text. `TokensBegin` says that the spans begin exactly where a blank or a parenthesis has ended, and
`RisingCount` that the k-th of them is the k-th token. A text ends outside quotes unless its last atom is unclosed (`RefusedIs`).

*Labels.* By induction over the text, no path scores above the score kept for its last
state (`NoPathIsAbove`), and the path that the labels trace back attains it (`LabelsAttain`); minus infinity needs
a case of its own, since all scores may be minus infinity.

*Phrases.* The greedy run is never behind any placement of the words, since the first position at or behind a
minimum is no later than any other such position; so it finds a word wherever a placement has one,
and what it misses, which is where it ends less where the phrase should end, is
no more. In between the misses only grow, so the early exit is justified, and no uint32 sum wraps: the
misses are below a position, and a position is below 2^32.

*Summaries.* The matches of a text lie in order and apart, because tokens do. So groups are more than a fragment's
size apart (`GroupsAreApart`), and the windows of two groups, which are moved by less than that, follow each other. A
window on bytes lies in the text and holds its group (`RawWindowFrames`); rounding moves each end
outwards to the next boundary, by less than a rune. When a window is written no match in it is
passed over, for the cursor stands at the end of an earlier match.

*Edit distance.* `Table` says what the rows hold. By induction over pairs of prefixes each number is the cost of some
alignment, and no alignment costs less (`TableIsRight`): an alignment pairs the last two runes, or does without one of them, since
pairs do not cross. A row past the cutoff is followed by such rows only (`NextRowIsFar`), and a number is no less
than the difference of the lengths (`LengthsApart`), so both early exits are safe (`CutoffIsSafe`).

*Queries.* A hit map is a function from IDs to numbers, and `Total`, `Required` and `Boosted` are loops over such
maps. The code adds up a Go map in any order; `SumInOrder` shows that no order matters, so a total is the sum
over its terms (`TermsTotal`). The tokens of a field have distinct, rising positions (`AnalyzeIs`), so what
`Postings` holds are the places of the term (`PostingsAre`), and phrases and fuzzy terms are exact because phrase matching and
edit distance are. In `BooleanIs` the candidates after each loop are those that the clauses so far admit, with the
sum of what these add; a nil map is told from an empty one by the lists of clauses alone, as in the
code. Queries are `Nested` if each has a rank above those of its clauses: in `Pool` its place among the sets `Asked`
(`PoolIsNested`). `PoolInduction` gives what follows from all clauses of a query for the query itself. `ExecutionExists`, `FoundIsUnique` and
`WorthIsUnique` show with it that the three recursive functions (scores, documents that satisfy, relevance) exist and obey their
equations, and `ScoresAreExact` that they agree. `HitsAreSorted`: the number of hits before a hit is its
rank, and each rank is taken by one.

*Expressions.* The descent and the grammar are both brought into the form of a function that is decided by
smaller arguments. What is read at a token depends on what is read at later tokens (`ReadsAre`), since a read that
succeeds ends behind the token it began with; what a span of tokens can mean depends on shorter spans
(`MeaningsAre`). What is read is nested by the number of its tokens (`QueriesNest`), so it is executed exactly,
like the queries that are asked. `MeaningsAgree` is by induction over the length of a span: its meanings are the documents found by
the reads that begin with its first token and end with its last. For a loop this has to turn the rules of the
grammar, which are recursive on the left, into rounds: the last round that joined something joined a shorter
span with a clause (`LoopReads`), and conversely a clause that can follow is what the next round reads
(`LoopJoins`), where a token that begins a clause is never AND or OR (`ClauseBegins`). The reads at
one token end at different places unless they are the same, so an expression has one meaning or none, and none exactly if
the last read fails or stops before the end. `WritingIsRead` needs none of this: an expression that no space or
parenthesis outside quotes divides is one token (`OneToken`), and one atom is read by `AtomQuery` alone
(`AtomIsRead`); the first colon is the one behind the field because a field has none.

### Only model-checked

- Every `EveryCallReturns`: liveness under fairness is beyond the prover.
- `QuotationsFind`: it takes that a part of a text which begins and ends with tokens is cut into
  those tokens again. That is no induction over the loop of the tokenizer alone: each span looks ahead (a word to the first
  rune that is neither of a word nor a connector, a URL by its prefix, then to the next blank and back over closing
  punctuation), and each would need its
  own proof that what it sees beyond the end of the quotation does not matter. What it combines is proved: the tokens
  of every text are exact, phrases match exactly, and what is written in quotes is read as that phrase.

## 7. Not modelled

JSON and base64 encodings (values stand for their encodings, so an ID
with invalid UTF-8, which JSON alters, is not represented, nor a damaged document whose JSON has another ID than its
key, of which `Rebuild` takes the ID of the JSON); gaps in positions on the write path (`Tokenizers` and
`Queries` have them); texts that are not valid UTF-8, for which `StandardTokenizer` computes other offsets than the
other tokenizers (`len(string(r))`); floating-point scores beyond their sign and order;
`StemmerFilter` (a table of suffixes, which works on bytes); `TokenStream` (a cursor over a
finished list, used by nothing else); HTML escaping and tags; posting lists with an ID
twice, which a dictionary of documents cannot hold; errors of the store while a query reads
(each is passed on at once, like the missing document that `IndexReaders` has); phrase and fuzzy
clauses among commits (they read as the clauses of `IndexReaders` do); 64-bit overflow of counters that count
documents in memory. Single reads by themselves (`Document`, `Stats`) are not actions: one
read of one committed version has no interleaving.

## 8. Plan

Done: the write path with its abstract specification; the readers; the storage contract and both
backends; cursors; codec, merge, tokenizers, segmentation, highlighting, queries and the query
language against their definitions. Proved: every invariant, action property and refinement of the write
path, the readers, the stores and the cursors, and every property of `Operations` but one.

Left: `QuotationsFind`, from a lemma for each kind of span of `StandardTokenizer` that says how far it looks ahead.
