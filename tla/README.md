# Vektor, specified

A TLA+ model of [vektor](../src/README.md), the local code index for AI agents: TLC
configurations that check it on small instances, and TLAPS proofs of the properties that
hold for every instance. Paths `src/src/...` name the Rust code, `src/docs` and
`src/VEKTOR_PRD.md` its documents.

Contents: [the system](#the-system) · [modules](#modules) · [runs](#runs) ·
[what disagrees with the documents](#what-disagrees-with-the-documents) ·
[known counterexamples](#known-counterexamples) · [proofs](#proofs) ·
[not modelled](#not-modelled) · [plan](#plan) · [running it](#running-it)

## The system

A project has three stores under `<data_dir>/<project hash>/`, and no transaction spans
two of them:

| store | code | state | written by |
|---|---|---|---|
| HashStore `state.db` | `state.rs` | per file: content hash, `Pending`/`Indexed`/`Failed` | the index core |
| VectorStore | `vector_store/mod.rs` | LanceDB table `chunks`; `vector_meta.json` (model, dimension, `last_full_index_at`) | the index core |
| TextIndex | `text_index.rs` | Tantivy rows (deep or shallow); marker files *searchable*, *ready* | the index core, the shallow pass |

Components, their operations and how they meet:

- **Index core** (`cli.rs`): `index_path_with_options` opens the stores,
  `index_path_with_embedder_source` gates every file by hash, re-indexes changed files in
  batches, commits Tantivy once, writes the markers and the full-index timestamp, and
  only then sets the files `Indexed`. It is called by `vektor index` and by the MCP tool
  `index_codebase`; the calls may be in different processes and share only the disk.
  *Hard*: a crash or an error between any two writes; the file is read twice; two calls
  are excluded only by Tantivy's writer lock, which is taken after the vector store and
  its metadata were opened. *Correct when* a file called `Indexed` really has its rows.
- **ShallowIndexer** (`shallow_indexer.rs`): one projection row per file for a quick
  keyword tier, before the deep pass of an MCP call. *Correct when* the two tiers never
  mix for a file and the deep tier wins.
- **IndexStatusTracker** (`index_status.rs`): Building/Partial/Full per project in server
  memory, seeded from disk. *Hard*: read outside its lock, written by every handler,
  blind to other processes. *Correct when* it never promises a tier that is not there
  and does not hide one that is.
- **MCP handlers and caches** (`mcp/handlers.rs`, `context/cache.rs`): `index_codebase`,
  `search_code`, `get_context_for_prompt`; a context cache (LRU with TTL, cleared after
  a successful index call), a health cache, an embedder cache, all of the shape look up,
  compute without the lock, insert. *Correct when* a cached result is current after a
  clear, and one embedder serves all requests of one configuration.
- **Search** (`search/*`): semantic hits from Lance, keyword hits from Tantivy, weighted
  reciprocal rank fusion, hydration of keyword hits from Lance. Stateless, but it reads
  two stores at two moments, with an embedder chosen at a third. *Correct when* nothing
  better is left out or put behind, and a query vector meets rows of its own model.
- **Context assembly** (`context/*`): filter, deduplicate, expand by related files, boost
  recent ones, fill the token budget in two passes and cut. *Hard*: neighbours are
  compared only, budgets of a few tokens, a token count that is not additive. *Correct
  when* nothing is lost or twice in the package, and its limits hold.
- **Chunker, discovery, secret gate** (`chunker/*`, `discovery.rs`, `secrets.rs`): from a
  directory entry to the chunks that are embedded. *Correct when* every line of every symbol
  (of every file, if it has none) is in a chunk and no chunk that shows a secret goes on.
  *Not promised*: lines of a parsed file outside its symbols - imports, constants, the head
  and fields of a class with methods - which `collect_chunks` drops (`ast.rs:60-99`), and
  secrets that a window boundary splits.
- **Embedders** (`embedder/*`): ONNX (length-sorted batches, padded, pooled, put back in
  order) or an HTTP endpoint with retry and backoff. *Correct when* the i-th vector is
  that of the i-th text: no error would reveal another one.
- **Model download** (`models.rs`): resumable, `.part` file and rename. *Hard*: attempts
  that end anywhere. *Correct when* the final file is whole and retries finish.
- **init** (`init.rs`) rewrites agent configurations one after the other.

The server's tools call the index core and the search; a search takes its embedder from
the embedder cache; the index core calls discovery, the chunker and the embedder; a
context request gives the hits of a search to the assembler. `PROJECT.json` lists every
component with its status, and every hazard with its line and the properties that cover it.

## Modules

```
IndexContract      what a store's readers may rely on (abstract)
   ^ implemented by
IndexPipeline      the index core over the three stores        IndexPipelineProofs
   ^          ^                                                      ^        ^
   |       IndexRecovery   what users do to the stores   IndexRecoveryProofs  |
McpServer          one server: tracker, context cache, requests   McpServerProofs
SearchRequests     a search from its arguments to its answer      SearchProofs
ContextAssembly    from hits to a package                         AssemblyProofs
Embedding          the two embedders                              EmbeddingProofs
Chunking           from a directory entry to safe chunks          ChunkingProofs
ModelDownload      .part files, ranges, the rename                DownloadProofs

MC<Module>         its instances for TLC
```

**IndexPipeline.** `disk` is the working tree; `hashStore`, `lance`, `table`, `metaFile`,
`text`, `searchable`, `ready` are what is durable; `writer` is Tantivy's lock; `pc[r]`
and `w[r]` are the place and the locals of run `r`. One action per step that can be
separated from its neighbours by a crash or by another process:

| actions | code |
|---|---|
| `ShallowOpen`, `ShallowRead`, `ShallowCommit`, `ShallowMark` | `ShallowIndexer::build` |
| `OpenExisting` / `NoStore`, `OpenNew`, `CreateTable`, `ModelMismatch` | `VectorStore::open_existing` / `new` |
| `OpenText`, `WriterBusy` | `TextIndex::new`, `IndexRunOptions::from_index_options` |
| `SkipUnchanged`, `Gate`, `HashFileFails`, `ReadFile`, `ReadFileFails`, `GateDone` | phase 1 |
| `TakeBatch`, `EmbedderRefused`, `DeleteRows`, `Embed`, `InsertSlice`, `BatchFails` | `reindex_files` per batch |
| `QueueText`, `QueueTextFails`, `BatchDone` | Tantivy operations per file |
| `CommitText`, `MarkSearchable`, `MarkReady`, `MarkFull`, `SetIndexed`, `Finish` | the end of a run |
| `Edit`, `Start`, `Stop` | the environment |

Data is abstract: a file version is a member of `Contents`, a chunk is its content hash,
`ChunksOf` is `chunk_file` followed by the content-level secret gate, and `Files` are
what discovery and the file-level secret gate let through. A Lance row carries the model
that embedded it, a Tantivy row its tier. `last_full_index_at` is a Boolean.

Approximations: the shallow pass reads all its files at one moment; `optimize` changes no
row and cannot fail a run, so it is no step; the deletion and the meta save of
`delete_by_files`, and an inserted slice and its meta save, are one step each; equal
chunks of a file count once. `Stop` stands for the end of the process and for every `?`
that returns an error of a store. `torn` and `dirty` are history variables: the files
whose last read saw another version than the hash before it, and the files edited since
a run began. No invariant speaks of a torn file, because the code gives no guarantee
there: it hashes and reads at two moments.

**IndexContract** is the promise in three actions: a file is distrusted, rows of
distrusted files are rewritten in any number of transactions, a file whose rows are
complete is trusted again. `VectorsKeepContract` states, with `INSTANCE ... WITH`, that
IndexPipeline implements it with `trusted` read off the hash store and `rows` off Lance.

**IndexRecovery** adds what happens to the stores between runs: a user who follows the
"re-index required: delete ..." message, and an upgrade that changes the Tantivy schema. The
code answers the upgrade in steps and before it has any lock (`text_index.rs:371-387`):
`FindOutdated` is the failed `open_or_create`, `RebuildText` the `remove_dir_all` and the new
index, at any later moment, whoever holds the writer by then (its lock file is removed with
the rest), and `RebuildStops` a removal that dies or fails with part of the directory left.
Every entry that matters may or may not survive: the index (Tantivy's `meta.json`), the
searchable marker, the ready marker. `orphan` is a history variable: a removal left the ready
marker without the index.

**McpServer** puts one server in front of the core. `call[r]` is where the handler of an
index call is (the steps in between are those of IndexPipeline), `phase` the tracker's
entry, `cache` the context cache, `rd[c]` the requests, which open the Tantivy reader
first and query Lance after it. A restart loses the runs of the server and its memory; a
run started from a terminal shares the disk only. The query text is left out: all requests
ask the same query, so a cache key is the search mode (in the code it also lacks the limit
of the request). `phase_from_disk` reads the searchable marker and then the metadata, here
in one step: no action of this module removes the marker, so the answer is one that the
second read alone could have given. Eviction and expiry are one action that may happen at
any time.

**SearchRequests** is the inside of a request, of which McpServer has only the two reads.
The index calls that run meanwhile are reduced to what a request can see of them: rows of a
file, the commit, the marks, the end with its phase and its clear. A *world* fixes what
varies between instances: the chunks, their order by distance and by BM25, the questions.

| actions | code |
|---|---|
| `Route`, `ApplyBackend` | the phase decides the tier; `apply_indexed_backend` |
| `Lookup`, `Build`, `Insert` | `EmbedderCache::get`, with `build_embedder` outside the lock |
| `OpenStores` | `VectorStore::open_existing`, the model check |
| `SearchTier`, `SearchVectors`, `Hydrate` | `search_keyword_only`, `hybrid_search`: limits, weights, fusion, hydration, then the extension filter |
| `HealthHit`, `CountFiles`, `ReadReady`, `CountFails`, `PutHealth`, `HealthExpires` | `IndexHealthCache::get`, `compute_index_health` |
| `BeginCall`, `StoreRows`, `CommitText`, `MarkIndexed`, `EndCall`, `ClearHealth`, `CallFails`, `Edit`, `DeleteStore` | the index call and the user |

Scores are exact: what a place gives is a multiple of 1 / `Denominator`, which
`ExactAssumption` requires to be divisible by `RrfK` + rank for every rank a list has, so
that ties are ties and no place equals the next; lists of bounded length always have one.
`f32` may make two of them unequal in the code. `CountFiles` takes the status of all files
at one moment. `made`, `settled`, `seen`, `space` and `late` are history variables.

**ContextAssembly** is `ContextAssembler::assemble`, one action per iteration of a loop:

| actions | code |
|---|---|
| `Filter` | normalisation, scope, documents, `min_relevance` |
| `TakeFirst`, `MergeNext`, `KeepNext`, `EndDedup` | `Deduplicator::deduplicate` |
| `SkipExpansion`, `StartExpansion`, `ExpandFile`, `ExpandFails`, `EndExpansion` | `expander.rs` |
| `Rank` | recency boost and sort |
| `SelectNext`, `SetAside`, `EndSelect`, `Refill`, `EndRefill` | `allocate_budget`'s two passes |
| `EndTruncate`, `DropEmpty`, `StartCut`, `Probe`, `EndCut` | `truncate_to_budget` with its binary search |
| `Finish` | the package: confidence, warnings, clusters, advice |

Scores are permille and a content is its number of characters. `Estimate` and `CountExact`
are constants, and nothing is assumed of the second: real tokenizers merge across chunk
borders.

**Embedding** is one task with one embedder: `Build` actions for the two constructors and
the fallback, then its calls. A vector is the set of texts averaged into it, so one that
mixes texts, or belongs to another one, shows. `NextBatch`, `MeanPool` and `Restored` are
the batches, the pooling over padded rows and the scatter of the ONNX backend; `Send`,
`RetryLater`, `GiveUp`, `Refused`, `Success`, `Incomplete` are `post_with_retry` and
`order_embeddings`. The endpoint answers whatever it likes, with any list of record
indices. Sleeps take no modelled time; the rate limit is one sleep per call, not per
request, in the code.

**Chunking** is one file on its way: `Discover`, `WalkFails`, `Filter`, `Read`, then
`Slide` or `ParseTree`/`Descend`/`Ascend`/`EndTree` (the recursive walk with an explicit
stack), the window loop `EmitWindow`/`EndWindows` under both, `AssignIds`, `GateChunk`.
The file comes with the syntax tree its parser returns, whose nodes are nested
(`InputsAssumption`; tree-sitter's are); a line has a number that tells it
apart and the facts the secret gate asks for. The ignore files and the table of extensions
are facts about the input, not computed. So is what a line matches of the secret patterns: a
known token or the header of a private key; a name with its value; the end of an assignment's
left side; the start of its right side; nothing but white space. What is computed is what
the gate sees of a *chunk* (`SecretAt`, `ContainsSecret`): `\s*[:=]\s*` runs over line breaks
(`secrets.rs:66-80`), so a name and its value on the next line are a secret, also where the
head a window repeats ends with the name and the window starts with the value. An
assignment broken on both sides of its sign is left out. The text of a node may begin and end
inside a line (`ast.rs:190`); here it has full lines.

**ModelDownload** is `download_model` over attempts of processes: `MeasurePart`, the three
answers `PartialContent`, `WholeContent`, `RangeRefused`, then `Discard`, `OpenAppend` or
`Create`, `Receive` byte by byte, `EndBody`, `Rename`. Files are inodes shared by a path and
open handles, so two processes on one `.part` are modelled as they are. `Fails` may end an
attempt at any step. Nothing is lost between write and rename: the code does not fsync, and
the machine is not assumed to lose power. `Publish` gives the repository a new version.

## Runs

| run | instance | states | what it checks |
|---|---|---|---|
| `pipeline` | 2 files, 2 versions sharing a chunk, one run at a time, batches of 2 files, slices of 1 row, all faults | 1,174,729 | types; `IndexedHasVectors`, `IndexedHasText`; tiers never mix; a clean run covers; a full mark only beside a ready text index; the contract |
| `concurrent` | 1 file, 2 versions, 2 overlapping runs (full with a shallow pass; forced, filtered and with another model), stops; symmetric runs | 1,986,523 | `IndexedHasText` and the contract under overlap |
| `returns` | 1 file that also disappears, 2 runs, Lance failures, fair | 317,912 | every started run returns, or waits for the endpoint for ever |
| `recovery` | 2 files, 2 models, single runs, batches of 1 | 232,797 | the ready marker and the model name stay true across deletions, upgrades, rebuilds cut short and model changes |
| `server` | 1 file, 1 index call, 1 request, restarts, terminal runs | 1,013,137 | the phase has its tier; a cleared cache stays current |
| `search` | 2 requests around a call, an edit or a deleted store; 1 request over all orders of 4 chunks in 2 files and lists with doubles; filters of one, the other or both extensions, only one of which the vector query can select by; limits of 2 to 4 candidates | 1,077,903 | `RankedWell`, `QueryMatchesRows`, `OneEmbedder`, `HealthIsCurrent` |
| `assembly` | up to 4 of 6 hits in every order, budgets 1, 4 and 9, 1 or 2 files, up to 6 related files with up to 4 similar chunks | 95,516 | `KeptApart`, `NothingLost`, `LimitsHold`, `RelatedApart`, `BestComesFirst`; the loops end |
| `embedding` | 3 texts (one without tokens) in batches of 2, 2 dimensions, all answers with up to 3 records and some others | 41,796 | `VectorsInOrder`, `VectorsFit`, `RetryDiscipline`; the caller is served or told |
| `download` | 2 artifacts of 1 and 2 or 3 bytes, 2 versions, servers with and without ranges, 3 faults | 38,624 | `FinalIsWhole`, `PartIsPrefix`, `InstalledStays`; retries finish |
| `chunking` | files of 1 to 6 lines with up to one secret, in one line or over two or three, the trees that decide the walk, 24 configurations | 126,944 | `WindowsAdvance`, `SymbolsAreChunked` |

Why the bounds are enough. Two files make a batch partly failed, partly done and let a
filter leave one out; versions that share a chunk make a stored vector be reused; slices of
one row put a crash between two inserts of one file; two runs are what a lock excludes.
Batches of more than `REINDEX_FILE_BATCH` files occur in `recovery`. Edits never create
versions outside the listed ones; in `recovery` they do not delete files (see `ReadyHasText`
[below](#known-counterexamples)). In `search` two requests are what races for one cache
entry, and four chunks exceed every candidate limit, so that hits are cut off before the
filter sees them; the limits 4, 200, 64, 1024, 10000 of the code shrink in proportion, the
weights and `RRF_K` do not. In `assembly` three overlapping hits are needed for a merge to
reach a third, four for one behind it; six related files exceed the five that are taken, and
four similar chunks of one of them, which two tiers propose, the three; a
budget of 1 cuts every package, and one hit without content is one the refill and the cuts
must get past. In `embedding` the batch of two leaves a last batch of one, and an answer may
have too few, too many, doubled or strange indices; all five attempts happen. In `download`
three faults are enough to interrupt one artifact twice and to publish in between; a part
limit of 2 bytes makes the 4 GiB rule happen. In `chunking` windows of 0 to 3 lines meet
overlaps of 0, 34 and 255 percent, and secrets lie over the border of two windows, within
one, and over the border of a repeated head and its window.

What a run is too small for: `server` has one index call and one request. A second call that
fails on the busy writer while the first still writes, and a foreign process between the
release of the writer and the read of the ready marker when a call is in progress too, are
covered by the theorem `PhaseIsTrue`, for any number of calls and requests, not by TLC.
`recovery` has one run at a time, and so do its theorems. `search` never deletes the store
while a request holds it open (the guard of `DeleteStore`).

**Fairness.** `returns`: `WF_vars(RunStep(r) /\ ~AtEndpoint(r))`, the runtime keeps polling a
run it has started, but nobody owes it the answer of the endpoint: a run that has to embed a
chunk (`AtEndpoint`) awaits an HTTP client without a timeout (`openai.rs:175`). Nothing is
assumed of edits, starts or faults. `RunsReturn` says of each run that it returns or is at the
endpoint for ever, then with the writer in its hands; the other run returns even so, with an
error. A batch that fails is not retried, so that failing runs return is the property. `assembly`: the one task goes on. `embedding`: the task
goes on, but no answer of an endpoint is assumed, because the HTTP client is built without
a timeout (`openai.rs:175`); `Ends` therefore allows to wait for ever. `download`:
`WF_vars(RunStep(r))` says that the user starts the command again until the model is
there and that the server answers; at most `MaxFaults` attempts fail for another reason.

**Deadlock** is checked where the system can always go on (the index core and the server
can start a run, the user can start a download). `assembly`, `embedding`, `chunking` and
`search` model one task or requests that end, and switch the check off; for the first two
`Assembles` and `Ends` show that they end at a place where they may.

## What disagrees with the documents

Each is a run that TLC must find violated; `PROJECT.json` quotes the text.

| run | what happens |
|---|---|
| `shallow_demotion` | A second `index_codebase` over an unchanged project replaces all deep keyword rows by shallow ones, and the hash gate keeps the deep pass from restoring them. |
| `stuck_part` | An attempt that ends after the last byte and before the rename leaves a complete `.part`. The next one asks for the range behind its end, gets 416, and returns an error that leaves everything as it is: the model is never installed until somebody deletes the file. |

## Known counterexamples

The modules keep definitions that TLC refutes, for whoever changes that code. To see one,
name it as the INVARIANT or PROPERTY of a copy of the configuration.

| definition | in | sequence |
|---|---|---|
| `FullIsKept` | `concurrent` | Metadata loaded before the lock is saved after it: a completed full index loses its timestamp (`vector_store/mod.rs:458`). |
| `FullLeavesNoFailure` | `pipeline` | A filtered run records a completed full index although a file outside the filter is `Failed` (`cli.rs:583`). |
| `OneModel` | `concurrent` | Two first runs with different models leave rows of both under one name (`vector_store/mod.rs:209`). For runs one after the other it holds (`recovery`). |
| `DeletedStoreOpens` | `recovery` | "delete {lance_dir} and run `vektor index` again" does not help: the model name is in a file beside that directory (`vector_store/mod.rs:224`). |
| `CompleteIndexIsServed` | `server` | A server asked before the first index answers "building" for ever, when the index is made from a terminal (`index_status.rs:77`). |
| `ReadyHasText` | `recovery` with edits that delete a file | A file is absent during the full run after a schema upgrade and comes back with its old bytes: its hash still says indexed, so its keyword rows are never made again, beside a ready marker (`text_index.rs:380`). |
| `ReadyHasText` | `recovery` with two `Runs` | Two runs find the old schema. One removes the directory, takes the writer of the new index and commits; then the other removes that. The first goes on to set the ready marker and its files indexed, without a row (`text_index.rs:371-387`: the check and the removal hold no lock). |
| `LeftMarkerHasText` | `recovery` | A removal is cut short after the index and before the ready marker. The next `open_or_create` finds a directory without `meta.json` and makes a fresh, empty index beside the old marker, so nothing forces the unchanged files (`text_index.rs:378`). `ReadyHasText` exempts this state (`orphan`). |
| `SpreadSecretsStay` | `chunking` | `key =` in the last line before a window and its value in the first line of it: the window passes the gate with the value. An overlap does not help: the window before then shows both lines and is kept back, the next still begins with the value. |
| `DroppedStaysOut` | `assembly` | A file all of whose hits the filters dropped is proposed and comes back as a related one: `expand` only knows the results it is passed (`expander.rs:42`). |
| `PooledInOrder` | `embedding` with `Configs <- PooledConfigs` | A model whose first output is one row per text is pooled as if it had token rows: vectors mix texts (`onnx.rs:288`). |
| `FinalIsWhole` | `download` with two `Runs` | Two processes append to one `.part` (`models.rs:260`). |
| `FinalIsWhole` | `download` with `FreeRepository = TRUE` | A part of one version is continued with bytes of the next: the range request carries no `If-Range`. |
| `FinalIsWhole` | `download` with `"close"` in `Framings` | A body without a length that ends early looks complete (`models.rs:278` compares nothing). |

Smaller observations, made while translating: in the Partial tier the raw query goes to
Tantivy's parser without synonyms and may fail to parse; a filter of alphanumeric and other
extensions together (`rs` and `c++`) drops the latter from the vector query, because
`extension_filter_predicate` makes a LIKE predicate of the former only (`handlers.rs:1711`),
so a semantic search never answers with them; the extension filter behind the search sees
the first `expanded_search_limit` hits only, so with more than that many better hits of
other files an answer may be short or empty although a wanted chunk was read; equal chunks
of a file may be apart in a list, and then the later copy of one stands behind a worse
chunk. `RankedWell` is stated so that it says exactly this much: `Reachable` counts what the
queries select, a hit may be left out of an answer that is not full only behind
`SearchLimit` others no worse than it, and the order allows a repetition of an id that came
before. With 2000 files or more the rounded coverage shows 100.0 % with a file missing; an
error while counting is cached as health for up to 30 s. A merged hit has the lines of all
its hits but the text of one (`dedup.rs:93`), so `NothingLost` speaks of lines and scores.

## Proofs

TLAPS proves these for every value of the constants that satisfies the assumptions the
modules name (which TLC evaluates in every run): any number of files, runs, requests, hits,
texts or bytes, every batch and slice size, every set of faults.

| module | theorem | states |
|---|---|---|
| IndexPipelineProofs | `TypeCorrect`, `IndexInvariant` | `[]TypeOK`; `[]IndexInv`, the inductive invariant |
| | `IndexedFilesHaveVectors`, `IndexedFilesHaveText` | `[]IndexedHasVectors`, `[]IndexedHasText` |
| | `FullMarkNeedsReady`, `TiersAreExclusive` | `[]FullNeedsReady`, `[]TiersNeverCoexist` |
| | `CleanRunsCover` | `[]CleanRunCovers` |
| | `VectorsRefine`, `ContractSuffices` | `VectorsKeepContract`, the refinement; `ContractSpec => []TrustedRowsAreRight` |
| IndexRecoveryProofs | `ReadyMarkHasText` | `[]ReadyHasText`, if there is one run at a time and no edit deletes a file |
| | `SingleRunsKeepOneModel` | `[]OneModel`, if there is one run at a time |
| McpServerProofs | `ServerKeepsIndex` | `ServerSpec => [](IndexInv /\ ServerInv)`, the composition |
| | `ServerTyped`, `PhaseIsTrue`, `ClearedCacheIsCurrent` | `[]ServerTypeOK`, `[]PhaseHasItsTier`, `[]CacheIsCurrent` |
| SearchProofs | `SearchInvariant`, `ListsAreRead` | `[]RequestInv`; `[](SearchInv /\ Numbered)` |
| | `EmbeddersAreShared`, `VectorsMeetTheirModel`, `CachedHealthIsCurrent` | `[]OneEmbedder`, `[]QueryMatchesRows`, `[]HealthIsCurrent` |
| | `SearchIsTyped`, `AnswersAreRanked` | `[]SearchTypeOK`, `[]RankedWell` |
| AssemblyProofs | `DedupInvariant`, `LimitInvariant` | the inductive invariants of the two halves |
| | `NoHalfOverlap`, `MergingLosesNothing`, `ExpansionIsBounded` | `[]KeptApart`, `[]NothingLost`, `[]RelatedApart` |
| | `PackageKeepsLimits`, `FirstIsBest`, `AssemblyTyped` | `[]LimitsHold`, `[]BestComesFirst`, `[]AssemblyTypeOK` |
| EmbeddingProofs | `EmbeddingInvariant` | `[]EmbeddingInv` |
| | `VectorsBelong`, `DimensionKept`, `RetriesDisciplined`, `EmbeddingTyped` | `[]VectorsInOrder`, `[]VectorsFit`, `[]RetryDiscipline`, `[]EmbeddingTypeOK` |
| ChunkingProofs | `ChunkingIsInvariant` | `[]ChunkingInv` |
| | `WindowsOfARunAdvance`, `SymbolsReachTheGate`, `ChunkingTyped` | `[]WindowsAdvance`, `[]SymbolsAreChunked`, `[]ChunkingTypeOK` |
| DownloadProofs | `DownloadInvariant` | `OneAtATime` implies `[]DownloadInv` |
| | `InstalledIsWhole`, `PartResumes`, `InstalledUntouched`, `DownloadTyped` | under it `[]FinalIsWhole`, `[]PartIsPrefix`, `InstalledStays`, `[]DownloadTypeOK` |

*Why `IndexedHasVectors` is not inductive*: nothing in it says that the run about to call
a file `Indexed` has written the rows, or that no other run is writing them.
`IndexInv` adds, for each run: past the opening it holds the writer lock (`WriterInv`),
hence it is alone there; a file in one of its queues is `Pending` at the hash it took,
and the queues are disjoint (`QueueInv`); how much of each file has reached Lance at each
step (`VectorsInv`) and Tantivy (`TextInv`); and a run elsewhere has nothing queued
(`QuietInv`). A step of a run preserves another run's part because only the lock holder
writes rows and statuses (the lemmas on frames); its own part by one lemma per action.
The step of `CommitText` is where `TextInv` turns queued operations into rows, `SetIndexed`
where the parts give the two invariants.

`FullNeedsReady` needs `MarkersInv`: the markers are set in order, never removed, and a run
whose copy of the metadata has the mark has seen both markers. `TiersNeverCoexist` needs
`TiersInv`: every commit replaces all rows of a file by rows of one tier. The refinement
maps `SetHash(.., "pending")` to `Distrust`, `DeleteRows` and `InsertSlice` to `Rewrite`
of the batch, `SetIndexed` to `Trust`, and the rest to stuttering; `ReadFile` distrusts
a file by making it torn only when it is not trusted anyway.

`CleanRunCovers` speaks of the end of a run, and is carried there by `CoverInv`: from the
gate to the end, every file of the project is still to be visited, being read, in one of the
run's queues at the version on disk, or *settled* - indexed at what is on disk now, unless
it was edited since the run began or read torn; or the run has counted a failure. Each step
moves files from one of these to the next; that no other run unsettles a file meanwhile is
the argument of the lock again.

*Recovery.* After a deleted LanceDB directory or a rebuilt Tantivy directory `IndexInv` is
false: files are called indexed whose rows are gone. What stays true is `IndexInvBut(X, Y)`,
the same invariant but for the vectors of the files in X and the keyword rows of those in Y;
the lemmas of the pipeline are proved for it, with `IndexInv` the case of two empty sets,
and `CoreInv` is what is left for all files. `ReadyHasText` then follows from `ReadyInv`:
whoever is going to set the marker has every file without rows still to gate, with the gate
forced open, and before that no indexed file outside its scope lacks rows (`MarkInv`); a run
that is about to remove the directory is still in front of its index pass (`LockInv`), so with
one run at a time nobody else is in one; and every file the hash store knows is on disk, so
that a full run finds it (`KnownInv`). The last is where a deleted file escapes, and all the
proof takes from the assumption that no edit deletes one. Without the assumption of one run
the theorem is false, see above: nothing excludes the removal.
`OneModel` needs that the run with the open store is the only one (`ModelInv`): its copy of
the metadata names the model of all rows. With two runs TLC finds it violated, see above.

*The server.* A server step is a step of the index core, a stop of several runs at once
(the restart), or one that leaves the stores alone, so `IndexInv` carries over; `ServerInv`
adds that whoever is about to write a phase - a late lookup, a restore, the end of a call -
holds one that is justified, which stays so because markers are never removed; and that
after a clear no run is under way, so what a request that began later has read is what the
stores hold.

*Search.* `RequestInv` says of a request between the lookup and the search that the cache
holds its embedder under its key (`or_insert_with` keeps the first), that an open store
still has the model it was opened with, and of counts made since the last clear that a
count would give the same now. Deleting the store by hand between the choice of the backend
and the opening is among the steps.

`RankedWell` is about what the search computes, so its proof starts at the operators.
`Recursion`, by the least length at which it could fail (the numbers are well-founded),
shows that a function defined along a list exists and satisfies its equation; `Among` then
picks places in order (`AmongPicks`), and `Gathered` is a sum over places (`GatheredSums`).
`Ranks` shows that counting what is ahead numbers a finite total order from 0 without gaps,
so that every CHOOSE of `Fused` finds its id. The lemma that ties order to score is
`AheadGathers`: if every head of a list has i at least as often as j, i gathers at least as
much, and more unless the same holds the other way; along the list the difference of the two
sums stays at least the surplus of occurrences times the next share, which needs shares that
fall strictly with the rank (`SharesFall`, the reason for `ExactAssumption`) and a positive
weight for both lists. Hence a chunk that dominates another has the better score
(`DominatesScores`); `AnswerRanked` carries the order through the cut, the filter and the
second cut by counting. `SearchInv` finally says of every request that its lists are the
first entries of what the stores had when it read them, whatever was indexed since, and that
its answer is `Filtered` of them.

*Assembly.* Deduplication compares the active hit with its successor only. Why no earlier
one can overlap too much is the invariant `Loop`: what is settled starts before the active
hit, ends before it, and does not merge with it; growing the active hit at its end does not
change that, since an overlap with a hit that starts earlier and ends earlier depends on its
start. `Expansion` keeps the files to expand apart from those of the hits passed on, each
once, so that the chunks of a file are those of one query. The second half keeps `WithinBudget` only once it is checked, because estimates
decide the first pass; the file limit from the start; and the best chunk first, because the
first pass takes the first chunk whatever it costs and everything later appends or cuts.

*Embedding.* The order is a permutation, found by a pigeonhole lemma; the vectors so far are
those of the sorted texts before that position; pooling over `CellsOf` a row meets that
row's cells only, a fact of division proved once. `attempt` is the number of answers so far,
all of which were transient.

*Chunking.* The stack alone does not say which nodes the walk has been at. `WalkInv` claims
that there is a set V of them: the frames are a path of enclosing nodes, their children are
in V or still to do (`FrameInv`); a node of V that is left has all its children in V, and its
lines in chunks, in the window at work, or owed by a symbol inside (`LeftInv`). A step puts
at most one node into V, and when the stack is empty V is the tree. That the lines of a class
without inner symbols are those it owes is where nested nodes are needed. `WindowInv` says
that the window loop has covered its run up to the last chunk, and that its step, at least
one line and at most the window, is what the next chunk starts after. The chunks are sorted
afterwards, so `WindowsAdvance` is kept in a form that sorting preserves (`Advance`): of two
windows of a run the earlier one starts and ends before, and is joined by a later one.
`GateInv` carries the secrets: the content of what is let through so far shows none. That the
*lines* of a passed chunk show none either, however many lines a secret has, is
`LinesShowSecret`: the lines of a chunk are the last ones of its content, at one distance.

*Download.* Every `.part` continues the version the repository serves, and a run at each step
knows its length (`Measured`, `Opening`, `Writing`), so what it renames is whole. `OneAtATime`
- one process, bodies whose end is announced, no new version below a half-done download - is
what the property needs: without any of the three TLC finds it violated (see above).

*Model-checked only*: liveness (`RunsReturn`, `Assembles`, `Ends`, `RetriesFinish`), which is
out of the prover's reach. The two violation runs show what the code does, on an instance.
Where a definition is recursive, the lemmas above fix the list and go along it by a least
counterexample; the library's induction theorems, which take an operator, are not used.

## Not modelled

- *Data the properties do not tell apart*: BM25 and vector distances (an order is given),
  `f32` rounding, tokenizers and token counts, tree-sitter's grammars, the synonym table, the
  patterns of secrets (but for the lines an assignment spans) and of ignore files, the wording of warnings and errors.
- *Static or pure plumbing*: MCP schemas and the stdio transport, argument parsing, the
  configuration file and its merging, benchmark reports, telemetry, the error enum, the
  registry of models. `WarmUp::run` keeps no state; its two calls are a call list of
  Embedding.
- `init.rs`: it writes independent files one after the other. That a failing second write
  leaves the first is listed as a hazard and is visible in the code.
- *Time*: TTLs are expiry at any moment, sleeps and backoff are no steps; that a stale entry
  lives no longer than its TTL is not stated.
- *Power loss*: what is written is durable, in order.
- Rows of files that were deleted stay in the stores, in the code and in the model; no
  property is stated about them.

## Plan

What is done is marked.

1. [done] `IndexPipeline` with the contract, crash and overlap runs; inductive invariant,
   row invariants, refinement, markers and tiers proved.
2. [done] `IndexRecovery`, `McpServer` with their runs; `McpServerProofs`.
3. [done] `SearchRequests`: health and embedder cache, fusion, hydration; `SearchProofs`.
4. [done] `ModelDownload`, `Embedding`, with their proofs.
5. [done] `ContextAssembly` with its proofs; `Chunking`.
6. [done] `CleanRunCovers`; `IndexRecoveryProofs`; `ChunkingProofs`; the ranking and the
   types of a search; the bounds of expansion.
7. The refinement of `IndexContract` for the keyword rows, beside that for the vectors; what
   a torn file may and may not lose, as an action property of IndexPipeline.
8. The steps of McpServer shown to be those of SearchRequests' reduced index calls.
9. `InitConfig`: planned changes and partly written files.

## Running it

```
tlc -workers 2 -config pipeline.cfg MCIndexPipeline
tlc -workers 2 -config stuck_part.cfg MCModelDownload
tlapm IndexPipelineProofs.tla
```

The run of a name uses the configuration of that name; `PROJECT.json` has its module. No run
takes more than about two minutes; the proof modules take between one and several minutes
each. Definitions whose comment begins with "Mutant:" are not part of the model: each is a
plausible mistake in the definition that follows it, and `PROJECT.json` says which property
it breaks.
