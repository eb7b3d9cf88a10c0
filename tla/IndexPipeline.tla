--------------------------- MODULE IndexPipeline ---------------------------
(***************************************************************************)
(* The index core of Vektor: one run of `vektor index` or of the MCP tool  *)
(* index_codebase over the three durable stores of a project,              *)
(*   - the hash store state.db      (src/state.rs),                        *)
(*   - the LanceDB chunks table and vector_meta.json (src/vector_store),   *)
(*   - the Tantivy index with its two marker files   (src/text_index.rs),  *)
(* while the working tree changes, calls fail, processes stop and other    *)
(* runs compete for the single Tantivy writer.                             *)
(*                                                                         *)
(* Data abstraction: a file version is a member of Contents; the chunker   *)
(* is the function ChunksOf from versions to sets of chunks (a chunk is    *)
(* its content hash; two versions may share one, a version may have none). *)
(* A Lance row of a file is <<chunk, model that embedded it>>; a Tantivy   *)
(* row is <<"deep", chunk>> or <<"shallow", version it projects>>.         *)
(* Files are the files discovery returns and the secret gate lets through. *)
(***************************************************************************)
EXTENDS Naturals, FiniteSets

CONSTANTS
    Files,       \* relative paths of the project
    Contents,    \* versions a file's bytes may have
    Chunks,      \* content hashes of chunks
    ChunksOf,    \* chunk_file after the content-level secret gate
    Models,      \* embedding models a run may be configured with
    Runs,        \* index calls that may be in progress at the same time
    Requests,    \* the arguments those calls are made with
    BatchFiles,  \* REINDEX_FILE_BATCH
    InsertRows,  \* INSERT_BATCH
    Edits,       \* <<file, version>>: the edits made to the working tree
    Faults,      \* which calls the environment makes fail
    Absent,      \* no version: the file does not exist / has no hash row
    NoModel,     \* vector_meta.json does not exist
    NoRun,       \* nobody holds the Tantivy writer lock
    NoFile

FaultKinds == {"stop", "read", "lance", "text"}

(* What a call asks for.  full: a directory without an extension filter    *)
(* (is_full_directory_path); otherwise scope lists the files the filter or *)
(* the single-file path leaves.  shallow: an MCP call without `extensions`,*)
(* which builds the shallow tier first.                                    *)
Request == [full : BOOLEAN, scope : SUBSET Files, force : BOOLEAN,
            shallow : BOOLEAN, model : Models]

ASSUME ConstantsAssumption ==
    /\ ChunksOf \in [Contents -> SUBSET Chunks]
    /\ Requests \subseteq Request /\ Requests # {}
    /\ Edits \subseteq Files \X (Contents \cup {Absent})
    /\ Faults \subseteq FaultKinds
    /\ BatchFiles \in Nat \ {0}
    /\ InsertRows \in Nat \ {0}
    /\ Absent \notin Contents
    /\ NoModel \notin Models
    /\ NoRun \notin Runs
    /\ NoFile \notin Files

-----------------------------------------------------------------------------
VARIABLES
    disk,        \* working tree: Files -> version or Absent
    hashStore,   \* file_hashes table: Files -> [hash, status]
    lance,       \* chunks table: Files -> set of <<chunk, model>>
    table,       \* does the chunks table exist?
    metaFile,    \* vector_meta.json: [model, full]
    text,        \* committed Tantivy rows: Files -> set of <<depth, x>>
    searchable,  \* vektor_text_index_searchable exists
    ready,       \* vektor_text_index_ready exists
    writer,      \* who holds the Tantivy writer lock
    pc,          \* where each run is
    w,           \* the arguments and local variables of each run
    torn,        \* history: files whose last read saw another version than
                 \*          the hash taken just before it
    dirty        \* history: files edited since a run started

tree    == <<disk, dirty>>
vectors == <<lance, table, metaFile>>
keyword == <<text, searchable, ready>>
vars    == <<disk, hashStore, lance, table, metaFile, text, searchable, ready,
             writer, pc, w, torn, dirty>>

FileStatus == {"none", "pending", "indexed", "failed"}
HashRow  == [hash : Contents \cup {Absent}, status : FileStatus]
LanceRow == Chunks \X Models
Meta     == [model : Models \cup {NoModel}, full : BOOLEAN]
TextRow  == ({"deep"} \X Chunks) \cup ({"shallow"} \X Contents)
DeepRows(c)    == {"deep"} \X ChunksOf[c]
ShallowRows(c) == {<<"shallow", c>>}

ShallowPCs == {"shallow-read", "shallow-commit", "shallow-mark"}
DeepPCs == {"gate", "read", "batch", "delete", "embed", "insert", "text",
            "searchable", "ready", "full", "indexed"}
Locked  == ShallowPCs \cup DeepPCs
PCs     == {"idle", "shallow", "open", "eager", "create", "lock"} \cup Locked

(* The arguments and local variables of index_path_with_options and        *)
(* index_path_with_embedder_source.                                        *)
Locals == [
    req   : Request,
    meta  : Meta,                                   \* VectorStore::meta
    lazy  : BOOLEAN,                                \* EmbedderSource::Lazy
    force : BOOLEAN,                                \* run_options.force
    mark  : BOOLEAN,                                \* mark_text_index_ready
    scope : SUBSET Files,                           \* files collected
    todo  : SUBSET Files,                           \* not yet gated
    cur   : Files \cup {NoFile},                    \* hashed, not yet read
    seen  : [Files -> Contents \cup {Absent}],      \* content_hash
    got   : [Files -> Contents \cup {Absent}],      \* version that was read
    queue : SUBSET Files,                           \* pending
    batch : SUBSET Files,                           \* current batch
    cache : SUBSET LanceRow,                        \* existing embeddings
    rows  : SUBSET (Files \X LanceRow),             \* rows left to insert
    touched : SUBSET Files,                         \* files with queued ops
    ops   : [Files -> SUBSET TextRow],              \* rows they end up with
    done  : SUBSET Files,                           \* processed_files
    failed : BOOLEAN ]                              \* stats.failed > 0

NoMeta == [model |-> NoModel, full |-> FALSE]
NewLocals(q) == [
    req |-> q, meta |-> NoMeta, lazy |-> FALSE, force |-> FALSE,
    mark |-> FALSE, scope |-> {}, todo |-> {}, cur |-> NoFile,
    seen |-> [f \in Files |-> Absent], got |-> [f \in Files |-> Absent],
    queue |-> {}, batch |-> {}, cache |-> {}, rows |-> {}, touched |-> {},
    ops |-> [f \in Files |-> {}], done |-> {}, failed |-> FALSE ]
Idle == NewLocals(CHOOSE q \in Requests : TRUE)

Init ==
    /\ disk = [f \in Files |-> Absent]
    /\ hashStore = [f \in Files |-> [hash |-> Absent, status |-> "none"]]
    /\ lance = [f \in Files |-> {}]
    /\ table = FALSE
    /\ metaFile = NoMeta
    /\ text = [f \in Files |-> {}]
    /\ searchable = FALSE /\ ready = FALSE
    /\ writer = NoRun
    /\ pc = [r \in Runs |-> "idle"]
    /\ w = [r \in Runs |-> Idle]
    /\ torn = {}
    /\ dirty = [r \in Runs |-> {}]

Present == {f \in Files : disk[f] # Absent}
Collected(q) == IF q.full THEN Present ELSE q.scope \cap Present
LanceChunks(f) == {row[1] : row \in lance[f]}
SetHash(F, h, s) ==
    [f \in Files |-> IF f \in F THEN [hash |-> h[f], status |-> s]
                     ELSE hashStore[f]]
(* IndexWriter::commit: every file with queued operations gets its rows.   *)
Applied(l) == [f \in Files |-> IF f \in l.touched THEN l.ops[f] ELSE text[f]]

(* Run r's locals become l.                                               *)
Locally(r, l) == w' = [w EXCEPT ![r] = l]
Goto(r, label) == pc' = [pc EXCEPT ![r] = label]

(* The run returns, with an error or at its end: its locals are dropped,   *)
(* and with its TextIndex the uncommitted operations and the writer lock.  *)
Return(r) ==
    /\ Goto(r, "idle")
    /\ Locally(r, Idle)
    /\ dirty' = [dirty EXCEPT ![r] = {}]
    /\ writer' = IF writer = r THEN NoRun ELSE writer

-----------------------------------------------------------------------------
(* The environment.                                                        *)

(* Somebody edits, creates or deletes a file of the working tree.          *)
Edit(f, c) ==
    /\ disk[f] # c
    /\ disk' = [disk EXCEPT ![f] = c]
    /\ dirty' = [r \in Runs |->
                    IF pc[r] = "idle" THEN {} ELSE dirty[r] \cup {f}]
    /\ UNCHANGED <<hashStore, vectors, keyword, writer, pc, w, torn>>

Start(r, q) ==
    /\ pc[r] = "idle"
    /\ Goto(r, IF q.shallow THEN "shallow" ELSE "open")
    /\ Locally(r, NewLocals(q))
    /\ UNCHANGED <<tree, hashStore, vectors, keyword, writer, torn>>

(* The process dies, or a `?` of the run returns an error of a store: what *)
(* is already durable stays.                                               *)
Stop(r) ==
    /\ "stop" \in Faults
    /\ pc[r] # "idle"
    /\ Return(r)
    /\ UNCHANGED <<disk, hashStore, vectors, keyword, torn>>

-----------------------------------------------------------------------------
(* ShallowIndexer::build.                                                  *)

(* Mutant: the writer lock is granted to everybody.                        *)
TakeWriterAnyway(r) == writer' = r

(* Tantivy grants one writer; a second TextIndex::new fails with LockBusy. *)
TakeWriter(r) == writer = NoRun /\ writer' = r

ShallowOpen(r) ==
    /\ pc[r] = "shallow"
    /\ TakeWriter(r)
    /\ Goto(r, "shallow-read")
    /\ UNCHANGED <<tree, hashStore, vectors, keyword, w, torn>>

WriterBusy(r) ==
    /\ pc[r] \in {"shallow", "lock"}
    /\ writer # NoRun
    /\ Return(r)
    /\ UNCHANGED <<disk, hashStore, vectors, keyword, torn>>

(* Mutant: files that vanished are projected too.                          *)
ShallowReadVanished(r, unreadable) ==
    /\ pc[r] = "shallow-read"
    /\ unreadable = {}
    /\ Locally(r, [w[r] EXCEPT !.touched = Files,
                               !.ops = [f \in Files |-> ShallowRows(disk[f])]])
    /\ Goto(r, "shallow-commit")
    /\ UNCHANGED <<tree, hashStore, vectors, keyword, writer, torn>>

(* One shallow document per readable file replaces whatever the file had.  *)
ShallowRead(r, unreadable) ==
    /\ pc[r] = "shallow-read"
    /\ unreadable \subseteq Collected(w[r].req)
    /\ unreadable # {} => "read" \in Faults
    /\ Locally(r, [w[r] EXCEPT !.touched = Collected(w[r].req) \ unreadable,
                               !.ops = [f \in Files |->
                                   IF disk[f] = Absent THEN {}
                                   ELSE ShallowRows(disk[f])]])
    /\ Goto(r, "shallow-commit")
    /\ UNCHANGED <<tree, hashStore, vectors, keyword, writer, torn>>

ShallowCommit(r) ==
    /\ pc[r] = "shallow-commit"
    /\ text' = Applied(w[r])
    /\ Locally(r, NewLocals(w[r].req))
    /\ Goto(r, "shallow-mark")
    /\ UNCHANGED <<tree, hashStore, vectors, searchable, ready, writer, torn>>

ShallowMark(r) ==
    /\ pc[r] = "shallow-mark"
    /\ searchable' = TRUE
    /\ writer' = NoRun
    /\ Goto(r, "open")
    /\ UNCHANGED <<tree, hashStore, vectors, text, ready, w, torn>>

-----------------------------------------------------------------------------
(* index_path_with_options: open the vector store, then the text index.    *)

HasStore == metaFile.model # NoModel /\ table

(* VectorStore::open_existing: meta is read here, before the writer lock.  *)
OpenExisting(r) ==
    /\ pc[r] = "open"
    /\ HasStore
    /\ Locally(r, [w[r] EXCEPT !.scope = Collected(w[r].req),
                               !.todo = Collected(w[r].req),
                               !.meta = metaFile, !.lazy = TRUE])
    /\ Goto(r, "lock")
    /\ UNCHANGED <<tree, hashStore, vectors, keyword, writer, torn>>

(* It returns Err: the eager path, which builds the embedder first.        *)
NoStore(r) ==
    /\ pc[r] = "open"
    /\ ~HasStore
    /\ Locally(r, [w[r] EXCEPT !.scope = Collected(w[r].req),
                               !.todo = Collected(w[r].req)])
    /\ Goto(r, "eager")
    /\ UNCHANGED <<tree, hashStore, vectors, keyword, writer, torn>>

(* VectorStore::new loads the meta another run may have saved by now,      *)
OpenNew(r) ==
    /\ pc[r] = "eager"
    /\ metaFile.model \in {NoModel, w[r].req.model}
    /\ Locally(r, [w[r] EXCEPT !.meta = [metaFile EXCEPT
                                            !.model = w[r].req.model]])
    /\ Goto(r, "create")
    /\ UNCHANGED <<tree, hashStore, vectors, keyword, writer, torn>>

(* creates the chunks table and saves the meta it loaded.                  *)
CreateTable(r) ==
    /\ pc[r] = "create"
    /\ table' = TRUE
    /\ metaFile' = w[r].meta
    /\ Goto(r, "lock")
    /\ UNCHANGED <<tree, hashStore, lance, keyword, writer, w, torn>>

ModelMismatch(r) ==
    /\ pc[r] = "eager"
    /\ metaFile.model \notin {NoModel, w[r].req.model}
    /\ Return(r)
    /\ UNCHANGED <<disk, hashStore, vectors, keyword, torn>>

(* TextIndex::new and IndexRunOptions::from_index_options.                 *)
OpenText(r) ==
    /\ pc[r] = "lock"
    /\ TakeWriter(r)
    /\ Locally(r, [w[r] EXCEPT !.force = w[r].req.force \/ ~ready,
                               !.mark = ready \/ w[r].req.full])
    /\ Goto(r, "gate")
    /\ UNCHANGED <<tree, hashStore, vectors, keyword, torn>>

-----------------------------------------------------------------------------
(* Phase 1: hash gate and chunking, one file after the other.              *)

(* Mutant: the status of the stored hash is not looked at.                 *)
ShouldProcessByHash(l, f) == l.force \/ hashStore[f].hash # disk[f]

ShouldProcess(l, f) ==
    \/ l.force
    \/ hashStore[f].hash # disk[f]
    \/ hashStore[f].status # "indexed"

SkipUnchanged(r, f) ==
    /\ pc[r] = "gate" /\ f \in w[r].todo
    /\ disk[f] # Absent
    /\ ~ShouldProcess(w[r], f)
    /\ Locally(r, [w[r] EXCEPT !.todo = @ \ {f}])
    /\ UNCHANGED <<tree, hashStore, vectors, keyword, writer, pc, torn>>

(* Mutant: the file is not set Pending before it is processed.             *)
GateWithoutPending(r, f) ==
    /\ pc[r] = "gate" /\ f \in w[r].todo
    /\ disk[f] # Absent
    /\ ShouldProcess(w[r], f)
    /\ Locally(r, [w[r] EXCEPT !.todo = @ \ {f}, !.cur = f,
                               !.seen[f] = disk[f]])
    /\ Goto(r, "read")
    /\ UNCHANGED <<tree, hashStore, vectors, keyword, writer, torn>>

Gate(r, f) ==
    /\ pc[r] = "gate" /\ f \in w[r].todo
    /\ disk[f] # Absent
    /\ ShouldProcess(w[r], f)
    /\ hashStore' = SetHash({f}, disk, "pending")
    /\ Locally(r, [w[r] EXCEPT !.todo = @ \ {f}, !.cur = f,
                               !.seen[f] = disk[f]])
    /\ Goto(r, "read")
    /\ UNCHANGED <<tree, vectors, keyword, writer, torn>>

(* hash_file(..)? on a file that has gone aborts the whole run.            *)
HashFileFails(r, f) ==
    /\ pc[r] = "gate" /\ f \in w[r].todo
    /\ disk[f] = Absent
    /\ Return(r)
    /\ UNCHANGED <<disk, hashStore, vectors, keyword, torn>>

(* The file is read a second time, after its hash was taken.               *)
ReadFile(r) ==
    LET f == w[r].cur IN
    /\ pc[r] = "read"
    /\ disk[f] # Absent
    /\ Locally(r, [w[r] EXCEPT !.cur = NoFile, !.got[f] = disk[f],
                               !.queue = @ \cup {f}])
    /\ torn' = IF disk[f] = w[r].seen[f] THEN torn \ {f} ELSE torn \cup {f}
    /\ Goto(r, "gate")
    /\ UNCHANGED <<tree, hashStore, vectors, keyword, writer>>

ReadFileFails(r) ==
    LET f == w[r].cur IN
    /\ pc[r] = "read"
    /\ disk[f] = Absent \/ "read" \in Faults
    /\ hashStore' = SetHash({f}, w[r].seen, "failed")
    /\ Locally(r, [w[r] EXCEPT !.cur = NoFile, !.failed = TRUE])
    /\ Goto(r, "gate")
    /\ UNCHANGED <<tree, vectors, keyword, writer, torn>>

GateDone(r) ==
    /\ pc[r] = "gate" /\ w[r].todo = {}
    /\ Goto(r, "batch")
    /\ UNCHANGED <<tree, hashStore, vectors, keyword, writer, w, torn>>

-----------------------------------------------------------------------------
(* Phase 2: VectorStore::reindex_files per batch, Tantivy per file.        *)

(* Mutant: the factory does not compare the embedder with the store.       *)
EmbedderAlwaysFits(l) == TRUE

(* The lazy embedder is built for the first batch and checked then.        *)
EmbedderFits(l) == l.lazy => l.meta.model = l.req.model

IsSlice(S, queue, n) ==
    /\ S \subseteq queue
    /\ Cardinality(S) = IF Cardinality(queue) < n THEN Cardinality(queue)
                        ELSE n

TakeBatch(r, B) ==
    /\ pc[r] = "batch" /\ w[r].queue # {}
    /\ EmbedderFits(w[r])
    /\ IsSlice(B, w[r].queue, BatchFiles)
    /\ Locally(r, [w[r] EXCEPT !.batch = B, !.queue = @ \ B])
    /\ Goto(r, "delete")
    /\ UNCHANGED <<tree, hashStore, vectors, keyword, writer, torn>>

EmbedderRefused(r) ==
    /\ pc[r] = "batch" /\ w[r].queue # {}
    /\ ~EmbedderFits(w[r])
    /\ Return(r)
    /\ UNCHANGED <<disk, hashStore, vectors, keyword, torn>>

(* Read the stored vectors of the batch, then delete its rows; the meta is *)
(* saved when rows were deleted.                                           *)
DeleteRows(r) ==
    LET old == UNION {lance[f] : f \in w[r].batch} IN
    /\ pc[r] = "delete"
    /\ lance' = [f \in Files |-> IF f \in w[r].batch THEN {} ELSE lance[f]]
    /\ metaFile' = IF old # {} THEN w[r].meta ELSE metaFile
    /\ Locally(r, [w[r] EXCEPT !.cache = old])
    /\ Goto(r, "embed")
    /\ UNCHANGED <<tree, hashStore, table, keyword, writer, torn>>

(* A stored vector is reused, a cache miss is embedded with the run's      *)
(* model.                                                                  *)
VectorOf(l, k) ==
    IF \E row \in l.cache : row[1] = k
    THEN CHOOSE row \in l.cache : row[1] = k
    ELSE <<k, l.req.model>>

PlannedRows(l) ==
    UNION {{<<f, VectorOf(l, k)>> : k \in ChunksOf[l.got[f]]} : f \in l.batch}

Embed(r) ==
    /\ pc[r] = "embed"
    /\ Locally(r, [w[r] EXCEPT !.rows = PlannedRows(w[r]), !.cache = {}])
    /\ Goto(r, IF PlannedRows(w[r]) = {} THEN "text" ELSE "insert")
    /\ UNCHANGED <<tree, hashStore, vectors, keyword, writer, torn>>

(* insert_chunks: one slice of rows, then the meta is saved.               *)
InsertSlice(r, S) ==
    /\ pc[r] = "insert"
    /\ IsSlice(S, w[r].rows, InsertRows)
    /\ lance' = [f \in Files |->
                    lance[f] \cup {fr[2] : fr \in {x \in S : x[1] = f}}]
    /\ metaFile' = w[r].meta
    /\ Locally(r, [w[r] EXCEPT !.rows = @ \ S])
    /\ Goto(r, IF w[r].rows = S THEN "text" ELSE "insert")
    /\ UNCHANGED <<tree, hashStore, table, keyword, writer, torn>>

(* Mutant: a failed batch is queued again.                                 *)
BatchRetries(r) ==
    /\ "lance" \in Faults
    /\ pc[r] \in {"delete", "embed", "insert"}
    /\ Locally(r, [w[r] EXCEPT !.batch = {}, !.cache = {}, !.rows = {},
                               !.queue = @ \cup w[r].batch])
    /\ Goto(r, "batch")
    /\ UNCHANGED <<tree, hashStore, vectors, keyword, writer, torn>>

(* reindex_files returned Err: the whole batch is Failed, what it deleted  *)
(* stays deleted.                                                          *)
BatchFails(r) ==
    /\ "lance" \in Faults
    /\ pc[r] \in {"delete", "embed", "insert"}
    /\ hashStore' = SetHash(w[r].batch, w[r].seen, "failed")
    /\ Locally(r, [w[r] EXCEPT !.batch = {}, !.cache = {}, !.rows = {},
                               !.failed = TRUE])
    /\ Goto(r, "batch")
    /\ UNCHANGED <<tree, vectors, keyword, writer, torn>>

(* Mutant: the old rows of the file are not deleted first.                 *)
QueueTextWithoutDelete(r, f) ==
    /\ pc[r] = "text" /\ f \in w[r].batch
    /\ Locally(r, [w[r] EXCEPT !.batch = @ \ {f}, !.touched = @ \cup {f},
                               !.ops[f] = text[f] \cup DeepRows(w[r].got[f]),
                               !.done = @ \cup {f}])
    /\ UNCHANGED <<tree, hashStore, vectors, keyword, writer, pc, torn>>

(* delete_by_file and add_chunks, queued in the writer until the commit.   *)
QueueText(r, f) ==
    /\ pc[r] = "text" /\ f \in w[r].batch
    /\ Locally(r, [w[r] EXCEPT !.batch = @ \ {f}, !.touched = @ \cup {f},
                               !.ops[f] = DeepRows(w[r].got[f]),
                               !.done = @ \cup {f}])
    /\ UNCHANGED <<tree, hashStore, vectors, keyword, writer, pc, torn>>

(* Mutant: the error is logged and the file processed as if it had none.   *)
QueueTextSwallows(r, f) ==
    /\ "text" \in Faults
    /\ pc[r] = "text" /\ f \in w[r].batch
    /\ Locally(r, [w[r] EXCEPT !.batch = @ \ {f}, !.touched = @ \cup {f},
                               !.ops[f] = {}, !.done = @ \cup {f}])
    /\ UNCHANGED <<tree, hashStore, vectors, keyword, writer, pc, torn>>

(* add_chunks failed half way: a second delete is queued and the file is   *)
(* Failed.                                                                 *)
QueueTextFails(r, f) ==
    /\ "text" \in Faults
    /\ pc[r] = "text" /\ f \in w[r].batch
    /\ hashStore' = SetHash({f}, w[r].seen, "failed")
    /\ Locally(r, [w[r] EXCEPT !.batch = @ \ {f}, !.touched = @ \cup {f},
                               !.ops[f] = {}, !.failed = TRUE])
    /\ UNCHANGED <<tree, vectors, keyword, writer, pc, torn>>

BatchDone(r) ==
    /\ pc[r] = "text" /\ w[r].batch = {}
    /\ Goto(r, "batch")
    /\ UNCHANGED <<tree, hashStore, vectors, keyword, writer, w, torn>>

-----------------------------------------------------------------------------
(* The end of a run: commit, markers, meta, statuses.                      *)

CommitText(r) ==
    /\ pc[r] = "batch" /\ w[r].queue = {}
    /\ text' = Applied(w[r])
    /\ Locally(r, [w[r] EXCEPT !.touched = {}, !.ops = [f \in Files |-> {}]])
    /\ Goto(r, "searchable")
    /\ UNCHANGED <<tree, hashStore, vectors, searchable, ready, writer, torn>>

(* Mutant: a run that may not mark the text index ready completes anyway.  *)
MarkSearchableOrFull(r) ==
    /\ pc[r] = "searchable"
    /\ searchable' = TRUE
    /\ Goto(r, IF w[r].mark THEN "ready" ELSE "full")
    /\ UNCHANGED <<tree, hashStore, vectors, text, ready, writer, w, torn>>

MarkSearchable(r) ==
    /\ pc[r] = "searchable"
    /\ searchable' = TRUE
    /\ Goto(r, IF w[r].mark THEN "ready" ELSE "indexed")
    /\ UNCHANGED <<tree, hashStore, vectors, text, ready, writer, w, torn>>

MarkReady(r) ==
    /\ pc[r] = "ready"
    /\ ready' = TRUE
    /\ Goto(r, IF w[r].failed THEN "indexed" ELSE "full")
    /\ UNCHANGED <<tree, hashStore, vectors, text, searchable, writer, w, torn>>

(* mark_full_index_completed.                                              *)
MarkFull(r) ==
    /\ pc[r] = "full"
    /\ Locally(r, [w[r] EXCEPT !.meta.full = TRUE])
    /\ metaFile' = [w[r].meta EXCEPT !.full = TRUE]
    /\ Goto(r, "indexed")
    /\ UNCHANGED <<tree, hashStore, lance, table, keyword, writer, torn>>

SetIndexed(r, f) ==
    /\ pc[r] = "indexed" /\ f \in w[r].done
    /\ hashStore' = SetHash({f}, w[r].seen, "indexed")
    /\ Locally(r, [w[r] EXCEPT !.done = @ \ {f}])
    /\ UNCHANGED <<tree, vectors, keyword, writer, pc, torn>>

Finish(r) ==
    /\ pc[r] = "indexed" /\ w[r].done = {}
    /\ Return(r)
    /\ UNCHANGED <<disk, hashStore, vectors, keyword, torn>>

-----------------------------------------------------------------------------
ShallowStep(r) ==
    \/ ShallowOpen(r)
    \/ \E unreadable \in SUBSET Files : ShallowRead(r, unreadable)
    \/ ShallowCommit(r)
    \/ ShallowMark(r)

OpenStep(r) ==
    \/ OpenExisting(r)
    \/ NoStore(r)
    \/ OpenNew(r)
    \/ CreateTable(r)
    \/ ModelMismatch(r)
    \/ OpenText(r)
    \/ WriterBusy(r)

GateStep(r) ==
    \/ \E f \in Files : SkipUnchanged(r, f) \/ Gate(r, f) \/ HashFileFails(r, f)
    \/ ReadFile(r)
    \/ ReadFileFails(r)
    \/ GateDone(r)

BatchStep(r) ==
    \/ \E B \in SUBSET Files : TakeBatch(r, B)
    \/ EmbedderRefused(r)
    \/ DeleteRows(r)
    \/ Embed(r)
    \/ \E S \in SUBSET w[r].rows : InsertSlice(r, S)
    \/ BatchFails(r)
    \/ \E f \in Files : QueueText(r, f) \/ QueueTextFails(r, f)
    \/ BatchDone(r)

EndStep(r) ==
    \/ CommitText(r)
    \/ MarkSearchable(r)
    \/ MarkReady(r)
    \/ MarkFull(r)
    \/ \E f \in Files : SetIndexed(r, f)
    \/ Finish(r)

RunStep(r) ==
    ShallowStep(r) \/ OpenStep(r) \/ GateStep(r) \/ BatchStep(r) \/ EndStep(r)

Environment ==
    \/ \E e \in Edits : Edit(e[1], e[2])
    \/ \E r \in Runs, q \in Requests : Start(r, q)
    \/ \E r \in Runs : Stop(r)

Next == Environment \/ \E r \in Runs : RunStep(r)

(* The batch has chunks without a stored vector: the run awaits the        *)
(* endpoint, whose client (Client::new()) has no timeout.                  *)
AtEndpoint(r) ==
    /\ pc[r] = "embed"
    /\ \E f \in w[r].batch : \E k \in ChunksOf[w[r].got[f]] :
          \A row \in w[r].cache : row[1] # k

Spec == Init /\ [][Next]_vars
(* The runtime keeps polling a run it has started; nobody owes it the      *)
(* answer of the endpoint.                                                 *)
FairSpec == Spec /\ \A r \in Runs : WF_vars(RunStep(r) /\ ~AtEndpoint(r))

-----------------------------------------------------------------------------
(* Properties.                                                             *)

TypeOK ==
    /\ disk \in [Files -> Contents \cup {Absent}]
    /\ hashStore \in [Files -> HashRow]
    /\ lance \in [Files -> SUBSET LanceRow]
    /\ table \in BOOLEAN /\ metaFile \in Meta
    /\ text \in [Files -> SUBSET TextRow]
    /\ searchable \in BOOLEAN /\ ready \in BOOLEAN
    /\ writer \in Runs \cup {NoRun}
    /\ pc \in [Runs -> PCs]
    /\ w \in [Runs -> Locals]
    /\ torn \subseteq Files
    /\ dirty \in [Runs -> SUBSET Files]

Indexed(f) == hashStore[f].status = "indexed"

(* A file the hash store calls indexed has in Lance exactly the chunks of  *)
(* the version whose hash it records, whatever stopped or failed before,   *)
(* unless the file was edited between hash_file and read_file_lossy.       *)
IndexedHasVectors ==
    \A f \in Files : Indexed(f) /\ f \notin torn =>
        LanceChunks(f) = ChunksOf[hashStore[f].hash]

(* Its committed Tantivy rows are the deep rows of that version or the one *)
(* shallow row of a later shallow pass: tiers and versions never mix.      *)
IndexedHasText ==
    \A f \in Files : Indexed(f) /\ f \notin torn =>
        \/ text[f] = DeepRows(hashStore[f].hash)
        \/ \E c \in Contents : text[f] = ShallowRows(c)

(* Shallow and deep rows never coexist for one file, indexed or not.       *)
TiersNeverCoexist ==
    \A f \in Files : Cardinality({row[1] : row \in text[f]}) <= 1

(* A run that reaches its end without a failed file has indexed the        *)
(* current version of every collected file nobody touched meanwhile.       *)
CleanRunCovers ==
    \A r \in Runs :
        pc[r] = "indexed" /\ w[r].done = {} /\ ~w[r].failed =>
            \A f \in w[r].scope \ (dirty[r] \cup torn) :
                /\ hashStore[f] = [hash |-> disk[f], status |-> "indexed"]
                /\ LanceChunks(f) = ChunksOf[disk[f]]

(* last_full_index_at is only ever on disk beside a text index marked      *)
(* ready, so a restarted server that reads it as Full finds both tiers.    *)
FullNeedsReady == metaFile.full => ready /\ searchable

(* All stored vectors come from the model vector_meta.json names.          *)
OneModel ==
    \A f \in Files : \A row \in lance[f] : row[2] = metaFile.model

(* The index core implements the contract of IndexContract for Lance: rows *)
(* move only while the hash store says the file is not indexed, and it is  *)
(* called indexed only when they are complete.                             *)
Vectors == INSTANCE IndexContract WITH
    trusted <- [f \in Files |-> IF Indexed(f) /\ f \notin torn
                                THEN hashStore[f].hash ELSE Absent],
    rows <- [f \in Files |-> LanceChunks(f)]
VectorsKeepContract == Vectors!ContractSpec

(* A timestamp of a completed full index is never taken back.              *)
FullIsKept == [][metaFile.full => metaFile'.full]_metaFile

(* last_full_index_at appears only when no file of the working tree is     *)
(* known to have failed.                                                   *)
FullLeavesNoFailure ==
    [][ metaFile'.full /\ ~metaFile.full =>
          \A f \in Present : hashStore[f].status # "failed" ]_metaFile

(* After a full run without failures every file nobody touched has its     *)
(* deep rows in Tantivy.                                                   *)
FullRunIsDeep ==
    \A r \in Runs :
        pc[r] = "indexed" /\ w[r].done = {} /\ ~w[r].failed /\ w[r].req.full =>
            \A f \in w[r].scope \ (dirty[r] \cup torn) :
                text[f] = DeepRows(disk[f])

(* Every started run returns, unless the endpoint leaves it waiting for    *)
(* ever, with the writer in its hands; the other runs return even then.    *)
RunsReturn ==
    \A r \in Runs :
        <>[]AtEndpoint(r) \/ (pc[r] # "idle" ~> pc[r] = "idle")

-----------------------------------------------------------------------------
(* Why an indexed file has its rows: the inductive invariant.              *)

InFlight(l) == l.queue \cup l.batch \cup l.done
IsPending(l, f) ==
    /\ l.seen[f] \in Contents
    /\ hashStore[f] = [hash |-> l.seen[f], status |-> "pending"]

BatchPCs  == {"delete", "embed", "insert", "text"}
Committed == {"searchable", "ready", "full", "indexed"}

(* Only the holder of the writer lock is past the opening of the index, so *)
(* no other run sees the states below half way.                            *)
WriterInv(r) == pc[r] \in Locked => writer = r

(* A run that is not yet, or no longer, in its deep pass has no files in   *)
(* flight; a shallow pass has one shallow row queued per file it read.     *)
QuietInv(r) ==
    pc[r] \notin DeepPCs =>
        /\ InFlight(w[r]) = {}
        /\ pc[r] # "shallow-commit" => w[r].touched = {}
        /\ \A f \in w[r].touched :
              \E c \in Contents : w[r].ops[f] = ShallowRows(c)

(* A file in flight is pending at the hash taken for it, and what was read *)
(* is what was hashed unless the file is torn; queues do not overlap.      *)
QueueInv(r) ==
    pc[r] \in DeepPCs =>
        /\ \A f \in InFlight(w[r]) :
              /\ IsPending(w[r], f)
              /\ w[r].got[f] \in Contents
              /\ f \notin torn => w[r].got[f] = w[r].seen[f]
        /\ w[r].todo \cap InFlight(w[r]) = {}
        /\ w[r].queue \cap (w[r].batch \cup w[r].done) = {}
        /\ w[r].batch \cap w[r].done = {}
        /\ pc[r] \notin BatchPCs => w[r].batch = {}
        /\ pc[r] \in Committed => w[r].queue = {}
        /\ pc[r] = "read" =>
              /\ w[r].cur \in Files
              /\ IsPending(w[r], w[r].cur)
              /\ w[r].cur \notin w[r].todo \cup InFlight(w[r])

PlannedChunks(l, f) == {fr[2][1] : fr \in {x \in l.rows : x[1] = f}}

(* How far the Lance rows of the files in flight have got.                 *)
VectorsInv(r) ==
    pc[r] \in DeepPCs =>
        /\ \A f \in w[r].done : LanceChunks(f) = ChunksOf[w[r].got[f]]
        /\ pc[r] = "embed" => \A f \in w[r].batch : lance[f] = {}
        /\ pc[r] = "insert" =>
              /\ \A x \in w[r].rows : x[1] \in w[r].batch
              /\ \A f \in w[r].batch :
                    LanceChunks(f) \cup PlannedChunks(w[r], f)
                        = ChunksOf[w[r].got[f]]
        /\ pc[r] = "text" =>
              \A f \in w[r].batch : LanceChunks(f) = ChunksOf[w[r].got[f]]

(* Tantivy operations are queued for files that are not indexed; a         *)
(* finished file has its deep rows queued, and committed after the commit. *)
TextInv(r) ==
    pc[r] \in DeepPCs =>
        /\ \A f \in w[r].touched : hashStore[f].status # "indexed"
        /\ pc[r] \notin Committed => \A f \in w[r].done :
              f \in w[r].touched /\ w[r].ops[f] = DeepRows(w[r].got[f])
        /\ pc[r] \in Committed =>
              /\ w[r].touched = {}
              /\ \A f \in w[r].done : text[f] = DeepRows(w[r].got[f])

HashInv == \A f \in Files : Indexed(f) => hashStore[f].hash \in Contents

RunInv(r) ==
    WriterInv(r) /\ QuietInv(r) /\ QueueInv(r) /\ VectorsInv(r) /\ TextInv(r)

IndexInv ==
    /\ HashInv
    /\ IndexedHasVectors
    /\ IndexedHasText
    /\ \A r \in Runs : RunInv(r)

(* Why last_full_index_at is never seen beside an incomplete text index:   *)
(* the markers are set in order, and a run that holds a full mark in its   *)
(* own copy of the meta has set or seen both.                              *)
MarkersInv ==
    /\ ready => searchable
    /\ FullNeedsReady
    /\ \A r \in Runs :
          /\ w[r].meta.full => ready /\ searchable
          /\ pc[r] \in {"ready", "indexed"} => searchable
          /\ pc[r] = "full" => ready /\ searchable

(* Why tiers never coexist: a commit replaces all rows of a file by rows   *)
(* of one tier.                                                            *)
OneTier(rows) ==
    rows \subseteq {"deep"} \X Chunks \/ rows \subseteq {"shallow"} \X Contents

TiersInv ==
    /\ \A f \in Files : OneTier(text[f])
    /\ \A r \in Runs : \A f \in w[r].touched : OneTier(w[r].ops[f])

(* Why a clean run covers its files: until a file of the scope has failed, *)
(* each of them is still to be gated, being read, in flight, or settled,   *)
(* and a file nobody edited still has the version whose hash was taken.    *)
Settled(r, f) ==
    \/ f \in dirty[r] \cup torn
    \/ hashStore[f] = [hash |-> disk[f], status |-> "indexed"]
BeingRead(r) == IF pc[r] = "read" THEN {w[r].cur} ELSE {}

CoverInv(r) ==
    /\ pc[r] \in {"eager", "create", "lock"} => w[r].scope \subseteq w[r].todo
    /\ pc[r] \in DeepPCs =>
          /\ pc[r] \notin {"gate", "read"} => w[r].todo = {}
          /\ \A f \in (BeingRead(r) \cup InFlight(w[r])) \ dirty[r] :
                w[r].seen[f] = disk[f]
          /\ w[r].failed \/ \A f \in w[r].scope :
                \/ f \in w[r].todo \cup BeingRead(r) \cup InFlight(w[r])
                \/ Settled(r, f)
=============================================================================
