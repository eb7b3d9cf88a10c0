-------------------------- MODULE SearchRequests --------------------------
(***************************************************************************)
(* search_code requests of one server from the parsed arguments to the     *)
(* answer: the tier the phase allows, the embedder out of the cache, the   *)
(* three search modes with their candidate limits, fusion and hydration,   *)
(* the extension filter behind the search, and the index health out of its *)
(* cache.  The index calls that write the stores meanwhile are reduced to  *)
(* what a request can see of them; IndexPipeline and McpServer have them   *)
(* in full.  Scores are exact numbers, as multiples of 1 / Denominator.    *)
(***************************************************************************)
EXTENDS Integers, Sequences, FiniteSets

CONSTANTS
    Callers,         \* requests, each asked at most once
    Ids,             \* chunk ids, numbers: their order breaks ties
    Files, FileOf,   \* the file of a chunk
    Extensions, ExtOf,
    Alphanumeric,    \* the extensions a LIKE predicate is made for
    Backends,        \* "openai" and "onnx", named as their models
    Worlds,          \* what the project and the questions are
    RrfK,            \* RRF_K (60)
    Denominator,
    Multiplier,      \* DEFAULT_CANDIDATE_MULTIPLIER (4)
    MaxCandidates,   \* DEFAULT_MAX_CANDIDATES (200)
    FilterFactor,    \* 64
    FilteredMin,     \* MIN_FILTERED_SEARCH_CANDIDATES (1024)
    FilteredMax      \* FILTERED_SEARCH_CANDIDATE_LIMIT (10000)

None == "none"
ModesOfSearch == {"hybrid", "semantic", "keyword"}

(* A world: the trees the project may have, each the set of its chunks;    *)
(* the stores at the start; rows by distance to the query (an id of two    *)
(* equal chunks of a file twice) and documents by BM25; the requests and   *)
(* their questions; and, as a bound, how many index calls, edits and       *)
(* deletions of the index by hand there are.                               *)
(* bm25 is the order for the query with its synonyms; plain holds the      *)
(* chunks with one of its own words.  A question: ext is the filter, {}    *)
(* without one; identifiers of its tokens look like code; parses: the raw  *)
(* query is in the syntax of Tantivy's parser.                             *)
ASSUME WorldsAssumption ==
    \A world \in Worlds :
        /\ world.trees \subseteq SUBSET Ids /\ world.start \in world.trees
        /\ world.built \in BOOLEAN /\ world.configured \in Backends
        /\ world.near \in Seq(Ids) /\ world.bm25 \in Seq(Ids)
        /\ world.plain \subseteq Ids /\ world.callers \subseteq Callers
        /\ world.budget \in [calls : Nat, edits : Nat, deletes : Nat]
        /\ \A a \in world.asks :
              /\ a.mode \in ModesOfSearch /\ a.top \in Nat \ {0}
              /\ a.ext \subseteq Extensions
              /\ a.identifiers \in 0..a.tokens /\ a.parses \in BOOLEAN
ASSUME SearchAssumption ==
    /\ Ids \subseteq Nat /\ IsFiniteSet(Files) /\ FileOf \in [Ids -> Files]
    /\ ExtOf \in [Files -> Extensions]
    /\ Alphanumeric \subseteq Extensions
    /\ {RrfK, Multiplier, MaxCandidates, FilterFactor, FilteredMin,
        FilteredMax} \subseteq Nat
    /\ None \notin Backends
(* The contribution of every place of a list is a multiple of              *)
(* 1 / Denominator, so that scores are exact and no place equals the next. *)
ASSUME ExactAssumption ==
    /\ Denominator \in Nat /\ Denominator > 0
    /\ \A w \in Worlds : \A k \in DOMAIN w.near \cup DOMAIN w.bm25 :
          Denominator % (RrfK + k) = 0

VARIABLES
    world,
    tree,        \* the chunks the sources have now
    vec, text,   \* the chunks in the chunks table and in the committed index
    meta,        \* the model in vector_meta.json, or None
    searchable, ready,
    mark,        \* hash store: "unknown", "pending" or "indexed" (and current)
    phase,       \* IndexStatusTracker
    call,        \* the index call: "idle", "running", "ended"
    budget,      \* [calls, edits, deletes] that are left
    req,         \* the requests
    embedders,   \* EmbedderCache: backend -> embedder or NoEmbedder
    health,      \* IndexHealthCache: {} or the entry of the project
    made,        \* history: embedders built so far
    settled      \* history: no index call and no edit since the last clear

stores   == <<tree, vec, text, meta, searchable, ready, mark>>
indexing == <<world, stores, phase, call, budget, settled>>
caches   == <<embedders, health, made>>
vars     == <<indexing, req, caches>>

NoHealth == [status |-> "unknown", tenths |-> 0]
NoCount == [files |-> {}, known |-> {}, done |-> {}]
NoEmbedder == [model |-> None, serial |-> 0]
(* key: the backend the configuration names after apply_indexed_backend.   *)
(* docs: the committed documents of the open reader; seen, space: the rows *)
(* the vector query met and their model (history); rows: those hydrated.   *)
(* late: the caches were cleared since its health was counted (history).   *)
NewRequest == [at |-> "new", ask |-> [mode |-> "hybrid", top |-> 1, ext |-> {},
                                      identifiers |-> 0, tokens |-> 0,
                                      parses |-> TRUE],
               mode |-> "hybrid", key |-> None, emb |-> NoEmbedder,
               docs |-> {}, seen |-> {}, rows |-> {}, space |-> None,
               sem |-> <<>>, kw |-> <<>>, out |-> <<>>,
               health |-> NoHealth, count |-> NoCount, late |-> FALSE]

Init ==
    /\ world \in Worlds
    /\ tree = world.start
    /\ vec = IF world.built THEN tree ELSE {}
    /\ text = vec
    /\ meta = IF world.built THEN world.configured ELSE None
    /\ searchable = world.built /\ ready = world.built
    /\ mark = [f \in Files |-> IF world.built THEN "indexed" ELSE "unknown"]
    /\ phase = IF world.built THEN "full" ELSE "building"
    /\ call = "idle"
    /\ budget = world.budget
    /\ req = [c \in Callers |-> NewRequest]
    /\ embedders = [b \in Backends |-> NoEmbedder]
    /\ health = {}
    /\ made = 0
    /\ settled = FALSE

At(c, step) == req[c].at = step
Goto(c, step) == req' = [req EXCEPT ![c].at = step]
Becomes(c, r) == req' = [req EXCEPT ![c] = r]

-----------------------------------------------------------------------------
(* The index calls, as far as a request sees them.                         *)
OfFile(f) == {i \in Ids : FileOf[i] = f}
Tree(f) == tree \cap OfFile(f)
Spend(what) == budget' = [budget EXCEPT ![what] = @ - 1]

Edit(t) ==
    /\ budget.edits > 0 /\ t \in world.trees /\ t # tree
    /\ Spend("edits")
    /\ tree' = t
    /\ mark' = [f \in Files |->
                   IF mark[f] = "indexed" /\ t \cap OfFile(f) # Tree(f)
                   THEN "pending" ELSE mark[f]]
    /\ settled' = FALSE
    /\ UNCHANGED <<world, vec, text, meta, searchable, ready, phase, call, req,
                   caches>>

(* mark_building; the store of a new project takes the backend's model.    *)
BeginCall(b) ==
    /\ call = "idle" /\ budget.calls > 0
    /\ meta # None => b = meta
    /\ Spend("calls")
    /\ call' = "running" /\ phase' = "building" /\ meta' = b
    /\ settled' = FALSE
    /\ UNCHANGED <<world, tree, vec, text, searchable, ready, mark, req,
                   caches>>

StoreRows(f) ==
    /\ call = "running" /\ vec \cap OfFile(f) # Tree(f)
    /\ vec' = (vec \ OfFile(f)) \cup Tree(f)
    /\ mark' = [mark EXCEPT ![f] = "pending"]
    /\ UNCHANGED <<world, tree, text, meta, searchable, ready, phase, call,
                   budget, settled, req, caches>>

CommitText(f) ==
    /\ call = "running" /\ vec \cap OfFile(f) = Tree(f)
    /\ text \cap OfFile(f) # Tree(f)
    /\ text' = (text \ OfFile(f)) \cup Tree(f)
    /\ searchable' = TRUE
    /\ UNCHANGED <<world, tree, vec, meta, ready, mark, phase, call, budget,
                   settled, req, caches>>

MarkIndexed(f) ==
    /\ call = "running" /\ mark[f] # "indexed"
    /\ vec \cap OfFile(f) = Tree(f) /\ text \cap OfFile(f) = Tree(f)
    /\ mark' = [mark EXCEPT ![f] = "indexed"]
    /\ UNCHANGED <<world, tree, vec, text, meta, searchable, ready, phase, call,
                   budget, settled, req, caches>>

(* The run is over: its phase is set, and then the caches are cleared.     *)
EndCall ==
    /\ call = "running"
    /\ call' = "ended"
    /\ IF \A f \in Files : mark[f] = "indexed"
       THEN ready' = TRUE /\ searchable' = TRUE /\ phase' = "full"
       ELSE phase' = "partial" /\ UNCHANGED <<ready, searchable>>
    /\ UNCHANGED <<world, tree, vec, text, meta, mark, budget, settled, req,
                   caches>>

(* What phase_from_disk may find; McpServer has it in full.                *)
DiskPhases == IF searchable THEN {"partial", "full"} ELSE {"building"}

(* A call that fails restores the phase and clears nothing.                *)
CallFails ==
    /\ call = "running"
    /\ call' = "idle" /\ phase' \in DiskPhases
    /\ UNCHANGED <<world, stores, budget, settled, req, caches>>

Counting == {"counted", "put"}
(* Mutant: the call answers and leaves the health of before.               *)
ClearNothing ==
    /\ call = "ended"
    /\ call' = "idle" /\ settled' = TRUE
    /\ req' = [c \in Callers |->
                  [req[c] EXCEPT !.late = @ \/ req[c].at \in Counting]]
    /\ UNCHANGED <<world, stores, phase, budget, caches>>

ClearHealth ==
    /\ call = "ended"
    /\ call' = "idle" /\ settled' = TRUE
    /\ health' = {}
    /\ req' = [c \in Callers |->
                  [req[c] EXCEPT !.late = @ \/ req[c].at \in Counting]]
    /\ UNCHANGED <<world, stores, phase, budget, embedders, made>>

(* A user deletes the project's index to start over with another model.    *)
(* Bound: not while a request holds the vector store open.                 *)
HoldsStore(c) == req[c].at \in {"vectors", "hydrate"}
DeleteStore ==
    /\ budget.deletes > 0 /\ call = "idle" /\ meta # None
    /\ ~\E c \in Callers : HoldsStore(c)
    /\ Spend("deletes")
    /\ vec' = {} /\ text' = {} /\ meta' = None
    /\ searchable' = FALSE /\ ready' = FALSE
    /\ mark' = [f \in Files |-> "unknown"]
    /\ settled' = FALSE
    /\ UNCHANGED <<world, tree, phase, call, req, caches>>

-----------------------------------------------------------------------------
(* run_search_request_with_status.                                         *)
Ask(c, a) ==
    /\ c \in world.callers /\ At(c, "new") /\ a \in world.asks
    /\ Becomes(c, [NewRequest EXCEPT !.at = "status", !.ask = a,
                                     !.mode = a.mode])
    /\ UNCHANGED <<indexing, caches>>

(* What a request that is over has gathered is dropped.                    *)
Over(r, place, h) == [NewRequest EXCEPT !.at = place, !.ask = r.ask,
                                        !.health = h]
Fail(c) == Becomes(c, Over(req[c], "failed", NoHealth))

(* Building answers nothing, Partial asks the keyword tier alone.          *)
Route(c) ==
    /\ At(c, "status")
    /\ Becomes(c, IF phase = "building"
                  THEN Over(req[c], "answered",
                            [status |-> "building", tenths |-> 0])
                  ELSE IF phase = "partial"
                  THEN [req[c] EXCEPT !.at = "tier", !.mode = "tier"]
                  ELSE [req[c] EXCEPT !.at = "backend"])
    /\ UNCHANGED <<indexing, caches>>

(* apply_indexed_backend, and ensure_vector_index_exists.                  *)
ApplyBackend(c) ==
    /\ At(c, "backend")
    /\ IF meta = None /\ req[c].mode # "keyword" THEN Fail(c)
       ELSE Becomes(c, [req[c] EXCEPT
                           !.key = IF meta # None THEN meta
                                   ELSE world.configured,
                           !.at = IF req[c].mode = "keyword" THEN "open"
                                  ELSE "lookup"])
    /\ UNCHANGED <<indexing, caches>>

(* EmbedderCache::get: the lookup and the insertion lock, the building in  *)
(* between does not.                                                       *)
Lookup(c) ==
    /\ At(c, "lookup")
    /\ LET found == embedders[req[c].key]
       IN  Becomes(c, IF found = NoEmbedder THEN [req[c] EXCEPT !.at = "build"]
                      ELSE [req[c] EXCEPT !.at = "open", !.emb = found])
    /\ UNCHANGED <<indexing, caches>>

(* build_embedder gives the embedder of the backend or, when that one      *)
(* fails and fallback_to_onnx is set, the ONNX one.                        *)
Build(c, model) ==
    /\ At(c, "build") /\ model \in {req[c].key, "onnx"}
    /\ made' = made + 1
    /\ Becomes(c, [req[c] EXCEPT !.at = "insert",
                                 !.emb = [model |-> model, serial |-> made + 1]])
    /\ UNCHANGED <<indexing, embedders, health>>

(* Mutant: the last embedder that was built replaces the first.            *)
KeptLast(old, new) == new
(* or_insert_with: the first embedder of a key stays.                      *)
Kept(old, new) == IF old = NoEmbedder THEN new ELSE old

Insert(c) ==
    /\ At(c, "insert")
    /\ LET kept == Kept(embedders[req[c].key], req[c].emb)
       IN  /\ embedders' = [embedders EXCEPT ![req[c].key] = kept]
           /\ Becomes(c, [req[c] EXCEPT !.at = "open", !.emb = kept])
    /\ UNCHANGED <<indexing, health, made>>

(* Mutant: the store opens for every model.                                *)
ModelFitsAlways(r) == meta # None
(* open_existing, or open_existing_for_model when a query is embedded.     *)
ModelFits(r) == meta # None /\ (r.mode = "keyword" \/ r.emb.model = meta)

(* The vector store opens, and then the text index, whose reader shows     *)
(* what is committed now and is never reloaded.                            *)
OpenStores(c) ==
    /\ At(c, "open")
    /\ IF ~ModelFits(req[c]) \/ (req[c].mode # "semantic" /\ ~searchable)
       THEN Fail(c)
       ELSE Becomes(c, [req[c] EXCEPT
                           !.docs = IF req[c].mode = "semantic" THEN {}
                                    ELSE text,
                           !.at = "vectors"])
    /\ UNCHANGED <<indexing, caches>>

-----------------------------------------------------------------------------
(* What a search finds.                                                    *)
Least(m, n) == IF m < n THEN m ELSE n
Most(m, n) == IF m > n THEN m ELSE n
(* Mutant: one hit more than asked for.                                    *)
FirstAndNext(n, s) == SubSeq(s, 1, Least(n + 1, Len(s)))
First(n, s) == SubSeq(s, 1, Least(n, Len(s)))
InSeq(s) == {s[k] : k \in 1..Len(s)}
(* What a filter lets through, in its order.                               *)
Among(s, S) ==
    LET kept[n \in 0..Len(s)] ==
            IF n = 0 THEN <<>>
            ELSE IF s[n] \in S THEN Append(kept[n - 1], s[n]) ELSE kept[n - 1]
    IN  kept[Len(s)]

(* expanded_search_limit: a filter behind the search needs more to choose  *)
(* from.                                                                   *)
SearchLimit(a) ==
    IF a.ext = {} THEN a.top
    ELSE Least(FilteredMax, Most(FilteredMin, FilterFactor * a.top))
(* candidate_limit of one list of the hybrid search.                       *)
CandidateLimit(limit) ==
    Least(Multiplier * limit, Most(MaxCandidates, limit))
ListLimit(r) == IF r.mode = "hybrid" THEN CandidateLimit(SearchLimit(r.ask))
                ELSE SearchLimit(r.ask)

(* extension_filter_predicate: only the vector query has it.               *)
Selected(a, i) == a.ext \cap Alphanumeric = {}
                  \/ ExtOf[FileOf[i]] \in a.ext \cap Alphanumeric
Nearest(rows, a) == Among(world.near, {i \in rows : Selected(a, i)})

(* TextIndex::search: the documents that have one of the words, by BM25.   *)
Found(docs, words) == Among(world.bm25, docs \cap words)
(* The words of the query, each with its synonyms; the keyword tier of a   *)
(* Partial project parses the query as it is.                              *)
Documents(r) ==
    IF r.mode = "tier" THEN Found(r.docs, world.plain)
    ELSE IF r.ask.tokens = 0 THEN <<>>
    ELSE Found(r.docs, Ids)

(* AdaptiveWeights in tenths, by the share of identifiers.                 *)
Weights(a) ==
    IF a.tokens = 0 THEN [semantic |-> 6, keyword |-> 4]
    ELSE IF 100 * a.identifiers > 60 * a.tokens
    THEN [semantic |-> 4, keyword |-> 6]
    ELSE IF 100 * a.identifiers < 25 * a.tokens
    THEN [semantic |-> 7, keyword |-> 3]
    ELSE [semantic |-> 6, keyword |-> 4]

(* rrf_fuse: an id gathers a contribution from every place it has.         *)
Gathered(s, i, weight) ==
    LET sum[n \in 0..Len(s)] ==
            IF n = 0 THEN 0
            ELSE sum[n - 1] + IF s[n] = i
                              THEN weight * (Denominator \div (RrfK + n)) ELSE 0
    IN  sum[Len(s)]
(* Mutant: the second list replaces what the first one gave.               *)
ScoreOfLast(sem, kw, a, i) ==
    IF i \in InSeq(kw) THEN Gathered(kw, i, Weights(a).keyword)
    ELSE Gathered(sem, i, Weights(a).semantic)
Score(sem, kw, a, i) ==
    Gathered(sem, i, Weights(a).semantic) + Gathered(kw, i, Weights(a).keyword)

Better(sem, kw, a, i, j) ==
    \/ Score(sem, kw, a, i) > Score(sem, kw, a, j)
    \/ Score(sem, kw, a, i) = Score(sem, kw, a, j) /\ i < j
Fused(sem, kw, a) ==
    LET ids == InSeq(sem) \cup InSeq(kw)
    IN  [k \in 1..Cardinality(ids) |->
            CHOOSE i \in ids :
                Cardinality({j \in ids : Better(sem, kw, a, j, i)}) = k - 1]

(* Where the content of a result comes from: a row, or the document; the   *)
(* fused result of a document without a row has none.                      *)
Content(r, i) ==
    IF i \in InSeq(r.sem) \/ i \in r.rows THEN "row"
    ELSE IF r.mode = "hybrid" THEN "none" ELSE "document"
ByRank(r) ==
    IF r.mode = "hybrid" THEN Fused(r.sem, r.kw, r.ask)
    ELSE IF r.mode = "semantic" THEN r.sem ELSE r.kw
Results(r) ==
    LET hits == First(SearchLimit(r.ask), ByRank(r))
    IN  [k \in 1..Len(hits) |-> [id |-> hits[k], content |-> Content(r, hits[k])]]

(* filter_results: the extensions, in the order of rank, until top_k.      *)
Wanted(a, i) == a.ext = {} \/ ExtOf[FileOf[i]] \in a.ext
Filtered(r) ==
    First(r.ask.top,
          Among(Results(r), {hit \in InSeq(Results(r)) : Wanted(r.ask, hit.id)}))

-----------------------------------------------------------------------------
(* The searches.                                                           *)
SearchTier(c) ==
    /\ At(c, "tier")
    /\ IF ~searchable \/ ~req[c].ask.parses THEN Fail(c)
       ELSE LET asked == [req[c] EXCEPT !.docs = text]
                found == [asked EXCEPT
                             !.kw = First(ListLimit(asked), Documents(asked))]
            IN  Becomes(c, [found EXCEPT !.out = Filtered(found),
                                         !.at = "health"])
    /\ UNCHANGED <<indexing, caches>>

(* The query is embedded and the rows are read; the documents come from    *)
(* the reader that is open.                                                *)
SearchVectors(c) ==
    /\ At(c, "vectors")
    /\ LET r == req[c]
       IN  Becomes(c, [r EXCEPT
               !.sem = IF r.mode = "keyword" THEN <<>>
                       ELSE First(ListLimit(r), Nearest(vec, r.ask)),
               !.kw = IF r.mode = "semantic" THEN <<>>
                      ELSE First(ListLimit(r), Documents(r)),
               !.space = IF r.mode = "keyword" THEN None ELSE meta,
               !.seen = IF r.mode = "keyword" THEN {} ELSE vec,
               !.at = "hydrate"])
    /\ UNCHANGED <<indexing, caches>>

ChunksByIds(ids) == vec \cap ids
(* The rows of the documents that are not hits of the vector query.        *)
Hydrate(c) ==
    /\ At(c, "hydrate")
    /\ LET read == [req[c] EXCEPT !.rows = ChunksByIds(InSeq(req[c].kw))]
       IN  Becomes(c, [read EXCEPT !.out = Filtered(read), !.at = "health"])
    /\ UNCHANGED <<indexing, caches>>

(* The embedder or a store fails, whatever the request is doing.           *)
SearchFails(c) ==
    /\ req[c].at \in {"build", "open", "tier", "vectors", "hydrate"}
    /\ Fail(c)
    /\ UNCHANGED <<indexing, caches>>

-----------------------------------------------------------------------------
(* IndexHealthCache::get at the end of a search: the index health is       *)
(* looked up under the lock, computed without it and put back.             *)
Answer(r, h) ==
    Over(r, "answered",
         IF r.mode = "tier" THEN [h EXCEPT !.status = "partial"] ELSE h)
HealthHit(c) ==
    /\ At(c, "health") /\ health # {}
    /\ \E entry \in health : Becomes(c, Answer(req[c], entry.value))
    /\ UNCHANGED <<indexing, caches>>

(* calculate_index_health: the files and what the hash store says of them, *)
CountFiles(c) ==
    /\ At(c, "health") /\ health = {}
    /\ LET there == {f \in Files : Tree(f) # {}}
       IN  Becomes(c, [req[c] EXCEPT
               !.at = "counted",
               !.count = [files |-> there,
                          known |-> {f \in there : mark[f] # "unknown"},
                          done |-> {f \in there : mark[f] = "indexed"}]])
    /\ UNCHANGED <<indexing, caches>>

(* percentage, in tenths and rounded; and whether the text index is ready. *)
Tenths(n, of) == (2000 * n + of) \div (2 * of)
Coverage(n, of, textReady) ==
    IF textReady THEN Tenths(n, of) ELSE Least(999, Tenths(n, of))
HealthOf(count, textReady) ==
    IF count.files = {} THEN [status |-> "empty", tenths |-> 0]
    ELSE [status |-> IF count.done = count.files /\ textReady THEN "full"
                     ELSE IF count.known # {} THEN "partial" ELSE "empty",
          tenths |-> Coverage(Cardinality(count.done),
                              Cardinality(count.files), textReady)]

ReadReady(c) ==
    /\ At(c, "counted")
    /\ Becomes(c, [req[c] EXCEPT
                       !.at = "put",
                       !.health = HealthOf(req[c].count, searchable /\ ready)])
    /\ UNCHANGED <<indexing, caches>>

(* An error of a store is an unknown health, and cached like any other.    *)
CountFails(c) ==
    /\ At(c, "health") /\ health = {}
    /\ Becomes(c, [req[c] EXCEPT !.at = "put", !.health = NoHealth])
    /\ UNCHANGED <<indexing, caches>>

PutHealth(c) ==
    /\ At(c, "put")
    /\ health' = {[value |-> req[c].health, late |-> req[c].late]}
    /\ Becomes(c, Answer(req[c], req[c].health))
    /\ UNCHANGED <<indexing, embedders, made>>

(* INDEX_HEALTH_CACHE_TTL.                                                 *)
HealthExpires ==
    /\ health # {} /\ health' = {}
    /\ UNCHANGED <<indexing, req, embedders, made>>

Request(c) ==
    \/ \E a \in world.asks : Ask(c, a)
    \/ Route(c) \/ ApplyBackend(c)
    \/ Lookup(c) \/ (\E b \in Backends : Build(c, b)) \/ Insert(c)
    \/ OpenStores(c) \/ SearchTier(c) \/ SearchVectors(c) \/ Hydrate(c)
    \/ SearchFails(c)
    \/ HealthHit(c) \/ CountFiles(c) \/ ReadReady(c) \/ CountFails(c)
    \/ PutHealth(c)

Indexing ==
    \/ \E t \in world.trees : Edit(t)
    \/ \E b \in Backends : BeginCall(b)
    \/ \E f \in Files : StoreRows(f) \/ CommitText(f) \/ MarkIndexed(f)
    \/ EndCall \/ CallFails \/ ClearHealth \/ DeleteStore

Next == Indexing \/ (\E c \in Callers : Request(c)) \/ HealthExpires

Spec == Init /\ [][Next]_vars

-----------------------------------------------------------------------------
(* Properties.                                                             *)
Embedder == [model : Backends \cup {None}, serial : Nat]
Health == [status : {"full", "partial", "empty", "building", "unknown"},
           tenths : 0..1000]
Places == {"new", "status", "tier", "backend", "lookup", "build", "insert",
           "open", "vectors", "hydrate", "health", "counted", "put",
           "answered", "failed"}

RequestOK(r) ==
    /\ r.at \in Places
    /\ r.at # "new" => r.ask \in world.asks
    /\ r.mode \in ModesOfSearch \cup {"tier"}
    /\ r.key \in Backends \cup {None} /\ r.space \in Backends \cup {None}
    /\ r.emb \in Embedder /\ r.emb.serial <= made
    /\ r.docs \subseteq Ids /\ r.seen \subseteq Ids
    /\ r.rows \subseteq InSeq(r.kw)
    /\ r.sem \in Seq(Ids) /\ r.kw \in Seq(Ids)
    /\ Len(r.sem) <= ListLimit(r) /\ Len(r.kw) <= ListLimit(r)
    /\ \A k \in 1..Len(r.out) :
          r.out[k] \in [id : Ids, content : {"row", "document", "none"}]
    /\ r.health \in Health /\ r.late \in BOOLEAN
    /\ \A part \in {r.count.known, r.count.done} : part \subseteq r.count.files
    /\ r.count.files \subseteq Files

(* Every variable keeps its type; a request carries no list longer than    *)
(* its mode allows and no coverage above 100 %.                            *)
SearchTypeOK ==
    /\ world \in Worlds
    /\ tree \subseteq Ids /\ vec \subseteq Ids /\ text \subseteq Ids
    /\ meta \in Backends \cup {None}
    /\ searchable \in BOOLEAN /\ ready \in BOOLEAN /\ settled \in BOOLEAN
    /\ mark \in [Files -> {"unknown", "pending", "indexed"}]
    /\ phase \in {"building", "partial", "full"}
    /\ call \in {"idle", "running", "ended"}
    /\ budget \in [calls : Nat, edits : Nat, deletes : Nat]
    /\ \A c \in Callers : RequestOK(req[c])
    /\ embedders \in [Backends -> Embedder]
    /\ Cardinality(health) <= 1
    /\ health \subseteq [value : Health, late : BOOLEAN]
    /\ made \in Nat

(* i is ahead of j in a list: of every length, its head has i at least as  *)
(* often as j.                                                             *)
Ahead(s, i, j) ==
    \A n \in 1..Len(s) : Cardinality({k \in 1..n : s[k] = j})
                             <= Cardinality({k \in 1..n : s[k] = i})
Dominates(r, i, j) ==
    /\ Ahead(r.sem, i, j) /\ Ahead(r.kw, i, j)
    /\ ~(Ahead(r.sem, j, i) /\ Ahead(r.kw, j, i))

(* The answer to a search: at most top_k chunks of the wanted extensions   *)
(* out of the lists it read, none behind another that both lists put       *)
(* behind it.  When the lists are not cut off, they have every row and     *)
(* every document that matches.  And nothing better is left out: all that  *)
(* the answer has is at least as good as a wanted hit that it has not, and *)
(* such an answer is full, unless the filter behind the search saw         *)
(* SearchLimit other hits as good as that one and none of the rest.        *)
Reachable(r) ==
    LET near == IF r.mode \in {"hybrid", "semantic"}
                THEN Nearest(r.seen, r.ask) ELSE <<>>
        docs == IF r.mode = "semantic" THEN <<>> ELSE Documents(r)
    IN  IF Len(near) <= ListLimit(r) /\ Len(docs) <= ListLimit(r)
        THEN InSeq(near) \cup InSeq(docs) ELSE {}
Ranked(r) ==
    LET ids == {r.out[k].id : k \in 1..Len(r.out)}
        hits == InSeq(r.sem) \cup InSeq(r.kw)
        NotWorse(i) == {j \in hits \ {i} : ~Dominates(r, i, j)}
    IN  /\ Len(r.out) <= r.ask.top /\ ids \subseteq hits
        /\ \A i \in ids : Wanted(r.ask, i)
        /\ r.mode = "hybrid" => Cardinality(ids) = Len(r.out)
        /\ \A k, n \in 1..Len(r.out) :
              k < n => \/ ~Dominates(r, r.out[n].id, r.out[k].id)
                       \/ \E m \in 1..k : r.out[m].id = r.out[n].id
        /\ Reachable(r) \subseteq hits
        /\ \A i \in hits \ ids :
              Wanted(r.ask, i) =>
                 /\ ids \subseteq NotWorse(i)
                 /\ \/ Len(r.out) = r.ask.top
                    \/ Cardinality(NotWorse(i)) >= SearchLimit(r.ask)
RankedWell ==
    \A c \in Callers :
        req[c].at \in {"health", "counted", "put"} => Ranked(req[c])

(* Between the choice of the embedder and the search lie its construction, *)
(* the fallback to another model and a deleted store, and still a query    *)
(* vector only meets rows of its own model.                                *)
QueryMatchesRows ==
    \A c \in Callers : req[c].space # None => req[c].emb.model = req[c].space

(* Requests that build the embedder of one configuration at the same time  *)
(* all go on with the same one, so that its rate limit holds for them all. *)
OneEmbedder ==
    \A c \in Callers :
        req[c].at \in {"open", "vectors", "hydrate"} /\ req[c].mode # "keyword"
            => embedders[req[c].key] = req[c].emb

(* After an index call that succeeded, and until the next call or edit,    *)
(* the cached health is that of the index, unless it was being counted     *)
(* when the cache was cleared, or could not be counted.                    *)
HealthNow ==
    LET there == {f \in Files : Tree(f) # {}}
    IN  HealthOf([files |-> there,
                  known |-> {f \in there : mark[f] # "unknown"},
                  done |-> {f \in there : mark[f] = "indexed"}],
                 searchable /\ ready)
HealthIsCurrent ==
    settled => \A entry \in health :
                  entry.late \/ entry.value \in {NoHealth, HealthNow}
=============================================================================
