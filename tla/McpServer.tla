----------------------------- MODULE McpServer -----------------------------
(***************************************************************************)
(* One `vektor serve` process in front of the index core, for one project: *)
(* the index_codebase handler with the IndexStatusTracker and the context  *)
(* QueryCache around the runs of IndexPipeline, get_context_for_prompt and *)
(* search_code requests that read the stores meanwhile, restarts of the    *)
(* server, and `vektor index` processes the server knows nothing of.       *)
(* The query text is left out: requests ask one query, so a cache key is   *)
(* the search mode.  SearchRequests has the inside of a search, the health *)
(* cache and the embedder cache.                                           *)
(***************************************************************************)
EXTENDS IndexPipeline

CONSTANTS
    Readers,     \* search requests that may be in progress at the same time
    Callers,     \* "mcp": index_codebase calls; "cli": vektor index
    None         \* no cache entry

ASSUME ServerAssumption ==
    /\ Callers \subseteq {"mcp", "cli"}
    /\ None \notin [Files -> SUBSET LanceRow]
    /\ None \notin [Files -> SUBSET TextRow]

VARIABLES
    phase,       \* IndexStatusTracker entry of the project, or "absent"
    call,        \* where the handler of each index call is
    cache,       \* QueryCache: mode -> [hits, late] or None
    rd,          \* the requests in progress
    settled      \* history: no run since the last one that cleared the cache

serverVars == <<vars, phase, call, cache, rd, settled>>
server     == <<phase, call, cache, rd, settled>>

Phases == {"building", "partial", "full"}
Modes  == {"keyword", "hybrid"}
Tools  == {"search", "context", "bypass"}
(* What a search has read: nothing yet, the Tantivy rows, or these and     *)
(* then the Lance rows.                                                    *)
Hits   == [vec : [Files -> SUBSET LanceRow] \cup {None},
           txt : [Files -> SUBSET TextRow] \cup {None}]
NoHits == [vec |-> None, txt |-> None]
Complete(h, m) == h.txt # None /\ (h.vec # None <=> m = "hybrid")

CallPCs == {"none", "cli", "core", "tier", "restore", "restored", "ended",
            "ended-failed", "clear"}

(* tool: what was asked; bypass is a context call with bypass_cache set.   *)
Reader == [at : {"idle", "status", "insert", "get", "vec", "txt", "put"},
           tool : Tools, mode : Modes, found : Phases, hits : Hits,
           late : BOOLEAN]   \* history: cleared since the search began
IdleReader == [at |-> "idle", tool |-> "search", mode |-> "keyword",
               found |-> "building", hits |-> NoHits, late |-> FALSE]

NoCall == [at |-> "none", found |-> "building"]

ServerInit ==
    /\ Init
    /\ phase = "absent"
    /\ call = [r \in Runs |-> NoCall]
    /\ cache = [m \in Modes |-> None]
    /\ rd = [c \in Readers |-> IdleReader]
    /\ settled = FALSE

CallAt(r, label) == call' = [call EXCEPT ![r].at = label]
Served(r) == call[r].at \notin {"none", "cli"}

(* phase_from_disk.  It reads the searchable marker and then the meta; the *)
(* marker is never removed, so both reads are as good as one.              *)
DiskPhase == IF ~searchable THEN "building"
             ELSE IF metaFile.full THEN "full" ELSE "partial"

-----------------------------------------------------------------------------
(* The index_codebase handler.                                             *)

(* mark_building, and the run starts: with the shallow pass unless the     *)
(* call names extensions.                                                  *)
BeginCall(r, q) ==
    /\ "mcp" \in Callers /\ call[r].at = "none"
    /\ q.full => q.shallow
    /\ Start(r, q)
    /\ phase' = "building"
    /\ CallAt(r, "core")
    /\ settled' = FALSE
    /\ UNCHANGED <<cache, rd>>

(* A step inside ShallowIndexer::build or index_path_with_options.         *)
CoreStep(r) ==
    /\ call[r].at = "core"
    /\ RunStep(r) /\ pc[r] # "shallow-mark" /\ pc'[r] # "idle"
    /\ UNCHANGED server

ShallowPassEnds(r) ==
    /\ call[r].at = "core"
    /\ ShallowMark(r)
    /\ CallAt(r, "tier")
    /\ UNCHANGED <<phase, cache, rd, settled>>

(* IndexStatusTracker::mark_partial does not take a Full back.             *)
PartialFrom(p) == IF p = "full" THEN "full" ELSE "partial"

MarkTier(r) ==
    /\ call[r].at = "tier"
    /\ phase' = PartialFrom(phase)
    /\ CallAt(r, "core")
    /\ UNCHANGED <<vars, cache, rd, settled>>

(* The shallow or the deep pass returns Err.                               *)
CoreErr(r) ==
    /\ call[r].at = "core"
    /\ (RunStep(r) /\ pc[r] # "indexed") \/ Stop(r)
    /\ pc'[r] = "idle"
    /\ CallAt(r, "restore")
    /\ UNCHANGED <<phase, cache, rd, settled>>

(* restore_index_status_from_disk: read, then set; the caches are kept.    *)
RestoreRead(r) ==
    /\ call[r].at = "restore"
    /\ call' = [call EXCEPT ![r] = [at |-> "restored", found |-> DiskPhase]]
    /\ UNCHANGED <<vars, phase, cache, rd, settled>>

RestoreSet(r) ==
    /\ call[r].at = "restored"
    /\ phase' = call[r].found
    /\ call' = [call EXCEPT ![r] = NoCall]
    /\ UNCHANGED <<vars, cache, rd, settled>>

CoreOk(r) ==
    /\ call[r].at = "core"
    /\ Finish(r)
    /\ CallAt(r, IF w[r].failed THEN "ended-failed" ELSE "ended")
    /\ UNCHANGED <<phase, cache, rd, settled>>

(* Mutant: a run without failures is Full, whatever it covered.            *)
MarkPhaseUnready(r) ==
    /\ call[r].at \in {"ended", "ended-failed"}
    /\ phase' = IF call[r].at = "ended" THEN "full" ELSE PartialFrom(phase)
    /\ CallAt(r, "clear")
    /\ UNCHANGED <<vars, cache, rd, settled>>

(* Full when the run failed on no file and the text index is ready.        *)
MarkPhase(r) ==
    /\ call[r].at \in {"ended", "ended-failed"}
    /\ phase' = IF call[r].at = "ended" /\ ready THEN "full"
                                                 ELSE PartialFrom(phase)
    /\ CallAt(r, "clear")
    /\ UNCHANGED <<vars, cache, rd, settled>>

(* Mutant: the call answers without clearing the cache.                    *)
ClearNothing(r) ==
    /\ call[r].at = "clear"
    /\ rd' = [c \in Readers |-> [rd[c] EXCEPT
                   !.late = @ \/ rd[c].at \in {"vec", "put"}]]
    /\ settled' = \A s \in Runs : pc[s] = "idle"
    /\ CallAt(r, "none")
    /\ UNCHANGED <<vars, phase, cache>>

(* run_index_tool_with_cache_invalidation clears on Ok, after the phase is *)
(* Full, and the call answers.                                             *)
ClearCache(r) ==
    /\ call[r].at = "clear"
    /\ cache' = [m \in Modes |-> None]
    /\ rd' = [c \in Readers |-> [rd[c] EXCEPT
                   !.late = @ \/ rd[c].at \in {"vec", "put"}]]
    /\ settled' = \A s \in Runs : pc[s] = "idle"
    /\ CallAt(r, "none")
    /\ UNCHANGED <<vars, phase>>

-----------------------------------------------------------------------------
(* search_code and get_context_for_prompt.                                 *)

Ask(c, tool) ==
    /\ rd[c].at = "idle"
    /\ rd' = [rd EXCEPT ![c] = [IdleReader EXCEPT !.at = "status",
                                                  !.tool = tool]]
    /\ UNCHANGED <<vars, phase, call, cache, settled>>

(* What a request does next in phase p: nothing while Building, the        *)
(* keyword tier in Partial, the hybrid search in Full.                     *)
Routed(c, p) ==
    IF p = "building" THEN IdleReader
    ELSE [rd[c] EXCEPT !.at = IF rd[c].tool = "context" THEN "get" ELSE "txt",
                       !.mode = IF p = "full" THEN "hybrid" ELSE "keyword"]

(* status_for_root with an entry in the map.                               *)
StatusKnown(c) ==
    /\ rd[c].at = "status" /\ phase # "absent"
    /\ rd' = [rd EXCEPT ![c] = Routed(c, phase)]
    /\ UNCHANGED <<vars, phase, call, cache, settled>>

(* ... and without: the stores are read outside the lock.                  *)
StatusUnknown(c) ==
    /\ rd[c].at = "status" /\ phase = "absent"
    /\ rd' = [rd EXCEPT ![c].at = "insert", ![c].found = DiskPhase]
    /\ UNCHANGED <<vars, phase, call, cache, settled>>

(* The entry is inserted whatever the map holds by now.                    *)
StatusInsert(c) ==
    /\ rd[c].at = "insert"
    /\ phase' = rd[c].found
    /\ rd' = [rd EXCEPT ![c] = Routed(c, rd[c].found)]
    /\ UNCHANGED <<vars, call, cache, settled>>

CacheHit(c) ==
    /\ rd[c].at = "get" /\ cache[rd[c].mode] # None
    /\ rd' = [rd EXCEPT ![c] = IdleReader]
    /\ UNCHANGED <<vars, phase, call, cache, settled>>

CacheMiss(c) ==
    /\ rd[c].at = "get" /\ cache[rd[c].mode] = None
    /\ rd' = [rd EXCEPT ![c].at = "txt"]
    /\ UNCHANGED <<vars, phase, call, cache, settled>>

(* search_code answers with what it found, a context request caches it.    *)
Read(c, found) == IF rd[c].tool = "search" THEN IdleReader
                  ELSE [rd[c] EXCEPT !.at = "put", !.hits = found]

(* Mutant: every request searches the keyword tier only.                   *)
SearchTextOnly(c) ==
    /\ rd[c].at = "txt"
    /\ rd' = [rd EXCEPT ![c] = Read(c, [NoHits EXCEPT !.txt = text])]
    /\ UNCHANGED <<vars, phase, call, cache, settled>>

(* The reader that TextIndex::open_readonly opens is never reloaded, so    *)
(* the Tantivy rows are older than the Lance rows of a hybrid search.      *)
SearchText(c) ==
    /\ rd[c].at = "txt"
    /\ rd' = [rd EXCEPT ![c] =
                 IF rd[c].mode = "hybrid"
                 THEN [rd[c] EXCEPT !.at = "vec", !.hits.txt = text]
                 ELSE Read(c, [NoHits EXCEPT !.txt = text])]
    /\ UNCHANGED <<vars, phase, call, cache, settled>>

SearchVectors(c) ==
    /\ rd[c].at = "vec"
    /\ rd' = [rd EXCEPT ![c] = Read(c, [rd[c].hits EXCEPT !.vec = lance])]
    /\ UNCHANGED <<vars, phase, call, cache, settled>>

(* The results replace the entry, also for bypass_cache.                   *)
CachePut(c) ==
    /\ rd[c].at = "put"
    /\ cache' = [cache EXCEPT ![rd[c].mode] =
                    [hits |-> rd[c].hits, late |-> rd[c].late]]
    /\ rd' = [rd EXCEPT ![c] = IdleReader]
    /\ UNCHANGED <<vars, phase, call, settled>>

(* An error of the embedder or of a store ends the request.                *)
SearchFails(c) ==
    /\ "lance" \in Faults
    /\ rd[c].at \in {"vec", "txt"}
    /\ rd' = [rd EXCEPT ![c] = IdleReader]
    /\ UNCHANGED <<vars, phase, call, cache, settled>>

(* The entry expires after DEFAULT_TTL or is evicted by other queries.     *)
CacheExpires(m) ==
    /\ cache[m] # None
    /\ cache' = [cache EXCEPT ![m] = None]
    /\ UNCHANGED <<vars, phase, call, rd, settled>>

-----------------------------------------------------------------------------
(* Around the server.                                                      *)

(* The server is killed and started again: its runs and its memory go.     *)
Restart ==
    /\ "stop" \in Faults
    /\ pc' = [r \in Runs |-> IF Served(r) THEN "idle" ELSE pc[r]]
    /\ w' = [r \in Runs |-> IF Served(r) THEN Idle ELSE w[r]]
    /\ dirty' = [r \in Runs |-> IF Served(r) THEN {} ELSE dirty[r]]
    /\ writer' = IF writer \in {r \in Runs : Served(r)} THEN NoRun ELSE writer
    /\ call' = [r \in Runs |-> IF Served(r) THEN NoCall ELSE call[r]]
    /\ phase' = "absent"
    /\ cache' = [m \in Modes |-> None]
    /\ rd' = [c \in Readers |-> IdleReader]
    /\ UNCHANGED <<disk, hashStore, vectors, keyword, torn, settled>>

EditFile(f, c) == Edit(f, c) /\ UNCHANGED server

(* `vektor index` in a terminal.                                           *)
CliStart(r, q) ==
    /\ "cli" \in Callers /\ call[r].at = "none"
    /\ ~q.shallow
    /\ Start(r, q)
    /\ CallAt(r, "cli")
    /\ settled' = FALSE
    /\ UNCHANGED <<phase, cache, rd>>

CliStep(r) ==
    /\ call[r].at = "cli"
    /\ RunStep(r) \/ Stop(r)
    /\ CallAt(r, IF pc'[r] = "idle" THEN "none" ELSE "cli")
    /\ UNCHANGED <<phase, cache, rd, settled>>

IndexCall(r) ==
    \/ \E q \in Requests : BeginCall(r, q) \/ CliStart(r, q)
    \/ CoreStep(r) \/ ShallowPassEnds(r) \/ MarkTier(r)
    \/ CoreErr(r) \/ RestoreRead(r) \/ RestoreSet(r)
    \/ CoreOk(r) \/ MarkPhase(r) \/ ClearCache(r)
    \/ CliStep(r)

SearchCall(c) ==
    \/ \E tool \in Tools : Ask(c, tool)
    \/ StatusKnown(c) \/ StatusUnknown(c) \/ StatusInsert(c)
    \/ CacheHit(c) \/ CacheMiss(c)
    \/ SearchVectors(c) \/ SearchText(c) \/ SearchFails(c) \/ CachePut(c)

ServerNext ==
    \/ \E r \in Runs : IndexCall(r)
    \/ \E c \in Readers : SearchCall(c)
    \/ \E m \in Modes : CacheExpires(m)
    \/ \E e \in Edits : EditFile(e[1], e[2])
    \/ Restart

ServerSpec == ServerInit /\ [][ServerNext]_serverVars

-----------------------------------------------------------------------------
(* Properties.                                                             *)

ServerTypeOK ==
    /\ TypeOK
    /\ phase \in Phases \cup {"absent"}
    /\ call \in [Runs -> [at : CallPCs, found : Phases]]
    /\ cache \in [Modes -> [hits : Hits, late : BOOLEAN] \cup {None}]
    /\ \A m \in Modes : cache[m] # None => Complete(cache[m].hits, m)
    /\ rd \in [Readers -> Reader]
    /\ settled \in BOOLEAN

(* The tracker never promises a tier the project does not have: Partial    *)
(* needs a searchable text index and Full a ready one, whichever call,     *)
(* restart or late status lookup wrote the phase.                          *)
PhaseHasItsTier ==
    /\ phase = "partial" => searchable
    /\ phase = "full" => searchable /\ ready

(* What a search in mode m would find now.                                 *)
Found(m) == [vec |-> IF m = "hybrid" THEN lance ELSE None, txt |-> text]

(* After a call that succeeded, and until the next run starts, a cached    *)
(* result is what the stores hold, unless its search was under way when    *)
(* the call cleared the cache.                                             *)
CacheIsCurrent ==
    settled => \A m \in Modes :
        cache[m] # None /\ ~cache[m].late => cache[m].hits = Found(m)

(* When no call and no lookup is in progress, a project with indexed files *)
(* whose two tiers are complete on disk is not answered with "index is     *)
(* building".                                                              *)
CompleteIndexIsServed ==
    /\ searchable /\ ready /\ metaFile.full
    /\ \E f \in Files : Indexed(f)
    /\ \A r \in Runs : call[r].at = "none"
    /\ \A c \in Readers : rd[c].at = "idle"
    => phase # "building"

-----------------------------------------------------------------------------
(* Why the phase and the cache can be believed: the inductive invariant.   *)

(* The project has, and will keep, what phase p promises: markers are      *)
(* never removed.                                                          *)
Justified(p) ==
    /\ p = "partial" => searchable
    /\ p = "full" => searchable /\ ready

(* Whoever is about to write a phase holds one that is justified.          *)
PhaseInv ==
    /\ Justified(phase)
    /\ \A r \in Runs :
          /\ call[r].at \in {"tier", "ended", "ended-failed"} => searchable
          /\ call[r].at = "restored" => Justified(call[r].found)
    /\ \A c \in Readers : rd[c].at = "insert" => Justified(rd[c].found)

(* What a search has read so far fits the tier it searches.                *)
ReaderInv(c) ==
    /\ rd[c].at = "vec" => rd[c].mode = "hybrid" /\ rd[c].hits.txt # None
    /\ rd[c].at = "put" => Complete(rd[c].hits, rd[c].mode)

(* After the clear no run moves, so what is read since then is current.    *)
FreshInv ==
    settled =>
        /\ \A r \in Runs : pc[r] = "idle"
        /\ CacheIsCurrent
        /\ \A c \in Readers : ~rd[c].late =>
              /\ rd[c].at = "vec" => rd[c].hits.txt = text
              /\ rd[c].at = "put" => rd[c].hits = Found(rd[c].mode)

ServerInv ==
    /\ ServerTypeOK
    /\ IndexInv /\ MarkersInv
    /\ PhaseInv
    /\ \A c \in Readers : ReaderInv(c)
    /\ FreshInv
=============================================================================
