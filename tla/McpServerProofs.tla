--------------------------- MODULE McpServerProofs ---------------------------
(* Theorems about McpServer: the guarantees of the index core survive the  *)
(* server around it, the tracker never promises a missing tier, and after  *)
(* a call that succeeded the context cache answers what the stores hold.   *)
(* The argument: every step of the server is a step of the index core, a   *)
(* stutter of it, or a restart that drops the runs of the server at once;  *)
(* the markers only ever appear; and while `settled` holds no run moves.   *)
EXTENDS McpServer, IndexPipelineProofs

-----------------------------------------------------------------------------
(* The steps of the server and the index core.                             *)

(* Only a run that was started makes a step.                               *)
LEMMA StepsWhenStarted ==
    ASSUME NEW r \in Runs, RunStep(r) \/ Stop(r)
    PROVE  pc[r] # "idle"
<1>1. ShallowStep(r) \/ OpenStep(r) => pc[r] # "idle"
      BY ZenonT(60) DEF ShallowStep, OpenStep, ShallowOpen, ShallowRead, ShallowCommit,
             ShallowMark, OpenExisting, NoStore, OpenNew, CreateTable,
             ModelMismatch, OpenText, WriterBusy
<1>2. GateStep(r) \/ BatchStep(r) => pc[r] # "idle"
      BY DEF GateStep, SkipUnchanged, Gate, HashFileFails, ReadFile,
             ReadFileFails, GateDone, BatchStep, TakeBatch, EmbedderRefused,
             DeleteRows, Embed, InsertSlice, BatchFails, QueueText,
             QueueTextFails, BatchDone
<1>3. EndStep(r) => pc[r] # "idle"
      BY DEF EndStep, CommitText, MarkSearchable, MarkReady, MarkFull,
             SetIndexed, Finish
<1>4. Stop(r) => pc[r] # "idle"
      BY DEF Stop
<1> QED
    BY <1>1, <1>2, <1>3, <1>4 DEF RunStep

(* Every step but a restart is one of the index core, or none.             *)
LEMMA ServerMovesIndex ==
    ASSUME [ServerNext]_serverVars
    PROVE  [Next]_vars \/ Restart
<1>1. CASE UNCHANGED serverVars
      BY <1>1 DEF serverVars
<1>2. ASSUME NEW r \in Runs, IndexCall(r) PROVE [Next]_vars
  <2>1. ASSUME NEW q \in Requests, BeginCall(r, q) \/ CliStart(r, q)
        PROVE  [Next]_vars
        BY <2>1 DEF BeginCall, CliStart, Next, Environment
  <2>2. CoreStep(r) \/ CoreErr(r) \/ CliStep(r) => [Next]_vars
        BY DEF CoreStep, CoreErr, CliStep, Next, Environment
  <2>3. ShallowPassEnds(r) => [Next]_vars
        BY DEF ShallowPassEnds, Next, RunStep, ShallowStep
  <2>4. CoreOk(r) => [Next]_vars
        BY DEF CoreOk, Next, RunStep, EndStep
  <2>5. MarkTier(r) \/ RestoreRead(r) \/ RestoreSet(r) \/ MarkPhase(r)
            \/ ClearCache(r) => [Next]_vars
        BY DEF MarkTier, RestoreRead, RestoreSet, MarkPhase, ClearCache
  <2> QED
      BY <1>2, <2>1, <2>2, <2>3, <2>4, <2>5 DEF IndexCall
<1>3. ASSUME NEW c \in Readers, SearchCall(c) PROVE [Next]_vars
      BY <1>3 DEF SearchCall, Ask, StatusKnown, StatusUnknown, StatusInsert,
                  CacheHit, CacheMiss, SearchVectors, SearchText,
                  SearchFails, CachePut
<1>4. ASSUME NEW m \in Modes, CacheExpires(m) PROVE [Next]_vars
      BY <1>4 DEF CacheExpires
<1>5. ASSUME NEW e \in Edits, EditFile(e[1], e[2]) PROVE [Next]_vars
      BY <1>5 DEF EditFile, Next, Environment
<1> QED
    BY <1>1, <1>2, <1>3, <1>4, <1>5 DEF ServerNext

(* The marker files are written and never removed.                         *)
MarkersMove ==
    \/ UNCHANGED <<searchable, ready>>
    \/ searchable' = TRUE /\ UNCHANGED ready
    \/ ready' = TRUE /\ UNCHANGED searchable

LEMMA MarkersStay ==
    ASSUME [Next]_vars
    PROVE  (searchable => searchable') /\ (ready => ready')
<1>1. CASE UNCHANGED vars
      BY <1>1 DEF vars, MarkersMove
<1>2. CASE Environment
      BY <1>2 DEF Environment, Edit, Start, Stop, keyword, MarkersMove
<1>3. ASSUME NEW r \in Runs, ShallowStep(r) PROVE MarkersMove
      BY <1>3 DEF ShallowStep, ShallowOpen, ShallowRead, ShallowCommit,
             ShallowMark, keyword, MarkersMove
<1>4. ASSUME NEW r \in Runs, OpenStep(r) PROVE MarkersMove
      BY <1>4 DEF OpenStep, OpenExisting, NoStore, OpenNew, CreateTable,
             ModelMismatch, OpenText, WriterBusy, keyword, MarkersMove
<1>5. ASSUME NEW r \in Runs, GateStep(r) PROVE MarkersMove
      BY ZenonT(60), <1>5 DEF GateStep, SkipUnchanged, Gate, HashFileFails, ReadFile,
             ReadFileFails, GateDone, keyword, MarkersMove
<1>6. ASSUME NEW r \in Runs, BatchStep(r) PROVE MarkersMove
      BY <1>6 DEF BatchStep, TakeBatch, EmbedderRefused,
             DeleteRows, Embed, InsertSlice, BatchFails, QueueText,
             QueueTextFails, BatchDone, keyword, MarkersMove
<1>7. ASSUME NEW r \in Runs, EndStep(r) PROVE MarkersMove
      BY <1>7 DEF EndStep, CommitText, MarkSearchable, MarkReady, MarkFull,
             SetIndexed, Finish, keyword, MarkersMove
<1>8. CASE MarkersMove
      BY <1>8 DEF MarkersMove
<1> QED
    BY <1>1, <1>2, <1>3, <1>4, <1>5, <1>6, <1>7, <1>8 DEF Next, RunStep

(* What a restart does to a run.                                           *)
LEMMA RestartedRun ==
    ASSUME TypeOK, Restart, NEW r \in Runs
    PROVE  \/ pc'[r] = "idle" /\ w'[r] = Idle
           \/ /\ pc'[r] = pc[r] /\ w'[r] = w[r]
              /\ writer = r => writer' = r
BY ConstantsAssumption DEF Restart

(* A restart keeps the types of the index core, ...                        *)
LEMMA RestartType == ASSUME TypeOK, Restart PROVE TypeOK'
<1>1. pc' \in [Runs -> PCs]
      BY DEF Restart, TypeOK, PCs
<1>2. w' \in [Runs -> Locals]
      BY IdleType DEF Restart, TypeOK
<1>3. dirty' \in [Runs -> SUBSET Files] /\ writer' \in Runs \cup {NoRun}
      BY DEF Restart, TypeOK
<1> QED
    BY <1>1, <1>2, <1>3 DEF Restart, TypeOK, vectors, keyword

(* ... its invariant, ...                                                  *)
LEMMA RestartInv == ASSUME TypeOK, IndexInv, Restart PROVE IndexInv'
<1>0. UNCHANGED <<hashStore, lance, text, torn>>
      BY DEF Restart, vectors, keyword
<1>1. ASSUME NEW r \in Runs PROVE RunInv(r)'
  <2>0. RunInv(r)
        BY DEF IndexInv
  <2>1. CASE pc'[r] = "idle" /\ w'[r] = Idle
    <3>1. QuietInv(r)' /\ WriterInv(r)'
          BY <2>1, NewLocalsQuiet
          DEF QuietInv, WriterInv, Idle, Locked, ShallowPCs, DeepPCs
    <3> QED
        BY <2>1, <3>1 DEF RunInv, QueueInv, VectorsInv, TextInv, DeepPCs
  <2>2. CASE pc'[r] = pc[r] /\ w'[r] = w[r] /\ (writer = r => writer' = r)
    <3>1. WriterInv(r)' /\ QuietInv(r)'
          BY <2>0, <2>2 DEF RunInv, WriterInv, QuietInv, InFlight
    <3>2. QueueInv(r)'
          BY <1>0, <2>0, <2>2 DEF RunInv, QueueInv, InFlight, IsPending
    <3>3. VectorsInv(r)' /\ TextInv(r)'
          BY <1>0, <2>0, <2>2
          DEF RunInv, VectorsInv, TextInv, LanceChunks, PlannedChunks
    <3> QED
        BY <3>1, <3>2, <3>3 DEF RunInv
  <2> QED
      BY <2>1, <2>2, RestartedRun
<1> QED
    BY <1>0, <1>1
    DEF IndexInv, HashInv, IndexedHasVectors, IndexedHasText, Indexed, LanceChunks

(* ... and the order of its markers.                                       *)
LEMMA RestartMarkers == ASSUME TypeOK, MarkersInv, Restart PROVE MarkersInv'
<1>0. UNCHANGED <<ready, searchable, metaFile>>
      BY DEF Restart, vectors, keyword
<1>1. ~Idle.meta.full
      BY DEF Idle, NewLocals, NoMeta
<1>2. ASSUME NEW r \in Runs
      PROVE  /\ w'[r].meta.full => w[r].meta.full
             /\ pc'[r] # "idle" => pc'[r] = pc[r]
      BY <1>1, RestartedRun
<1> QED
    BY <1>0, <1>2 DEF MarkersInv, FullNeedsReady

(* So every step of the server keeps what the index core guarantees.       *)
LEMMA IndexNext ==
    ASSUME TypeOK, IndexInv, MarkersInv, [ServerNext]_serverVars
    PROVE  /\ TypeOK' /\ IndexInv' /\ MarkersInv'
           /\ (searchable => searchable') /\ (ready => ready')
<1>1. CASE [Next]_vars
      BY <1>1, TypeNext, InvNext, MarkersNext, MarkersStay DEF IndexInv, CoreInv
<1>2. CASE Restart
  <2>1. UNCHANGED <<searchable, ready>>
        BY <1>2 DEF Restart, keyword
  <2> QED
      BY <1>2, <2>1, RestartType, RestartInv, RestartMarkers
<1> QED
    BY <1>1, <1>2, ServerMovesIndex

-----------------------------------------------------------------------------
(* Types, and what a request has read.                                     *)

CallType == [at : CallPCs, found : Phases]
Entry    == [hits : Hits, late : BOOLEAN]

LEMMA DiskPhaseType == DiskPhase \in Phases
BY DEF DiskPhase, Phases

LEMMA CallAtType ==
    ASSUME call \in [Runs -> CallType], NEW r \in Runs, NEW label \in CallPCs,
           CallAt(r, label)
    PROVE  call' \in [Runs -> CallType]
BY DEF CallAt, CallType

(* A step of the index handler.                                            *)
LEMMA IndexCallType ==
    ASSUME ServerTypeOK, NEW r \in Runs, IndexCall(r)
    PROVE  /\ phase' \in Phases \cup {"absent"}
           /\ call' \in [Runs -> CallType]
           /\ settled' \in BOOLEAN
           /\ cache' = cache \/ cache' = [m \in Modes |-> None]
           /\ \/ UNCHANGED rd
              \/ rd' = [c \in Readers |-> [rd[c] EXCEPT
                          !.late = @ \/ rd[c].at \in {"vec", "put"}]]
<1>0. /\ phase \in Phases \cup {"absent"} /\ settled \in BOOLEAN
      /\ call \in [Runs -> CallType]
      BY DEF ServerTypeOK, CallType
<1>p. PartialFrom(phase) \in Phases
      BY DEF PartialFrom, Phases
<1>1. ASSUME NEW q \in Requests, BeginCall(r, q) \/ CliStart(r, q)
      PROVE  /\ phase' \in {phase, "building"} /\ settled' = FALSE
             /\ call' \in [Runs -> CallType]
             /\ UNCHANGED <<cache, rd>>
      BY <1>0, <1>1, CallAtType DEF BeginCall, CliStart, CallPCs
<1>2. CoreStep(r) => UNCHANGED server
      BY DEF CoreStep
<1>3. ShallowPassEnds(r) \/ CoreErr(r) \/ CoreOk(r) \/ CliStep(r) =>
          /\ call' \in [Runs -> CallType]
          /\ UNCHANGED <<phase, cache, rd, settled>>
      BY <1>0, CallAtType DEF ShallowPassEnds, CoreErr, CoreOk, CliStep, CallPCs
<1>4. MarkTier(r) \/ MarkPhase(r) =>
          /\ phase' \in Phases
          /\ call' \in [Runs -> CallType]
          /\ UNCHANGED <<cache, rd, settled>>
      BY <1>0, <1>p, CallAtType DEF MarkTier, MarkPhase, CallPCs, Phases
<1>5. RestoreRead(r) \/ RestoreSet(r) =>
          /\ phase' \in Phases \cup {"absent"}
          /\ call' \in [Runs -> CallType]
          /\ UNCHANGED <<cache, rd, settled>>
      BY <1>0, DiskPhaseType
      DEF RestoreRead, RestoreSet, NoCall, CallType, CallPCs, Phases
<1>6. ClearCache(r) =>
          /\ call' \in [Runs -> CallType]
          /\ UNCHANGED phase /\ settled' \in BOOLEAN
          /\ cache' = [m \in Modes |-> None]
          /\ rd' = [c \in Readers |-> [rd[c] EXCEPT
                      !.late = @ \/ rd[c].at \in {"vec", "put"}]]
      BY <1>0, CallAtType DEF ClearCache, CallPCs
<1> QED
    BY <1>0, <1>1, <1>2, <1>3, <1>4, <1>5, <1>6 DEF IndexCall, server, Phases

LEMMA RoutedType ==
    ASSUME NEW c \in Readers, rd[c] \in Reader, NEW p \in Phases
    PROVE  /\ Routed(c, p) \in Reader
           /\ Routed(c, p).at \in {"idle", "get", "txt"}
<1>1. None \in [Files -> SUBSET LanceRow] \cup {None}
      OBVIOUS
<1> QED
    BY <1>1 DEF Routed, Reader, IdleReader, Tools, Modes, Phases, Hits, NoHits

(* One request moves, and what it has read then fits its mode.             *)
Moved(c, l) ==
    /\ rd' = [rd EXCEPT ![c] = l]
    /\ l \in Reader
    /\ l.at = "vec" => l.mode = "hybrid" /\ l.hits.txt # None
    /\ l.at = "put" => Complete(l.hits, l.mode)

(* A step of a search request.                                             *)
LEMMA SearchCallType ==
    ASSUME ServerTypeOK, NEW c \in Readers, ReaderInv(c), SearchCall(c)
    PROVE  /\ UNCHANGED <<call, settled>>
           /\ phase' \in Phases \cup {"absent"}
           /\ \E l : Moved(c, l)
           /\ \/ UNCHANGED cache
              \/ /\ rd[c].at = "put"
                 /\ cache' = [cache EXCEPT ![rd[c].mode] =
                        [hits |-> rd[c].hits, late |-> rd[c].late]]
<1>0. /\ rd[c] \in Reader /\ phase \in Phases \cup {"absent"}
      /\ lance \in [Files -> SUBSET LanceRow] /\ lance # None
      /\ text \in [Files -> SUBSET TextRow] /\ text # None
      BY ServerAssumption DEF ServerTypeOK, TypeOK
<1>i. IdleReader \in Reader /\ IdleReader.at = "idle"
      BY DEF IdleReader, Reader, Tools, Modes, Phases, Hits, NoHits
<1>1. ASSUME NEW tool \in Tools, Ask(c, tool)
      PROVE  /\ UNCHANGED <<phase, call, cache, settled>>
             /\ \E l : Moved(c, l)
  <2> DEFINE l == [IdleReader EXCEPT !.at = "status", !.tool = tool]
  <2>1. l \in Reader /\ l.at = "status"
        BY <1>i DEF Reader, IdleReader
  <2> QED
      BY <1>1, <2>1 DEF Ask, Moved
<1>2. CASE StatusKnown(c)
  <2>1. phase \in Phases
        BY <1>0, <1>2 DEF StatusKnown
  <2>2. Moved(c, Routed(c, phase))
        BY <1>0, <1>2, <2>1, RoutedType DEF StatusKnown, Moved
  <2> QED
      BY <1>0, <1>2, <2>2 DEF StatusKnown
<1>3. CASE StatusUnknown(c)
  <2> DEFINE l == [rd[c] EXCEPT !.at = "insert", !.found = DiskPhase]
  <2>1. l \in Reader /\ l.at = "insert"
        BY <1>0, DiskPhaseType DEF Reader
  <2>2. Moved(c, l)
        BY <1>0, <1>3, <2>1 DEF StatusUnknown, Moved
  <2> QED
      BY <1>0, <1>3, <2>2 DEF StatusUnknown
<1>4. CASE StatusInsert(c)
  <2>1. rd[c].found \in Phases
        BY <1>0 DEF Reader
  <2>2. Moved(c, Routed(c, rd[c].found))
        BY <1>0, <1>4, <2>1, RoutedType DEF StatusInsert, Moved
  <2> QED
      BY <1>4, <2>1, <2>2 DEF StatusInsert
<1>5. CASE CacheHit(c) \/ SearchFails(c)
  <2>1. Moved(c, IdleReader)
        BY <1>5, <1>i DEF CacheHit, SearchFails, Moved
  <2> QED
      BY <1>0, <1>5, <2>1 DEF CacheHit, SearchFails
<1>6. CASE CacheMiss(c)
  <2> DEFINE l == [rd[c] EXCEPT !.at = "txt"]
  <2>1. l \in Reader /\ l.at = "txt"
        BY <1>0 DEF Reader
  <2>2. Moved(c, l)
        BY <1>0, <1>6, <2>1 DEF CacheMiss, Moved
  <2> QED
      BY <1>0, <1>6, <2>2 DEF CacheMiss
<1>7. CASE SearchText(c) /\ rd[c].mode = "hybrid"
  <2> DEFINE l == [rd[c] EXCEPT !.at = "vec", !.hits.txt = text]
  <2>1. l \in Reader /\ l.at = "vec" /\ l.mode = "hybrid" /\ l.hits.txt = text
        BY <1>0, <1>7 DEF Reader, Hits
  <2>2. Moved(c, l)
        BY <1>0, <1>7, <2>1 DEF SearchText, Moved
  <2> QED
      BY <1>0, <1>7, <2>2 DEF SearchText
<1>8. ASSUME NEW found \in Hits, Complete(found, rd[c].mode),
             rd' = [rd EXCEPT ![c] = Read(c, found)]
      PROVE  \E l : Moved(c, l)
  <2> DEFINE l == [rd[c] EXCEPT !.at = "put", !.hits = found]
  <2>1. /\ l \in Reader /\ l.at = "put"
        /\ l.mode = rd[c].mode /\ l.hits = found
        BY <1>0 DEF Reader
  <2>2. Moved(c, IdleReader) \/ Moved(c, l)
        BY <1>8, <1>i, <2>1 DEF Read, Moved
  <2> QED
      BY <2>2
<1>9. CASE SearchText(c) /\ rd[c].mode # "hybrid"
  <2> DEFINE found == [NoHits EXCEPT !.txt = text]
  <2>1. found \in Hits /\ Complete(found, rd[c].mode)
        BY <1>0, <1>9 DEF Hits, NoHits, Complete
  <2>2. rd' = [rd EXCEPT ![c] = Read(c, found)]
        BY <1>9 DEF SearchText
  <2> HIDE DEF found
  <2> QED
      BY <1>0, <1>8, <1>9, <2>1, <2>2 DEF SearchText
<1>10. CASE SearchVectors(c)
  <2> DEFINE found == [rd[c].hits EXCEPT !.vec = lance]
  <2>1. rd[c].mode = "hybrid" /\ rd[c].hits.txt # None /\ rd[c].hits \in Hits
        BY <1>0, <1>10 DEF SearchVectors, ReaderInv, Reader
  <2>2. found \in Hits /\ Complete(found, rd[c].mode)
        BY <1>0, <2>1 DEF Hits, Complete
  <2>3. rd' = [rd EXCEPT ![c] = Read(c, found)]
        BY <1>10 DEF SearchVectors
  <2> HIDE DEF found
  <2> QED
      BY <1>0, <1>8, <1>10, <2>2, <2>3 DEF SearchVectors
<1>11. CASE CachePut(c)
  <2>1. Moved(c, IdleReader)
        BY <1>11, <1>i DEF CachePut, Moved
  <2> QED
      BY <1>0, <1>11, <2>1 DEF CachePut
<1> QED
    BY <1>0, <1>1, <1>2, <1>3, <1>4, <1>5, <1>6, <1>7, <1>9, <1>10, <1>11
    DEF SearchCall

(* Every step keeps the types and what the requests have read.             *)
LEMMA ServerTypeNext ==
    ASSUME ServerTypeOK, \A c \in Readers : ReaderInv(c), TypeOK',
           [ServerNext]_serverVars
    PROVE  ServerTypeOK' /\ \A c \in Readers : ReaderInv(c)'
<1>0. /\ phase \in Phases \cup {"absent"} /\ settled \in BOOLEAN
      /\ call \in [Runs -> CallType]
      /\ cache \in [Modes -> Entry \cup {None}]
      /\ rd \in [Readers -> Reader]
      /\ \A m \in Modes : cache[m] # None => Complete(cache[m].hits, m)
      BY DEF ServerTypeOK, CallType, Entry
<1>s. ASSUME phase' \in Phases \cup {"absent"}, settled' \in BOOLEAN,
             call' \in [Runs -> CallType],
             cache' \in [Modes -> Entry \cup {None}],
             \A m \in Modes : cache'[m] # None => Complete(cache'[m].hits, m),
             rd' \in [Readers -> Reader],
             \A c \in Readers : ReaderInv(c)'
      PROVE  ServerTypeOK' /\ \A c \in Readers : ReaderInv(c)'
      BY <1>s DEF ServerTypeOK, CallType, Entry, Complete
<1>n. [m \in Modes |-> None] \in [Modes -> Entry \cup {None}]
      OBVIOUS
<1>1. CASE UNCHANGED server
  <2>1. \A c \in Readers : ReaderInv(c)'
        BY <1>1 DEF server, ReaderInv, Complete
  <2> QED
      BY <1>0, <1>1, <1>s, <2>1 DEF server
<1>2. ASSUME NEW r \in Runs, IndexCall(r)
      PROVE  ServerTypeOK' /\ \A c \in Readers : ReaderInv(c)'
  <2>1. /\ phase' \in Phases \cup {"absent"}
        /\ call' \in [Runs -> CallType]
        /\ settled' \in BOOLEAN
        /\ cache' = cache \/ cache' = [m \in Modes |-> None]
        BY <1>2, IndexCallType
  <2>2. rd' \in [Readers -> Reader] /\ \A c \in Readers : ReaderInv(c)'
    <3>1. CASE UNCHANGED rd
          BY <1>0, <3>1 DEF ReaderInv, Complete
    <3>2. CASE rd' = [c \in Readers |-> [rd[c] EXCEPT
                        !.late = @ \/ rd[c].at \in {"vec", "put"}]]
      <4>1. ASSUME NEW c \in Readers
            PROVE  /\ rd'[c] \in Reader /\ rd'[c].at = rd[c].at
                   /\ rd'[c].mode = rd[c].mode /\ rd'[c].hits = rd[c].hits
            BY <1>0, <3>2 DEF Reader
      <4> QED
          BY <3>2, <4>1 DEF ReaderInv, Complete
    <3> QED
        BY <1>2, <3>1, <3>2, IndexCallType
  <2>3. cache' \in [Modes -> Entry \cup {None}]
        BY <1>0, <1>n, <2>1
  <2>4. \A m \in Modes : cache'[m] # None => Complete(cache'[m].hits, m)
        BY <1>0, <2>1
  <2> QED
      BY <1>s, <2>1, <2>2, <2>3, <2>4
<1>3. ASSUME NEW c \in Readers, SearchCall(c)
      PROVE  ServerTypeOK' /\ \A d \in Readers : ReaderInv(d)'
  <2>1. /\ UNCHANGED <<call, settled>>
        /\ phase' \in Phases \cup {"absent"}
        BY <1>3, SearchCallType
  <2>2. PICK l : Moved(c, l)
        BY <1>3, SearchCallType
  <2>3. rd' \in [Readers -> Reader] /\ rd'[c] = l
        BY <1>0, <2>2 DEF Moved
  <2>4. ASSUME NEW d \in Readers PROVE ReaderInv(d)'
    <3>1. CASE d = c
          BY <2>2, <2>3, <3>1 DEF Moved, ReaderInv, Complete
    <3>2. CASE d # c
      <4>1. rd'[d] = rd[d]
            BY <1>0, <2>2, <3>2 DEF Moved
      <4> QED
          BY <4>1 DEF ReaderInv, Complete
    <3> QED
        BY <3>1, <3>2
  <2>5. CASE UNCHANGED cache
        BY <1>0, <1>s, <2>1, <2>3, <2>4, <2>5
  <2>6. CASE /\ rd[c].at = "put"
             /\ cache' = [cache EXCEPT ![rd[c].mode] =
                    [hits |-> rd[c].hits, late |-> rd[c].late]]
    <3> DEFINE new == [hits |-> rd[c].hits, late |-> rd[c].late]
    <3>1. /\ new \in Entry /\ rd[c].mode \in Modes
          /\ Complete(rd[c].hits, rd[c].mode)
          BY <1>0, <2>6 DEF Entry, Reader, ReaderInv
    <3>2. cache' \in [Modes -> Entry \cup {None}]
          BY <1>0, <2>6, <3>1
    <3>3. \A m \in Modes : cache'[m] # None => Complete(cache'[m].hits, m)
          BY <1>0, <2>6, <3>1
    <3> QED
        BY <1>0, <1>s, <2>1, <2>3, <2>4, <3>2, <3>3
  <2> QED
      BY <1>3, <2>5, <2>6, SearchCallType
<1>4. ASSUME NEW m \in Modes, CacheExpires(m)
      PROVE  ServerTypeOK' /\ \A c \in Readers : ReaderInv(c)'
  <2>1. /\ UNCHANGED <<phase, call, rd, settled>>
        /\ cache' = [cache EXCEPT ![m] = None]
        BY <1>4 DEF CacheExpires
  <2>2. \A c \in Readers : ReaderInv(c)'
        BY <2>1 DEF ReaderInv, Complete
  <2>3. \A n \in Modes : cache'[n] # None => Complete(cache'[n].hits, n)
        BY <1>0, <2>1
  <2> QED
      BY <1>0, <1>s, <2>1, <2>2, <2>3
<1>5. CASE Restart
  <2>1. IdleReader \in Reader /\ IdleReader.at = "idle"
        BY DEF IdleReader, Reader, Tools, Modes, Phases, Hits, NoHits
  <2>2. rd' \in [Readers -> Reader] /\ \A c \in Readers : ReaderInv(c)'
        BY <1>5, <2>1 DEF Restart, ReaderInv
  <2>3. /\ call' \in [Runs -> CallType]
        /\ phase' = "absent" /\ UNCHANGED settled
        /\ cache' = [m \in Modes |-> None]
        BY <1>0, <1>5 DEF Restart, NoCall, CallType, CallPCs, Phases
  <2> QED
      BY <1>0, <1>n, <1>s, <2>2, <2>3
<1> QED
    BY <1>1, <1>2, <1>3, <1>4, <1>5
    DEF ServerNext, serverVars, server, EditFile

-----------------------------------------------------------------------------
(* The phase.                                                              *)

(* What is on disk is justified, and a phase stays justified.              *)
LEMMA DiskPhaseJustified == ASSUME MarkersInv PROVE Justified(DiskPhase)
BY DEF MarkersInv, FullNeedsReady, DiskPhase, Justified

LEMMA StaysJustified ==
    ASSUME NEW p, Justified(p),
           (searchable => searchable') /\ (ready => ready')
    PROVE  /\ p = "partial" => searchable'
           /\ p = "full" => searchable' /\ ready'
BY DEF Justified

(* The part of PhaseInv about a call that moves.                           *)
CallJustified(r) ==
    /\ call[r].at \in {"tier", "ended", "ended-failed"} => searchable
    /\ call[r].at = "restored" => Justified(call[r].found)

LEMMA CallStaysJustified ==
    ASSUME NEW r \in Runs, CallJustified(r), call'[r] = call[r],
           (searchable => searchable') /\ (ready => ready')
    PROVE  CallJustified(r)'
BY DEF CallJustified, Justified

(* A step of the index handler writes only phases that are justified.      *)
LEMMA IndexCallPhase ==
    ASSUME ServerTypeOK, MarkersInv, PhaseInv, MarkersInv',
           (searchable => searchable') /\ (ready => ready'),
           NEW r \in Runs, IndexCall(r)
    PROVE  /\ Justified(phase)'
           /\ CallJustified(r)'
           /\ \A s \in Runs \ {r} : call'[s] = call[s]
<1>0. /\ call \in [Runs -> CallType]
      /\ phase \in Phases \cup {"absent"} /\ TypeOK
      BY DEF ServerTypeOK, CallType
<1>j. Justified(phase) /\ CallJustified(r)
      BY DEF PhaseInv, CallJustified
<1>c. ASSUME NEW label, CallAt(r, label)
      PROVE  /\ call'[r].at = label
             /\ \A s \in Runs \ {r} : call'[s] = call[s]
      BY <1>0, <1>c DEF CallAt, CallType
<1>k. ASSUME UNCHANGED phase PROVE Justified(phase)'
      BY <1>j, <1>k, StaysJustified DEF Justified
<1>1. ASSUME NEW q \in Requests, BeginCall(r, q) \/ CliStart(r, q)
      PROVE  /\ Justified(phase)' /\ CallJustified(r)'
             /\ \A s \in Runs \ {r} : call'[s] = call[s]
  <2>1. /\ phase' = "building" \/ UNCHANGED phase
        /\ CallAt(r, "core") \/ CallAt(r, "cli")
        BY <1>1 DEF BeginCall, CliStart
  <2>2. phase' = "building" => Justified(phase)'
        BY DEF Justified
  <2> QED
      BY <1>c, <1>k, <2>1, <2>2 DEF CallJustified
<1>2. CASE CoreStep(r)
      BY <1>2, <1>k, <1>j, CallStaysJustified DEF CoreStep, server
<1>3. CASE ShallowPassEnds(r)
  <2>1. searchable' /\ UNCHANGED phase /\ CallAt(r, "tier")
        BY <1>3 DEF ShallowPassEnds, ShallowMark
  <2> QED
      BY <1>c, <1>k, <2>1 DEF CallJustified
<1>4. CASE MarkTier(r)
  <2>1. /\ searchable' /\ CallAt(r, "core") /\ phase' = PartialFrom(phase)
        BY <1>4, <1>j DEF MarkTier, CallJustified
  <2>2. Justified(phase)'
        BY <1>j, <2>1 DEF Justified, PartialFrom
  <2> QED
      BY <1>c, <2>1, <2>2 DEF CallJustified
<1>5. CASE CoreErr(r) \/ CliStep(r)
  <2>1. /\ UNCHANGED phase
        /\ CallAt(r, "restore") \/ CallAt(r, "none") \/ CallAt(r, "cli")
        BY <1>5 DEF CoreErr, CliStep
  <2> QED
      BY <1>c, <1>k, <2>1 DEF CallJustified
<1>6. CASE RestoreRead(r)
  <2>1. /\ call'[r].at = "restored" /\ call'[r].found = DiskPhase
        /\ \A s \in Runs \ {r} : call'[s] = call[s]
        /\ UNCHANGED phase
        BY <1>0, <1>6 DEF RestoreRead
  <2>2. Justified(DiskPhase)
        BY DiskPhaseJustified
  <2>3. CallJustified(r)'
        BY <2>1, <2>2, StaysJustified DEF CallJustified, Justified
  <2> QED
      BY <1>k, <2>1, <2>3
<1>7. CASE RestoreSet(r)
  <2>1. /\ call'[r].at = "none" /\ phase' = call[r].found
        /\ \A s \in Runs \ {r} : call'[s] = call[s]
        BY <1>0, <1>7 DEF RestoreSet, NoCall
  <2>2. Justified(call[r].found)
        BY <1>7, <1>j DEF RestoreSet, CallJustified
  <2>3. Justified(phase)'
        BY <2>1, <2>2, StaysJustified DEF Justified
  <2> QED
      BY <2>1, <2>3 DEF CallJustified
<1>8. CASE CoreOk(r)
  <2>1. searchable
        BY <1>8 DEF CoreOk, Finish, MarkersInv
  <2>2. UNCHANGED phase /\ \E l \in {"ended", "ended-failed"} : CallAt(r, l)
        BY <1>8 DEF CoreOk
  <2> QED
      BY <1>c, <1>k, <2>1, <2>2 DEF CallJustified
<1>9. CASE MarkPhase(r)
  <2>1. searchable
        BY <1>9, <1>j DEF MarkPhase, CallJustified
  <2>2. /\ (phase' = "full" /\ ready) \/ phase' = PartialFrom(phase)
        /\ CallAt(r, "clear")
        BY <1>9 DEF MarkPhase
  <2>3. Justified(phase)'
        BY <1>j, <2>1, <2>2 DEF Justified, PartialFrom
  <2> QED
      BY <1>c, <2>2, <2>3 DEF CallJustified
<1>10. CASE ClearCache(r)
  <2>1. UNCHANGED phase /\ CallAt(r, "none")
        BY <1>10 DEF ClearCache
  <2> QED
      BY <1>c, <1>k, <2>1 DEF CallJustified
<1> QED
    BY <1>1, <1>2, <1>3, <1>4, <1>5, <1>6, <1>7, <1>8, <1>9, <1>10
    DEF IndexCall, CoreStep, server

(* A search request that found no phase is about to write one from disk.   *)
LEMMA SearchCallPhase ==
    ASSUME ServerTypeOK, MarkersInv, PhaseInv,
           (searchable => searchable') /\ (ready => ready'),
           NEW c \in Readers, SearchCall(c)
    PROVE  /\ Justified(phase)'
           /\ (rd[c].at = "insert" => Justified(rd[c].found))'
           /\ \A d \in Readers \ {c} : rd'[d] = rd[d]
<1>0. rd \in [Readers -> Reader] /\ rd[c] \in Reader
      BY DEF ServerTypeOK
<1>j. Justified(phase) /\ (rd[c].at = "insert" => Justified(rd[c].found))
      BY DEF PhaseInv
<1>k. ASSUME UNCHANGED phase PROVE Justified(phase)'
      BY <1>j, <1>k, StaysJustified DEF Justified
<1>1. CASE StatusUnknown(c)
  <2>1. /\ rd'[c].at = "insert" /\ rd'[c].found = DiskPhase
        /\ \A d \in Readers \ {c} : rd'[d] = rd[d]
        /\ UNCHANGED phase
        BY <1>0, <1>1 DEF StatusUnknown, Reader
  <2>2. Justified(DiskPhase)
        BY DiskPhaseJustified
  <2> QED
      BY <1>k, <2>1, <2>2, StaysJustified DEF Justified
<1>2. CASE StatusInsert(c)
  <2>1. /\ phase' = rd[c].found /\ Justified(rd[c].found)
        /\ rd[c].found \in Phases
        /\ rd' = [rd EXCEPT ![c] = Routed(c, rd[c].found)]
        BY <1>0, <1>2, <1>j DEF StatusInsert, Reader
  <2>2. Justified(phase)'
        BY <2>1, StaysJustified DEF Justified
  <2>3. rd'[c].at # "insert" /\ \A d \in Readers \ {c} : rd'[d] = rd[d]
        BY <1>0, <2>1, RoutedType
  <2> QED
      BY <2>2, <2>3
<1>3. CASE StatusKnown(c)
  <2>1. phase \in Phases /\ UNCHANGED phase
        BY <1>3 DEF StatusKnown, ServerTypeOK
  <2>2. rd'[c].at # "insert" /\ \A d \in Readers \ {c} : rd'[d] = rd[d]
        BY <1>0, <1>3, <2>1, RoutedType DEF StatusKnown
  <2> QED
      BY <1>k, <2>1, <2>2
<1>i. IdleReader.at = "idle"
      BY DEF IdleReader
<1>r. ASSUME NEW found PROVE Read(c, found).at # "insert"
      BY <1>0, <1>i DEF Read, Reader
<1>4. CASE SearchText(c) /\ rd[c].mode = "hybrid"
  <2>1. rd'[c].at = "vec" /\ \A d \in Readers \ {c} : rd'[d] = rd[d]
        BY <1>0, <1>4 DEF SearchText, Reader
  <2> QED
      BY <1>4, <1>k, <2>1 DEF SearchText
<1>5. CASE SearchVectors(c) \/ (SearchText(c) /\ rd[c].mode # "hybrid")
  <2>1. UNCHANGED phase /\ \E found : rd' = [rd EXCEPT ![c] = Read(c, found)]
        BY <1>5 DEF SearchVectors, SearchText
  <2> QED
      BY <1>0, <1>k, <1>r, <2>1
<1>6. ASSUME NEW tool \in Tools, Ask(c, tool)
      PROVE  /\ UNCHANGED phase /\ rd'[c].at = "status"
             /\ \A d \in Readers \ {c} : rd'[d] = rd[d]
      BY <1>0, <1>6 DEF Ask, IdleReader
<1>7. CASE CacheMiss(c)
  <2>1. rd'[c].at = "txt" /\ \A d \in Readers \ {c} : rd'[d] = rd[d]
        BY <1>0, <1>7 DEF CacheMiss, Reader
  <2> QED
      BY <1>7, <1>k, <2>1 DEF CacheMiss
<1>8. CASE CacheHit(c) \/ SearchFails(c) \/ CachePut(c)
  <2>1. UNCHANGED phase /\ rd' = [rd EXCEPT ![c] = IdleReader]
        BY <1>8 DEF CacheHit, SearchFails, CachePut
  <2> QED
      BY <1>0, <1>i, <1>k, <2>1
<1> QED
    BY <1>k, <1>1, <1>2, <1>3, <1>4, <1>5, <1>6, <1>7, <1>8 DEF SearchCall

(* Every step keeps the phase justified.                                   *)
LEMMA PhaseNext ==
    ASSUME ServerTypeOK, MarkersInv, PhaseInv, MarkersInv',
           (searchable => searchable') /\ (ready => ready'),
           [ServerNext]_serverVars
    PROVE  PhaseInv'
<1>0. /\ Justified(phase)
      /\ \A r \in Runs : CallJustified(r)
      /\ \A c \in Readers : rd[c].at = "insert" => Justified(rd[c].found)
      BY DEF PhaseInv, CallJustified
<1>s. ASSUME Justified(phase)', \A r \in Runs : CallJustified(r)',
             \A c \in Readers :
                (rd[c].at = "insert" => Justified(rd[c].found))'
      PROVE  PhaseInv'
      BY <1>s DEF PhaseInv, CallJustified, Justified
<1>p. UNCHANGED phase => Justified(phase)'
      BY <1>0, StaysJustified DEF Justified
<1>c. UNCHANGED call => \A r \in Runs : CallJustified(r)'
      BY <1>0, CallStaysJustified
<1>r. ASSUME NEW c \in Readers, rd'[c].at = rd[c].at,
             rd'[c].found = rd[c].found
      PROVE  (rd[c].at = "insert" => Justified(rd[c].found))'
      BY <1>0, <1>r, StaysJustified DEF Justified
<1>1. CASE UNCHANGED <<phase, call, rd>>
      BY <1>1, <1>s, <1>p, <1>c, <1>r
<1>2. ASSUME NEW r \in Runs, IndexCall(r) PROVE PhaseInv'
  <2>1. /\ Justified(phase)' /\ CallJustified(r)'
        /\ \A s \in Runs \ {r} : call'[s] = call[s]
        BY <1>2, IndexCallPhase
  <2>2. \A s \in Runs : CallJustified(s)'
        BY <1>0, <2>1, CallStaysJustified
  <2>3. ASSUME NEW c \in Readers
        PROVE  rd'[c].at = rd[c].at /\ rd'[c].found = rd[c].found
    <3>1. rd[c] \in Reader
          BY DEF ServerTypeOK
    <3> QED
        BY <1>2, <3>1, IndexCallType DEF Reader
  <2> QED
      BY <1>r, <1>s, <2>1, <2>2, <2>3
<1>3. ASSUME NEW c \in Readers, SearchCall(c) PROVE PhaseInv'
  <2>1. /\ Justified(phase)'
        /\ (rd[c].at = "insert" => Justified(rd[c].found))'
        /\ \A d \in Readers \ {c} : rd'[d] = rd[d]
        BY <1>3, SearchCallPhase
  <2>2. UNCHANGED call
        BY <1>3
        DEF SearchCall, Ask, StatusKnown, StatusUnknown, StatusInsert, CacheHit,
            CacheMiss, SearchVectors, SearchText, SearchFails, CachePut
  <2> QED
      BY <1>c, <1>r, <1>s, <2>1, <2>2
<1>4. CASE Restart
  <2>1. /\ phase' = "absent"
        /\ \A r \in Runs : call'[r] = NoCall \/ call'[r] = call[r]
        /\ \A c \in Readers : rd'[c] = IdleReader
        BY <1>4 DEF Restart
  <2>2. Justified(phase)'
        BY <2>1 DEF Justified
  <2>3. \A r \in Runs : call'[r] = NoCall => CallJustified(r)'
        BY DEF CallJustified, NoCall
  <2>4. \A r \in Runs : CallJustified(r)'
        BY <1>0, <2>1, <2>3, CallStaysJustified
  <2> QED
      BY <1>s, <2>1, <2>2, <2>4 DEF IdleReader
<1> QED
    BY <1>1, <1>2, <1>3, <1>4
    DEF ServerNext, serverVars, server, EditFile, CacheExpires

-----------------------------------------------------------------------------
(* The context cache.                                                      *)

(* Nothing the cache depends on moves.                                     *)
LEMMA FreshFrame ==
    ASSUME FreshInv, UNCHANGED <<pc, lance, text, cache, rd, settled>>
    PROVE  FreshInv'
BY DEF FreshInv, CacheIsCurrent, Found

(* While the cache is settled nobody moves a run, and a call that ends     *)
(* settles an empty cache.                                                 *)
LEMMA IndexCallFresh ==
    ASSUME ServerTypeOK, FreshInv, NEW r \in Runs, IndexCall(r)
    PROVE  FreshInv'
<1>1. ASSUME NEW q \in Requests, BeginCall(r, q) \/ CliStart(r, q)
      PROVE  ~settled'
      BY <1>1 DEF BeginCall, CliStart
<1>2. CoreStep(r) \/ CoreErr(r) \/ CliStep(r) \/ ShallowPassEnds(r)
          \/ CoreOk(r) => pc[r] # "idle" /\ UNCHANGED settled
      BY StepsWhenStarted
      DEF CoreStep, CoreErr, CliStep, ShallowPassEnds, CoreOk, server,
          ShallowMark, Finish
<1>3. pc[r] # "idle" => ~settled
      BY DEF FreshInv
<1>4. ~settled' => FreshInv'
      BY DEF FreshInv
<1>5. CASE MarkTier(r) \/ RestoreRead(r) \/ RestoreSet(r) \/ MarkPhase(r)
      BY <1>5, FreshFrame
      DEF MarkTier, RestoreRead, RestoreSet, MarkPhase, vars
<1>6. CASE ClearCache(r) /\ settled'
  <2>1. /\ \A m \in Modes : cache'[m] = None
        /\ \A s \in Runs : pc'[s] = "idle"
        BY <1>6 DEF ClearCache, vars
  <2>2. ASSUME NEW c \in Readers, ~rd'[c].late
        PROVE  rd'[c].at \notin {"vec", "put"}
    <3>1. rd[c] \in Reader
          BY DEF ServerTypeOK
    <3>2. rd'[c] = [rd[c] EXCEPT !.late = @ \/ rd[c].at \in {"vec", "put"}]
          BY <1>6 DEF ClearCache
    <3> QED
        BY <2>2, <3>1, <3>2 DEF Reader
  <2> QED
      BY <2>1, <2>2 DEF FreshInv, CacheIsCurrent
<1> QED
    BY <1>1, <1>2, <1>3, <1>4, <1>5, <1>6 DEF IndexCall

(* A request reads and caches what the stores hold.                        *)
LEMMA SearchCallFresh ==
    ASSUME ServerTypeOK, FreshInv, NEW c \in Readers, ReaderInv(c),
           SearchCall(c)
    PROVE  FreshInv'
<1>0. /\ rd \in [Readers -> Reader] /\ rd[c] \in Reader
      /\ cache \in [Modes -> Entry \cup {None}]
      BY DEF ServerTypeOK, Entry
<1>u. UNCHANGED <<pc, lance, text, settled>>
      BY DEF SearchCall, Ask, StatusKnown, StatusUnknown, StatusInsert,
             CacheHit, CacheMiss, SearchVectors, SearchText, SearchFails,
             CachePut, vars
<1>s. SUFFICES ASSUME settled PROVE FreshInv'
      BY <1>u DEF FreshInv
<1>f. /\ \A r \in Runs : pc[r] = "idle"
      /\ \A m \in Modes : cache[m] # None /\ ~cache[m].late
                             => cache[m].hits = Found(m)
      /\ \A d \in Readers : ~rd[d].late =>
            /\ rd[d].at = "vec" => rd[d].hits.txt = text
            /\ rd[d].at = "put" => rd[d].hits = Found(rd[d].mode)
      BY <1>s DEF FreshInv, CacheIsCurrent
<1>g. \A m : Found(m)' = Found(m)
      BY <1>u DEF Found
<1>d. ASSUME ~rd'[c].late => /\ rd'[c].at = "vec" => rd'[c].hits.txt = text
                             /\ rd'[c].at = "put" =>
                                  rd'[c].hits = Found(rd'[c].mode),
             \A d \in Readers \ {c} : rd'[d] = rd[d],
             \A m \in Modes : cache'[m] # None /\ ~cache'[m].late
                               => cache'[m].hits = Found(m)
      PROVE  FreshInv'
      BY <1>d, <1>f, <1>g, <1>u DEF FreshInv, CacheIsCurrent
<1>1. ASSUME NEW l, rd' = [rd EXCEPT ![c] = l], l.at \notin {"vec", "put"},
             UNCHANGED cache
      PROVE  FreshInv'
      BY <1>0, <1>1, <1>d, <1>f
<1>i. IdleReader.at = "idle"
      BY DEF IdleReader
<1>2. CASE \E tool \in Tools : Ask(c, tool)
  <2>1. PICK tool \in Tools : Ask(c, tool)
        BY <1>2
  <2> DEFINE l == [IdleReader EXCEPT !.at = "status", !.tool = tool]
  <2>2. l.at = "status"
        BY DEF IdleReader
  <2>3. rd' = [rd EXCEPT ![c] = l] /\ UNCHANGED cache
        BY <2>1 DEF Ask
  <2> HIDE DEF l
  <2> QED
      BY <1>1, <2>2, <2>3
<1>3. CASE StatusKnown(c) \/ StatusInsert(c)
  <2>1. PICK p \in Phases : rd' = [rd EXCEPT ![c] = Routed(c, p)]
        BY <1>0, <1>3 DEF StatusKnown, StatusInsert, ServerTypeOK, Reader
  <2>2. Routed(c, p).at \notin {"vec", "put"}
        BY <1>0, RoutedType
  <2>3. UNCHANGED cache
        BY <1>3 DEF StatusKnown, StatusInsert
  <2> QED
      BY <1>1, <2>1, <2>2, <2>3
<1>4. CASE StatusUnknown(c) \/ CacheMiss(c)
  <2>1. rd'[c].at \notin {"vec", "put"}
        BY <1>0, <1>4 DEF StatusUnknown, CacheMiss, Reader
  <2>2. UNCHANGED cache /\ \A d \in Readers \ {c} : rd'[d] = rd[d]
        BY <1>0, <1>4 DEF StatusUnknown, CacheMiss
  <2> QED
      BY <1>d, <1>f, <2>1, <2>2
<1>5. CASE CacheHit(c) \/ SearchFails(c)
  <2>1. rd' = [rd EXCEPT ![c] = IdleReader] /\ UNCHANGED cache
        BY <1>5 DEF CacheHit, SearchFails
  <2> QED
      BY <1>1, <1>i, <2>1
<1>r. ASSUME NEW found, rd' = [rd EXCEPT ![c] = Read(c, found)],
             ~rd[c].late => found = Found(rd[c].mode), UNCHANGED cache
      PROVE  FreshInv'
  <2>1. CASE rd[c].tool = "search"
        BY <1>1, <1>i, <1>r, <2>1 DEF Read
  <2>2. CASE rd[c].tool # "search"
    <3>1. rd'[c] = [rd[c] EXCEPT !.at = "put", !.hits = found]
          BY <1>0, <1>r, <2>2 DEF Read
    <3>2. /\ rd'[c].late = rd[c].late /\ rd'[c].at = "put"
          /\ rd'[c].hits = found /\ rd'[c].mode = rd[c].mode
          BY <1>0, <3>1 DEF Reader
    <3>3. \A d \in Readers \ {c} : rd'[d] = rd[d]
          BY <1>0, <1>r
    <3> QED
        BY <1>d, <1>f, <1>r, <3>2, <3>3
  <2> QED
      BY <2>1, <2>2
<1>6. CASE SearchText(c) /\ rd[c].mode = "hybrid"
  <2>1. rd'[c].at = "vec" /\ rd'[c].hits.txt = text
        BY <1>0, <1>6 DEF SearchText, Reader, Hits
  <2>2. UNCHANGED cache /\ \A d \in Readers \ {c} : rd'[d] = rd[d]
        BY <1>6 DEF SearchText
  <2> QED
      BY <1>d, <1>f, <2>1, <2>2
<1>7. CASE SearchText(c) /\ rd[c].mode # "hybrid"
  <2> DEFINE found == [NoHits EXCEPT !.txt = text]
  <2>1. found = Found(rd[c].mode)
        BY <1>7 DEF NoHits, Found
  <2>2. rd' = [rd EXCEPT ![c] = Read(c, found)] /\ UNCHANGED cache
        BY <1>7 DEF SearchText
  <2> HIDE DEF found
  <2> QED
      BY <1>r, <2>1, <2>2
<1>8. CASE SearchVectors(c)
  <2> DEFINE found == [rd[c].hits EXCEPT !.vec = lance]
  <2>1. rd[c].at = "vec" /\ rd[c].mode = "hybrid" /\ rd[c].hits \in Hits
        BY <1>0, <1>8 DEF SearchVectors, ReaderInv, Reader
  <2>2. ~rd[c].late => found = Found(rd[c].mode)
        BY <1>f, <2>1 DEF Hits, Found
  <2>3. rd' = [rd EXCEPT ![c] = Read(c, found)] /\ UNCHANGED cache
        BY <1>8 DEF SearchVectors
  <2> HIDE DEF found
  <2> QED
      BY <1>r, <2>2, <2>3
<1>9. CASE CachePut(c)
  <2> DEFINE new == [hits |-> rd[c].hits, late |-> rd[c].late]
  <2>1. /\ rd[c].at = "put" /\ rd' = [rd EXCEPT ![c] = IdleReader]
        /\ cache' = [cache EXCEPT ![rd[c].mode] = new]
        /\ rd[c].mode \in Modes
        BY <1>0, <1>9 DEF CachePut, Reader
  <2>2. rd'[c].at = "idle" /\ \A d \in Readers \ {c} : rd'[d] = rd[d]
        BY <1>0, <1>i, <2>1
  <2>3. ASSUME NEW m \in Modes, cache'[m] # None, ~cache'[m].late
        PROVE  cache'[m].hits = Found(m)
    <3>1. CASE m = rd[c].mode
      <4>1. cache'[m] = new
            BY <1>0, <2>1, <3>1
      <4> QED
          BY <1>f, <2>1, <2>3, <3>1, <4>1
    <3>2. CASE m # rd[c].mode
          BY <1>0, <1>f, <2>1, <2>3, <3>2
    <3> QED
        BY <3>1, <3>2
  <2> QED
      BY <1>d, <2>2, <2>3
<1> QED
    BY <1>2, <1>3, <1>4, <1>5, <1>6, <1>7, <1>8, <1>9 DEF SearchCall

(* Every step keeps the cache believable.                                  *)
LEMMA FreshNext ==
    ASSUME ServerTypeOK, \A c \in Readers : ReaderInv(c), FreshInv,
           [ServerNext]_serverVars
    PROVE  FreshInv'
<1>1. CASE UNCHANGED serverVars
      BY <1>1, FreshFrame DEF serverVars, vars
<1>2. ASSUME NEW r \in Runs, IndexCall(r) PROVE FreshInv'
      BY <1>2, IndexCallFresh
<1>3. ASSUME NEW c \in Readers, SearchCall(c) PROVE FreshInv'
      BY <1>3, SearchCallFresh
<1>4. ASSUME NEW m \in Modes, CacheExpires(m) PROVE FreshInv'
  <2>1. /\ UNCHANGED <<pc, lance, text, rd, settled>>
        /\ cache' = [cache EXCEPT ![m] = None]
        /\ cache \in [Modes -> Entry \cup {None}]
        BY <1>4 DEF CacheExpires, vars, ServerTypeOK, Entry
  <2>2. \A n \in Modes : cache'[n] = None \/ cache'[n] = cache[n]
        BY <2>1
  <2> QED
      BY <2>1, <2>2 DEF FreshInv, CacheIsCurrent, Found
<1>5. ASSUME NEW e \in Edits, EditFile(e[1], e[2]) PROVE FreshInv'
      BY <1>5, FreshFrame DEF EditFile, Edit, server, vectors, keyword
<1>6. CASE Restart
  <2>1. /\ UNCHANGED <<lance, text, settled>>
        /\ \A r \in Runs : pc'[r] = "idle" \/ pc'[r] = pc[r]
        /\ \A m \in Modes : cache'[m] = None
        /\ \A c \in Readers : rd'[c] = IdleReader
        BY <1>6 DEF Restart, vectors, keyword
  <2> QED
      BY <2>1 DEF FreshInv, CacheIsCurrent, Found, IdleReader
<1> QED
    BY <1>1, <1>2, <1>3, <1>4, <1>5, <1>6 DEF ServerNext

-----------------------------------------------------------------------------
(* The results.                                                            *)

LEMMA ServerInvInit == ServerInit => ServerInv
<1> SUFFICES ASSUME ServerInit PROVE ServerInv
    OBVIOUS
<1>1. TypeOK /\ IndexInv /\ MarkersInv
      BY TypeInit, InvInit, MarkersInit DEF ServerInit
<1>2. IdleReader \in Reader /\ IdleReader.at = "idle"
      BY DEF IdleReader, Reader, Tools, Modes, Phases, Hits, NoHits
<1>3. /\ NoCall \in [at : CallPCs, found : Phases] /\ NoCall.at = "none"
      BY DEF NoCall, CallPCs, Phases
<1>4. ServerTypeOK
      BY <1>1, <1>2, <1>3 DEF ServerInit, ServerTypeOK
<1>5. PhaseInv /\ FreshInv /\ \A c \in Readers : ReaderInv(c)
      BY <1>2, <1>3
      DEF ServerInit, PhaseInv, Justified, FreshInv, ReaderInv
<1> QED
    BY <1>1, <1>4, <1>5 DEF ServerInv

LEMMA ServerInvNext == ServerInv /\ [ServerNext]_serverVars => ServerInv'
<1> SUFFICES ASSUME ServerInv, [ServerNext]_serverVars PROVE ServerInv'
    OBVIOUS
<1>0. /\ ServerTypeOK /\ TypeOK /\ IndexInv /\ MarkersInv /\ PhaseInv
      /\ FreshInv /\ \A c \in Readers : ReaderInv(c)
      BY DEF ServerInv, ServerTypeOK
<1>1. /\ TypeOK' /\ IndexInv' /\ MarkersInv'
      /\ (searchable => searchable') /\ (ready => ready')
      BY <1>0, IndexNext
<1>2. ServerTypeOK' /\ \A c \in Readers : ReaderInv(c)'
      BY <1>0, <1>1, ServerTypeNext
<1>3. PhaseInv'
      BY <1>0, <1>1, PhaseNext
<1>4. FreshInv'
      BY <1>0, FreshNext
<1> QED
    BY <1>1, <1>2, <1>3, <1>4 DEF ServerInv

(* The invariant of the index core holds inside the server too, whatever   *)
(* the handlers, the restarts and a `vektor index` beside it do: the hash  *)
(* store vouches for no rows that are not there.                           *)
THEOREM ServerKeepsIndex == ServerSpec => [](IndexInv /\ ServerInv)
<1>1. ServerInv => IndexInv
      BY DEF ServerInv
<1> QED
    BY <1>1, ServerInvInit, ServerInvNext, PTL DEF ServerSpec

(* Every variable of the server keeps its type, and a cached result is     *)
(* complete for its tier.                                                  *)
THEOREM ServerTyped == ServerSpec => []ServerTypeOK
<1>1. ServerInv => ServerTypeOK
      BY DEF ServerInv
<1> QED
    BY <1>1, ServerKeepsIndex, PTL

(* The tracker never answers Partial without a searchable text index nor   *)
(* Full without a ready one.                                               *)
THEOREM PhaseIsTrue == ServerSpec => []PhaseHasItsTier
<1>1. ServerInv => PhaseHasItsTier
      BY DEF ServerInv, PhaseInv, Justified, PhaseHasItsTier
<1> QED
    BY <1>1, ServerKeepsIndex, PTL

(* From a call that cleared the context cache to the start of the next run *)
(* a cached result that is not late is what the stores hold.               *)
THEOREM ClearedCacheIsCurrent == ServerSpec => []CacheIsCurrent
<1>1. ServerInv => CacheIsCurrent
      BY DEF ServerInv, FreshInv, CacheIsCurrent
<1> QED
    BY <1>1, ServerKeepsIndex, PTL
=============================================================================
