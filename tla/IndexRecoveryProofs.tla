------------------------- MODULE IndexRecoveryProofs -------------------------
(* Theorems about IndexRecovery, for every project, chunker, requests and  *)
(* faults, and runs that do not overlap: the ready marker never stands     *)
(* beside missing keyword rows as long as no file is deleted and no        *)
(* removal of the index leaves its marker behind, and the rows are of one  *)
(* model.                                                                  *)
(* After a deleted lance directory or a rebuilt Tantivy directory the      *)
(* invariant of the pipeline holds but for the files whose rows are gone,  *)
(* so the argument is about those: IndexInvBut with the files that miss    *)
(* rows now, which no step of the pipeline adds to.                        *)
EXTENDS IndexRecovery, IndexPipelineProofs

-----------------------------------------------------------------------------
(* Steps of the pipeline.                                                  *)

NoTextNow == {f \in Files : ~HasText(f)}

(* Without a promise about rows, the invariant is that of the runs.        *)
LEMMA CoreIsBut == CoreInv => IndexInvBut(Files, NoTextNow)
BY DEF CoreInv, IndexInvBut, VectorsBut, TextBut, NoTextNow, HasText

(* A step of the pipeline keeps the invariant of the runs, and the keyword *)
(* rows of every file that had them.                                       *)
LEMMA PipelineStep ==
    ASSUME TypeOK, CoreInv, [Next]_vars
    PROVE  /\ TypeOK' /\ CoreInv'
           /\ \A f \in Files : HasText(f) => HasText(f)'
<1>1. TypeOK'
      BY TypeNext
<1>2. PICK Y : Y = NoTextNow
      OBVIOUS
<1>3. IndexInvBut(Files, Y)
      BY <1>2, CoreIsBut
<1>4. IndexInvBut(Files, Y)'
      BY <1>3, InvNextBut
<1> QED
    BY <1>1, <1>2, <1>4 DEF IndexInvBut, CoreInv, TextBut, NoTextNow, HasText

(* What a step of run r may do to the writer, to the ready marker and to   *)
(* what the hash store knows.                                              *)
StepOf(r) ==
    /\ disk' = disk
    /\ writer' \in {writer, r, NoRun}
    /\ writer' = r => pc'[r] \in Locked
    /\ ready' => ready \/ pc[r] = "ready"
    /\ \A f \in Files : hashStore'[f].status # "none" =>
          hashStore[f].status # "none" \/ disk[f] # Absent

LEMMA ReturnStep ==
    ASSUME TypeOK, NEW r \in Runs, Return(r),
           UNCHANGED <<disk, hashStore, ready>>
    PROVE  StepOf(r)
<1>1. writer' \in {writer, NoRun} /\ writer' # r
      BY ConstantsAssumption DEF Return
<1> QED
    BY <1>1 DEF StepOf

(* A file in the hands of a run is pending.                                *)
LEMMA FlyingIsPending ==
    ASSUME CoreInv, NEW r \in Runs, pc[r] \in DeepPCs
    PROVE  /\ \A f \in InFlight(w[r]) : hashStore[f].status = "pending"
           /\ pc[r] = "read" => hashStore[w[r].cur].status = "pending"
<1>1. QueueInv(r)
      BY DEF CoreInv, RunInv
<1>2. \A l, f : IsPending(l, f) => hashStore[f].status = "pending"
      BY DEF IsPending
<1> QED
    BY <1>1, <1>2 DEF QueueInv

LEMMA RunStepIs ==
    ASSUME TypeOK, CoreInv, LockInv, NEW r \in Runs,
           RunStep(r) \/ Stop(r) \/ \E q \in Requests : Start(r, q)
    PROVE  StepOf(r)
<1>1. CASE \E q \in Requests : Start(r, q)
  <2>1. pc[r] = "idle" /\ UNCHANGED <<disk, hashStore, ready, writer>>
        BY <1>1 DEF Start, tree, keyword
  <2>2. writer # r
        BY <2>1 DEF LockInv, Locked, ShallowPCs, DeepPCs
  <2> QED
      BY <2>1, <2>2 DEF StepOf
<1>2. CASE \/ Stop(r) \/ WriterBusy(r) \/ ModelMismatch(r)
           \/ \E f \in Files : HashFileFails(r, f)
           \/ EmbedderRefused(r) \/ Finish(r)
  <2>1. Return(r) /\ UNCHANGED <<disk, hashStore, ready>>
        BY <1>2 DEF Stop, WriterBusy, ModelMismatch, HashFileFails,
                    EmbedderRefused, Finish, keyword
  <2> QED
      BY <2>1, ReturnStep
<1>3. CASE ShallowStep(r)
  <2>1. UNCHANGED <<disk, hashStore, ready>>
        BY <1>3
        DEF ShallowStep, ShallowOpen, ShallowRead, ShallowCommit, ShallowMark,
            tree, keyword
  <2>2. \/ pc'[r] \in Locked /\ writer' \in {writer, r}
        \/ writer' = NoRun
        BY <1>3, GotoAt
        DEF ShallowStep, ShallowOpen, ShallowRead, ShallowCommit, ShallowMark,
            TakeWriter, Locked, ShallowPCs
  <2> QED
      BY <2>1, <2>2, ConstantsAssumption DEF StepOf
<1>4. CASE \/ OpenExisting(r) \/ NoStore(r) \/ OpenNew(r) \/ CreateTable(r)
  <2>1. UNCHANGED <<disk, hashStore, ready, writer>>
        BY <1>4 DEF OpenExisting, NoStore, OpenNew, CreateTable, tree, keyword
  <2>2. pc[r] \notin Locked
        BY <1>4 DEF OpenExisting, NoStore, OpenNew, CreateTable, Locked,
                    ShallowPCs, DeepPCs
  <2> QED
      BY <2>1, <2>2 DEF StepOf, LockInv
<1>5. CASE OpenText(r)
  <2>1. pc'[r] \in Locked
        BY <1>5, GotoAt DEF OpenText, Locked, DeepPCs
  <2>2. UNCHANGED <<disk, hashStore, ready>> /\ writer' = r
        BY <1>5 DEF OpenText, TakeWriter, tree, keyword
  <2> QED
      BY <2>1, <2>2 DEF StepOf
<1>6. CASE \/ \E f \in Files : SkipUnchanged(r, f) \/ Gate(r, f)
           \/ ReadFile(r) \/ ReadFileFails(r) \/ GateDone(r)
  <2>1. /\ pc[r] \in DeepPCs /\ pc'[r] \in DeepPCs
        /\ UNCHANGED <<disk, ready, writer>>
        BY <1>6, GotoAt
        DEF SkipUnchanged, Gate, ReadFile, ReadFileFails, GateDone, DeepPCs,
            tree, keyword
  <2>2. \A f \in Files : hashStore'[f].status # "none" =>
            hashStore[f].status # "none" \/ disk[f] # Absent
    <3>1. CASE ReadFileFails(r)
      <4>1. hashStore[w[r].cur].status = "pending"
            BY <3>1, FlyingIsPending DEF ReadFileFails, DeepPCs
      <4> QED
          BY <3>1, <4>1 DEF ReadFileFails, SetHash
    <3>2. ASSUME NEW f \in Files, Gate(r, f)
          PROVE  \A g \in Files : hashStore'[g].status # "none" =>
                    hashStore[g].status # "none" \/ disk[g] # Absent
          BY <3>2 DEF Gate, SetHash
    <3> QED
        BY <1>6, <3>1, <3>2 DEF SkipUnchanged, ReadFile, GateDone
  <2> QED
      BY <2>1, <2>2 DEF StepOf, Locked
<1>7. CASE \/ \E B \in SUBSET Files : TakeBatch(r, B)
           \/ DeleteRows(r) \/ Embed(r)
           \/ \E S \in SUBSET w[r].rows : InsertSlice(r, S)
           \/ BatchFails(r)
           \/ \E f \in Files : QueueText(r, f) \/ QueueTextFails(r, f)
           \/ BatchDone(r)
  <2>1. UNCHANGED <<disk, ready, writer>>
        BY ZenonT(60), <1>7 DEF TakeBatch, DeleteRows, Embed, InsertSlice, BatchFails, QueueText,
            QueueTextFails, BatchDone, tree, keyword
  <2>2. pc[r] \in DeepPCs /\ pc'[r] \in DeepPCs
        BY ZenonT(60), <1>7, GotoAt
        DEF TakeBatch, DeleteRows, Embed, InsertSlice, BatchFails, QueueText,
            QueueTextFails, BatchDone, DeepPCs
  <2>3. \A f \in Files : hashStore'[f].status # "none" =>
            hashStore[f].status # "none" \/ disk[f] # Absent
    <3>1. CASE BatchFails(r)
      <4>1. \A f \in w[r].batch : hashStore[f].status = "pending"
            BY <3>1, FlyingIsPending DEF BatchFails, InFlight, DeepPCs
      <4> QED
          BY <3>1, <4>1 DEF BatchFails, SetHash
    <3>2. ASSUME NEW f \in Files, QueueTextFails(r, f)
          PROVE  \A g \in Files : hashStore'[g].status # "none" =>
                    hashStore[g].status # "none" \/ disk[g] # Absent
      <4>1. hashStore[f].status = "pending"
            BY <3>2, FlyingIsPending DEF QueueTextFails, InFlight, DeepPCs
      <4> QED
          BY <3>2, <4>1 DEF QueueTextFails, SetHash
    <3> QED
        BY <1>7, <3>1, <3>2
        DEF TakeBatch, DeleteRows, Embed, InsertSlice, QueueText, BatchDone
  <2> QED
      BY SMTT(60), <2>1, <2>2, <2>3 DEF StepOf, Locked
<1>8. CASE \/ CommitText(r) \/ MarkSearchable(r) \/ MarkReady(r) \/ MarkFull(r)
           \/ \E f \in Files : SetIndexed(r, f)
  <2>1. pc[r] \in DeepPCs /\ pc'[r] \in DeepPCs
        BY <1>8, GotoAt
        DEF CommitText, MarkSearchable, MarkReady, MarkFull, SetIndexed, DeepPCs
  <2>2. /\ UNCHANGED <<disk, writer>>
        /\ ready' => ready \/ pc[r] = "ready"
    <3>1. CASE MarkReady(r)
          BY <3>1 DEF MarkReady, tree
    <3>2. CASE CommitText(r) \/ MarkSearchable(r) \/ MarkFull(r)
          BY <3>2 DEF CommitText, MarkSearchable, MarkFull, tree, keyword
    <3>3. CASE \E f \in Files : SetIndexed(r, f)
          BY <3>3 DEF SetIndexed, tree, keyword
    <3> QED
        BY <1>8, <3>1, <3>2, <3>3
  <2>3. \A f \in Files : hashStore'[f].status # "none" =>
            hashStore[f].status # "none" \/ disk[f] # Absent
    <3>1. ASSUME NEW f \in Files, SetIndexed(r, f)
          PROVE  \A g \in Files : hashStore'[g].status # "none" =>
                    hashStore[g].status # "none" \/ disk[g] # Absent
      <4>1. hashStore[f].status = "pending"
            BY <3>1, FlyingIsPending DEF SetIndexed, InFlight, DeepPCs
      <4> QED
          BY <3>1, <4>1 DEF SetIndexed, SetHash
    <3> QED
        BY <1>8, <3>1 DEF CommitText, MarkSearchable, MarkReady, MarkFull
  <2> QED
      BY <2>1, <2>2, <2>3 DEF StepOf, Locked
<1> QED
    BY <1>1, <1>2, <1>3, <1>4, <1>5, <1>6, <1>7, <1>8
    DEF RunStep, OpenStep, GateStep, BatchStep, EndStep

-----------------------------------------------------------------------------
(* What happens to the stores between the steps of the only run.           *)

(* What a removal does, whole or cut short.                                *)
LEMMA RemovalIs ==
    ASSUME TypeOK, NEW left, RemoveAllBut(left)
    PROVE  /\ text' \in [Files -> SUBSET TextRow]
           /\ ready' \in BOOLEAN /\ searchable' \in BOOLEAN
           /\ ready' /\ ~orphan' => ready /\ ~orphan /\ text' = text
BY DEF RemoveAllBut, TypeOK

(* While the only run is about to remove the directory, nobody is in an    *)
(* index pass.                                                             *)
LEMMA NobodyLocked ==
    ASSUME \A r, s \in Runs : r = s, LockInv, NEW r \in removers
    PROVE  r \in Runs /\ \A s \in Runs : pc[s] \notin Locked
BY DEF LockInv, Locked, ShallowPCs, DeepPCs

(* A step between runs, or before any run is in its pass, that leaves the  *)
(* hash store alone: the runs stay where they are or return.               *)
LEMMA OutsideKeeps ==
    ASSUME CoreInv, \A r \in Runs : pc[r] \notin Locked,
           UNCHANGED <<disk, hashStore, torn>>,
           \A r \in Runs :
              \/ pc'[r] = pc[r] /\ w'[r] = w[r]
              \/ pc'[r] = "idle" /\ w'[r] = Idle
    PROVE  CoreInv' /\ (CoverAll => CoverAll')
<1>1. ASSUME NEW r \in Runs PROVE pc'[r] \notin Locked
      BY DEF Locked, ShallowPCs, DeepPCs
<1>2. ASSUME NEW r \in Runs PROVE RunInv(r)'
  <2>1. QuietInv(r)'
    <3>1. CASE pc'[r] = pc[r] /\ w'[r] = w[r]
          BY <3>1 DEF CoreInv, RunInv, QuietInv, InFlight
    <3>2. CASE pc'[r] = "idle" /\ w'[r] = Idle
          BY <3>2 DEF QuietInv, InFlight, Idle, NewLocals
    <3> QED
        BY <3>1, <3>2
  <2> QED
      BY <1>1, <2>1 DEF RunInv, WriterInv, QueueInv, VectorsInv, TextInv, Locked
<1>3. HashInv'
      BY DEF CoreInv, HashInv, Indexed
<1>4. ASSUME CoverAll, NEW r \in Runs PROVE CoverInv(r)'
  <2>1. CASE pc'[r] = pc[r] /\ w'[r] = w[r]
        BY <1>1, <1>4, <2>1 DEF CoverAll, CoverInv, Locked
  <2>2. CASE pc'[r] = "idle" /\ w'[r] = Idle
        BY <2>2 DEF CoverInv, DeepPCs
  <2> QED
      BY <2>1, <2>2
<1> QED
    BY <1>2, <1>3, <1>4 DEF CoreInv, CoverAll

CoreLock == TypeOK /\ CoreInv /\ LockInv

(* A step of the pipeline while no remover moves.                          *)
LEMMA LockStep ==
    ASSUME \A r, s \in Runs : r = s, CoreLock, [Next]_vars,
           removers' = removers, \A r \in removers : pc'[r] = pc[r]
    PROVE  LockInv'
<1>1. \A s \in removers' : s \in Runs /\ pc'[s] \in {"shallow", "lock"}
      BY DEF CoreLock, LockInv
<1>2. \A s \in Runs : writer' = s => pc'[s] \in Locked
  <2>1. CASE UNCHANGED <<writer, pc>>
        BY <2>1 DEF CoreLock, LockInv
  <2>2. CASE \E e \in Edits : Edit(e[1], e[2])
        BY <2>1, <2>2 DEF Edit
  <2>3. ASSUME NEW r \in Runs,
               RunStep(r) \/ Stop(r) \/ \E q \in Requests : Start(r, q)
        PROVE  \A s \in Runs : writer' = s => pc'[s] \in Locked
    <3>1. StepOf(r)
          BY <2>3, RunStepIs DEF CoreLock
    <3> QED
        BY <3>1 DEF StepOf
  <2> QED
      BY <2>1, <2>2, <2>3 DEF Next, Environment, vars
<1> QED
    BY <1>1, <1>2 DEF LockInv

(* Refusing is a step of the pipeline by a run that is no remover.         *)
LEMMA RefuseStep ==
    ASSUME \A r, s \in Runs : r = s, LockInv, NEW r \in Runs, Refuse(r)
    PROVE  /\ Next /\ RunStep(r) /\ UNCHANGED schemaVars
           /\ \A s \in removers : pc'[s] = pc[s]
<1>1. /\ RunStep(r) /\ UNCHANGED schemaVars
      /\ pc[r] \in {"eager", "batch"}
      BY DEF Refuse, EmbedderRefused, ModelMismatch, RunStep, BatchStep, OpenStep
<1>2. removers = {}
      BY <1>1 DEF LockInv
<1> QED
    BY <1>1, <1>2 DEF Next

(* A removal, whole or cut short, touches the keyword index only.          *)
LEMMA RemovalKeeps ==
    ASSUME \A r, s \in Runs : r = s, CoreLock, NEW r \in Runs, NEW left,
           (RebuildText(r) /\ left = {}) \/ RebuildStops(r, left)
    PROVE  /\ RemoveAllBut(left)
           /\ UNCHANGED <<disk, hashStore, torn, lance, table, metaFile>>
           /\ \A s \in Runs : pc[s] \notin Locked
           /\ \/ UNCHANGED <<pc, w>>
              \/ pc'[r] = "idle" /\ w'[r] = Idle
           /\ TypeOK' /\ CoreInv' /\ LockInv' /\ (CoverAll => CoverAll')
<1>1. /\ RemoveAllBut(left) /\ r \in removers /\ removers' = removers \ {r}
      /\ UNCHANGED <<disk, hashStore, torn, lance, table, metaFile>>
      BY DEF RebuildText, RebuildStops, tree, vectors
<1>2. /\ \A s \in Runs : pc[s] \notin Locked
      /\ removers' = {}
      BY <1>1, NobodyLocked DEF CoreLock, LockInv
<1>3. /\ \/ UNCHANGED <<pc, w>>
         \/ pc'[r] = "idle" /\ w'[r] = Idle
      /\ writer' \notin Runs
      /\ writer' \in Runs \cup {NoRun} /\ pc' \in [Runs -> PCs]
      /\ w' \in [Runs -> Locals] /\ dirty' \in [Runs -> SUBSET Files]
  <2>1. CASE RebuildText(r)
        BY <2>1, ConstantsAssumption DEF RebuildText, CoreLock, TypeOK, tree
  <2>2. CASE Return(r)
    <3>1. pc'[r] = "idle" /\ w'[r] = Idle
          BY <2>2, GotoAt, LocallyAt DEF Return, CoreLock
    <3>2. writer \notin Runs
          BY <1>2 DEF CoreLock, LockInv
    <3> QED
        BY <2>2, <3>1, <3>2, ConstantsAssumption, IdleType
        DEF Return, Goto, Locally, CoreLock, TypeOK, PCs
  <2> QED
      BY <2>1, <2>2 DEF RebuildStops
<1>4. TypeOK'
  <2>1. /\ text' \in [Files -> SUBSET TextRow]
        /\ ready' \in BOOLEAN /\ searchable' \in BOOLEAN
        BY <1>1, RemovalIs DEF CoreLock
  <2> QED
      BY <1>1, <1>3, <2>1 DEF CoreLock, TypeOK
<1>5. CoreInv' /\ (CoverAll => CoverAll')
      BY <1>1, <1>2, <1>3, OutsideKeeps DEF CoreLock
<1>6. LockInv'
      BY <1>2, <1>3 DEF LockInv
<1> QED
    BY <1>1, <1>2, <1>3, <1>4, <1>5, <1>6

(* The types and what is true of the runs survive recovery as well.        *)
LEMMA RecoveryCore ==
    ASSUME \A r, s \in Runs : r = s
    PROVE  CoreLock /\ [RecoveryNext]_recoveryVars => CoreLock'
<1> SUFFICES ASSUME CoreLock, [RecoveryNext]_recoveryVars PROVE CoreLock'
    OBVIOUS
<1>1. ASSUME [Next]_vars, removers' = removers, \A r \in removers : pc'[r] = pc[r]
      PROVE  CoreLock'
      BY <1>1, PipelineStep, LockStep DEF CoreLock
<1>2. CASE UNCHANGED recoveryVars
      BY <1>1, <1>2 DEF recoveryVars, schemaVars, vars
<1>3. CASE Ordinary
      BY <1>1, <1>3 DEF Ordinary, schemaVars
<1>4. ASSUME NEW r \in Runs, Refuse(r) PROVE CoreLock'
      BY <1>1, <1>4, RefuseStep DEF CoreLock, schemaVars
<1>5. CASE DeleteLance
  <2>1. /\ UNCHANGED <<disk, dirty, hashStore, text, torn, ready, searchable,
                       writer, pc, w, metaFile, removers>>
        /\ lance' = [f \in Files |-> {}] /\ table' = FALSE
        /\ \A r \in Runs : pc[r] \notin Locked
        BY <1>5 DEF DeleteLance, AllIdle, tree, keyword, schemaVars, Locked,
                    ShallowPCs, DeepPCs
  <2>2. TypeOK' /\ LockInv'
        BY <2>1 DEF CoreLock, TypeOK, LockInv
  <2>3. CoreInv'
        BY <2>1, OutsideKeeps DEF CoreLock
  <2> QED
      BY <2>2, <2>3 DEF CoreLock
<1>6. CASE Upgrade
      BY <1>1, <1>6 DEF Upgrade, vars
<1>7. ASSUME NEW r \in Runs, FindOutdated(r) PROVE CoreLock'
  <2>1. /\ UNCHANGED vars /\ removers' = removers \cup {r}
        /\ pc[r] \in {"shallow", "lock"}
        BY <1>7 DEF FindOutdated
  <2>2. TypeOK' /\ CoreInv'
        BY <2>1, PipelineStep DEF CoreLock
  <2>3. LockInv'
        BY <2>1 DEF CoreLock, LockInv, vars
  <2> QED
      BY <2>2, <2>3 DEF CoreLock
<1>8. ASSUME NEW r \in Runs, NEW left,
             (RebuildText(r) /\ left = {}) \/ RebuildStops(r, left)
      PROVE  CoreLock'
      BY <1>8, RemovalKeeps DEF CoreLock
<1> QED
    BY <1>2, <1>3, <1>4, <1>5, <1>6, <1>7, <1>8 DEF RecoveryNext

-----------------------------------------------------------------------------
(* The ready marker.                                                       *)

RecoveryInv == TypeOK /\ CoreInv /\ CoverAll /\ ReadyInv

(* A step of r in its deep pass gates files or leaves them on its list.    *)
LEMMA DeepMarks ==
    ASSUME NEW r \in Runs, MarkInv(r), pc[r] \in DeepPCs, pc'[r] \in DeepPCs,
           orphan' = orphan,
           \A f \in Files : HasText(f) => HasText(f)',
           w'[r].mark = w[r].mark, w'[r].force = w[r].force,
           \A f \in Files : w[r].force /\ f \in w[r].todo =>
               f \in w'[r].todo \/ HasText(f)',
           pc'[r] = "ready" => w[r].mark
    PROVE  MarkInv(r)'
BY DEF MarkInv, DeepPCs

(* Opening: a full run collects every file the hash store knows.           *)
LEMMA OpeningMarks ==
    ASSUME RecoveryInv, NEW r \in Runs, orphan' = orphan,
           \A f \in Files : HasText(f) => HasText(f)',
           \/ OpenExisting(r) \/ NoStore(r) \/ OpenNew(r) \/ CreateTable(r)
           \/ OpenText(r)
    PROVE  MarkInv(r)'
<1>w. w[r] \in Locals /\ Collected(w[r].req) \subseteq Files /\ MarkInv(r)
      BY DEF RecoveryInv, TypeOK, ReadyInv, Collected, Present
<1>0. UNCHANGED <<hashStore, disk>>
      BY DEF OpenExisting, NoStore, OpenNew, CreateTable, OpenText, tree
<1>1. CASE OpenExisting(r) \/ NoStore(r)
  <2>1. /\ w'[r].scope = Collected(w[r].req) /\ w'[r].req = w[r].req
        /\ pc'[r] \in {"lock", "eager"}
    <3>1. CASE OpenExisting(r)
      <4>1. /\ w'[r] = [w[r] EXCEPT !.scope = Collected(w[r].req),
                                    !.todo = Collected(w[r].req),
                                    !.meta = metaFile, !.lazy = TRUE]
            /\ pc'[r] = "lock"
            BY <3>1, LocallyAt, GotoAt DEF OpenExisting, RecoveryInv
      <4> QED
          BY <1>w, <4>1 DEF Locals
    <3>2. CASE NoStore(r)
      <4>1. /\ w'[r] = [w[r] EXCEPT !.scope = Collected(w[r].req),
                                    !.todo = Collected(w[r].req)]
            /\ pc'[r] = "eager"
            BY <3>2, LocallyAt, GotoAt DEF NoStore, RecoveryInv
      <4> QED
          BY <1>w, <4>1 DEF Locals
    <3> QED
        BY <1>1, <3>1, <3>2
  <2>2. ASSUME w'[r].req.full, NEW f \in Files \ w'[r].scope
        PROVE  ~Indexed(f)'
    <3>1. disk[f] = Absent
          BY <2>1, <2>2 DEF Collected, Present
    <3>2. hashStore[f].status = "none"
          BY <3>1 DEF RecoveryInv, ReadyInv, KnownInv
    <3> QED
        BY <1>0, <3>2 DEF Indexed
  <2> QED
      BY <2>1, <2>2 DEF MarkInv, DeepPCs
<1>2. CASE OpenNew(r) \/ CreateTable(r)
  <2>1. /\ w'[r].scope = w[r].scope /\ w'[r].req = w[r].req
        /\ pc[r] \in {"eager", "create"} /\ pc'[r] \in {"create", "lock"}
        BY <1>2, <1>w, LocallyAt, GotoAt
        DEF OpenNew, CreateTable, RecoveryInv, Locals
  <2>2. \A f : Indexed(f)' <=> Indexed(f)
        BY <1>0 DEF Indexed
  <2> QED
      BY <1>w, <2>1, <2>2 DEF MarkInv, DeepPCs
<1>3. CASE OpenText(r)
  <2>1. /\ w'[r] = [w[r] EXCEPT !.force = w[r].req.force \/ ~ready,
                                !.mark = ready \/ w[r].req.full]
        /\ pc[r] = "lock" /\ pc'[r] = "gate"
        BY <1>3, LocallyAt, GotoAt DEF OpenText, RecoveryInv
  <2>2. /\ w'[r].todo = w[r].todo
        /\ w'[r].mark => ready \/ w[r].req.full
        /\ ~ready => w'[r].force
        BY <1>w, <2>1 DEF Locals
  <2>3. w[r].scope \subseteq w[r].todo
        BY <2>1 DEF RecoveryInv, CoverAll, CoverInv
  <2>4. ASSUME w'[r].mark, ~orphan, NEW f \in Files
        PROVE  HasText(f)' \/ (w'[r].force /\ f \in w'[r].todo)
    <3>1. CASE ready
          BY <2>4, <3>1
          DEF RecoveryInv, ReadyInv, ReadyHasText, IndexedHasText, HasText
    <3>2. CASE ~ready /\ f \notin w[r].scope
      <4>1. HasText(f)
            BY <1>w, <2>1, <2>2, <2>4, <3>2 DEF MarkInv, HasText
      <4> QED
          BY <4>1
    <3>3. CASE ~ready /\ f \in w[r].scope
          BY <2>2, <2>3, <3>3
    <3> QED
        BY <3>1, <3>2, <3>3
  <2> QED
      BY <2>1, <2>4 DEF MarkInv, DeepPCs
<1> QED
    BY <1>1, <1>2, <1>3

(* The deep pass: only the gate takes files off the list, and a forced     *)
(* gate lets every file in.                                                *)
LEMMA GateMarks ==
    ASSUME RecoveryInv, NEW r \in Runs, orphan' = orphan,
           \A f \in Files : HasText(f) => HasText(f)', GateStep(r),
           ~ \E f \in Files : HashFileFails(r, f)
    PROVE  MarkInv(r)'
<1>w. w[r] \in Locals /\ MarkInv(r) /\ TypeOK
      BY DEF RecoveryInv, TypeOK, ReadyInv
<1>1. ASSUME NEW f \in Files, SkipUnchanged(r, f) PROVE MarkInv(r)'
  <2>1. /\ w'[r] = [w[r] EXCEPT !.todo = @ \ {f}]
        /\ pc[r] = "gate" /\ pc'[r] = "gate" /\ ~w[r].force
        BY <1>w, <1>1, LocallyAt DEF SkipUnchanged, ShouldProcess
  <2> QED
      BY <1>w, <2>1, DeepMarks DEF Locals, DeepPCs
<1>2. ASSUME NEW f \in Files, Gate(r, f) PROVE MarkInv(r)'
  <2>1. /\ w'[r] = [w[r] EXCEPT !.todo = @ \ {f}, !.cur = f, !.seen[f] = disk[f]]
        /\ pc[r] = "gate" /\ pc'[r] = "read"
        BY <1>w, <1>2, LocallyAt, GotoAt DEF Gate
  <2>2. ~Indexed(f)'
        BY <1>2 DEF Gate, SetHash, Indexed
  <2>3. HasText(f)'
        BY <2>2 DEF HasText
  <2>4. w'[r].todo = w[r].todo \ {f} /\ w'[r].mark = w[r].mark
        /\ w'[r].force = w[r].force
        BY <1>w, <2>1 DEF Locals
  <2> QED
      BY <1>w, <2>1, <2>3, <2>4, DeepMarks DEF DeepPCs
<1>3. ASSUME ReadFile(r) \/ ReadFileFails(r) \/ GateDone(r) PROVE MarkInv(r)'
  <2>1. /\ w'[r].mark = w[r].mark /\ w'[r].force = w[r].force
        /\ w'[r].todo = w[r].todo
    <3>1. \/ w'[r] = [w[r] EXCEPT !.cur = NoFile, !.got[w[r].cur] = disk[w[r].cur],
                                  !.queue = @ \cup {w[r].cur}]
          \/ w'[r] = [w[r] EXCEPT !.cur = NoFile, !.failed = TRUE]
          \/ w'[r] = w[r]
          BY <1>w, <1>3, LocallyAt DEF ReadFile, ReadFileFails, GateDone
    <3> QED
        BY <1>w, <3>1 DEF Locals
  <2>2. /\ pc[r] \in DeepPCs /\ pc'[r] \in DeepPCs \ {"ready"}
        BY <1>w, <1>3, GotoAt DEF ReadFile, ReadFileFails, GateDone, DeepPCs
  <2> QED
      BY <1>w, <2>1, <2>2, DeepMarks
<1> QED
    BY <1>1, <1>2, <1>3 DEF GateStep

LEMMA BatchMarks ==
    ASSUME RecoveryInv, NEW r \in Runs, orphan' = orphan,
           \A f \in Files : HasText(f) => HasText(f)', BatchStep(r),
           ~EmbedderRefused(r)
    PROVE  MarkInv(r)'
<1>w. w[r] \in Locals /\ MarkInv(r) /\ TypeOK
      BY DEF RecoveryInv, TypeOK, ReadyInv
<1> DEFINE Same(l) == /\ l.mark = w[r].mark /\ l.force = w[r].force
                      /\ l.todo = w[r].todo
<1>1. ASSUME NEW B \in SUBSET Files, TakeBatch(r, B) PROVE Same(w'[r])
  <2>1. w'[r] = [w[r] EXCEPT !.batch = B, !.queue = @ \ B]
        BY <1>w, <1>1, LocallyAt DEF TakeBatch
  <2> QED
      BY <1>w, <2>1 DEF Locals
<1>2. ASSUME DeleteRows(r) PROVE Same(w'[r])
  <2>1. w'[r] = [w[r] EXCEPT !.cache = UNION {lance[f] : f \in w[r].batch}]
        BY <1>w, <1>2, LocallyAt DEF DeleteRows
  <2> QED
      BY <1>w, <2>1 DEF Locals
<1>3. ASSUME Embed(r) PROVE Same(w'[r])
  <2>1. w'[r] = [w[r] EXCEPT !.rows = PlannedRows(w[r]), !.cache = {}]
        BY <1>w, <1>3, LocallyAt DEF Embed
  <2> QED
      BY <1>w, <2>1 DEF Locals
<1>4. ASSUME NEW S \in SUBSET w[r].rows, InsertSlice(r, S) PROVE Same(w'[r])
  <2>1. w'[r] = [w[r] EXCEPT !.rows = @ \ S]
        BY <1>w, <1>4, LocallyAt DEF InsertSlice
  <2> QED
      BY <1>w, <2>1 DEF Locals
<1>5. ASSUME BatchFails(r) PROVE Same(w'[r])
  <2>1. w'[r] = [w[r] EXCEPT !.batch = {}, !.cache = {}, !.rows = {},
                             !.failed = TRUE]
        BY <1>w, <1>5, LocallyAt DEF BatchFails
  <2> QED
      BY <1>w, <2>1 DEF Locals
<1>6. ASSUME NEW f \in Files, QueueText(r, f) \/ QueueTextFails(r, f)
      PROVE  Same(w'[r])
  <2>1. \/ w'[r] = [w[r] EXCEPT !.batch = @ \ {f}, !.touched = @ \cup {f},
                                !.ops[f] = DeepRows(w[r].got[f]),
                                !.done = @ \cup {f}]
        \/ w'[r] = [w[r] EXCEPT !.batch = @ \ {f}, !.touched = @ \cup {f},
                                !.ops[f] = {}, !.failed = TRUE]
        BY <1>w, <1>6, LocallyAt DEF QueueText, QueueTextFails
  <2> QED
      BY <1>w, <2>1 DEF Locals
<1>7. ASSUME BatchDone(r) PROVE Same(w'[r])
      BY <1>7 DEF BatchDone
<1>8. Same(w'[r])
      BY <1>1, <1>2, <1>3, <1>4, <1>5, <1>6, <1>7 DEF BatchStep
<1>9. pc[r] \in DeepPCs /\ pc'[r] \in DeepPCs \ {"ready"}
  <2>1. ASSUME NEW label, Goto(r, label) PROVE pc'[r] = label
        BY <1>w, <2>1, GotoAt
  <2>2. CASE \E B \in SUBSET Files : TakeBatch(r, B)
        BY <2>1, <2>2 DEF TakeBatch, DeepPCs
  <2>4. CASE DeleteRows(r)
        BY <2>1, <2>4 DEF DeleteRows, DeepPCs
  <2>5. CASE BatchFails(r)
        BY <2>1, <2>5 DEF BatchFails, DeepPCs
  <2>6. CASE Embed(r)
    <3>1. pc[r] = "embed" /\ (pc'[r] = "text" \/ pc'[r] = "insert")
          BY <2>1, <2>6 DEF Embed
    <3> QED
        BY <3>1 DEF DeepPCs
  <2>7. CASE \E S \in SUBSET w[r].rows : InsertSlice(r, S)
    <3>1. pc[r] = "insert" /\ (pc'[r] = "text" \/ pc'[r] = "insert")
          BY SMTT(60), <2>1, <2>7 DEF InsertSlice
    <3> QED
        BY <3>1 DEF DeepPCs
  <2>3. CASE \/ \E f \in Files : QueueText(r, f) \/ QueueTextFails(r, f)
             \/ BatchDone(r)
        BY ZenonT(60), <1>w, <2>3, GotoAt DEF QueueText, QueueTextFails, BatchDone, DeepPCs
  <2> QED
      BY <2>2, <2>3, <2>4, <2>5, <2>6, <2>7 DEF BatchStep
<1> QED
    BY <1>w, <1>8, <1>9, DeepMarks

LEMMA EndMarks ==
    ASSUME RecoveryInv, NEW r \in Runs, orphan' = orphan,
           \A f \in Files : HasText(f) => HasText(f)', EndStep(r), ~Finish(r)
    PROVE  MarkInv(r)'
<1>w. w[r] \in Locals /\ MarkInv(r) /\ TypeOK
      BY DEF RecoveryInv, TypeOK, ReadyInv
<1>1. /\ w'[r].mark = w[r].mark /\ w'[r].force = w[r].force
      /\ w'[r].todo = w[r].todo
  <2>1. \/ w'[r] = [w[r] EXCEPT !.touched = {}, !.ops = [f \in Files |-> {}]]
        \/ w'[r] = w[r]
        \/ w'[r] = [w[r] EXCEPT !.meta.full = TRUE]
        \/ \E f \in Files : w'[r] = [w[r] EXCEPT !.done = @ \ {f}]
        BY <1>w, LocallyAt
        DEF EndStep, CommitText, MarkSearchable, MarkReady, MarkFull, SetIndexed
  <2> QED
      BY <1>w, <2>1 DEF Locals
<1>2. /\ pc[r] \in DeepPCs /\ pc'[r] \in DeepPCs
      /\ pc'[r] = "ready" => w[r].mark
  <2>1. CASE CommitText(r) \/ MarkSearchable(r)
        BY <1>w, <2>1, GotoAt DEF CommitText, MarkSearchable, DeepPCs
  <2>2. CASE MarkReady(r) \/ MarkFull(r)
        BY <1>w, <2>2, GotoAt DEF MarkReady, MarkFull, DeepPCs
  <2>3. CASE \E f \in Files : SetIndexed(r, f)
        BY <2>3 DEF SetIndexed, DeepPCs
  <2> QED
      BY <2>1, <2>2, <2>3 DEF EndStep
<1> QED
    BY <1>w, <1>1, <1>2, DeepMarks

(* A run in none of the places MarkInv speaks of owes nothing.             *)
LEMMA NoMark ==
    ASSUME NEW r \in Runs, pc'[r] \in {"idle", "shallow", "open"} \cup ShallowPCs
    PROVE  MarkInv(r)'
BY DEF MarkInv, ShallowPCs, DeepPCs

LEMMA OwnMarks ==
    ASSUME RecoveryInv, NEW r \in Runs, orphan' = orphan,
           \A f \in Files : HasText(f) => HasText(f)',
           RunStep(r) \/ Stop(r) \/ \E q \in Requests : Start(r, q)
    PROVE  MarkInv(r)'
<1>t. TypeOK
      BY DEF RecoveryInv
<1>1. CASE \E q \in Requests : Start(r, q)
  <2>1. pc'[r] \in {"shallow", "open"}
        BY <1>t, <1>1, GotoAt DEF Start
  <2> QED
      BY <2>1, NoMark
<1>2. CASE \/ Stop(r) \/ WriterBusy(r) \/ ModelMismatch(r)
           \/ \E f \in Files : HashFileFails(r, f)
           \/ EmbedderRefused(r) \/ Finish(r)
  <2>1. Return(r)
        BY <1>2 DEF Stop, WriterBusy, ModelMismatch, HashFileFails,
                    EmbedderRefused, Finish
  <2>2. pc'[r] = "idle"
        BY <1>t, <2>1, GotoAt DEF Return
  <2> QED
      BY <2>2, NoMark
<1>3. CASE ShallowStep(r)
  <2>1. pc'[r] \in {"open"} \cup ShallowPCs
        BY <1>t, <1>3, GotoAt
        DEF ShallowStep, ShallowOpen, ShallowRead, ShallowCommit, ShallowMark,
            ShallowPCs
  <2> QED
      BY <2>1, NoMark
<1> QED
    BY <1>1, <1>2, <1>3, OpeningMarks, GateMarks, BatchMarks, EndMarks
    DEF RunStep, OpenStep, GateStep, BatchStep, EndStep

(* A step of the pipeline, of the only run there is, keeps the invariant:  *)
(* what the environment edits is not deleted.                              *)
LEMMA PipelineKeeps ==
    ASSUME \A r, s \in Runs : r = s,
           RecoveryInv, [Next]_vars, UNCHANGED <<removers, orphan>>,
           \A r \in removers : pc'[r] = pc[r],
           \A e \in Edits : e[2] # Absent
    PROVE  RecoveryInv'
<1>1. TypeOK' /\ CoreInv' /\ \A f \in Files : HasText(f) => HasText(f)'
      BY PipelineStep DEF RecoveryInv
<1>2. CoverAll'
      BY CoverNext DEF RecoveryInv
<1>w. KnownInv /\ ReadyHasText /\ TypeOK
      BY DEF RecoveryInv, ReadyInv
<1>l. LockInv'
      BY LockStep DEF RecoveryInv, ReadyInv, CoreLock
<1>3. CASE UNCHANGED <<disk, hashStore, text, torn, ready, writer, pc, w>>
  <2>1. \A f : HasText(f)' <=> HasText(f)
        BY <1>3 DEF HasText, Indexed
  <2>2. \A r \in Runs : MarkInv(r)'
        BY <1>3, <2>1 DEF RecoveryInv, ReadyInv, MarkInv, Indexed
  <2>3. KnownInv' /\ ReadyHasText'
        BY <1>3, <1>w DEF KnownInv, ReadyHasText, IndexedHasText, Indexed
  <2> QED
      BY <1>1, <1>2, <1>l, <2>2, <2>3 DEF RecoveryInv, ReadyInv
<1>4. CASE \E e \in Edits : Edit(e[1], e[2])
  <2>1. PICK e \in Edits : Edit(e[1], e[2])
        BY <1>4
  <2>2. /\ UNCHANGED <<hashStore, text, torn, ready, writer, pc, w>>
        /\ e[1] \in Files /\ e[2] # Absent
        BY <2>1, ConstantsAssumption DEF Edit, vectors, keyword
  <2>3. KnownInv'
        BY <1>w, <2>1, <2>2 DEF KnownInv, Edit, TypeOK
  <2>4. \A f : HasText(f)' <=> HasText(f)
        BY <2>2 DEF HasText, Indexed
  <2>5. \A r \in Runs : MarkInv(r)'
        BY <2>2, <2>4 DEF RecoveryInv, ReadyInv, MarkInv, Indexed
  <2>6. ReadyHasText'
        BY <1>w, <2>2 DEF ReadyHasText, IndexedHasText, Indexed
  <2> QED
      BY <1>1, <1>2, <1>l, <2>3, <2>5, <2>6 DEF RecoveryInv, ReadyInv
<1>5. ASSUME NEW r \in Runs,
             RunStep(r) \/ Stop(r) \/ \E q \in Requests : Start(r, q)
      PROVE  RecoveryInv'
  <2>1. StepOf(r)
        BY <1>5, RunStepIs DEF RecoveryInv, ReadyInv
  <2>2. \A s \in Runs : MarkInv(s)'
    <3>1. MarkInv(r)'
          BY <1>1, <1>5, OwnMarks
    <3> QED
        BY <3>1
  <2>3. KnownInv'
        BY <1>w, <2>1 DEF StepOf, KnownInv
  <2>4. ReadyHasText'
    <3>1. ASSUME ready', ~orphan, NEW f \in Files PROVE HasText(f)'
      <4>1. CASE ready
            BY <1>1, <1>w, <3>1, <4>1 DEF ReadyHasText, IndexedHasText, HasText
      <4>2. CASE ~ready
        <5>1. pc[r] = "ready"
              BY <2>1, <3>1, <4>2 DEF StepOf
        <5>2. w[r].mark /\ w[r].todo = {}
              BY <5>1
              DEF RecoveryInv, ReadyInv, MarkInv, CoverAll, CoverInv, DeepPCs
        <5>3. HasText(f)
              BY <3>1, <5>1, <5>2 DEF RecoveryInv, ReadyInv, MarkInv, DeepPCs
        <5> QED
            BY <1>1, <5>3
      <4> QED
          BY <4>1, <4>2
    <3> QED
        BY <3>1 DEF ReadyHasText, IndexedHasText, HasText
  <2> QED
      BY <1>1, <1>2, <1>l, <2>2, <2>3, <2>4 DEF RecoveryInv, ReadyInv
<1> QED
    BY <1>3, <1>4, <1>5 DEF Next, Environment, vars

LEMMA RecoveryKeeps ==
    ASSUME \A r, s \in Runs : r = s,
           RecoveryInv, [RecoveryNext]_recoveryVars,
           \A e \in Edits : e[2] # Absent
    PROVE  RecoveryInv'
<1>t. /\ CoreLock /\ CoverAll /\ KnownInv /\ ReadyHasText
      /\ \A r \in Runs : MarkInv(r)
      BY DEF RecoveryInv, ReadyInv, CoreLock
<1>c. CoreLock'
      BY <1>t, RecoveryCore
<1>1. CASE UNCHANGED recoveryVars
      BY <1>1, PipelineKeeps DEF recoveryVars, schemaVars, vars
<1>2. CASE Ordinary
      BY <1>2, PipelineKeeps DEF Ordinary, schemaVars
<1>3. ASSUME NEW r \in Runs, Refuse(r) PROVE RecoveryInv'
      BY <1>t, <1>3, RefuseStep, PipelineKeeps DEF CoreLock, schemaVars
<1>4. CASE DeleteLance \/ Upgrade
  <2>1. /\ UNCHANGED <<disk, dirty, hashStore, text, torn, ready, pc, w, orphan>>
        /\ \A r \in Runs : pc[r] = "idle"
        BY <1>4 DEF DeleteLance, Upgrade, AllIdle, tree, keyword, schemaVars, vars
  <2>2. CoverAll'
        BY <1>t, <2>1, OutsideKeeps DEF CoreLock, Locked, ShallowPCs, DeepPCs
  <2>3. \A r \in Runs : MarkInv(r)'
        BY <2>1 DEF MarkInv, DeepPCs
  <2>4. KnownInv' /\ ReadyHasText'
        BY <1>t, <2>1 DEF KnownInv, ReadyHasText, IndexedHasText, Indexed
  <2> QED
      BY <1>c, <2>2, <2>3, <2>4 DEF RecoveryInv, ReadyInv, CoreLock
<1>5. ASSUME NEW r \in Runs, FindOutdated(r) PROVE RecoveryInv'
  <2>1. UNCHANGED vars /\ orphan' = orphan
        BY <1>5 DEF FindOutdated
  <2>2. CoverAll'
        BY <1>t, <2>1, CoverNext DEF CoreLock
  <2>3. \A f : HasText(f)' <=> HasText(f)
        BY <2>1 DEF HasText, Indexed, vars
  <2>4. \A s \in Runs : MarkInv(s)'
        BY <1>t, <2>1, <2>3 DEF MarkInv, Indexed, vars
  <2>5. KnownInv' /\ ReadyHasText'
        BY <1>t, <2>1 DEF KnownInv, ReadyHasText, IndexedHasText, Indexed, vars
  <2> QED
      BY <1>c, <2>2, <2>4, <2>5 DEF RecoveryInv, ReadyInv, CoreLock
<1>6. ASSUME NEW r \in Runs, NEW left,
             (RebuildText(r) /\ left = {}) \/ RebuildStops(r, left)
      PROVE  RecoveryInv'
  <2>1. /\ RemoveAllBut(left)
        /\ UNCHANGED <<disk, hashStore, torn>>
        /\ \A s \in Runs : pc[s] \notin Locked
        /\ \/ UNCHANGED <<pc, w>>
           \/ pc'[r] = "idle" /\ w'[r] = Idle
        /\ CoverAll'
        BY <1>t, <1>6, RemovalKeeps
  <2>2. ASSUME NEW s \in Runs PROVE MarkInv(s)'
    <3>1. CASE UNCHANGED <<pc, w>>
          BY <1>t, <2>1, <3>1 DEF MarkInv, Indexed, Locked, DeepPCs
    <3>2. CASE pc'[r] = "idle"
          BY <3>2 DEF MarkInv, DeepPCs
    <3> QED
        BY <2>1, <3>1, <3>2
  <2>3. ReadyHasText'
    <3>1. ready' /\ ~orphan' => ready /\ ~orphan /\ text' = text
          BY <1>t, <2>1, RemovalIs DEF CoreLock
    <3> QED
        BY <1>t, <2>1, <3>1 DEF ReadyHasText, IndexedHasText, Indexed
  <2>4. KnownInv'
        BY <1>t, <2>1 DEF KnownInv
  <2> QED
      BY <1>c, <2>1, <2>2, <2>3, <2>4 DEF RecoveryInv, ReadyInv, CoreLock
<1> QED
    BY <1>1, <1>2, <1>3, <1>4, <1>5, <1>6 DEF RecoveryNext

LEMMA RecoveryStarts == RecoveryInit => RecoveryInv
<1> SUFFICES ASSUME RecoveryInit PROVE RecoveryInv
    OBVIOUS
<1>1. TypeOK /\ IndexInv /\ CoverAll
      BY TypeInit, InvInit, CoverInit DEF RecoveryInit
<1>2. ReadyInv
      BY ConstantsAssumption
      DEF RecoveryInit, Init, ReadyInv, LockInv, KnownInv, ReadyHasText,
          MarkInv, DeepPCs
<1> QED
    BY <1>1, <1>2 DEF RecoveryInv, IndexInv, CoreInv

(* Whatever was deleted, upgraded, stopped or refused in between: while    *)
(* the ready marker stands, every file the hash store calls indexed has    *)
(* its keyword rows. Runs must not overlap (two that both found the old    *)
(* schema remove each other's rows), a removal must not have been cut      *)
(* short between index and marker, and no file may be deleted from the     *)
(* working tree (it keeps its hash row, so a rebuild that passes while it  *)
(* is away is never made good).                                            *)
THEOREM ReadyMarkHasText ==
    ASSUME \A r, s \in Runs : r = s,
           \A e \in Edits : e[2] # Absent
    PROVE  RecoverySpec => []ReadyHasText
<1>1. RecoveryInv => ReadyHasText
      BY DEF RecoveryInv, ReadyInv
<1>2. RecoveryInv /\ [RecoveryNext]_recoveryVars => RecoveryInv'
      BY RecoveryKeeps
<1> QED
    BY <1>1, <1>2, RecoveryStarts, PTL DEF RecoverySpec

-----------------------------------------------------------------------------
(* One model.                                                              *)

(* The models of the run's own copy of the meta, of its rows and of its    *)
(* cache are what a step of its other business leaves alone.               *)
SameModel(r) ==
    /\ w'[r].meta.model = w[r].meta.model /\ w'[r].lazy = w[r].lazy
    /\ w'[r].req = w[r].req
    /\ w'[r].cache \subseteq w[r].cache /\ w'[r].rows \subseteq w[r].rows

LEMMA OtherBusiness ==
    ASSUME NEW r \in Runs, ModelInv(r), OneModel, SameModel(r),
           pc[r] \in DeepPCs, pc'[r] \in DeepPCs,
           pc'[r] \in BatchPCs =>
               pc[r] \in BatchPCs \/ w[r].meta.model = w[r].req.model,
           UNCHANGED lance, metaFile'.model = metaFile.model
    PROVE  OneModel' /\ ModelInv(r)'
<1>1. OneModel'
      BY DEF OneModel
<1>2. \A row \in w'[r].cache \cup {fr[2] : fr \in w'[r].rows} :
          row[2] = w'[r].meta.model
      BY DEF ModelInv, SameModel
<1> QED
    BY <1>1, <1>2 DEF ModelInv, SameModel, DeepPCs

(* Outside the deep pass there are neither rows nor cached vectors.        *)
LEMMA BeforeRows ==
    ASSUME NEW r \in Runs, OneModel, UNCHANGED <<lance, metaFile>>,
           w'[r].cache = {} /\ w'[r].rows = {} /\ ~w'[r].lazy,
           pc'[r] \notin {"create", "lock"} \cup DeepPCs
    PROVE  OneModel' /\ ModelInv(r)'
<1>1. OneModel'
      BY DEF OneModel
<1> QED
    BY <1>1 DEF ModelInv, BatchPCs, DeepPCs

LEMMA OpeningModel ==
    ASSUME TypeOK, NEW r \in Runs, ModelInv(r), OneModel,
           \/ \E q \in Requests : Start(r, q)
           \/ Return(r) /\ UNCHANGED <<lance, metaFile>>
           \/ ShallowStep(r) \/ OpenExisting(r) \/ NoStore(r) \/ OpenNew(r)
           \/ CreateTable(r) \/ OpenText(r)
    PROVE  OneModel' /\ ModelInv(r)'
<1>w. w[r] \in Locals
      BY DEF TypeOK
<1>n. ASSUME NEW q PROVE /\ NewLocals(q).cache = {} /\ NewLocals(q).rows = {}
                         /\ ~NewLocals(q).lazy
      BY DEF NewLocals
<1>1. CASE \E q \in Requests : Start(r, q)
  <2>1. PICK q : w'[r] = NewLocals(q)
        BY <1>1, LocallyAt DEF Start
  <2>2. pc'[r] \in {"shallow", "open"} /\ UNCHANGED <<lance, metaFile>>
        BY <1>1, GotoAt DEF Start, vectors
  <2> QED
      BY <1>n, <2>1, <2>2, BeforeRows DEF DeepPCs
<1>2. CASE Return(r) /\ UNCHANGED <<lance, metaFile>>
  <2>1. w'[r] = Idle /\ pc'[r] = "idle"
        BY <1>2, LocallyAt, GotoAt DEF Return
  <2> QED
      BY <1>2, <1>n, <2>1, BeforeRows DEF DeepPCs, Idle
<1>3. CASE ShallowStep(r)
  <2>1. /\ pc[r] \notin {"lock"} \cup DeepPCs
        /\ pc'[r] \in {"open"} \cup ShallowPCs /\ UNCHANGED <<lance, metaFile>>
        BY <1>3, GotoAt
        DEF ShallowStep, ShallowOpen, ShallowRead, ShallowCommit, ShallowMark,
            ShallowPCs, DeepPCs, vectors
  <2>2. w'[r].cache = {} /\ w'[r].rows = {} /\ ~w'[r].lazy
    <3>1. w[r].cache = {} /\ w[r].rows = {} /\ ~w[r].lazy
          BY <2>1 DEF ModelInv
    <3>2. CASE ShallowOpen(r) \/ ShallowMark(r)
          BY <3>1, <3>2 DEF ShallowOpen, ShallowMark
    <3>3. ASSUME NEW unreadable \in SUBSET Files, ShallowRead(r, unreadable)
          PROVE  w'[r].cache = {} /\ w'[r].rows = {} /\ ~w'[r].lazy
      <4>1. w'[r] = [w[r] EXCEPT
                        !.touched = Collected(w[r].req) \ unreadable,
                        !.ops = [f \in Files |-> IF disk[f] = Absent THEN {}
                                                 ELSE ShallowRows(disk[f])]]
            BY <3>3, LocallyAt DEF ShallowRead
      <4> QED
          BY <1>w, <3>1, <4>1 DEF Locals
    <3>4. CASE ShallowCommit(r)
          BY <1>n, <3>4, LocallyAt DEF ShallowCommit
    <3> QED
        BY <1>3, <3>2, <3>3, <3>4 DEF ShallowStep
  <2> QED
      BY <2>1, <2>2, BeforeRows DEF ShallowPCs, DeepPCs
<1>4. CASE OpenExisting(r)
  <2>1. /\ w'[r] = [w[r] EXCEPT !.scope = Collected(w[r].req),
                                !.todo = Collected(w[r].req),
                                !.meta = metaFile, !.lazy = TRUE]
        /\ pc[r] = "open" /\ pc'[r] = "lock" /\ UNCHANGED <<lance, metaFile>>
        BY <1>4, LocallyAt, GotoAt DEF OpenExisting, vectors
  <2>2. /\ w'[r].meta = metaFile /\ w'[r].lazy
        /\ w'[r].cache = {} /\ w'[r].rows = {}
        BY <1>w, <2>1 DEF Locals, ModelInv, DeepPCs
  <2> QED
      BY <2>1, <2>2 DEF OneModel, ModelInv, DeepPCs, BatchPCs
<1>5. CASE NoStore(r)
  <2>1. /\ w'[r] = [w[r] EXCEPT !.scope = Collected(w[r].req),
                                !.todo = Collected(w[r].req)]
        /\ pc[r] = "open" /\ pc'[r] = "eager" /\ UNCHANGED <<lance, metaFile>>
        BY <1>5, LocallyAt, GotoAt DEF NoStore, vectors
  <2>2. ~w'[r].lazy /\ w'[r].cache = {} /\ w'[r].rows = {}
        BY <1>w, <2>1 DEF Locals, ModelInv, DeepPCs
  <2> QED
      BY <2>1, <2>2, BeforeRows DEF DeepPCs
<1>6. CASE OpenNew(r)
  <2>1. /\ w'[r] = [w[r] EXCEPT !.meta = [metaFile EXCEPT
                                             !.model = w[r].req.model]]
        /\ pc[r] = "eager" /\ pc'[r] = "create" /\ UNCHANGED <<lance, metaFile>>
        /\ metaFile.model \in {NoModel, w[r].req.model}
        BY <1>6, LocallyAt, GotoAt DEF OpenNew, vectors
  <2>2. /\ ~w'[r].lazy /\ w'[r].cache = {} /\ w'[r].rows = {}
        /\ w'[r].meta.model = w[r].req.model /\ w'[r].req = w[r].req
        BY <1>w, <2>1 DEF TypeOK, Locals, Meta, ModelInv, DeepPCs
  <2> QED
      BY <2>1, <2>2 DEF OneModel, ModelInv, DeepPCs, BatchPCs
<1>7. CASE CreateTable(r)
  <2>1. /\ w' = w /\ pc[r] = "create" /\ pc'[r] = "lock"
        /\ metaFile' = w[r].meta /\ UNCHANGED lance
        BY <1>7, GotoAt DEF CreateTable
  <2>2. /\ ~w[r].lazy /\ w[r].cache = {} /\ w[r].rows = {}
        /\ w[r].meta.model = w[r].req.model
        /\ metaFile.model \in {NoModel, w[r].req.model}
        BY <2>1 DEF ModelInv, DeepPCs
  <2>3. ASSUME NEW f \in Files, NEW row \in lance[f] PROVE row[2] = w[r].req.model
    <3>1. row[2] = metaFile.model /\ row[2] \in Models
          BY DEF OneModel, TypeOK, LanceRow
    <3> QED
        BY <2>2, <3>1, ConstantsAssumption
  <2> QED
      BY <2>1, <2>2, <2>3 DEF OneModel, ModelInv, DeepPCs, BatchPCs
<1>8. CASE OpenText(r)
  <2>1. /\ w'[r] = [w[r] EXCEPT !.force = w[r].req.force \/ ~ready,
                                !.mark = ready \/ w[r].req.full]
        /\ pc[r] = "lock" /\ pc'[r] = "gate" /\ UNCHANGED <<lance, metaFile>>
        BY <1>8, LocallyAt, GotoAt DEF OpenText, vectors
  <2>2. /\ w'[r].lazy = w[r].lazy /\ w'[r].cache = {} /\ w'[r].rows = {}
        /\ w'[r].meta = w[r].meta /\ w'[r].req = w[r].req
        BY <1>w, <2>1 DEF Locals, ModelInv, DeepPCs
  <2> QED
      BY <2>1, <2>2 DEF OneModel, ModelInv, DeepPCs, BatchPCs
<1> QED
    BY <1>1, <1>2, <1>3, <1>4, <1>5, <1>6, <1>7, <1>8

(* Deleting, embedding and inserting: the rows keep the model of the meta. *)
LEMMA VectorModel ==
    ASSUME TypeOK, CoreInv, NEW r \in Runs, ModelInv(r), OneModel,
           \/ DeleteRows(r) \/ Embed(r)
           \/ \E S \in SUBSET w[r].rows : InsertSlice(r, S)
    PROVE  OneModel' /\ ModelInv(r)'
<1>w. w[r] \in Locals
      BY DEF TypeOK
<1>1. CASE DeleteRows(r)
  <2> DEFINE old == UNION {lance[f] : f \in w[r].batch}
  <2>1. /\ w'[r] = [w[r] EXCEPT !.cache = old]
        /\ pc[r] = "delete" /\ pc'[r] = "embed"
        /\ lance' = [f \in Files |-> IF f \in w[r].batch THEN {} ELSE lance[f]]
        /\ metaFile' \in {w[r].meta, metaFile}
        BY <1>1, LocallyAt, GotoAt DEF DeleteRows
  <2>2. /\ w'[r].meta = w[r].meta /\ w'[r].req = w[r].req
        /\ w'[r].lazy = w[r].lazy /\ w'[r].rows = w[r].rows /\ w'[r].cache = old
        /\ w[r].batch \subseteq Files
        BY <1>w, <2>1 DEF Locals
  <2>3. /\ w[r].meta.model = metaFile.model
        /\ w[r].meta.model = w[r].req.model
        /\ \A row \in {fr[2] : fr \in w[r].rows} : row[2] = w[r].meta.model
        BY <2>1 DEF ModelInv, DeepPCs, BatchPCs
  <2>4. \A row \in old : row[2] = metaFile.model
        BY <2>2 DEF OneModel
  <2>5. metaFile'.model = metaFile.model
        BY <2>1, <2>3
  <2>6. OneModel'
        BY <2>1, <2>5 DEF OneModel
  <2> HIDE DEF old
  <2> QED
      BY <2>1, <2>2, <2>3, <2>4, <2>5, <2>6 DEF ModelInv, DeepPCs, BatchPCs
<1>2. CASE Embed(r)
  <2>1. /\ w'[r] = [w[r] EXCEPT !.rows = PlannedRows(w[r]), !.cache = {}]
        /\ pc[r] = "embed" /\ pc'[r] \in {"insert", "text"}
        /\ UNCHANGED <<lance, metaFile>>
        BY <1>2, LocallyAt, GotoAt DEF Embed, vectors
  <2>2. /\ w'[r].meta = w[r].meta /\ w'[r].req = w[r].req
        /\ w'[r].lazy = w[r].lazy /\ w'[r].rows = PlannedRows(w[r])
        /\ w'[r].cache = {}
        BY <1>w, <2>1 DEF Locals
  <2>3. /\ w[r].meta.model = metaFile.model
        /\ w[r].meta.model = w[r].req.model
        /\ \A row \in w[r].cache : row[2] = w[r].meta.model
        BY <2>1 DEF ModelInv, DeepPCs, BatchPCs
  <2>4. ASSUME NEW k PROVE VectorOf(w[r], k)[2] = w[r].meta.model
    <3>1. CASE \E row \in w[r].cache : row[1] = k
      <4>1. VectorOf(w[r], k) \in w[r].cache
            BY <3>1 DEF VectorOf
      <4> QED
          BY <2>3, <4>1
    <3>2. CASE ~ \E row \in w[r].cache : row[1] = k
          BY <2>3, <3>2 DEF VectorOf
    <3> QED
        BY <3>1, <3>2
  <2>5. \A fr \in PlannedRows(w[r]) : fr[2][2] = w[r].meta.model
        BY <2>4 DEF PlannedRows
  <2>6. OneModel'
        BY <2>1 DEF OneModel
  <2> QED
      BY <2>1, <2>2, <2>3, <2>5, <2>6 DEF ModelInv, DeepPCs, BatchPCs
<1>3. ASSUME NEW S \in SUBSET w[r].rows, InsertSlice(r, S)
      PROVE  OneModel' /\ ModelInv(r)'
  <2>1. /\ w'[r] = [w[r] EXCEPT !.rows = @ \ S]
        /\ pc[r] = "insert" /\ pc'[r] \in {"insert", "text"}
        /\ lance' = [f \in Files |->
                        lance[f] \cup {fr[2] : fr \in {x \in S : x[1] = f}}]
        /\ metaFile' = w[r].meta
        BY <1>3, LocallyAt, GotoAt DEF InsertSlice
  <2>2. /\ w'[r].meta = w[r].meta /\ w'[r].req = w[r].req
        /\ w'[r].lazy = w[r].lazy /\ w'[r].rows \subseteq w[r].rows
        /\ w'[r].cache = w[r].cache
        BY <1>w, <2>1 DEF Locals
  <2>3. /\ w[r].meta.model = metaFile.model
        /\ w[r].meta.model = w[r].req.model
        /\ \A row \in w[r].cache \cup {fr[2] : fr \in w[r].rows} :
              row[2] = w[r].meta.model
        BY <2>1 DEF ModelInv, DeepPCs, BatchPCs
  <2>4. OneModel'
    <3>1. ASSUME NEW f \in Files, NEW row \in lance'[f] PROVE row[2] = metaFile.model
      <4>1. CASE row \in lance[f]
            BY <4>1 DEF OneModel
      <4>2. CASE row \in {fr[2] : fr \in S}
            BY <2>3, <4>2
      <4> QED
          BY <2>1, <4>1, <4>2
    <3> QED
        BY <2>1, <2>3, <3>1 DEF OneModel
  <2> QED
      BY <2>1, <2>2, <2>3, <2>4 DEF ModelInv, DeepPCs, BatchPCs
<1> QED
    BY <1>1, <1>2, <1>3

LEMMA BusinessModel ==
    ASSUME TypeOK, CoreInv, NEW r \in Runs, ModelInv(r), OneModel,
           \/ \E f \in Files : SkipUnchanged(r, f) \/ Gate(r, f)
           \/ ReadFile(r) \/ ReadFileFails(r) \/ GateDone(r)
           \/ \E B \in SUBSET Files : TakeBatch(r, B)
           \/ BatchFails(r)
           \/ \E f \in Files : QueueText(r, f) \/ QueueTextFails(r, f)
           \/ BatchDone(r) \/ CommitText(r) \/ MarkSearchable(r)
           \/ MarkReady(r) \/ MarkFull(r) \/ \E f \in Files : SetIndexed(r, f)
    PROVE  OneModel' /\ ModelInv(r)'
<1>w. w[r] \in Locals
      BY DEF TypeOK
<1>g. ASSUME NEW label, Goto(r, label) PROVE pc'[r] = label
      BY <1>g, GotoAt
<1>1. ASSUME NEW f \in Files, SkipUnchanged(r, f) \/ Gate(r, f)
      PROVE  OneModel' /\ ModelInv(r)'
  <2>1. \/ w'[r] = [w[r] EXCEPT !.todo = @ \ {f}]
        \/ w'[r] = [w[r] EXCEPT !.todo = @ \ {f}, !.cur = f, !.seen[f] = disk[f]]
        BY <1>1, LocallyAt DEF SkipUnchanged, Gate
  <2>2. SameModel(r)
        BY <1>w, <2>1 DEF Locals, SameModel
  <2>3. /\ pc[r] = "gate" /\ (pc'[r] = "gate" \/ pc'[r] = "read")
        /\ UNCHANGED <<lance, metaFile>>
        BY <1>1, <1>g DEF SkipUnchanged, Gate, vectors
  <2> QED
      BY <2>2, <2>3, OtherBusiness DEF DeepPCs, BatchPCs
<1>2. ASSUME ReadFile(r) \/ ReadFileFails(r) \/ GateDone(r)
      PROVE  OneModel' /\ ModelInv(r)'
  <2>1. \/ w'[r] = [w[r] EXCEPT !.cur = NoFile, !.got[w[r].cur] = disk[w[r].cur],
                                !.queue = @ \cup {w[r].cur}]
        \/ w'[r] = [w[r] EXCEPT !.cur = NoFile, !.failed = TRUE]
        \/ w'[r] = w[r]
        BY <1>2, LocallyAt DEF ReadFile, ReadFileFails, GateDone
  <2>2. SameModel(r)
        BY <1>w, <2>1 DEF Locals, SameModel
  <2>3. /\ pc[r] \in {"gate", "read"} /\ (pc'[r] = "gate" \/ pc'[r] = "batch")
        /\ UNCHANGED <<lance, metaFile>>
        BY <1>2, <1>g DEF ReadFile, ReadFileFails, GateDone, vectors
  <2> QED
      BY <2>2, <2>3, OtherBusiness DEF DeepPCs, BatchPCs
<1>3. ASSUME NEW B \in SUBSET Files, TakeBatch(r, B)
      PROVE  OneModel' /\ ModelInv(r)'
  <2>1. /\ w'[r] = [w[r] EXCEPT !.batch = B, !.queue = @ \ B]
        /\ pc[r] = "batch" /\ pc'[r] = "delete"
        /\ w[r].lazy => w[r].meta.model = w[r].req.model
        /\ UNCHANGED <<lance, metaFile>>
        BY <1>3, <1>g, LocallyAt DEF TakeBatch, EmbedderFits, vectors
  <2>2. SameModel(r)
        BY <1>w, <2>1 DEF Locals, SameModel
  <2>3. w[r].meta.model = w[r].req.model
        BY <2>1 DEF ModelInv, DeepPCs
  <2> QED
      BY <2>1, <2>2, <2>3, OtherBusiness DEF DeepPCs
<1>4. ASSUME BatchFails(r) PROVE OneModel' /\ ModelInv(r)'
  <2>1. /\ w'[r] = [w[r] EXCEPT !.batch = {}, !.cache = {}, !.rows = {},
                                !.failed = TRUE]
        /\ pc[r] \in BatchPCs /\ pc'[r] = "batch" /\ UNCHANGED <<lance, metaFile>>
        BY <1>4, <1>g, LocallyAt DEF BatchFails, BatchPCs, vectors
  <2>2. SameModel(r)
        BY <1>w, <2>1 DEF Locals, SameModel
  <2> QED
      BY <2>1, <2>2, OtherBusiness DEF DeepPCs, BatchPCs
<1>5. ASSUME NEW f \in Files, QueueText(r, f) \/ QueueTextFails(r, f)
      PROVE  OneModel' /\ ModelInv(r)'
  <2>1. \/ w'[r] = [w[r] EXCEPT !.batch = @ \ {f}, !.touched = @ \cup {f},
                                !.ops[f] = DeepRows(w[r].got[f]),
                                !.done = @ \cup {f}]
        \/ w'[r] = [w[r] EXCEPT !.batch = @ \ {f}, !.touched = @ \cup {f},
                                !.ops[f] = {}, !.failed = TRUE]
        BY <1>5, LocallyAt DEF QueueText, QueueTextFails
  <2>2. SameModel(r)
        BY <1>w, <2>1 DEF Locals, SameModel
  <2>3. pc[r] = "text" /\ pc'[r] = "text" /\ UNCHANGED <<lance, metaFile>>
        BY <1>5 DEF QueueText, QueueTextFails, vectors
  <2> QED
      BY SMTT(60), <2>2, <2>3, OtherBusiness DEF DeepPCs, BatchPCs
<1>6. ASSUME BatchDone(r) \/ CommitText(r) \/ MarkSearchable(r) \/ MarkReady(r)
      PROVE  OneModel' /\ ModelInv(r)'
  <2>1. \/ w'[r] = [w[r] EXCEPT !.touched = {}, !.ops = [f \in Files |-> {}]]
        \/ w'[r] = w[r]
        BY <1>6, LocallyAt DEF BatchDone, CommitText, MarkSearchable, MarkReady
  <2>2. SameModel(r)
        BY <1>w, <2>1 DEF Locals, SameModel
  <2>3. UNCHANGED <<lance, metaFile>>
        BY <1>6 DEF BatchDone, CommitText, MarkSearchable, MarkReady, vectors
  <2>4. CASE BatchDone(r)
        BY <1>g, <2>2, <2>3, <2>4, OtherBusiness DEF BatchDone, DeepPCs, BatchPCs
  <2>5. CASE CommitText(r)
        BY <1>g, <2>2, <2>3, <2>5, OtherBusiness DEF CommitText, DeepPCs, BatchPCs
  <2>6. CASE MarkSearchable(r)
    <3>1. pc[r] = "searchable" /\ (pc'[r] = "ready" \/ pc'[r] = "indexed")
          BY <1>g, <2>6 DEF MarkSearchable
    <3> QED
        BY <2>2, <2>3, <3>1, OtherBusiness DEF DeepPCs, BatchPCs
  <2>7. CASE MarkReady(r)
    <3>1. pc[r] = "ready" /\ (pc'[r] = "full" \/ pc'[r] = "indexed")
          BY <1>g, <2>7 DEF MarkReady
    <3> QED
        BY <2>2, <2>3, <3>1, OtherBusiness DEF DeepPCs, BatchPCs
  <2> QED
      BY <1>6, <2>4, <2>5, <2>6, <2>7
<1>7. ASSUME MarkFull(r) PROVE OneModel' /\ ModelInv(r)'
  <2>1. /\ w'[r] = [w[r] EXCEPT !.meta.full = TRUE]
        /\ metaFile' = [w[r].meta EXCEPT !.full = TRUE]
        /\ pc[r] = "full" /\ pc'[r] = "indexed" /\ UNCHANGED lance
        BY <1>7, <1>g, LocallyAt DEF MarkFull
  <2>2. SameModel(r) /\ metaFile'.model = w[r].meta.model
        BY <1>w, <2>1 DEF Locals, Meta, SameModel
  <2>3. w[r].meta.model = metaFile.model
        BY <2>1 DEF ModelInv, DeepPCs
  <2> QED
      BY <2>1, <2>2, <2>3, OtherBusiness DEF DeepPCs, BatchPCs
<1>8. ASSUME NEW f \in Files, SetIndexed(r, f) PROVE OneModel' /\ ModelInv(r)'
  <2>1. /\ w'[r] = [w[r] EXCEPT !.done = @ \ {f}]
        /\ pc[r] = "indexed" /\ pc'[r] = "indexed" /\ UNCHANGED <<lance, metaFile>>
        BY <1>8, LocallyAt DEF SetIndexed, vectors
  <2>2. SameModel(r)
        BY <1>w, <2>1 DEF Locals, SameModel
  <2> QED
      BY <2>1, <2>2, OtherBusiness DEF DeepPCs, BatchPCs
<1> QED
    BY <1>1, <1>2, <1>3, <1>4, <1>5, <1>6, <1>7, <1>8

ModelsInv == OneModel /\ \A r \in Runs : ModelInv(r)

LEMMA ModelsNext ==
    ASSUME \A r, s \in Runs : r = s
    PROVE  CoreLock /\ ModelsInv /\ [RecoveryNext]_recoveryVars
               => ModelsInv'
<1> SUFFICES ASSUME TypeOK, CoreInv, LockInv, ModelsInv,
                    [RecoveryNext]_recoveryVars
             PROVE  ModelsInv'
    BY DEF CoreLock
<1>1. CASE UNCHANGED <<lance, metaFile, pc, w>>
      BY <1>1 DEF ModelsInv, OneModel, ModelInv
<1>2. ASSUME NEW r \in Runs,
             RunStep(r) \/ Stop(r) \/ \E q \in Requests : Start(r, q)
      PROVE  ModelsInv'
  <2>0. ModelInv(r) /\ OneModel
        BY DEF ModelsInv
  <2>1. CASE \/ Stop(r) \/ WriterBusy(r) \/ ModelMismatch(r)
             \/ \E f \in Files : HashFileFails(r, f)
             \/ EmbedderRefused(r) \/ Finish(r)
    <3>1. Return(r) /\ UNCHANGED <<lance, metaFile>>
          BY <2>1 DEF Stop, WriterBusy, ModelMismatch, HashFileFails,
                      EmbedderRefused, Finish, vectors
    <3> QED
        BY <2>0, <3>1, OpeningModel DEF ModelsInv
  <2>2. CASE ~(\/ Stop(r) \/ WriterBusy(r) \/ ModelMismatch(r)
               \/ \E f \in Files : HashFileFails(r, f)
               \/ EmbedderRefused(r) \/ Finish(r))
    <3>1. OneModel' /\ ModelInv(r)'
          BY <1>2, <2>0, <2>2, OpeningModel, VectorModel, BusinessModel
          DEF RunStep, OpenStep, GateStep, BatchStep, EndStep
    <3> QED
        BY <3>1 DEF ModelsInv
  <2> QED
      BY <2>1, <2>2
<1>3. CASE Next
  <2>1. CASE \E e \in Edits : Edit(e[1], e[2])
        BY <1>1, <2>1 DEF Edit, vectors
  <2> QED
      BY <1>2, <1>3, <2>1 DEF Next, Environment
<1>4. CASE \E r \in Runs : Refuse(r)
      BY <1>2, <1>4 DEF Refuse, RunStep, BatchStep, OpenStep
<1>5. CASE DeleteLance
  <2>1. /\ \A r \in Runs : pc[r] = "idle" /\ UNCHANGED <<metaFile, pc, w>>
        /\ lance' = [f \in Files |-> {}]
        BY <1>5 DEF DeleteLance, AllIdle
  <2> QED
      BY <2>1 DEF ModelsInv, OneModel, ModelInv, DeepPCs, BatchPCs
<1>6. CASE UNCHANGED recoveryVars \/ Upgrade
           \/ \E r \in Runs : FindOutdated(r) \/ RebuildText(r)
      BY <1>1, <1>6
      DEF recoveryVars, vars, Upgrade, FindOutdated, RebuildText, vectors
<1>7. ASSUME NEW r \in Runs, NEW left, RebuildStops(r, left)
      PROVE  ModelsInv'
  <2>1. Return(r) /\ UNCHANGED <<lance, metaFile>>
        BY <1>7 DEF RebuildStops, vectors
  <2> QED
      BY <2>1, OpeningModel DEF ModelsInv
<1> QED
    BY <1>3, <1>4, <1>5, <1>6, <1>7 DEF RecoveryNext, Ordinary

(* Every stored vector was made by the model vector_meta.json names, with  *)
(* any sequence of configured models, refusals, deleted directories and    *)
(* stops, as long as runs do not overlap (two first runs do mix models).   *)
THEOREM SingleRunsKeepOneModel ==
    ASSUME \A r, s \in Runs : r = s
    PROVE  RecoverySpec => []OneModel
<1>1. RecoveryInit => CoreLock /\ ModelsInv
  <2>1. Init => ModelsInv
        BY DEF Init, ModelsInv, OneModel, ModelInv, Idle, NewLocals, DeepPCs,
               BatchPCs
  <2>2. RecoveryInit => CoreLock
        BY RecoveryStarts DEF RecoveryInv, ReadyInv, CoreLock
  <2> QED
      BY <2>1, <2>2 DEF RecoveryInit
<1>2. CoreLock /\ ModelsInv /\ [RecoveryNext]_recoveryVars
          => CoreLock' /\ ModelsInv'
      BY RecoveryCore, ModelsNext
<1>3. ModelsInv => OneModel
      BY DEF ModelsInv
<1> QED
    BY <1>1, <1>2, <1>3, PTL DEF RecoverySpec

=============================================================================
