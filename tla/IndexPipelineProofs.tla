------------------------- MODULE IndexPipelineProofs -------------------------
(* Theorems about IndexPipeline for every project, chunker, set of runs,   *)
(* requests, edits and faults.                                             *)
EXTENDS IndexPipeline, FiniteSetTheorems, TLAPS

-----------------------------------------------------------------------------
(* Type correctness.                                                       *)

(* The locals of a new run are well typed.                                 *)
LEMMA NewLocalsType == ASSUME NEW q \in Request PROVE NewLocals(q) \in Locals
BY ConstantsAssumption DEF NewLocals, Locals, NoMeta, Meta

(* So are those of a run that is not in progress.                          *)
LEMMA IdleType == Idle \in Locals
BY NewLocalsType, ConstantsAssumption DEF Idle

(* A step that replaces the locals of one run keeps the others'.           *)
LEMMA LocallyType ==
    ASSUME TypeOK, NEW r \in Runs, NEW l \in Locals, Locally(r, l)
    PROVE  /\ w' \in [Runs -> Locals]
           /\ w'[r] = l
           /\ \A s \in Runs \ {r} : w'[s] = w[s]
BY DEF TypeOK, Locally

(* A step that moves one run leaves the others where they are.             *)
LEMMA GotoType ==
    ASSUME TypeOK, NEW r \in Runs, NEW label \in PCs, Goto(r, label)
    PROVE  /\ pc' \in [Runs -> PCs]
           /\ pc'[r] = label
           /\ \A s \in Runs \ {r} : pc'[s] = pc[s]
BY DEF TypeOK, Goto

(* A run that returns leaves a well-typed state, whatever else it kept.    *)
LEMMA ReturnType ==
    ASSUME TypeOK, NEW r \in Runs, Return(r)
    PROVE  /\ writer' \in Runs \cup {NoRun}
           /\ pc' \in [Runs -> PCs]
           /\ w' \in [Runs -> Locals]
           /\ dirty' \in [Runs -> SUBSET Files]
<1>1. pc' \in [Runs -> PCs]
      BY GotoType DEF Return, PCs
<1>2. w' \in [Runs -> Locals]
      BY LocallyType, IdleType DEF Return
<1> QED
      BY <1>1, <1>2 DEF TypeOK, Return

(* The hash rows SetHash writes are well typed.                            *)
LEMMA SetHashType ==
    ASSUME TypeOK, NEW F \in SUBSET Files, NEW s \in FileStatus,
           NEW h \in [Files -> Contents \cup {Absent}]
    PROVE  SetHash(F, h, s) \in [Files -> HashRow]
BY DEF TypeOK, SetHash, HashRow

(* The rows a commit leaves are well typed.                                *)
LEMMA AppliedType ==
    ASSUME TypeOK, NEW l \in Locals
    PROVE  Applied(l) \in [Files -> SUBSET TextRow]
BY DEF TypeOK, Applied, Locals

(* Deep and shallow rows are text rows.                                    *)
LEMMA RowsType ==
    ASSUME NEW c \in Contents
    PROVE  DeepRows(c) \subseteq TextRow /\ ShallowRows(c) \subseteq TextRow
BY ConstantsAssumption DEF DeepRows, ShallowRows, TextRow

(* A stored or an embedded vector is a Lance row.                          *)
LEMMA PlannedType ==
    ASSUME NEW l \in Locals, \A f \in l.batch : l.got[f] \in Contents
    PROVE  PlannedRows(l) \in SUBSET (Files \X LanceRow)
<1>1. ASSUME NEW f \in l.batch, NEW k \in ChunksOf[l.got[f]]
      PROVE  <<f, VectorOf(l, k)>> \in Files \X LanceRow
  <2>1. f \in Files /\ k \in Chunks
        BY ConstantsAssumption DEF Locals
  <2>2. l.req.model \in Models /\ l.cache \subseteq LanceRow
        BY DEF Locals, Request
  <2>3. CASE \E row \in l.cache : row[1] = k
        BY <2>1, <2>2, <2>3 DEF VectorOf
  <2>4. CASE ~ \E row \in l.cache : row[1] = k
        BY <2>1, <2>2, <2>4 DEF VectorOf, LanceRow
  <2> QED
        BY <2>3, <2>4
<1> QED
    BY <1>1 DEF PlannedRows

-----------------------------------------------------------------------------
(* What the actions do to the locals of their run keeps them well typed.   *)

(* ShallowRead and CommitText: the queued Tantivy operations.              *)
LEMMA TextLocals ==
    ASSUME NEW l \in Locals, NEW F \in SUBSET Files,
           NEW O \in [Files -> SUBSET TextRow]
    PROVE  [l EXCEPT !.touched = F, !.ops = O] \in Locals
BY DEF Locals

(* OpenExisting, NoStore and OpenNew: the collected files and the meta.    *)
LEMMA OpenLocals ==
    ASSUME NEW l \in Locals, NEW F \in SUBSET Files, NEW m \in Meta
    PROVE  /\ [l EXCEPT !.scope = F, !.todo = F, !.meta = m, !.lazy = TRUE] \in Locals
           /\ [l EXCEPT !.scope = F, !.todo = F] \in Locals
           /\ [l EXCEPT !.meta = m] \in Locals
BY DEF Locals

(* OpenText: the options of the run.                                       *)
LEMMA OptionLocals ==
    ASSUME NEW l \in Locals, NEW x \in BOOLEAN, NEW y \in BOOLEAN
    PROVE  [l EXCEPT !.force = x, !.mark = y] \in Locals
BY DEF Locals

(* SkipUnchanged and Gate: a file leaves the list.                         *)
LEMMA GateLocals ==
    ASSUME NEW l \in Locals, NEW f \in Files, NEW c \in Contents \cup {Absent}
    PROVE  /\ [l EXCEPT !.todo = @ \ {f}] \in Locals
           /\ [l EXCEPT !.todo = @ \ {f}, !.cur = f, !.seen[f] = c] \in Locals
BY DEF Locals

(* ReadFile and ReadFileFails: the gated file was read, or was not.        *)
LEMMA ReadLocals ==
    ASSUME NEW l \in Locals, NEW f \in Files, NEW c \in Contents \cup {Absent}
    PROVE  /\ [l EXCEPT !.cur = NoFile, !.got[f] = c, !.queue = @ \cup {f}] \in Locals
           /\ [l EXCEPT !.cur = NoFile, !.failed = TRUE] \in Locals
BY DEF Locals

(* TakeBatch, DeleteRows, Embed, InsertSlice and BatchFails.               *)
LEMMA BatchLocals ==
    ASSUME NEW l \in Locals, NEW B \in SUBSET Files, NEW C \in SUBSET LanceRow,
           NEW R \in SUBSET (Files \X LanceRow)
    PROVE  /\ [l EXCEPT !.batch = B, !.queue = @ \ B] \in Locals
           /\ [l EXCEPT !.cache = C] \in Locals
           /\ [l EXCEPT !.rows = R, !.cache = {}] \in Locals
           /\ [l EXCEPT !.rows = @ \ R] \in Locals
           /\ [l EXCEPT !.batch = {}, !.cache = {}, !.rows = {},
                        !.failed = TRUE] \in Locals
<1>1. [l EXCEPT !.batch = B, !.queue = @ \ B] \in Locals
      BY DEF Locals
<1>2. /\ [l EXCEPT !.cache = C] \in Locals
      /\ [l EXCEPT !.rows = R, !.cache = {}] \in Locals
      BY DEF Locals
<1>3. [l EXCEPT !.rows = @ \ R] \in Locals
      BY DEF Locals
<1>4. [l EXCEPT !.batch = {}, !.cache = {}, !.rows = {}, !.failed = TRUE]
          \in Locals
      BY DEF Locals
<1> QED
    BY <1>1, <1>2, <1>3, <1>4

(* QueueText and QueueTextFails: a file leaves the batch.                  *)
LEMMA QueueTextLocals ==
    ASSUME NEW l \in Locals, NEW f \in Files, NEW T \in SUBSET TextRow
    PROVE  /\ [l EXCEPT !.batch = @ \ {f}, !.touched = @ \cup {f},
                        !.ops[f] = T, !.done = @ \cup {f}] \in Locals
           /\ [l EXCEPT !.batch = @ \ {f}, !.touched = @ \cup {f},
                        !.ops[f] = T, !.failed = TRUE] \in Locals
BY DEF Locals

(* MarkFull and SetIndexed.                                                *)
LEMMA EndLocals ==
    ASSUME NEW l \in Locals, NEW F \in SUBSET Files
    PROVE  /\ [l EXCEPT !.meta.full = TRUE] \in Locals
           /\ [l EXCEPT !.done = @ \ F] \in Locals
BY DEF Locals, Meta

-----------------------------------------------------------------------------
(* The first state is well typed.                                          *)
LEMMA TypeInit == Init => TypeOK
<1> SUFFICES ASSUME Init PROVE TypeOK
    OBVIOUS
<1>1. /\ disk \in [Files -> Contents \cup {Absent}]
      /\ hashStore \in [Files -> HashRow]
      /\ torn \subseteq Files
      /\ dirty \in [Runs -> SUBSET Files]
      BY DEF Init, HashRow, FileStatus
<1>2. metaFile \in Meta /\ table \in BOOLEAN
      BY DEF Init, NoMeta, Meta
<1>3. lance \in [Files -> SUBSET LanceRow]
      BY DEF Init
<1>4. /\ text \in [Files -> SUBSET TextRow]
      /\ searchable \in BOOLEAN /\ ready \in BOOLEAN
      /\ writer \in Runs \cup {NoRun}
      BY DEF Init
<1>5. pc \in [Runs -> PCs]
      BY DEF Init, PCs
<1>6. w \in [Runs -> Locals]
      BY IdleType DEF Init
<1> QED
      BY <1>1, <1>2, <1>3, <1>4, <1>5, <1>6 DEF TypeOK

(* The part of the invariant that is about the runs and does not promise   *)
(* any rows.                                                               *)
CoreInv == HashInv /\ \A r \in Runs : RunInv(r)

(* Every step keeps the types: one step of the proof per action.           *)
LEMMA TypeNext == TypeOK /\ CoreInv /\ [Next]_vars => TypeOK'
<1> SUFFICES ASSUME TypeOK, CoreInv, [Next]_vars PROVE TypeOK'
    OBVIOUS
<1>w. \A r \in Runs : w[r] \in Locals
      BY DEF TypeOK
<1>q. \A r \in Runs : QueueInv(r)
      BY DEF CoreInv, RunInv
<1>1. CASE UNCHANGED vars
      BY <1>1 DEF TypeOK, vars
<1>2. ASSUME NEW e \in Edits, Edit(e[1], e[2]) PROVE TypeOK'
  <2>1. e[1] \in Files /\ e[2] \in Contents \cup {Absent}
        BY ConstantsAssumption
  <2> QED
        BY <1>2, <2>1 DEF TypeOK, Edit, vectors, keyword
<1>3. ASSUME NEW r \in Runs, NEW q \in Requests, Start(r, q) PROVE TypeOK'
  <2>1. pc' \in [Runs -> PCs]
        BY <1>3, GotoType DEF Start, PCs
  <2>2. w' \in [Runs -> Locals]
        BY <1>3, LocallyType, NewLocalsType, ConstantsAssumption DEF Start
  <2> QED
        BY <1>3, <2>1, <2>2 DEF TypeOK, Start, tree, vectors, keyword
<1>4. ASSUME NEW r \in Runs, Stop(r) PROVE TypeOK'
      BY <1>4, ReturnType DEF TypeOK, Stop, vectors, keyword
<1>5. ASSUME NEW r \in Runs, WriterBusy(r) PROVE TypeOK'
      BY <1>5, ReturnType DEF TypeOK, WriterBusy, vectors, keyword
<1>6. ASSUME NEW r \in Runs, ModelMismatch(r) PROVE TypeOK'
      BY <1>6, ReturnType DEF TypeOK, ModelMismatch, vectors, keyword
<1>7. ASSUME NEW r \in Runs, NEW f \in Files, HashFileFails(r, f) PROVE TypeOK'
      BY <1>7, ReturnType DEF TypeOK, HashFileFails, vectors, keyword
<1>8. ASSUME NEW r \in Runs, EmbedderRefused(r) PROVE TypeOK'
      BY <1>8, ReturnType DEF TypeOK, EmbedderRefused, vectors, keyword
<1>9. ASSUME NEW r \in Runs, Finish(r) PROVE TypeOK'
      BY <1>9, ReturnType DEF TypeOK, Finish, vectors, keyword
<1>10. ASSUME NEW r \in Runs, ShallowOpen(r) PROVE TypeOK'
  <2>1. pc' \in [Runs -> PCs]
        BY <1>10, GotoType DEF ShallowOpen, PCs, Locked, ShallowPCs, DeepPCs
  <2> QED
        BY <1>10, <2>1 DEF TypeOK, ShallowOpen, tree, vectors, keyword, TakeWriter
<1>11. ASSUME NEW r \in Runs, NEW unreadable \in SUBSET Files, ShallowRead(r, unreadable) PROVE TypeOK'
  <2>1. \A f \in Files : disk[f] # Absent => ShallowRows(disk[f]) \subseteq TextRow
        BY RowsType DEF TypeOK
  <2>2. Collected(w[r].req) \ unreadable \in SUBSET Files
        BY DEF Collected, Present
  <2>3. [f \in Files |-> IF disk[f] = Absent THEN {} ELSE ShallowRows(disk[f])]
            \in [Files -> SUBSET TextRow]
        BY <2>1
  <2>4. [w[r] EXCEPT !.touched = Collected(w[r].req) \ unreadable,
                        !.ops = [f \in Files |->
                            IF disk[f] = Absent THEN {}
                            ELSE ShallowRows(disk[f])]] \in Locals
        BY <1>w, <2>2, <2>3, TextLocals
  <2>5. w' \in [Runs -> Locals]
        BY <1>11, <2>4, LocallyType DEF ShallowRead
  <2>6. pc' \in [Runs -> PCs]
        BY <1>11, GotoType DEF ShallowRead, PCs, Locked, ShallowPCs, DeepPCs
  <2> QED
        BY <1>11, <2>1, <2>2, <2>3, <2>4, <2>5, <2>6 DEF TypeOK, ShallowRead, tree, vectors, keyword
<1>12. ASSUME NEW r \in Runs, ShallowCommit(r) PROVE TypeOK'
  <2>1. w[r].req \in Request
        BY <1>w DEF Locals
  <2>2. NewLocals(w[r].req) \in Locals
        BY <2>1, NewLocalsType
  <2>3. w' \in [Runs -> Locals]
        BY <1>12, <2>2, LocallyType DEF ShallowCommit
  <2>4. pc' \in [Runs -> PCs]
        BY <1>12, GotoType DEF ShallowCommit, PCs, Locked, ShallowPCs, DeepPCs
  <2>5. text' \in [Files -> SUBSET TextRow]
        BY <1>12, <1>w, AppliedType DEF ShallowCommit
  <2> QED
        BY <1>12, <2>1, <2>2, <2>3, <2>4, <2>5 DEF TypeOK, ShallowCommit, tree, vectors, keyword
<1>13. ASSUME NEW r \in Runs, ShallowMark(r) PROVE TypeOK'
  <2>1. pc' \in [Runs -> PCs]
        BY <1>13, GotoType DEF ShallowMark, PCs, Locked, ShallowPCs, DeepPCs
  <2> QED
        BY <1>13, <2>1 DEF TypeOK, ShallowMark, tree, vectors, keyword
<1>14. ASSUME NEW r \in Runs, OpenExisting(r) PROVE TypeOK'
  <2>1. Collected(w[r].req) \in SUBSET Files
        BY DEF Collected, Present
  <2>2. [w[r] EXCEPT !.scope = Collected(w[r].req),
                        !.todo = Collected(w[r].req),
                        !.meta = metaFile, !.lazy = TRUE] \in Locals
        BY <1>w, <2>1, OpenLocals DEF TypeOK
  <2>3. w' \in [Runs -> Locals]
        BY <1>14, <2>2, LocallyType DEF OpenExisting
  <2>4. pc' \in [Runs -> PCs]
        BY <1>14, GotoType DEF OpenExisting, PCs, Locked, ShallowPCs, DeepPCs
  <2> QED
        BY <1>14, <2>1, <2>2, <2>3, <2>4 DEF TypeOK, OpenExisting, tree, vectors, keyword
<1>36. ASSUME NEW r \in Runs, NoStore(r) PROVE TypeOK'
  <2>1. Collected(w[r].req) \in SUBSET Files
        BY DEF Collected, Present
  <2>2. [w[r] EXCEPT !.scope = Collected(w[r].req),
                        !.todo = Collected(w[r].req)] \in Locals
        BY <1>w, <2>1, OpenLocals DEF TypeOK
  <2>3. w' \in [Runs -> Locals]
        BY <1>36, <2>2, LocallyType DEF NoStore
  <2>4. pc' \in [Runs -> PCs]
        BY <1>36, GotoType DEF NoStore, PCs, Locked, ShallowPCs, DeepPCs
  <2> QED
        BY <1>36, <2>3, <2>4 DEF TypeOK, NoStore, tree, vectors, keyword
<1>15. ASSUME NEW r \in Runs, OpenNew(r) PROVE TypeOK'
  <2>1. [metaFile EXCEPT !.model = w[r].req.model] \in Meta
        BY <1>w DEF TypeOK, Locals, Request, Meta
  <2>2. [w[r] EXCEPT !.meta = [metaFile EXCEPT !.model = w[r].req.model]]
            \in Locals
        BY <1>w, <2>1, OpenLocals
  <2>3. w' \in [Runs -> Locals]
        BY <1>15, <2>2, LocallyType DEF OpenNew
  <2>4. pc' \in [Runs -> PCs]
        BY <1>15, GotoType DEF OpenNew, PCs, Locked, ShallowPCs, DeepPCs
  <2> QED
        BY <1>15, <2>3, <2>4 DEF TypeOK, OpenNew, tree, vectors, keyword
<1>16. ASSUME NEW r \in Runs, CreateTable(r) PROVE TypeOK'
  <2>1. pc' \in [Runs -> PCs]
        BY <1>16, GotoType DEF CreateTable, PCs, Locked, ShallowPCs, DeepPCs
  <2>2. metaFile' \in Meta
        BY <1>16, <1>w DEF CreateTable, Locals
  <2> QED
        BY <1>16, <2>1, <2>2 DEF TypeOK, CreateTable, tree, vectors, keyword
<1>17. ASSUME NEW r \in Runs, OpenText(r) PROVE TypeOK'
  <2>1. (w[r].req.force \/ ~ready) \in BOOLEAN /\ (ready \/ w[r].req.full) \in BOOLEAN
        OBVIOUS
  <2>2. [w[r] EXCEPT !.force = w[r].req.force \/ ~ready,
                        !.mark = ready \/ w[r].req.full] \in Locals
        BY <1>w, <2>1, OptionLocals
  <2>3. w' \in [Runs -> Locals]
        BY <1>17, <2>2, LocallyType DEF OpenText
  <2>4. pc' \in [Runs -> PCs]
        BY <1>17, GotoType DEF OpenText, PCs, Locked, ShallowPCs, DeepPCs
  <2> QED
        BY <1>17, <2>1, <2>2, <2>3, <2>4 DEF TypeOK, OpenText, tree, vectors, keyword, TakeWriter
<1>18. ASSUME NEW r \in Runs, NEW f \in Files, SkipUnchanged(r, f) PROVE TypeOK'
  <2>1. [w[r] EXCEPT !.todo = @ \ {f}] \in Locals
        BY <1>18, <1>w, GateLocals DEF TypeOK, SkipUnchanged
  <2>2. w' \in [Runs -> Locals]
        BY <1>18, <2>1, LocallyType DEF SkipUnchanged
  <2> QED
        BY <1>18, <2>1, <2>2 DEF TypeOK, SkipUnchanged, tree, vectors, keyword
<1>19. ASSUME NEW r \in Runs, NEW f \in Files, Gate(r, f) PROVE TypeOK'
  <2>1. disk[f] \in Contents \cup {Absent}
        BY DEF TypeOK
  <2>2. [w[r] EXCEPT !.todo = @ \ {f}, !.cur = f, !.seen[f] = disk[f]] \in Locals
        BY <1>w, <2>1, GateLocals
  <2>3. w' \in [Runs -> Locals]
        BY <1>19, <2>2, LocallyType DEF Gate
  <2>4. pc' \in [Runs -> PCs]
        BY <1>19, GotoType DEF Gate, PCs, Locked, ShallowPCs, DeepPCs
  <2>5. hashStore' \in [Files -> HashRow]
        BY <1>19, SetHashType DEF TypeOK, Gate, FileStatus
  <2> QED
        BY <1>19, <2>1, <2>2, <2>3, <2>4, <2>5 DEF TypeOK, Gate, tree, vectors, keyword
<1>20. ASSUME NEW r \in Runs, ReadFile(r) PROVE TypeOK'
  <2>1. w[r].cur \in Files /\ w[r].cur # NoFile
        BY <1>20, <1>q, ConstantsAssumption DEF ReadFile, QueueInv, DeepPCs
  <2>2. disk[w[r].cur] \in Contents \cup {Absent}
        BY <2>1 DEF TypeOK
  <2>3. [w[r] EXCEPT !.cur = NoFile, !.got[w[r].cur] = disk[w[r].cur],
                        !.queue = @ \cup {w[r].cur}] \in Locals
        BY <1>w, <2>1, <2>2, ReadLocals
  <2>4. w' \in [Runs -> Locals]
        BY <1>20, <2>3, LocallyType DEF ReadFile
  <2>5. pc' \in [Runs -> PCs]
        BY <1>20, GotoType DEF ReadFile, PCs, Locked, ShallowPCs, DeepPCs
  <2> QED
        BY <1>20, <2>1, <2>2, <2>3, <2>4, <2>5 DEF TypeOK, ReadFile, tree, vectors, keyword
<1>21. ASSUME NEW r \in Runs, ReadFileFails(r) PROVE TypeOK'
  <2>1. w[r].cur \in Files
        BY <1>21, <1>q, ConstantsAssumption DEF ReadFileFails, QueueInv, DeepPCs
  <2>2. [w[r] EXCEPT !.cur = NoFile, !.failed = TRUE] \in Locals
        BY <1>w, <2>1, ReadLocals
  <2>3. w' \in [Runs -> Locals]
        BY <1>21, <2>2, LocallyType DEF ReadFileFails
  <2>4. pc' \in [Runs -> PCs]
        BY <1>21, GotoType DEF ReadFileFails, PCs, Locked, ShallowPCs, DeepPCs
  <2>5. hashStore' \in [Files -> HashRow]
        BY <1>21, <1>w, <2>1, SetHashType DEF ReadFileFails, FileStatus, Locals
  <2> QED
        BY <1>21, <2>1, <2>2, <2>3, <2>4, <2>5 DEF TypeOK, ReadFileFails, tree, vectors, keyword
<1>22. ASSUME NEW r \in Runs, GateDone(r) PROVE TypeOK'
  <2>1. pc' \in [Runs -> PCs]
        BY <1>22, GotoType DEF GateDone, PCs, Locked, ShallowPCs, DeepPCs
  <2> QED
        BY <1>22, <2>1 DEF TypeOK, GateDone, tree, vectors, keyword
<1>23. ASSUME NEW r \in Runs, NEW B \in SUBSET Files, TakeBatch(r, B) PROVE TypeOK'
  <2>1. [w[r] EXCEPT !.batch = B, !.queue = @ \ B] \in Locals
        BY <1>w, BatchLocals
  <2>2. w' \in [Runs -> Locals]
        BY <1>23, <2>1, LocallyType DEF TakeBatch
  <2>3. pc' \in [Runs -> PCs]
        BY <1>23, GotoType DEF TakeBatch, PCs, Locked, ShallowPCs, DeepPCs
  <2> QED
        BY <1>23, <2>1, <2>2, <2>3 DEF TypeOK, TakeBatch, tree, vectors, keyword
<1>24. ASSUME NEW r \in Runs, DeleteRows(r) PROVE TypeOK'
  <2>1. UNION {lance[f] : f \in w[r].batch} \in SUBSET LanceRow
        BY <1>w DEF TypeOK, Locals
  <2>2. [w[r] EXCEPT !.cache = UNION {lance[f] : f \in w[r].batch}] \in Locals
        BY <1>w, <2>1, BatchLocals
  <2>3. w' \in [Runs -> Locals]
        BY <1>24, <2>2, LocallyType DEF DeleteRows
  <2>4. pc' \in [Runs -> PCs]
        BY <1>24, GotoType DEF DeleteRows, PCs, Locked, ShallowPCs, DeepPCs
  <2>5. metaFile' \in Meta
        BY <1>24, <1>w DEF DeleteRows, TypeOK, Locals
  <2>6. lance' \in [Files -> SUBSET LanceRow]
        BY <1>24 DEF DeleteRows, TypeOK
  <2> QED
        BY <1>24, <2>1, <2>2, <2>3, <2>4, <2>5, <2>6 DEF TypeOK, DeleteRows, tree, vectors, keyword
<1>25. ASSUME NEW r \in Runs, Embed(r) PROVE TypeOK'
  <2>1. PlannedRows(w[r]) \in SUBSET (Files \X LanceRow)
        BY <1>25, <1>w, <1>q, PlannedType DEF Embed, QueueInv, InFlight, DeepPCs
  <2>2. [w[r] EXCEPT !.rows = PlannedRows(w[r]), !.cache = {}] \in Locals
        BY <1>w, <2>1, BatchLocals
  <2>3. w' \in [Runs -> Locals]
        BY <1>25, <2>2, LocallyType DEF Embed
  <2>4. pc' \in [Runs -> PCs]
        BY <1>25, GotoType DEF Embed, PCs, Locked, ShallowPCs, DeepPCs
  <2> QED
        BY <1>25, <2>1, <2>2, <2>3, <2>4 DEF TypeOK, Embed, tree, vectors, keyword
<1>26. ASSUME NEW r \in Runs, NEW S \in SUBSET w[r].rows, InsertSlice(r, S) PROVE TypeOK'
  <2>1. S \subseteq Files \X LanceRow
        BY <1>w DEF Locals
  <2>2. [w[r] EXCEPT !.rows = @ \ S] \in Locals
        BY <1>w, <2>1, BatchLocals
  <2>3. w' \in [Runs -> Locals]
        BY <1>26, <2>2, LocallyType DEF InsertSlice
  <2>4. pc' \in [Runs -> PCs]
        BY <1>26, GotoType DEF InsertSlice, PCs, Locked, ShallowPCs, DeepPCs
  <2>5. metaFile' \in Meta
        BY <1>26, <1>w DEF InsertSlice, Locals
  <2>6. lance' \in [Files -> SUBSET LanceRow]
        BY <1>26, <2>1 DEF InsertSlice, TypeOK
  <2> QED
        BY <1>26, <2>1, <2>2, <2>3, <2>4, <2>5, <2>6 DEF TypeOK, InsertSlice, tree, vectors, keyword
<1>27. ASSUME NEW r \in Runs, BatchFails(r) PROVE TypeOK'
  <2>1. [w[r] EXCEPT !.batch = {}, !.cache = {}, !.rows = {},
                        !.failed = TRUE] \in Locals
        BY <1>w, BatchLocals
  <2>2. w' \in [Runs -> Locals]
        BY <1>27, <2>1, LocallyType DEF BatchFails
  <2>3. pc' \in [Runs -> PCs]
        BY <1>27, GotoType DEF BatchFails, PCs, Locked, ShallowPCs, DeepPCs
  <2>4. hashStore' \in [Files -> HashRow]
        BY <1>27, <1>w, SetHashType DEF BatchFails, FileStatus, Locals
  <2> QED
        BY <1>27, <2>1, <2>2, <2>3, <2>4 DEF TypeOK, BatchFails, tree, vectors, keyword
<1>28. ASSUME NEW r \in Runs, NEW f \in Files, QueueText(r, f) PROVE TypeOK'
  <2>1. DeepRows(w[r].got[f]) \in SUBSET TextRow
        BY <1>28, <1>q, RowsType DEF QueueText, QueueInv, InFlight, DeepPCs
  <2>2. [w[r] EXCEPT !.batch = @ \ {f}, !.touched = @ \cup {f},
                        !.ops[f] = DeepRows(w[r].got[f]),
                        !.done = @ \cup {f}] \in Locals
        BY <1>w, <2>1, QueueTextLocals
  <2>3. w' \in [Runs -> Locals]
        BY <1>28, <2>2, LocallyType DEF QueueText
  <2> QED
        BY <1>28, <2>1, <2>2, <2>3 DEF TypeOK, QueueText, tree, vectors, keyword
<1>29. ASSUME NEW r \in Runs, NEW f \in Files, QueueTextFails(r, f) PROVE TypeOK'
  <2>1. [w[r] EXCEPT !.batch = @ \ {f}, !.touched = @ \cup {f},
                        !.ops[f] = {}, !.failed = TRUE] \in Locals
        BY <1>w, QueueTextLocals
  <2>2. w' \in [Runs -> Locals]
        BY <1>29, <2>1, LocallyType DEF QueueTextFails
  <2>3. hashStore' \in [Files -> HashRow]
        BY <1>29, <1>w, SetHashType DEF QueueTextFails, FileStatus, Locals
  <2> QED
        BY <1>29, <2>1, <2>2, <2>3 DEF TypeOK, QueueTextFails, tree, vectors, keyword
<1>30. ASSUME NEW r \in Runs, BatchDone(r) PROVE TypeOK'
  <2>1. pc' \in [Runs -> PCs]
        BY <1>30, GotoType DEF BatchDone, PCs, Locked, ShallowPCs, DeepPCs
  <2> QED
        BY <1>30, <2>1 DEF TypeOK, BatchDone, tree, vectors, keyword
<1>31. ASSUME NEW r \in Runs, CommitText(r) PROVE TypeOK'
  <2>1. [w[r] EXCEPT !.touched = {}, !.ops = [f \in Files |-> {}]] \in Locals
        BY <1>w, TextLocals
  <2>2. w' \in [Runs -> Locals]
        BY <1>31, <2>1, LocallyType DEF CommitText
  <2>3. pc' \in [Runs -> PCs]
        BY <1>31, GotoType DEF CommitText, PCs, Locked, ShallowPCs, DeepPCs
  <2>4. text' \in [Files -> SUBSET TextRow]
        BY <1>31, <1>w, AppliedType DEF CommitText
  <2> QED
        BY <1>31, <2>1, <2>2, <2>3, <2>4 DEF TypeOK, CommitText, tree, vectors, keyword
<1>32. ASSUME NEW r \in Runs, MarkSearchable(r) PROVE TypeOK'
  <2>1. pc' \in [Runs -> PCs]
        BY <1>32, GotoType DEF MarkSearchable, PCs, Locked, ShallowPCs, DeepPCs
  <2> QED
        BY <1>32, <2>1 DEF TypeOK, MarkSearchable, tree, vectors, keyword
<1>33. ASSUME NEW r \in Runs, MarkReady(r) PROVE TypeOK'
  <2>1. pc' \in [Runs -> PCs]
        BY <1>33, GotoType DEF MarkReady, PCs, Locked, ShallowPCs, DeepPCs
  <2> QED
        BY <1>33, <2>1 DEF TypeOK, MarkReady, tree, vectors, keyword
<1>34. ASSUME NEW r \in Runs, MarkFull(r) PROVE TypeOK'
  <2>1. [w[r].meta EXCEPT !.full = TRUE] \in Meta
        BY <1>w DEF Locals, Meta
  <2>2. [w[r] EXCEPT !.meta.full = TRUE] \in Locals
        BY <1>w, EndLocals
  <2>3. w' \in [Runs -> Locals]
        BY <1>34, <2>2, LocallyType DEF MarkFull
  <2>4. pc' \in [Runs -> PCs]
        BY <1>34, GotoType DEF MarkFull, PCs, Locked, ShallowPCs, DeepPCs
  <2>5. metaFile' \in Meta
        BY <1>34, <2>1 DEF MarkFull
  <2> QED
        BY <1>34, <2>1, <2>2, <2>3, <2>4, <2>5 DEF TypeOK, MarkFull, tree, vectors, keyword
<1>35. ASSUME NEW r \in Runs, NEW f \in Files, SetIndexed(r, f) PROVE TypeOK'
  <2>1. [w[r] EXCEPT !.done = @ \ {f}] \in Locals
        BY <1>w, EndLocals
  <2>2. w' \in [Runs -> Locals]
        BY <1>35, <2>1, LocallyType DEF SetIndexed
  <2>3. hashStore' \in [Files -> HashRow]
        BY <1>35, <1>w, SetHashType DEF SetIndexed, FileStatus, Locals
  <2> QED
        BY <1>35, <2>1, <2>2, <2>3 DEF TypeOK, SetIndexed, tree, vectors, keyword
<1> QED
    BY <1>1, <1>2, <1>3, <1>4, <1>5, <1>6, <1>7, <1>8, <1>9, <1>10, <1>11,
       <1>12, <1>13, <1>14, <1>15, <1>16, <1>17, <1>18, <1>19, <1>20, <1>21,
       <1>22, <1>23, <1>24, <1>25, <1>26, <1>27, <1>28, <1>29, <1>30, <1>31,
       <1>32, <1>33, <1>34, <1>35, <1>36
    DEF Next, Environment, RunStep, ShallowStep, OpenStep, GateStep,
        BatchStep, EndStep

-----------------------------------------------------------------------------
(* The inductive invariant.                                                *)

(* What a step does to the locals and the place of its run.                *)
LEMMA LocallyAt ==
    ASSUME TypeOK, NEW r \in Runs, NEW l, Locally(r, l)
    PROVE  w'[r] = l /\ \A s \in Runs \ {r} : w'[s] = w[s]
BY DEF TypeOK, Locally

LEMMA GotoAt ==
    ASSUME TypeOK, NEW r \in Runs, NEW label, Goto(r, label)
    PROVE  pc'[r] = label /\ \A s \in Runs \ {r} : pc'[s] = pc[s]
BY DEF TypeOK, Goto

(* The invariant but for the vectors of the files X and the keyword rows   *)
(* of the files Y: a step of the pipeline repairs rows or leaves them, and *)
(* never takes those of a file that has them.                              *)
VectorsBut(X) ==
    \A f \in Files \ X : Indexed(f) /\ f \notin torn =>
        LanceChunks(f) = ChunksOf[hashStore[f].hash]

TextBut(Y) ==
    \A f \in Files \ Y : Indexed(f) /\ f \notin torn =>
        \/ text[f] = DeepRows(hashStore[f].hash)
        \/ \E c \in Contents : text[f] = ShallowRows(c)

IndexInvBut(X, Y) ==
    /\ HashInv
    /\ VectorsBut(X)
    /\ TextBut(Y)
    /\ \A r \in Runs : RunInv(r)

LEMMA NothingMissing ==
    /\ IndexInv <=> IndexInvBut({}, {})
    /\ IndexInv' <=> IndexInvBut({}, {})'
BY DEF IndexInv, IndexInvBut, VectorsBut, TextBut, IndexedHasVectors, IndexedHasText

(* A step of r keeps the invariant of every other run s: either r holds    *)
(* the writer, and s is not in an index pass, or the step touches nothing  *)
(* an index pass depends on.                                               *)
LEMMA OtherRuns ==
    ASSUME NEW r \in Runs, NEW s \in Runs \ {r}, WriterInv(r), RunInv(s),
           pc'[s] = pc[s], w'[s] = w[s],
           writer' = writer \/ writer \in {r, NoRun},
           pc[r] \in Locked \/ UNCHANGED <<hashStore, lance, text, torn>>
    PROVE  RunInv(s)'
<1>1. CASE pc[s] \in Locked
  <2>1. writer = s /\ s # NoRun
        BY <1>1, ConstantsAssumption DEF RunInv, WriterInv
  <2>2. UNCHANGED <<hashStore, lance, text, torn>> /\ writer' = s
        BY <2>1 DEF WriterInv
  <2>3. WriterInv(s)' /\ QuietInv(s)'
        BY <2>1, <2>2 DEF RunInv, WriterInv, QuietInv, InFlight
  <2>4. QueueInv(s)'
        BY <2>2 DEF RunInv, QueueInv, InFlight, IsPending
  <2>5. VectorsInv(s)' /\ TextInv(s)'
        BY <2>2 DEF RunInv, VectorsInv, TextInv, LanceChunks, PlannedChunks
  <2> QED
      BY <2>3, <2>4, <2>5 DEF RunInv
<1>2. CASE pc[s] \notin Locked
  <2>1. WriterInv(s)' /\ QuietInv(s)'
        BY <1>2 DEF RunInv, WriterInv, QuietInv, InFlight
  <2> QED
      BY <1>2, <2>1 DEF RunInv, QueueInv, VectorsInv, TextInv, Locked
<1> QED
    BY <1>1, <1>2

(* So it is enough to look at the run that moves.                          *)
LEMMA Frame ==
    ASSUME NEW X, NEW Y, IndexInvBut(X, Y), NEW r \in Runs,
           \A s \in Runs \ {r} : pc'[s] = pc[s] /\ w'[s] = w[s],
           writer' = writer \/ writer \in {r, NoRun},
           pc[r] \in Locked \/ UNCHANGED <<hashStore, lance, text, torn>>,
           HashInv', VectorsBut(X)', TextBut(Y)', RunInv(r)'
    PROVE  IndexInvBut(X, Y)'
<1>1. \A s \in Runs \ {r} : RunInv(s)'
      BY OtherRuns DEF IndexInvBut, RunInv
<1> QED
    BY <1>1 DEF IndexInvBut

(* What is true of the stores alone stays true while they do not change.   *)
LEMMA StoresKept ==
    ASSUME NEW X, NEW Y, IndexInvBut(X, Y), UNCHANGED <<hashStore, lance, text, torn>>
    PROVE  HashInv' /\ VectorsBut(X)' /\ TextBut(Y)'
BY DEF IndexInvBut, HashInv, VectorsBut, TextBut, Indexed, LanceChunks

(* A run outside its deep pass only has to be quiet.                       *)
LEMMA NotDeep ==
    ASSUME NEW r \in Runs, pc[r] \notin DeepPCs, QuietInv(r), WriterInv(r)
    PROVE  RunInv(r)
BY DEF RunInv, QueueInv, VectorsInv, TextInv

LEMMA NewLocalsQuiet ==
    ASSUME NEW q
    PROVE  InFlight(NewLocals(q)) = {} /\ NewLocals(q).touched = {}
BY DEF NewLocals, InFlight

(* The invariant holds at first ...                                        *)
LEMMA InvInitBut ==
    ASSUME NEW X, NEW Y PROVE Init => IndexInvBut(X, Y)
<1> SUFFICES ASSUME Init PROVE IndexInvBut(X, Y)
    OBVIOUS
<1>1. HashInv /\ VectorsBut(X) /\ TextBut(Y)
      BY DEF Init, HashInv, VectorsBut, TextBut, Indexed
<1>2. ASSUME NEW r \in Runs PROVE RunInv(r)
  <2>1. pc[r] = "idle" /\ w[r] = Idle
        BY DEF Init
  <2>2. QuietInv(r) /\ WriterInv(r)
        BY <2>1, NewLocalsQuiet
        DEF QuietInv, WriterInv, Idle, Locked, ShallowPCs, DeepPCs
  <2> QED
      BY <2>1, <2>2, NotDeep DEF DeepPCs
<1> QED
    BY <1>1, <1>2 DEF IndexInvBut

(* ... a run that returns keeps it ...                                     *)
LEMMA ReturnInv ==
    ASSUME NEW X, NEW Y, TypeOK, IndexInvBut(X, Y), NEW r \in Runs, Return(r),
           UNCHANGED <<hashStore, lance, text, torn>>
    PROVE  IndexInvBut(X, Y)'
<1>1. pc'[r] = "idle" /\ w'[r] = Idle
      BY GotoAt, LocallyAt DEF Return
<1>2. QuietInv(r)' /\ WriterInv(r)'
      BY <1>1, NewLocalsQuiet
      DEF QuietInv, WriterInv, Idle, Locked, ShallowPCs, DeepPCs
<1>3. RunInv(r)'
      BY <1>1, <1>2 DEF RunInv, QueueInv, VectorsInv, TextInv, DeepPCs
<1>4. /\ \A s \in Runs \ {r} : pc'[s] = pc[s] /\ w'[s] = w[s]
      /\ writer' = writer \/ writer \in {r, NoRun}
      BY GotoAt, LocallyAt DEF Return
<1> QED
    BY <1>3, <1>4, StoresKept, Frame

(* ... a step that moves no run and changes no store keeps it, as an edit  *)
(* does ...                                                                *)
LEMMA UnmovedInv ==
    ASSUME NEW X, NEW Y, IndexInvBut(X, Y), UNCHANGED <<hashStore, lance, text, torn, writer, pc, w>>
    PROVE  IndexInvBut(X, Y)'
<1>1. ASSUME NEW r \in Runs PROVE RunInv(r)'
  <2>1. RunInv(r)
        BY DEF IndexInvBut
  <2>2. WriterInv(r)' /\ QuietInv(r)'
        BY <2>1 DEF RunInv, WriterInv, QuietInv, InFlight
  <2>3. QueueInv(r)'
        BY <2>1 DEF RunInv, QueueInv, InFlight, IsPending
  <2>4. VectorsInv(r)' /\ TextInv(r)'
        BY <2>1 DEF RunInv, VectorsInv, TextInv, LanceChunks, PlannedChunks
  <2> QED
      BY <2>2, <2>3, <2>4 DEF RunInv
<1> QED
    BY <1>1, StoresKept DEF IndexInvBut

(* ... and so does every step of a run before its deep pass: starting,     *)
LEMMA StartInv ==
    ASSUME NEW X, NEW Y, TypeOK, IndexInvBut(X, Y), NEW r \in Runs, NEW q \in Requests, Start(r, q)
    PROVE  IndexInvBut(X, Y)'
<1>1. pc[r] = "idle" /\ pc'[r] \in {"shallow", "open"}
      BY GotoAt DEF Start
<1>2. InFlight(w'[r]) = {} /\ w'[r].touched = {}
      BY LocallyAt, NewLocalsQuiet DEF Start
<1>3. WriterInv(r)'
      BY <1>1 DEF IndexInvBut, RunInv, WriterInv, Start, Locked, ShallowPCs, DeepPCs
<1>4. QuietInv(r)'
      BY <1>2 DEF QuietInv
<1>5. RunInv(r)'
      BY <1>1, <1>3, <1>4 DEF RunInv, QueueInv, VectorsInv, TextInv, DeepPCs
<1>6. UNCHANGED <<hashStore, lance, text, torn>>
      BY DEF Start, vectors, keyword
<1>f. /\ \A s \in Runs \ {r} : pc'[s] = pc[s] /\ w'[s] = w[s]
      /\ writer' = writer \/ writer \in {r, NoRun}
      BY GotoAt, LocallyAt DEF Start
<1> QED
    BY <1>f, <1>5, <1>6, StoresKept, Frame DEF RunInv

(* taking the writer for the shallow pass,                                 *)
LEMMA ShallowOpenInv ==
    ASSUME NEW X, NEW Y, TypeOK, IndexInvBut(X, Y), NEW r \in Runs, ShallowOpen(r)
    PROVE  IndexInvBut(X, Y)'
<1>1. pc[r] = "shallow" /\ pc'[r] = "shallow-read"
      BY GotoAt DEF ShallowOpen
<1>2. InFlight(w'[r]) = {} /\ w'[r].touched = {}
  <2>1. w'[r] = w[r]
        BY DEF ShallowOpen
  <2> QED
      BY <1>1, <2>1 DEF IndexInvBut, RunInv, QuietInv, DeepPCs, InFlight
<1>3. WriterInv(r)'
      BY <1>1 DEF IndexInvBut, RunInv, WriterInv, ShallowOpen, Locked, ShallowPCs, DeepPCs, TakeWriter
<1>4. QuietInv(r)'
      BY <1>2 DEF QuietInv
<1>5. RunInv(r)'
      BY <1>1, <1>3, <1>4 DEF RunInv, QueueInv, VectorsInv, TextInv, DeepPCs
<1>6. UNCHANGED <<hashStore, lance, text, torn>>
      BY DEF ShallowOpen, vectors, keyword
<1>f. /\ \A s \in Runs \ {r} : pc'[s] = pc[s] /\ w'[s] = w[s]
      /\ writer' = writer \/ writer \in {r, NoRun}
      BY GotoAt DEF ShallowOpen, TakeWriter
<1> QED
    BY <1>f, <1>5, <1>6, StoresKept, Frame DEF RunInv

(* marking the shallow tier searchable,                                    *)
LEMMA ShallowMarkInv ==
    ASSUME NEW X, NEW Y, TypeOK, IndexInvBut(X, Y), NEW r \in Runs, ShallowMark(r)
    PROVE  IndexInvBut(X, Y)'
<1>1. pc[r] = "shallow-mark" /\ pc'[r] = "open"
      BY GotoAt DEF ShallowMark
<1>2. InFlight(w'[r]) = {} /\ w'[r].touched = {}
  <2>1. w'[r] = w[r]
        BY DEF ShallowMark
  <2> QED
      BY <1>1, <2>1 DEF IndexInvBut, RunInv, QuietInv, DeepPCs, InFlight
<1>3. WriterInv(r)'
      BY <1>1 DEF IndexInvBut, RunInv, WriterInv, ShallowMark, Locked, ShallowPCs, DeepPCs
<1>4. QuietInv(r)'
      BY <1>2 DEF QuietInv
<1>5. RunInv(r)'
      BY <1>1, <1>3, <1>4 DEF RunInv, QueueInv, VectorsInv, TextInv, DeepPCs
<1>6. UNCHANGED <<hashStore, lance, text, torn>>
      BY DEF ShallowMark, vectors, keyword
<1>f. /\ \A s \in Runs \ {r} : pc'[s] = pc[s] /\ w'[s] = w[s]
      /\ writer' = writer \/ writer \in {r, NoRun}
      BY <1>1, GotoAt DEF ShallowMark, IndexInvBut, RunInv, WriterInv, Locked, ShallowPCs
<1> QED
    BY <1>f, <1>5, <1>6, StoresKept, Frame DEF RunInv

(* creating the chunks table,                                              *)
LEMMA CreateTableInv ==
    ASSUME NEW X, NEW Y, TypeOK, IndexInvBut(X, Y), NEW r \in Runs, CreateTable(r)
    PROVE  IndexInvBut(X, Y)'
<1>1. pc[r] = "create" /\ pc'[r] = "lock"
      BY GotoAt DEF CreateTable
<1>2. InFlight(w'[r]) = {} /\ w'[r].touched = {}
  <2>1. w'[r] = w[r]
        BY DEF CreateTable
  <2> QED
      BY <1>1, <2>1 DEF IndexInvBut, RunInv, QuietInv, DeepPCs, InFlight
<1>3. WriterInv(r)'
      BY <1>1 DEF IndexInvBut, RunInv, WriterInv, CreateTable, Locked, ShallowPCs, DeepPCs
<1>4. QuietInv(r)'
      BY <1>2 DEF QuietInv
<1>5. RunInv(r)'
      BY <1>1, <1>3, <1>4 DEF RunInv, QueueInv, VectorsInv, TextInv, DeepPCs
<1>6. UNCHANGED <<hashStore, lance, text, torn>>
      BY DEF CreateTable, vectors, keyword
<1>f. /\ \A s \in Runs \ {r} : pc'[s] = pc[s] /\ w'[s] = w[s]
      /\ writer' = writer \/ writer \in {r, NoRun}
      BY GotoAt DEF CreateTable
<1> QED
    BY <1>f, <1>5, <1>6, StoresKept, Frame DEF RunInv

(* opening a store that exists,                                            *)
LEMMA OpenExistingInv ==
    ASSUME NEW X, NEW Y, TypeOK, IndexInvBut(X, Y), NEW r \in Runs, OpenExisting(r)
    PROVE  IndexInvBut(X, Y)'
<1>1. pc[r] = "open" /\ pc'[r] = "lock"
      BY GotoAt DEF OpenExisting
<1>2. InFlight(w'[r]) = {} /\ w'[r].touched = {}
  <2>1. w[r] \in Locals
        BY DEF TypeOK
  <2>2. w'[r] = [w[r] EXCEPT !.scope = Collected(w[r].req),
                               !.todo = Collected(w[r].req),
                               !.meta = metaFile, !.lazy = TRUE]
        BY LocallyAt DEF OpenExisting
  <2>3. /\ w'[r].queue = w[r].queue /\ w'[r].batch = w[r].batch
        /\ w'[r].done = w[r].done /\ w'[r].touched = w[r].touched
        BY <2>1, <2>2 DEF Locals
  <2> QED
      BY <1>1, <2>3 DEF IndexInvBut, RunInv, QuietInv, DeepPCs, InFlight
<1>3. WriterInv(r)'
      BY <1>1 DEF IndexInvBut, RunInv, WriterInv, OpenExisting, Locked, ShallowPCs, DeepPCs
<1>4. QuietInv(r)'
      BY <1>2 DEF QuietInv
<1>5. RunInv(r)'
      BY <1>1, <1>3, <1>4 DEF RunInv, QueueInv, VectorsInv, TextInv, DeepPCs
<1>6. UNCHANGED <<hashStore, lance, text, torn>>
      BY DEF OpenExisting, vectors, keyword
<1>f. /\ \A s \in Runs \ {r} : pc'[s] = pc[s] /\ w'[s] = w[s]
      /\ writer' = writer \/ writer \in {r, NoRun}
      BY GotoAt, LocallyAt DEF OpenExisting
<1> QED
    BY <1>f, <1>5, <1>6, StoresKept, Frame DEF RunInv

(* finding none,                                                           *)
LEMMA NoStoreInv ==
    ASSUME NEW X, NEW Y, TypeOK, IndexInvBut(X, Y), NEW r \in Runs, NoStore(r)
    PROVE  IndexInvBut(X, Y)'
<1>1. pc[r] = "open" /\ pc'[r] = "eager"
      BY GotoAt DEF NoStore
<1>2. InFlight(w'[r]) = {} /\ w'[r].touched = {}
  <2>1. w[r] \in Locals
        BY DEF TypeOK
  <2>2. w'[r] = [w[r] EXCEPT !.scope = Collected(w[r].req),
                               !.todo = Collected(w[r].req)]
        BY LocallyAt DEF NoStore
  <2>3. /\ w'[r].queue = w[r].queue /\ w'[r].batch = w[r].batch
        /\ w'[r].done = w[r].done /\ w'[r].touched = w[r].touched
        BY <2>1, <2>2 DEF Locals
  <2> QED
      BY <1>1, <2>3 DEF IndexInvBut, RunInv, QuietInv, DeepPCs, InFlight
<1>3. WriterInv(r)'
      BY <1>1 DEF IndexInvBut, RunInv, WriterInv, NoStore, Locked, ShallowPCs, DeepPCs
<1>4. QuietInv(r)'
      BY <1>2 DEF QuietInv
<1>5. RunInv(r)'
      BY <1>1, <1>3, <1>4 DEF RunInv, QueueInv, VectorsInv, TextInv, DeepPCs
<1>6. UNCHANGED <<hashStore, lance, text, torn>>
      BY DEF NoStore, vectors, keyword
<1>f. /\ \A s \in Runs \ {r} : pc'[s] = pc[s] /\ w'[s] = w[s]
      /\ writer' = writer \/ writer \in {r, NoRun}
      BY GotoAt, LocallyAt DEF NoStore
<1> QED
    BY <1>f, <1>5, <1>6, StoresKept, Frame DEF RunInv

(* opening a new one,                                                      *)
LEMMA OpenNewInv ==
    ASSUME NEW X, NEW Y, TypeOK, IndexInvBut(X, Y), NEW r \in Runs, OpenNew(r)
    PROVE  IndexInvBut(X, Y)'
<1>1. pc[r] = "eager" /\ pc'[r] = "create"
      BY GotoAt DEF OpenNew
<1>2. InFlight(w'[r]) = {} /\ w'[r].touched = {}
  <2>1. w[r] \in Locals
        BY DEF TypeOK
  <2>2. w'[r] = [w[r] EXCEPT !.meta = [metaFile EXCEPT !.model = w[r].req.model]]
        BY LocallyAt DEF OpenNew
  <2>3. /\ w'[r].queue = w[r].queue /\ w'[r].batch = w[r].batch
        /\ w'[r].done = w[r].done /\ w'[r].touched = w[r].touched
        BY <2>1, <2>2 DEF Locals
  <2> QED
      BY <1>1, <2>3 DEF IndexInvBut, RunInv, QuietInv, DeepPCs, InFlight
<1>3. WriterInv(r)'
      BY <1>1 DEF IndexInvBut, RunInv, WriterInv, OpenNew, Locked, ShallowPCs, DeepPCs
<1>4. QuietInv(r)'
      BY <1>2 DEF QuietInv
<1>5. RunInv(r)'
      BY <1>1, <1>3, <1>4 DEF RunInv, QueueInv, VectorsInv, TextInv, DeepPCs
<1>6. UNCHANGED <<hashStore, lance, text, torn>>
      BY DEF OpenNew, vectors, keyword
<1>f. /\ \A s \in Runs \ {r} : pc'[s] = pc[s] /\ w'[s] = w[s]
      /\ writer' = writer \/ writer \in {r, NoRun}
      BY GotoAt, LocallyAt DEF OpenNew
<1> QED
    BY <1>f, <1>5, <1>6, StoresKept, Frame DEF RunInv

(* queueing the shallow rows,                                              *)
LEMMA ShallowReadInv ==
    ASSUME NEW X, NEW Y, TypeOK, IndexInvBut(X, Y), NEW r \in Runs, NEW unreadable \in SUBSET Files, ShallowRead(r, unreadable)
    PROVE  IndexInvBut(X, Y)'
<1>1. pc[r] = "shallow-read" /\ pc'[r] = "shallow-commit"
      BY GotoAt DEF ShallowRead
<1>2. /\ InFlight(w'[r]) = {}
      /\ w'[r].touched = Collected(w[r].req) \ unreadable
      /\ w'[r].ops = [f \in Files |-> IF disk[f] = Absent THEN {}
                                      ELSE ShallowRows(disk[f])]
  <2>1. w[r] \in Locals
        BY DEF TypeOK
  <2>2. w'[r] = [w[r] EXCEPT !.touched = Collected(w[r].req) \ unreadable,
                             !.ops = [f \in Files |->
                                 IF disk[f] = Absent THEN {}
                                 ELSE ShallowRows(disk[f])]]
        BY LocallyAt DEF ShallowRead
  <2>3. /\ w'[r].queue = w[r].queue /\ w'[r].batch = w[r].batch
        /\ w'[r].done = w[r].done
        /\ w'[r].touched = Collected(w[r].req) \ unreadable
        /\ w'[r].ops = [f \in Files |-> IF disk[f] = Absent THEN {}
                                        ELSE ShallowRows(disk[f])]
        BY <2>1, <2>2 DEF Locals
  <2> QED
      BY <1>1, <2>3 DEF IndexInvBut, RunInv, QuietInv, DeepPCs, InFlight
<1>3. ASSUME NEW f \in w'[r].touched
      PROVE  \E c \in Contents : w'[r].ops[f] = ShallowRows(c)
  <2>1. f \in Files /\ disk[f] # Absent
        BY <1>2, <1>3 DEF Collected, Present
  <2>2. disk[f] \in Contents /\ w'[r].ops[f] = ShallowRows(disk[f])
        BY <1>2, <2>1 DEF TypeOK
  <2> QED
      BY <2>2
<1>4. WriterInv(r)'
      BY <1>1 DEF IndexInvBut, RunInv, WriterInv, ShallowRead, Locked, ShallowPCs
<1>5. RunInv(r)'
      BY <1>1, <1>2, <1>3, <1>4
      DEF RunInv, QuietInv, QueueInv, VectorsInv, TextInv, DeepPCs
<1>6. UNCHANGED <<hashStore, lance, text, torn>>
      BY DEF ShallowRead, vectors, keyword
<1>f. /\ \A s \in Runs \ {r} : pc'[s] = pc[s] /\ w'[s] = w[s]
      /\ writer' = writer \/ writer \in {r, NoRun}
      BY GotoAt, LocallyAt DEF ShallowRead
<1> QED
    BY <1>f, <1>5, <1>6, StoresKept, Frame DEF RunInv

(* and committing them.                                                    *)
LEMMA ShallowCommitInv ==
    ASSUME NEW X, NEW Y, TypeOK, IndexInvBut(X, Y), NEW r \in Runs, ShallowCommit(r)
    PROVE  IndexInvBut(X, Y)'
<1>1. pc[r] = "shallow-commit" /\ pc'[r] = "shallow-mark"
      BY GotoAt DEF ShallowCommit
<1>2. InFlight(w'[r]) = {} /\ w'[r].touched = {}
      BY LocallyAt, NewLocalsQuiet DEF ShallowCommit
<1>3. HashInv' /\ VectorsBut(X)'
      BY DEF ShallowCommit, vectors, IndexInvBut, HashInv, VectorsBut,
             Indexed, LanceChunks
<1>4. TextBut(Y)'
  <2>1. \A f \in Files :
            text'[f] = IF f \in w[r].touched THEN w[r].ops[f] ELSE text[f]
        BY DEF ShallowCommit, Applied
  <2>2. \A f \in w[r].touched :
            \E c \in Contents : w[r].ops[f] = ShallowRows(c)
        BY <1>1 DEF IndexInvBut, RunInv, QuietInv, DeepPCs
  <2>3. UNCHANGED <<hashStore, torn>>
        BY DEF ShallowCommit
  <2> QED
      BY <2>1, <2>2, <2>3 DEF IndexInvBut, TextBut, Indexed
<1>5. WriterInv(r)'
      BY <1>1 DEF IndexInvBut, RunInv, WriterInv, ShallowCommit, Locked, ShallowPCs
<1>6. RunInv(r)'
      BY <1>1, <1>2, <1>5
      DEF RunInv, QuietInv, QueueInv, VectorsInv, TextInv, DeepPCs
<1>7. pc[r] \in Locked
      BY <1>1 DEF Locked, ShallowPCs
<1>f. /\ \A s \in Runs \ {r} : pc'[s] = pc[s] /\ w'[s] = w[s]
      /\ writer' = writer \/ writer \in {r, NoRun}
      BY GotoAt, LocallyAt DEF ShallowCommit
<1> QED
    BY <1>f, <1>3, <1>4, <1>6, <1>7, Frame DEF RunInv

(* In the deep pass: a step that leaves Lance, Tantivy and the statuses    *)
(* of indexed files alone keeps what is true of the stores.                *)
LEMMA NewlyUnindexed ==
    ASSUME NEW X, NEW Y, TypeOK, IndexInvBut(X, Y), NEW F \in SUBSET Files,
           \A f \in Files \ F : hashStore'[f] = hashStore[f],
           \A f \in F : hashStore'[f].status # "indexed",
           \A f \in Files \ F : f \notin torn' => f \notin torn,
           UNCHANGED <<lance, text>>
    PROVE  HashInv' /\ VectorsBut(X)' /\ TextBut(Y)'
BY DEF IndexInvBut, HashInv, VectorsBut, TextBut, Indexed, LanceChunks

(* A pending file is not indexed.                                          *)
LEMMA PendingNotIndexed ==
    ASSUME NEW l, NEW f, IsPending(l, f)
    PROVE  hashStore[f].status # "indexed"
BY DEF IsPending

(* Taking the writer for the deep pass.                                    *)
LEMMA OpenTextInv ==
    ASSUME NEW X, NEW Y, TypeOK, IndexInvBut(X, Y), NEW r \in Runs, OpenText(r)
    PROVE  IndexInvBut(X, Y)'
<1>1. /\ pc[r] = "lock"
      /\ pc'[r] = "gate"
      BY GotoAt DEF OpenText
<1>2. /\ w'[r].todo = w[r].todo
      /\ w'[r].cur = w[r].cur
      /\ w'[r].seen = w[r].seen
      /\ w'[r].got = w[r].got
      /\ w'[r].queue = w[r].queue
      /\ w'[r].batch = w[r].batch
      /\ w'[r].rows = w[r].rows
      /\ w'[r].done = w[r].done
      /\ w'[r].touched = w[r].touched
      /\ w'[r].ops = w[r].ops
  <2>1. w[r] \in Locals
        BY DEF TypeOK
  <2>2. w'[r] = [w[r] EXCEPT !.force = w[r].req.force \/ ~ready,
                             !.mark = ready \/ w[r].req.full]
        BY LocallyAt DEF OpenText
  <2> QED
      BY <1>1, <2>1, <2>2 DEF Locals
<1>3. UNCHANGED <<hashStore, lance, text, torn>>
      BY DEF OpenText, vectors, keyword
<1>q. InFlight(w[r]) = {} /\ w[r].touched = {}
      BY <1>1 DEF IndexInvBut, RunInv, QuietInv, DeepPCs
<1>4. HashInv' /\ VectorsBut(X)' /\ TextBut(Y)'
      BY <1>3, StoresKept
<1>5. WriterInv(r)' /\ QuietInv(r)'
  <2>1. writer' = r
        BY DEF OpenText, TakeWriter
  <2> QED
      BY <1>1, <2>1 DEF WriterInv, QuietInv, Locked, DeepPCs
<1>6. QueueInv(r)'
      BY <1>1, <1>2, <1>q DEF QueueInv, IsPending, InFlight, DeepPCs, BatchPCs, Committed
<1>7. VectorsInv(r)'
      BY <1>1, <1>2, <1>q DEF VectorsInv, InFlight
<1>8. TextInv(r)'
      BY <1>1, <1>2, <1>q DEF TextInv, InFlight, Committed
<1>9. pc[r] \in Locked \/ UNCHANGED <<hashStore, lance, text, torn>>
      BY <1>1, <1>3 DEF Locked, DeepPCs
<1>f. /\ \A s \in Runs \ {r} : pc'[s] = pc[s] /\ w'[s] = w[s]
      /\ writer' = writer \/ writer \in {r, NoRun}
      BY GotoAt, LocallyAt DEF OpenText, TakeWriter
<1> QED
    BY <1>f, <1>4, <1>5, <1>6, <1>7, <1>8, <1>9, Frame DEF RunInv

(* A file that is skipped.                                                 *)
LEMMA SkipUnchangedInv ==
    ASSUME NEW X, NEW Y, TypeOK, IndexInvBut(X, Y), NEW r \in Runs, NEW f \in Files, SkipUnchanged(r, f)
    PROVE  IndexInvBut(X, Y)'
<1>1. /\ pc[r] = "gate"
      /\ pc'[r] = "gate"
      BY GotoAt DEF SkipUnchanged
<1>2. /\ w'[r].todo = w[r].todo \ {f}
      /\ w'[r].cur = w[r].cur
      /\ w'[r].seen = w[r].seen
      /\ w'[r].got = w[r].got
      /\ w'[r].queue = w[r].queue
      /\ w'[r].batch = w[r].batch
      /\ w'[r].rows = w[r].rows
      /\ w'[r].done = w[r].done
      /\ w'[r].touched = w[r].touched
      /\ w'[r].ops = w[r].ops
  <2>1. w[r] \in Locals
        BY DEF TypeOK
  <2>2. w'[r] = [w[r] EXCEPT !.todo = @ \ {f}]
        BY LocallyAt DEF SkipUnchanged
  <2> QED
      BY <1>1, <2>1, <2>2 DEF Locals
<1>3. UNCHANGED <<hashStore, lance, text, torn>>
      BY DEF SkipUnchanged, vectors, keyword
<1>4. HashInv' /\ VectorsBut(X)' /\ TextBut(Y)'
      BY <1>3, StoresKept
<1>5. WriterInv(r)' /\ QuietInv(r)'
  <2>1. writer' = writer /\ WriterInv(r)
        BY DEF SkipUnchanged, IndexInvBut, RunInv
  <2> QED
      BY <1>1, <2>1 DEF WriterInv, QuietInv, Locked, DeepPCs
<1>6. QueueInv(r)'
  <2>1. QueueInv(r)
        BY DEF IndexInvBut, RunInv
  <2>2. InFlight(w'[r]) = InFlight(w[r])
        BY <1>2 DEF InFlight
  <2> QED
      BY <1>1, <1>2, <1>3, <2>1, <2>2
      DEF QueueInv, IsPending, DeepPCs, BatchPCs, Committed
<1>7. VectorsInv(r)'
      BY <1>1, <1>2, <1>3 DEF IndexInvBut, RunInv, VectorsInv, DeepPCs, LanceChunks
<1>8. TextInv(r)'
      BY <1>1, <1>2, <1>3 DEF IndexInvBut, RunInv, TextInv, DeepPCs, Committed
<1>9. pc[r] \in Locked \/ UNCHANGED <<hashStore, lance, text, torn>>
      BY <1>1, <1>3 DEF Locked, DeepPCs
<1>f. /\ \A s \in Runs \ {r} : pc'[s] = pc[s] /\ w'[s] = w[s]
      /\ writer' = writer \/ writer \in {r, NoRun}
      BY GotoAt, LocallyAt DEF SkipUnchanged
<1> QED
    BY <1>f, <1>4, <1>5, <1>6, <1>7, <1>8, <1>9, Frame DEF RunInv

(* A file that is hashed and set pending.                                  *)
LEMMA GateInv ==
    ASSUME NEW X, NEW Y, TypeOK, IndexInvBut(X, Y), NEW r \in Runs, NEW f \in Files, Gate(r, f)
    PROVE  IndexInvBut(X, Y)'
<1>1. /\ pc[r] = "gate" /\ pc'[r] = "read"
      /\ f \in w[r].todo /\ disk[f] \in Contents
      BY GotoAt DEF Gate, TypeOK
<1>2. /\ w'[r].todo = w[r].todo \ {f}
      /\ w'[r].cur = f
      /\ w'[r].seen[f] = disk[f]
      /\ \A g \in Files \ {f} : w'[r].seen[g] = w[r].seen[g]
      /\ w'[r].got = w[r].got
      /\ w'[r].queue = w[r].queue
      /\ w'[r].batch = w[r].batch
      /\ w'[r].rows = w[r].rows
      /\ w'[r].done = w[r].done
      /\ w'[r].touched = w[r].touched
      /\ w'[r].ops = w[r].ops
  <2>1. w[r] \in Locals
        BY DEF TypeOK
  <2>2. w'[r] = [w[r] EXCEPT !.todo = @ \ {f}, !.cur = f, !.seen[f] = disk[f]]
        BY LocallyAt DEF Gate
  <2> QED
      BY <1>1, <2>1, <2>2 DEF Locals
<1>3. /\ hashStore'[f] = [hash |-> disk[f], status |-> "pending"]
      /\ \A g \in Files \ {f} : hashStore'[g] = hashStore[g]
      /\ UNCHANGED <<lance, text, torn>>
      BY DEF Gate, SetHash, vectors, keyword
<1>4. HashInv' /\ VectorsBut(X)' /\ TextBut(Y)'
  <2>1. {f} \in SUBSET Files
        BY <1>1, <1>3
  <2>2. \A g \in {f} : hashStore'[g].status # "indexed"
        BY <1>3
  <2>3. \A g \in Files \ {f} : hashStore'[g] = hashStore[g] /\ (g \notin torn' => g \notin torn)
        BY <1>3
  <2>4. UNCHANGED <<lance, text>>
        BY <1>3
  <2> QED
      BY <2>1, <2>2, <2>3, <2>4, NewlyUnindexed
<1>5. WriterInv(r)' /\ QuietInv(r)'
  <2>1. writer' = writer /\ WriterInv(r)
        BY DEF Gate, IndexInvBut, RunInv
  <2> QED
      BY <1>1, <2>1 DEF WriterInv, QuietInv, Locked, DeepPCs
<1>6. QueueInv(r)'
  <2>1. QueueInv(r) /\ w[r] \in Locals
        BY DEF IndexInvBut, RunInv, TypeOK
  <2>2. f \notin InFlight(w[r]) /\ InFlight(w'[r]) = InFlight(w[r])
        BY <1>1, <1>2, <2>1 DEF QueueInv, DeepPCs, InFlight
  <2>3. \A g \in InFlight(w[r]) : g \in Files /\ g # f
        BY <2>1, <2>2 DEF InFlight, Locals
  <2>4. \A g \in InFlight(w'[r]) :
            /\ IsPending(w[r], g)'
            /\ w'[r].got[g] \in Contents
            /\ g \notin torn' => w'[r].got[g] = w'[r].seen[g]
    <3>1. ASSUME NEW g \in InFlight(w[r])
          PROVE  /\ IsPending(w[r], g)
                 /\ w[r].got[g] \in Contents
                 /\ g \notin torn => w[r].got[g] = w[r].seen[g]
          BY <1>1, <2>1 DEF QueueInv, DeepPCs
    <3>2. ASSUME NEW g \in InFlight(w[r])
          PROVE  w'[r].seen[g] = w[r].seen[g] /\ hashStore'[g] = hashStore[g]
          BY <1>2, <1>3, <2>3
    <3> QED
        BY <1>2, <1>3, <2>2, <3>1, <3>2 DEF IsPending
  <2>5. IsPending(w[r], f)'
        BY <1>1, <1>2, <1>3 DEF IsPending
  <2>6. /\ w[r].todo \cap InFlight(w[r]) = {}
        /\ w[r].queue \cap (w[r].batch \cup w[r].done) = {}
        /\ w[r].batch \cap w[r].done = {}
        /\ w[r].batch = {}
        BY <1>1, <2>1 DEF QueueInv, DeepPCs, BatchPCs
  <2> QED
      BY <1>1, <1>2, <2>2, <2>4, <2>5, <2>6
      DEF QueueInv, BatchPCs, Committed
<1>7. VectorsInv(r)'
  <2>1. \A g \in w[r].done : LanceChunks(g) = ChunksOf[w[r].got[g]]
        BY <1>1 DEF IndexInvBut, RunInv, VectorsInv, DeepPCs
  <2> QED
      BY <1>1, <1>2, <1>3, <2>1 DEF VectorsInv, LanceChunks
<1>8. TextInv(r)'
  <2>1. w[r] \in Locals
        BY DEF TypeOK
  <2> QED
      BY <1>1, <1>2, <1>3, <2>1 DEF IndexInvBut, RunInv, TextInv, DeepPCs, Committed, Locals
<1>9. pc[r] \in Locked \/ UNCHANGED <<hashStore, lance, text, torn>>
      BY <1>1, <1>3 DEF Locked, DeepPCs
<1>f. /\ \A s \in Runs \ {r} : pc'[s] = pc[s] /\ w'[s] = w[s]
      /\ writer' = writer \/ writer \in {r, NoRun}
      BY GotoAt, LocallyAt DEF Gate
<1> QED
    BY <1>f, <1>4, <1>5, <1>6, <1>7, <1>8, <1>9, Frame DEF RunInv

(* A file that is read: it may be torn.                                    *)
LEMMA ReadFileInv ==
    ASSUME NEW X, NEW Y, TypeOK, IndexInvBut(X, Y), NEW r \in Runs, ReadFile(r)
    PROVE  IndexInvBut(X, Y)'
<1> DEFINE f == w[r].cur
<1>1. /\ pc[r] = "read" /\ pc'[r] = "gate"
      /\ QueueInv(r) /\ w[r] \in Locals
      /\ f \in Files /\ disk[f] \in Contents
  <2>1. pc[r] = "read" /\ pc'[r] = "gate" /\ disk[f] # Absent
        BY GotoAt DEF ReadFile
  <2>2. QueueInv(r) /\ w[r] \in Locals
        BY DEF IndexInvBut, RunInv, TypeOK
  <2>3. f \in Files
        BY <2>1, <2>2 DEF QueueInv, DeepPCs
  <2> QED
      BY <2>1, <2>2, <2>3 DEF TypeOK
<1>0. f \notin w[r].todo \cup InFlight(w[r]) /\ IsPending(w[r], f)
      BY <1>1 DEF QueueInv, DeepPCs
<1>2. /\ w'[r].todo = w[r].todo
      /\ w'[r].seen = w[r].seen
      /\ w'[r].got[f] = disk[f]
      /\ \A g \in Files \ {f} : w'[r].got[g] = w[r].got[g]
      /\ w'[r].queue = w[r].queue \cup {f}
      /\ w'[r].batch = w[r].batch
      /\ w'[r].rows = w[r].rows
      /\ w'[r].done = w[r].done
      /\ w'[r].touched = w[r].touched
      /\ w'[r].ops = w[r].ops
  <2>1. w[r] \in Locals
        BY DEF TypeOK
  <2>2. w'[r] = [w[r] EXCEPT !.cur = NoFile, !.got[w[r].cur] = disk[w[r].cur],
                             !.queue = @ \cup {w[r].cur}]
        BY LocallyAt DEF ReadFile
  <2> QED
      BY <1>1, <2>1, <2>2 DEF Locals
<1>3. /\ UNCHANGED <<hashStore, lance, text>>
      /\ torn' = IF disk[f] = w[r].seen[f] THEN torn \ {f} ELSE torn \cup {f}
      BY DEF ReadFile, vectors, keyword
<1>4. HashInv' /\ VectorsBut(X)' /\ TextBut(Y)'
  <2>1. {f} \in SUBSET Files
        BY <1>1
  <2>2. \A g \in {f} : hashStore'[g].status # "indexed"
        BY <1>0, <1>3 DEF IsPending
  <2>3. /\ \A g \in Files \ {f} : hashStore'[g] = hashStore[g]
        /\ \A g \in Files \ {f} : g \notin torn' => g \notin torn
        BY <1>3
  <2>4. UNCHANGED <<lance, text>>
        BY <1>3
  <2> QED
      BY <2>1, <2>2, <2>3, <2>4, NewlyUnindexed
<1>5. WriterInv(r)' /\ QuietInv(r)'
  <2>1. writer' = writer /\ WriterInv(r)
        BY DEF ReadFile, IndexInvBut, RunInv
  <2> QED
      BY <1>1, <2>1 DEF WriterInv, QuietInv, Locked, DeepPCs
<1>6. QueueInv(r)'
  <2>1. InFlight(w'[r]) = InFlight(w[r]) \cup {f}
        BY <1>2 DEF InFlight
  <2>2. ASSUME NEW g \in InFlight(w'[r])
        PROVE  /\ IsPending(w[r], g)' /\ w'[r].got[g] \in Contents
               /\ g \notin torn' => w'[r].got[g] = w'[r].seen[g]
    <3>1. CASE g = f
          BY <1>0, <1>1, <1>2, <1>3, <3>1 DEF IsPending
    <3>2. CASE g # f
      <4>1. g \in InFlight(w[r]) /\ g \in Files /\ (g \notin torn' => g \notin torn)
            BY <1>1, <1>3, <2>1, <2>2, <3>2 DEF InFlight, Locals
      <4> QED
          BY <1>1, <1>2, <1>3, <3>2, <4>1 DEF QueueInv, IsPending, DeepPCs
    <3> QED
        BY <3>1, <3>2
  <2>3. /\ w'[r].todo \cap InFlight(w'[r]) = {}
        /\ w'[r].queue \cap (w'[r].batch \cup w'[r].done) = {}
        /\ w'[r].batch \cap w'[r].done = {}
        /\ w'[r].batch = {}
        BY <1>0, <1>1, <1>2, <2>1 DEF QueueInv, InFlight, DeepPCs, BatchPCs
  <2> QED
      BY <1>1, <2>2, <2>3 DEF QueueInv, Committed
<1>7. VectorsInv(r)'
  <2>1. f \notin w[r].done /\ w[r].done \subseteq Files
        BY <1>0, <1>1 DEF InFlight, Locals
  <2> QED
      BY <1>1, <1>2, <1>3, <2>1 DEF IndexInvBut, RunInv, VectorsInv, DeepPCs, LanceChunks
<1>8. TextInv(r)'
  <2>1. f \notin w[r].done /\ w[r].done \subseteq Files
        BY <1>0, <1>1 DEF InFlight, Locals
  <2> QED
      BY <1>1, <1>2, <1>3, <2>1 DEF IndexInvBut, RunInv, TextInv, DeepPCs, Committed
<1>9. pc[r] \in Locked \/ UNCHANGED <<hashStore, lance, text, torn>>
      BY <1>1, <1>3 DEF Locked, DeepPCs
<1>f. /\ \A s \in Runs \ {r} : pc'[s] = pc[s] /\ w'[s] = w[s]
      /\ writer' = writer \/ writer \in {r, NoRun}
      BY GotoAt, LocallyAt DEF ReadFile
<1> QED
    BY <1>f, <1>4, <1>5, <1>6, <1>7, <1>8, <1>9, Frame DEF RunInv

(* A file that cannot be read.                                             *)
LEMMA ReadFileFailsInv ==
    ASSUME NEW X, NEW Y, TypeOK, IndexInvBut(X, Y), NEW r \in Runs, ReadFileFails(r)
    PROVE  IndexInvBut(X, Y)'
<1> DEFINE f == w[r].cur
<1>1. /\ pc[r] = "read" /\ pc'[r] = "gate"
      /\ QueueInv(r) /\ w[r] \in Locals
      /\ f \in Files
  <2>1. pc[r] = "read" /\ pc'[r] = "gate"
        BY GotoAt DEF ReadFileFails
  <2>2. QueueInv(r) /\ w[r] \in Locals
        BY DEF IndexInvBut, RunInv, TypeOK
  <2> QED
      BY <2>1, <2>2 DEF QueueInv, DeepPCs
<1>0. f \notin w[r].todo \cup InFlight(w[r])
      BY <1>1 DEF QueueInv, DeepPCs
<1>2. /\ w'[r].todo = w[r].todo
      /\ w'[r].seen = w[r].seen
      /\ w'[r].got = w[r].got
      /\ w'[r].queue = w[r].queue
      /\ w'[r].batch = w[r].batch
      /\ w'[r].rows = w[r].rows
      /\ w'[r].done = w[r].done
      /\ w'[r].touched = w[r].touched
      /\ w'[r].ops = w[r].ops
  <2>1. w[r] \in Locals
        BY DEF TypeOK
  <2>2. w'[r] = [w[r] EXCEPT !.cur = NoFile, !.failed = TRUE]
        BY LocallyAt DEF ReadFileFails
  <2> QED
      BY <1>1, <2>1, <2>2 DEF Locals
<1>3. /\ hashStore'[f].status = "failed"
      /\ \A g \in Files \ {f} : hashStore'[g] = hashStore[g]
      /\ UNCHANGED <<lance, text, torn>>
      BY <1>1 DEF ReadFileFails, SetHash, vectors, keyword
<1>4. HashInv' /\ VectorsBut(X)' /\ TextBut(Y)'
  <2>1. {f} \in SUBSET Files
        BY <1>1, <1>3
  <2>2. \A g \in {f} : hashStore'[g].status # "indexed"
        BY <1>3
  <2>3. \A g \in Files \ {f} : hashStore'[g] = hashStore[g] /\ (g \notin torn' => g \notin torn)
        BY <1>3
  <2>4. UNCHANGED <<lance, text>>
        BY <1>3
  <2> QED
      BY <2>1, <2>2, <2>3, <2>4, NewlyUnindexed
<1>5. WriterInv(r)' /\ QuietInv(r)'
  <2>1. writer' = writer /\ WriterInv(r)
        BY DEF ReadFileFails, IndexInvBut, RunInv
  <2> QED
      BY <1>1, <2>1 DEF WriterInv, QuietInv, Locked, DeepPCs
<1>6. QueueInv(r)'
  <2>1. InFlight(w'[r]) = InFlight(w[r])
        BY <1>2 DEF InFlight
  <2>2. \A g \in InFlight(w[r]) : hashStore'[g] = hashStore[g]
        BY <1>0, <1>1, <1>3 DEF InFlight, Locals
  <2> QED
      BY <1>1, <1>2, <1>3, <2>1, <2>2
      DEF QueueInv, IsPending, DeepPCs, BatchPCs, Committed
<1>7. VectorsInv(r)'
      BY <1>1, <1>2, <1>3 DEF IndexInvBut, RunInv, VectorsInv, DeepPCs, LanceChunks
<1>8. TextInv(r)'
  <2>1. w[r].touched \subseteq Files
        BY <1>1 DEF Locals
  <2> QED
      BY <1>1, <1>2, <1>3, <2>1 DEF IndexInvBut, RunInv, TextInv, DeepPCs, Committed
<1>9. pc[r] \in Locked \/ UNCHANGED <<hashStore, lance, text, torn>>
      BY <1>1, <1>3 DEF Locked, DeepPCs
<1>f. /\ \A s \in Runs \ {r} : pc'[s] = pc[s] /\ w'[s] = w[s]
      /\ writer' = writer \/ writer \in {r, NoRun}
      BY GotoAt, LocallyAt DEF ReadFileFails
<1> QED
    BY <1>f, <1>4, <1>5, <1>6, <1>7, <1>8, <1>9, Frame DEF RunInv

(* The end of the gate.                                                    *)
LEMMA GateDoneInv ==
    ASSUME NEW X, NEW Y, TypeOK, IndexInvBut(X, Y), NEW r \in Runs, GateDone(r)
    PROVE  IndexInvBut(X, Y)'
<1>1. /\ pc[r] = "gate" /\ pc'[r] = "batch"
      BY GotoAt DEF GateDone
<1>2. w'[r] = w[r]
      BY DEF GateDone
<1>3. UNCHANGED <<hashStore, lance, text, torn>>
      BY DEF GateDone, vectors, keyword
<1>4. HashInv' /\ VectorsBut(X)' /\ TextBut(Y)'
      BY <1>3, StoresKept
<1>5. WriterInv(r)' /\ QuietInv(r)'
  <2>1. writer' = writer /\ WriterInv(r)
        BY DEF GateDone, IndexInvBut, RunInv
  <2> QED
      BY <1>1, <2>1 DEF WriterInv, QuietInv, Locked, DeepPCs
<1>6. QueueInv(r)'
  <2>1. QueueInv(r)
        BY DEF IndexInvBut, RunInv
  <2>2. InFlight(w'[r]) = InFlight(w[r])
        BY <1>2 DEF InFlight
  <2> QED
      BY <1>1, <1>2, <1>3, <2>1, <2>2
      DEF QueueInv, IsPending, DeepPCs, BatchPCs, Committed
<1>7. VectorsInv(r)'
      BY <1>1, <1>2, <1>3 DEF IndexInvBut, RunInv, VectorsInv, DeepPCs, LanceChunks
<1>8. TextInv(r)'
      BY <1>1, <1>2, <1>3 DEF IndexInvBut, RunInv, TextInv, DeepPCs, Committed
<1>9. pc[r] \in Locked \/ UNCHANGED <<hashStore, lance, text, torn>>
      BY <1>1, <1>3 DEF Locked, DeepPCs
<1>f. /\ \A s \in Runs \ {r} : pc'[s] = pc[s] /\ w'[s] = w[s]
      /\ writer' = writer \/ writer \in {r, NoRun}
      BY GotoAt DEF GateDone
<1> QED
    BY <1>f, <1>4, <1>5, <1>6, <1>7, <1>8, <1>9, Frame DEF RunInv

(* A batch is taken.                                                       *)
LEMMA TakeBatchInv ==
    ASSUME NEW X, NEW Y, TypeOK, IndexInvBut(X, Y), NEW r \in Runs, NEW B \in SUBSET Files, TakeBatch(r, B)
    PROVE  IndexInvBut(X, Y)'
<1>1. /\ pc[r] = "batch" /\ pc'[r] = "delete"
      /\ B \subseteq w[r].queue
      BY GotoAt DEF TakeBatch, IsSlice
<1>2. /\ w'[r].todo = w[r].todo
      /\ w'[r].cur = w[r].cur
      /\ w'[r].seen = w[r].seen
      /\ w'[r].got = w[r].got
      /\ w'[r].queue = w[r].queue \ B
      /\ w'[r].batch = B
      /\ w'[r].rows = w[r].rows
      /\ w'[r].done = w[r].done
      /\ w'[r].touched = w[r].touched
      /\ w'[r].ops = w[r].ops
  <2>1. w[r] \in Locals
        BY DEF TypeOK
  <2>2. w'[r] = [w[r] EXCEPT !.batch = B, !.queue = @ \ B]
        BY LocallyAt DEF TakeBatch
  <2> QED
      BY <1>1, <2>1, <2>2 DEF Locals
<1>3. UNCHANGED <<hashStore, lance, text, torn>>
      BY DEF TakeBatch, vectors, keyword
<1>4. HashInv' /\ VectorsBut(X)' /\ TextBut(Y)'
      BY <1>3, StoresKept
<1>5. WriterInv(r)' /\ QuietInv(r)'
  <2>1. writer' = writer /\ WriterInv(r)
        BY DEF TakeBatch, IndexInvBut, RunInv
  <2> QED
      BY <1>1, <2>1 DEF WriterInv, QuietInv, Locked, DeepPCs
<1>6. QueueInv(r)'
  <2>1. QueueInv(r)
        BY DEF IndexInvBut, RunInv
  <2>2. w[r].batch = {}
        BY <1>1, <2>1 DEF QueueInv, DeepPCs, BatchPCs
  <2>3. InFlight(w'[r]) = InFlight(w[r])
        BY <1>1, <1>2, <2>2 DEF InFlight
  <2> QED
      BY <1>1, <1>2, <1>3, <2>1, <2>3
      DEF QueueInv, IsPending, DeepPCs, BatchPCs, Committed
<1>7. VectorsInv(r)'
      BY <1>1, <1>2, <1>3 DEF IndexInvBut, RunInv, VectorsInv, DeepPCs, LanceChunks
<1>8. TextInv(r)'
      BY <1>1, <1>2, <1>3 DEF IndexInvBut, RunInv, TextInv, DeepPCs, Committed
<1>9. pc[r] \in Locked \/ UNCHANGED <<hashStore, lance, text, torn>>
      BY <1>1, <1>3 DEF Locked, DeepPCs
<1>f. /\ \A s \in Runs \ {r} : pc'[s] = pc[s] /\ w'[s] = w[s]
      /\ writer' = writer \/ writer \in {r, NoRun}
      BY GotoAt, LocallyAt DEF TakeBatch
<1> QED
    BY <1>f, <1>4, <1>5, <1>6, <1>7, <1>8, <1>9, Frame DEF RunInv

(* The rows of the batch are deleted.                                      *)
LEMMA DeleteRowsInv ==
    ASSUME NEW X, NEW Y, TypeOK, IndexInvBut(X, Y), NEW r \in Runs, DeleteRows(r)
    PROVE  IndexInvBut(X, Y)'
<1>1. /\ pc[r] = "delete" /\ pc'[r] = "embed"
      BY GotoAt DEF DeleteRows
<1>2. /\ w'[r].todo = w[r].todo
      /\ w'[r].cur = w[r].cur
      /\ w'[r].seen = w[r].seen
      /\ w'[r].got = w[r].got
      /\ w'[r].queue = w[r].queue
      /\ w'[r].batch = w[r].batch
      /\ w'[r].rows = w[r].rows
      /\ w'[r].done = w[r].done
      /\ w'[r].touched = w[r].touched
      /\ w'[r].ops = w[r].ops
  <2>1. w[r] \in Locals
        BY DEF TypeOK
  <2>2. w'[r] = [w[r] EXCEPT !.cache = UNION {lance[f] : f \in w[r].batch}]
        BY LocallyAt DEF DeleteRows
  <2> QED
      BY <1>1, <2>1, <2>2 DEF Locals
<1>3. /\ UNCHANGED <<hashStore, text, torn>>
      /\ QueueInv(r) /\ w[r] \in Locals
      BY DEF DeleteRows, keyword, IndexInvBut, RunInv, TypeOK
<1>l. lance' = [f \in Files |-> IF f \in w[r].batch THEN {} ELSE lance[f]]
      BY DEF DeleteRows
<1>4. HashInv' /\ VectorsBut(X)' /\ TextBut(Y)'
  <2>1. \A f \in Files \ w[r].batch : lance'[f] = lance[f]
        BY <1>l
  <2>2. \A f \in w[r].batch : IsPending(w[r], f)
        BY <1>1, <1>3 DEF QueueInv, InFlight, DeepPCs
  <2>3. \A f \in w[r].batch : hashStore[f].status # "indexed"
        BY <2>2, PendingNotIndexed
  <2> QED
      BY <1>3, <2>1, <2>3 DEF IndexInvBut, HashInv, VectorsBut, TextBut,
         Indexed, LanceChunks
<1>5. WriterInv(r)' /\ QuietInv(r)'
  <2>1. writer' = writer /\ WriterInv(r)
        BY DEF DeleteRows, IndexInvBut, RunInv
  <2> QED
      BY <1>1, <2>1 DEF WriterInv, QuietInv, Locked, DeepPCs
<1>6. QueueInv(r)'
  <2>1. QueueInv(r)
        BY DEF IndexInvBut, RunInv
  <2>2. InFlight(w'[r]) = InFlight(w[r])
        BY <1>2 DEF InFlight
  <2> QED
      BY <1>1, <1>2, <1>3, <2>1, <2>2
      DEF QueueInv, IsPending, DeepPCs, BatchPCs, Committed
<1>7. VectorsInv(r)'
  <2>1. /\ w[r].batch \cap w[r].done = {}
        /\ w[r].batch \cup w[r].done \subseteq Files
        BY <1>1, <1>3 DEF QueueInv, DeepPCs, Locals
  <2> QED
      BY <1>1, <1>2, <1>l, <2>1 DEF IndexInvBut, RunInv, VectorsInv, DeepPCs, LanceChunks
<1>8. TextInv(r)'
      BY <1>1, <1>2, <1>3 DEF IndexInvBut, RunInv, TextInv, DeepPCs, Committed
<1>9. pc[r] \in Locked \/ UNCHANGED <<hashStore, lance, text, torn>>
      BY <1>1, <1>3 DEF Locked, DeepPCs
<1>f. /\ \A s \in Runs \ {r} : pc'[s] = pc[s] /\ w'[s] = w[s]
      /\ writer' = writer \/ writer \in {r, NoRun}
      BY GotoAt, LocallyAt DEF DeleteRows
<1> QED
    BY <1>f, <1>4, <1>5, <1>6, <1>7, <1>8, <1>9, Frame DEF RunInv

(* What Embed plans for a file of the batch are rows of exactly its chunks.*)
LEMMA PlannedComplete ==
    ASSUME NEW l, NEW m, m.rows = PlannedRows(l), NEW f \in l.batch
    PROVE  PlannedChunks(m, f) = ChunksOf[l.got[f]]
<1>1. \A k : VectorOf(l, k)[1] = k
      BY DEF VectorOf
<1>2. \A x \in m.rows : x[1] = f => x[2][1] \in ChunksOf[l.got[f]]
      BY <1>1 DEF PlannedRows
<1>3. \A k \in ChunksOf[l.got[f]] :
          <<f, VectorOf(l, k)>> \in m.rows /\ <<f, VectorOf(l, k)>>[2][1] = k
      BY <1>1 DEF PlannedRows
<1>4. PlannedChunks(m, f) \subseteq ChunksOf[l.got[f]]
      BY <1>2 DEF PlannedChunks
<1>5. ASSUME NEW k \in ChunksOf[l.got[f]] PROVE k \in PlannedChunks(m, f)
  <2> DEFINE y == <<f, VectorOf(l, k)>>
  <2>1. y \in {x \in m.rows : x[1] = f} /\ y[2][1] = k
        BY <1>3, <1>5
  <2> QED
      BY <2>1 DEF PlannedChunks
<1> QED
    BY <1>4, <1>5

(* The rows of the batch are planned.                                      *)
LEMMA EmbedInv ==
    ASSUME NEW X, NEW Y, TypeOK, IndexInvBut(X, Y), NEW r \in Runs, Embed(r)
    PROVE  IndexInvBut(X, Y)'
<1>1. /\ pc[r] = "embed"
      /\ pc'[r] = IF PlannedRows(w[r]) = {} THEN "text" ELSE "insert"
      BY GotoAt DEF Embed
<1>2. /\ w'[r].todo = w[r].todo
      /\ w'[r].cur = w[r].cur
      /\ w'[r].seen = w[r].seen
      /\ w'[r].got = w[r].got
      /\ w'[r].queue = w[r].queue
      /\ w'[r].batch = w[r].batch
      /\ w'[r].rows = PlannedRows(w[r])
      /\ w'[r].done = w[r].done
      /\ w'[r].touched = w[r].touched
      /\ w'[r].ops = w[r].ops
  <2>1. w[r] \in Locals
        BY DEF TypeOK
  <2>2. w'[r] = [w[r] EXCEPT !.rows = PlannedRows(w[r]), !.cache = {}]
        BY LocallyAt DEF Embed
  <2> QED
      BY <1>1, <2>1, <2>2 DEF Locals
<1>3. UNCHANGED <<hashStore, lance, text, torn>>
      BY DEF Embed, vectors, keyword
<1>4. HashInv' /\ VectorsBut(X)' /\ TextBut(Y)'
      BY <1>3, StoresKept
<1>5. WriterInv(r)' /\ QuietInv(r)'
  <2>1. writer' = writer /\ WriterInv(r)
        BY DEF Embed, IndexInvBut, RunInv
  <2> QED
      BY <1>1, <2>1 DEF WriterInv, QuietInv, Locked, DeepPCs
<1>6. QueueInv(r)'
  <2>1. QueueInv(r)
        BY DEF IndexInvBut, RunInv
  <2>2. InFlight(w'[r]) = InFlight(w[r])
        BY <1>2 DEF InFlight
  <2> QED
      BY <1>1, <1>2, <1>3, <2>1, <2>2
      DEF QueueInv, IsPending, DeepPCs, BatchPCs, Committed
<1>7. VectorsInv(r)'
  <2>1. VectorsInv(r)
        BY DEF IndexInvBut, RunInv
  <2>2. \A f \in w'[r].batch :
            /\ LanceChunks(f)' = {}
            /\ PlannedChunks(w'[r], f) = ChunksOf[w'[r].got[f]]
        BY <1>1, <1>2, <1>3, <2>1, PlannedComplete
        DEF VectorsInv, DeepPCs, LanceChunks
  <2>3. \A x \in w'[r].rows : x[1] \in w'[r].batch
        BY <1>2 DEF PlannedRows
  <2>4. PlannedRows(w[r]) = {} => \A f : PlannedChunks(w'[r], f) = {}
        BY <1>2 DEF PlannedChunks
  <2>5. \A f \in w'[r].done : LanceChunks(f)' = ChunksOf[w'[r].got[f]]
        BY <1>1, <1>2, <1>3, <2>1 DEF VectorsInv, DeepPCs, LanceChunks
  <2> QED
      BY <1>1, <2>2, <2>3, <2>4, <2>5 DEF VectorsInv
<1>8. TextInv(r)'
      BY <1>1, <1>2, <1>3 DEF IndexInvBut, RunInv, TextInv, DeepPCs, Committed
<1>9. pc[r] \in Locked \/ UNCHANGED <<hashStore, lance, text, torn>>
      BY <1>1, <1>3 DEF Locked, DeepPCs
<1>f. /\ \A s \in Runs \ {r} : pc'[s] = pc[s] /\ w'[s] = w[s]
      /\ writer' = writer \/ writer \in {r, NoRun}
      BY GotoAt, LocallyAt DEF Embed
<1> QED
    BY <1>f, <1>4, <1>5, <1>6, <1>7, <1>8, <1>9, Frame DEF RunInv

(* A slice of the rows is inserted.                                        *)
LEMMA InsertSliceInv ==
    ASSUME NEW X, NEW Y, TypeOK, IndexInvBut(X, Y), NEW r \in Runs, NEW S \in SUBSET w[r].rows, InsertSlice(r, S)
    PROVE  IndexInvBut(X, Y)'
<1>1. /\ pc[r] = "insert"
      /\ pc'[r] = IF w[r].rows = S THEN "text" ELSE "insert"
      BY GotoAt DEF InsertSlice
<1>2. /\ w'[r].todo = w[r].todo
      /\ w'[r].cur = w[r].cur
      /\ w'[r].seen = w[r].seen
      /\ w'[r].got = w[r].got
      /\ w'[r].queue = w[r].queue
      /\ w'[r].batch = w[r].batch
      /\ w'[r].rows = w[r].rows \ S
      /\ w'[r].done = w[r].done
      /\ w'[r].touched = w[r].touched
      /\ w'[r].ops = w[r].ops
  <2>1. w[r] \in Locals
        BY DEF TypeOK
  <2>2. w'[r] = [w[r] EXCEPT !.rows = @ \ S]
        BY LocallyAt DEF InsertSlice
  <2> QED
      BY <1>1, <2>1, <2>2 DEF Locals
<1>3. /\ UNCHANGED <<hashStore, text, torn>>
      /\ QueueInv(r) /\ w[r] \in Locals
      BY DEF InsertSlice, keyword, IndexInvBut, RunInv, TypeOK
<1>l. lance' = [f \in Files |->
                    lance[f] \cup {fr[2] : fr \in {x \in S : x[1] = f}}]
      BY DEF InsertSlice
<1>b. \A x \in w[r].rows : x[1] \in w[r].batch
      BY <1>1 DEF IndexInvBut, RunInv, VectorsInv, DeepPCs
<1>4. HashInv' /\ VectorsBut(X)' /\ TextBut(Y)'
  <2>1. \A f \in Files \ w[r].batch : lance'[f] = lance[f]
        BY <1>l, <1>b
  <2>2. \A f \in w[r].batch : IsPending(w[r], f)
        BY <1>1, <1>3 DEF QueueInv, InFlight, DeepPCs
  <2>3. \A f \in w[r].batch : hashStore[f].status # "indexed"
        BY <2>2, PendingNotIndexed
  <2> QED
      BY <1>3, <2>1, <2>3 DEF IndexInvBut, HashInv, VectorsBut, TextBut,
         Indexed, LanceChunks
<1>5. WriterInv(r)' /\ QuietInv(r)'
  <2>1. writer' = writer /\ WriterInv(r)
        BY DEF InsertSlice, IndexInvBut, RunInv
  <2> QED
      BY <1>1, <2>1 DEF WriterInv, QuietInv, Locked, DeepPCs
<1>6. QueueInv(r)'
  <2>1. QueueInv(r)
        BY DEF IndexInvBut, RunInv
  <2>2. InFlight(w'[r]) = InFlight(w[r])
        BY <1>2 DEF InFlight
  <2> QED
      BY <1>1, <1>2, <1>3, <2>1, <2>2
      DEF QueueInv, IsPending, DeepPCs, BatchPCs, Committed
<1>7. VectorsInv(r)'
  <2>1. /\ w[r].batch \cap w[r].done = {}
        /\ w[r].batch \cup w[r].done \subseteq Files
        BY <1>1, <1>3 DEF QueueInv, DeepPCs, Locals
  <2>2. \A f \in w[r].done : lance'[f] = lance[f]
        BY <1>l, <1>b, <2>1
  <2>3. \A f \in w'[r].done : LanceChunks(f)' = ChunksOf[w'[r].got[f]]
        BY <1>1, <1>2, <2>2 DEF IndexInvBut, RunInv, VectorsInv, DeepPCs, LanceChunks
  <2>4. ASSUME NEW f \in w'[r].batch
        PROVE  LanceChunks(f)' \cup PlannedChunks(w'[r], f) = ChunksOf[w'[r].got[f]]
    <3>1. f \in w[r].batch /\ f \in Files
          BY <1>2, <2>1
    <3>2. LanceChunks(f) \cup PlannedChunks(w[r], f) = ChunksOf[w[r].got[f]]
          BY <1>1, <3>1 DEF IndexInvBut, RunInv, VectorsInv, DeepPCs
    <3>3. lance'[f] = lance[f] \cup {fr[2] : fr \in {x \in S : x[1] = f}}
          BY <1>l, <3>1
    <3>4. LanceChunks(f)' = LanceChunks(f) \cup {fr[2][1] : fr \in {x \in S : x[1] = f}}
          BY <3>3 DEF LanceChunks
    <3>5. PlannedChunks(w[r], f) = PlannedChunks(w'[r], f) \cup
                                   {fr[2][1] : fr \in {x \in S : x[1] = f}}
          BY <1>2 DEF PlannedChunks
    <3> QED
        BY <1>2, <3>2, <3>4, <3>5
  <2>5. \A x \in w'[r].rows : x[1] \in w'[r].batch
        BY <1>2, <1>b
  <2>6. w[r].rows = S => \A f : PlannedChunks(w'[r], f) = {}
        BY <1>2 DEF PlannedChunks
  <2> QED
      BY <1>1, <2>3, <2>4, <2>5, <2>6 DEF VectorsInv
<1>8. TextInv(r)'
      BY <1>1, <1>2, <1>3 DEF IndexInvBut, RunInv, TextInv, DeepPCs, Committed
<1>9. pc[r] \in Locked \/ UNCHANGED <<hashStore, lance, text, torn>>
      BY <1>1, <1>3 DEF Locked, DeepPCs
<1>f. /\ \A s \in Runs \ {r} : pc'[s] = pc[s] /\ w'[s] = w[s]
      /\ writer' = writer \/ writer \in {r, NoRun}
      BY GotoAt, LocallyAt DEF InsertSlice
<1> QED
    BY <1>f, <1>4, <1>5, <1>6, <1>7, <1>8, <1>9, Frame DEF RunInv

(* A batch that fails.                                                     *)
LEMMA BatchFailsInv ==
    ASSUME NEW X, NEW Y, TypeOK, IndexInvBut(X, Y), NEW r \in Runs, BatchFails(r)
    PROVE  IndexInvBut(X, Y)'
<1>1. /\ pc[r] \in {"delete", "embed", "insert"} /\ pc'[r] = "batch"
      BY GotoAt DEF BatchFails
<1>2. /\ w'[r].todo = w[r].todo
      /\ w'[r].cur = w[r].cur
      /\ w'[r].seen = w[r].seen
      /\ w'[r].got = w[r].got
      /\ w'[r].queue = w[r].queue
      /\ w'[r].batch = {}
      /\ w'[r].done = w[r].done
      /\ w'[r].touched = w[r].touched
      /\ w'[r].ops = w[r].ops
  <2>1. w[r] \in Locals
        BY DEF TypeOK
  <2>2. w'[r] = [w[r] EXCEPT !.batch = {}, !.cache = {}, !.rows = {},
                             !.failed = TRUE]
        BY LocallyAt DEF BatchFails
  <2> QED
      BY <1>1, <2>1, <2>2 DEF Locals
<1>3. /\ UNCHANGED <<lance, text, torn>>
      /\ QueueInv(r) /\ w[r] \in Locals
      /\ \A f \in w[r].batch : hashStore'[f].status = "failed"
      /\ \A f \in Files \ w[r].batch : hashStore'[f] = hashStore[f]
      BY DEF BatchFails, SetHash, vectors, keyword, IndexInvBut, RunInv, TypeOK, Locals
<1>4. HashInv' /\ VectorsBut(X)' /\ TextBut(Y)'
  <2>1. w[r].batch \in SUBSET Files
        BY <1>1, <1>3 DEF TypeOK, Locals
  <2>2. \A g \in w[r].batch : hashStore'[g].status # "indexed"
        BY <1>3
  <2>3. \A g \in Files \ w[r].batch : hashStore'[g] = hashStore[g] /\ (g \notin torn' => g \notin torn)
        BY <1>3
  <2>4. UNCHANGED <<lance, text>>
        BY <1>3
  <2> QED
      BY <2>1, <2>2, <2>3, <2>4, NewlyUnindexed
<1>5. WriterInv(r)' /\ QuietInv(r)'
  <2>1. writer' = writer /\ WriterInv(r)
        BY DEF BatchFails, IndexInvBut, RunInv
  <2> QED
      BY <1>1, <2>1 DEF WriterInv, QuietInv, Locked, DeepPCs
<1>6. QueueInv(r)'
  <2>1. InFlight(w'[r]) = w[r].queue \cup w[r].done
        BY <1>2 DEF InFlight
  <2>2. /\ InFlight(w'[r]) \subseteq InFlight(w[r])
        /\ InFlight(w'[r]) \cap w[r].batch = {}
        BY <1>1, <1>3, <2>1 DEF QueueInv, InFlight, DeepPCs
  <2>3. \A g \in InFlight(w'[r]) : hashStore'[g] = hashStore[g]
        BY <1>3, <2>1, <2>2 DEF Locals
  <2>4. \A g \in InFlight(w'[r]) :
            /\ IsPending(w[r], g)'
            /\ w'[r].got[g] \in Contents
            /\ g \notin torn' => w'[r].got[g] = w'[r].seen[g]
        BY <1>1, <1>2, <1>3, <2>2, <2>3 DEF QueueInv, IsPending, DeepPCs
  <2> QED
      BY <1>1, <1>2, <1>3, <2>2, <2>4 DEF QueueInv, DeepPCs, Committed, BatchPCs
<1>7. VectorsInv(r)'
      BY <1>1, <1>2, <1>3 DEF IndexInvBut, RunInv, VectorsInv, DeepPCs, LanceChunks
<1>8. TextInv(r)'
  <2>1. w[r].touched \subseteq Files
        BY <1>3 DEF Locals
  <2> QED
      BY <1>1, <1>2, <1>3, <2>1 DEF IndexInvBut, RunInv, TextInv, DeepPCs, Committed
<1>9. pc[r] \in Locked \/ UNCHANGED <<hashStore, lance, text, torn>>
      BY <1>1, <1>3 DEF Locked, DeepPCs
<1>f. /\ \A s \in Runs \ {r} : pc'[s] = pc[s] /\ w'[s] = w[s]
      /\ writer' = writer \/ writer \in {r, NoRun}
      BY GotoAt, LocallyAt DEF BatchFails
<1> QED
    BY <1>f, <1>4, <1>5, <1>6, <1>7, <1>8, <1>9, Frame DEF RunInv

(* The deep rows of a file are queued.                                     *)
LEMMA QueueTextInv ==
    ASSUME NEW X, NEW Y, TypeOK, IndexInvBut(X, Y), NEW r \in Runs, NEW f \in Files, QueueText(r, f)
    PROVE  IndexInvBut(X, Y)'
<1>1. /\ pc[r] = "text" /\ pc'[r] = "text"
      /\ f \in w[r].batch
      BY GotoAt DEF QueueText
<1>2. /\ w'[r].todo = w[r].todo
      /\ w'[r].cur = w[r].cur
      /\ w'[r].seen = w[r].seen
      /\ w'[r].got = w[r].got
      /\ w'[r].queue = w[r].queue
      /\ w'[r].batch = w[r].batch \ {f}
      /\ w'[r].rows = w[r].rows
      /\ w'[r].done = w[r].done \cup {f}
      /\ w'[r].touched = w[r].touched \cup {f}
      /\ w'[r].ops[f] = DeepRows(w[r].got[f])
      /\ \A g \in Files \ {f} : w'[r].ops[g] = w[r].ops[g]
  <2>1. w[r] \in Locals
        BY DEF TypeOK
  <2>2. w'[r] = [w[r] EXCEPT !.batch = @ \ {f}, !.touched = @ \cup {f},
                             !.ops[f] = DeepRows(w[r].got[f]),
                             !.done = @ \cup {f}]
        BY LocallyAt DEF QueueText
  <2> QED
      BY <1>1, <2>1, <2>2 DEF Locals
<1>3. UNCHANGED <<hashStore, lance, text, torn>>
      BY DEF QueueText, vectors, keyword
<1>i. QueueInv(r) /\ w[r] \in Locals
      BY DEF IndexInvBut, RunInv, TypeOK
<1>4. HashInv' /\ VectorsBut(X)' /\ TextBut(Y)'
      BY <1>3, StoresKept
<1>5. WriterInv(r)' /\ QuietInv(r)'
  <2>1. writer' = writer /\ WriterInv(r)
        BY DEF QueueText, IndexInvBut, RunInv
  <2> QED
      BY <1>1, <2>1 DEF WriterInv, QuietInv, Locked, DeepPCs
<1>6. QueueInv(r)'
  <2>1. InFlight(w'[r]) = InFlight(w[r])
        BY <1>1, <1>2 DEF InFlight
  <2>2. f \notin w[r].queue /\ f \notin w[r].done
        BY <1>1, <1>i DEF QueueInv, DeepPCs
  <2> QED
      BY <1>1, <1>2, <1>3, <1>i, <2>1, <2>2
      DEF QueueInv, IsPending, DeepPCs, BatchPCs, Committed
<1>7. VectorsInv(r)'
  <2>1. \A g \in w[r].done \cup w[r].batch :
            LanceChunks(g) = ChunksOf[w[r].got[g]]
        BY <1>1 DEF IndexInvBut, RunInv, VectorsInv, DeepPCs
  <2> QED
      BY <1>1, <1>2, <1>3, <2>1 DEF VectorsInv, LanceChunks
<1>8. TextInv(r)'
  <2>1. hashStore[f].status # "indexed"
        BY <1>1, <1>i, PendingNotIndexed DEF QueueInv, InFlight, DeepPCs
  <2>2. f \notin w[r].done /\ w[r].done \subseteq Files
        BY <1>1, <1>i DEF QueueInv, DeepPCs, Locals
  <2> QED
      BY <1>1, <1>2, <1>3, <2>1, <2>2
      DEF IndexInvBut, RunInv, TextInv, DeepPCs, Committed
<1>9. pc[r] \in Locked \/ UNCHANGED <<hashStore, lance, text, torn>>
      BY <1>1, <1>3 DEF Locked, DeepPCs
<1>f. /\ \A s \in Runs \ {r} : pc'[s] = pc[s] /\ w'[s] = w[s]
      /\ writer' = writer \/ writer \in {r, NoRun}
      BY LocallyAt DEF QueueText
<1> QED
    BY <1>f, <1>4, <1>5, <1>6, <1>7, <1>8, <1>9, Frame DEF RunInv

(* The deep rows of a file cannot be queued.                               *)
LEMMA QueueTextFailsInv ==
    ASSUME NEW X, NEW Y, TypeOK, IndexInvBut(X, Y), NEW r \in Runs, NEW f \in Files, QueueTextFails(r, f)
    PROVE  IndexInvBut(X, Y)'
<1>1. /\ pc[r] = "text" /\ pc'[r] = "text"
      /\ f \in w[r].batch
      BY GotoAt DEF QueueTextFails
<1>2. /\ w'[r].todo = w[r].todo
      /\ w'[r].cur = w[r].cur
      /\ w'[r].seen = w[r].seen
      /\ w'[r].got = w[r].got
      /\ w'[r].queue = w[r].queue
      /\ w'[r].batch = w[r].batch \ {f}
      /\ w'[r].rows = w[r].rows
      /\ w'[r].done = w[r].done
      /\ w'[r].touched = w[r].touched \cup {f}
      /\ w'[r].ops[f] = {}
      /\ \A g \in Files \ {f} : w'[r].ops[g] = w[r].ops[g]
  <2>1. w[r] \in Locals
        BY DEF TypeOK
  <2>2. w'[r] = [w[r] EXCEPT !.batch = @ \ {f}, !.touched = @ \cup {f},
                             !.ops[f] = {}, !.failed = TRUE]
        BY LocallyAt DEF QueueTextFails
  <2> QED
      BY <1>1, <2>1, <2>2 DEF Locals
<1>3. /\ UNCHANGED <<lance, text, torn>>
      /\ QueueInv(r) /\ w[r] \in Locals
      /\ hashStore'[f].status = "failed"
      /\ \A g \in Files \ {f} : hashStore'[g] = hashStore[g]
      BY DEF QueueTextFails, SetHash, vectors, keyword, IndexInvBut, RunInv, TypeOK
<1>4. HashInv' /\ VectorsBut(X)' /\ TextBut(Y)'
  <2>1. {f} \in SUBSET Files
        BY <1>1, <1>3
  <2>2. \A g \in {f} : hashStore'[g].status # "indexed"
        BY <1>3
  <2>3. \A g \in Files \ {f} : hashStore'[g] = hashStore[g] /\ (g \notin torn' => g \notin torn)
        BY <1>3
  <2>4. UNCHANGED <<lance, text>>
        BY <1>3
  <2> QED
      BY <2>1, <2>2, <2>3, <2>4, NewlyUnindexed
<1>5. WriterInv(r)' /\ QuietInv(r)'
  <2>1. writer' = writer /\ WriterInv(r)
        BY DEF QueueTextFails, IndexInvBut, RunInv
  <2> QED
      BY <1>1, <2>1 DEF WriterInv, QuietInv, Locked, DeepPCs
<1>6. QueueInv(r)'
  <2>1. f \notin InFlight(w'[r]) /\ InFlight(w'[r]) \subseteq InFlight(w[r])
        BY <1>1, <1>2, <1>3 DEF QueueInv, InFlight, DeepPCs
  <2>2. \A g \in InFlight(w'[r]) : hashStore'[g] = hashStore[g]
        BY <1>3, <2>1 DEF InFlight, Locals
  <2>3. \A g \in InFlight(w'[r]) :
            /\ IsPending(w[r], g)'
            /\ w'[r].got[g] \in Contents
            /\ g \notin torn' => w'[r].got[g] = w'[r].seen[g]
        BY <1>1, <1>2, <1>3, <2>1, <2>2 DEF QueueInv, IsPending, DeepPCs
  <2> QED
      BY <1>1, <1>2, <1>3, <2>1, <2>3 DEF QueueInv, DeepPCs, Committed, BatchPCs
<1>7. VectorsInv(r)'
  <2>1. \A g \in w[r].done \cup w[r].batch : LanceChunks(g) = ChunksOf[w[r].got[g]]
        BY <1>1 DEF IndexInvBut, RunInv, VectorsInv, DeepPCs
  <2>2. \A g \in w'[r].done \cup w'[r].batch : LanceChunks(g)' = ChunksOf[w'[r].got[g]]
        BY <1>2, <1>3, <2>1 DEF LanceChunks
  <2> QED
      BY <1>1, <2>2 DEF VectorsInv
<1>8. TextInv(r)'
  <2>1. w[r].touched \subseteq Files /\ w[r].done \subseteq Files
        BY <1>3 DEF Locals
  <2>2. f \notin w[r].done
        BY <1>1, <1>3 DEF QueueInv, DeepPCs
  <2> QED
      BY <1>1, <1>2, <1>3, <2>1, <2>2
      DEF IndexInvBut, RunInv, TextInv, DeepPCs, Committed
<1>9. pc[r] \in Locked \/ UNCHANGED <<hashStore, lance, text, torn>>
      BY <1>1, <1>3 DEF Locked, DeepPCs
<1>f. /\ \A s \in Runs \ {r} : pc'[s] = pc[s] /\ w'[s] = w[s]
      /\ writer' = writer \/ writer \in {r, NoRun}
      BY LocallyAt DEF QueueTextFails
<1> QED
    BY <1>f, <1>4, <1>5, <1>6, <1>7, <1>8, <1>9, Frame DEF RunInv

(* The end of a batch.                                                     *)
LEMMA BatchDoneInv ==
    ASSUME NEW X, NEW Y, TypeOK, IndexInvBut(X, Y), NEW r \in Runs, BatchDone(r)
    PROVE  IndexInvBut(X, Y)'
<1>1. /\ pc[r] = "text" /\ pc'[r] = "batch"
      /\ w[r].batch = {}
      BY GotoAt DEF BatchDone
<1>2. w'[r] = w[r]
      BY DEF BatchDone
<1>3. UNCHANGED <<hashStore, lance, text, torn>>
      BY DEF BatchDone, vectors, keyword
<1>4. HashInv' /\ VectorsBut(X)' /\ TextBut(Y)'
      BY <1>3, StoresKept
<1>5. WriterInv(r)' /\ QuietInv(r)'
  <2>1. writer' = writer /\ WriterInv(r)
        BY DEF BatchDone, IndexInvBut, RunInv
  <2> QED
      BY <1>1, <2>1 DEF WriterInv, QuietInv, Locked, DeepPCs
<1>6. QueueInv(r)'
  <2>1. QueueInv(r)
        BY DEF IndexInvBut, RunInv
  <2>2. InFlight(w'[r]) = InFlight(w[r])
        BY <1>2 DEF InFlight
  <2> QED
      BY <1>1, <1>2, <1>3, <2>1, <2>2
      DEF QueueInv, IsPending, DeepPCs, BatchPCs, Committed
<1>7. VectorsInv(r)'
      BY <1>1, <1>2, <1>3 DEF IndexInvBut, RunInv, VectorsInv, DeepPCs, LanceChunks
<1>8. TextInv(r)'
      BY <1>1, <1>2, <1>3 DEF IndexInvBut, RunInv, TextInv, DeepPCs, Committed
<1>9. pc[r] \in Locked \/ UNCHANGED <<hashStore, lance, text, torn>>
      BY <1>1, <1>3 DEF Locked, DeepPCs
<1>f. /\ \A s \in Runs \ {r} : pc'[s] = pc[s] /\ w'[s] = w[s]
      /\ writer' = writer \/ writer \in {r, NoRun}
      BY GotoAt DEF BatchDone
<1> QED
    BY <1>f, <1>4, <1>5, <1>6, <1>7, <1>8, <1>9, Frame DEF RunInv

(* Tantivy is committed.                                                   *)
LEMMA CommitTextInv ==
    ASSUME NEW X, NEW Y, TypeOK, IndexInvBut(X, Y), NEW r \in Runs, CommitText(r)
    PROVE  IndexInvBut(X, Y)'
<1>1. /\ pc[r] = "batch" /\ pc'[r] = "searchable"
      /\ w[r].queue = {}
      BY GotoAt DEF CommitText
<1>2. /\ w'[r].todo = w[r].todo
      /\ w'[r].cur = w[r].cur
      /\ w'[r].seen = w[r].seen
      /\ w'[r].got = w[r].got
      /\ w'[r].queue = w[r].queue
      /\ w'[r].batch = w[r].batch
      /\ w'[r].rows = w[r].rows
      /\ w'[r].done = w[r].done
      /\ w'[r].touched = {}
  <2>1. w[r] \in Locals
        BY DEF TypeOK
  <2>2. w'[r] = [w[r] EXCEPT !.touched = {}, !.ops = [f \in Files |-> {}]]
        BY LocallyAt DEF CommitText
  <2> QED
      BY <1>1, <2>1, <2>2 DEF Locals
<1>3. /\ UNCHANGED <<hashStore, lance, torn>>
      /\ QueueInv(r) /\ w[r] \in Locals
      BY DEF CommitText, vectors, IndexInvBut, RunInv, TypeOK
<1>t. \A f \in Files :
          text'[f] = IF f \in w[r].touched THEN w[r].ops[f] ELSE text[f]
      BY DEF CommitText, Applied
<1>4. HashInv' /\ VectorsBut(X)' /\ TextBut(Y)'
  <2>1. HashInv' /\ VectorsBut(X)'
        BY <1>3 DEF IndexInvBut, HashInv, VectorsBut, Indexed, LanceChunks
  <2>2. \A f \in w[r].touched : hashStore[f].status # "indexed"
        BY <1>1 DEF IndexInvBut, RunInv, TextInv, DeepPCs
  <2>3. TextBut(Y)'
        BY <1>3, <1>t, <2>2 DEF IndexInvBut, TextBut, Indexed
  <2> QED
      BY <2>1, <2>3
<1>5. WriterInv(r)' /\ QuietInv(r)'
  <2>1. writer' = writer /\ WriterInv(r)
        BY DEF CommitText, IndexInvBut, RunInv
  <2> QED
      BY <1>1, <2>1 DEF WriterInv, QuietInv, Locked, DeepPCs
<1>6. QueueInv(r)'
  <2>1. QueueInv(r)
        BY DEF IndexInvBut, RunInv
  <2>2. InFlight(w'[r]) = InFlight(w[r])
        BY <1>2 DEF InFlight
  <2> QED
      BY <1>1, <1>2, <1>3, <2>1, <2>2
      DEF QueueInv, IsPending, DeepPCs, BatchPCs, Committed
<1>7. VectorsInv(r)'
      BY <1>1, <1>2, <1>3 DEF IndexInvBut, RunInv, VectorsInv, DeepPCs, LanceChunks
<1>8. TextInv(r)'
  <2>1. \A f \in w[r].done :
            f \in w[r].touched /\ w[r].ops[f] = DeepRows(w[r].got[f])
        BY <1>1 DEF IndexInvBut, RunInv, TextInv, DeepPCs, Committed
  <2>2. w[r].done \subseteq Files
        BY <1>3 DEF Locals
  <2>3. \A f \in w'[r].done : text'[f] = DeepRows(w'[r].got[f])
        BY <1>2, <1>t, <2>1, <2>2
  <2> QED
      BY <1>1, <1>2, <2>3 DEF TextInv, Committed
<1>9. pc[r] \in Locked \/ UNCHANGED <<hashStore, lance, text, torn>>
      BY <1>1, <1>3 DEF Locked, DeepPCs
<1>f. /\ \A s \in Runs \ {r} : pc'[s] = pc[s] /\ w'[s] = w[s]
      /\ writer' = writer \/ writer \in {r, NoRun}
      BY GotoAt, LocallyAt DEF CommitText
<1> QED
    BY <1>f, <1>4, <1>5, <1>6, <1>7, <1>8, <1>9, Frame DEF RunInv

(* The searchable marker is written.                                       *)
LEMMA MarkSearchableInv ==
    ASSUME NEW X, NEW Y, TypeOK, IndexInvBut(X, Y), NEW r \in Runs, MarkSearchable(r)
    PROVE  IndexInvBut(X, Y)'
<1>1. /\ pc[r] = "searchable"
      /\ pc'[r] \in {"ready", "indexed"}
      BY GotoAt DEF MarkSearchable
<1>2. w'[r] = w[r]
      BY DEF MarkSearchable
<1>3. UNCHANGED <<hashStore, lance, text, torn>>
      BY DEF MarkSearchable, vectors, keyword
<1>4. HashInv' /\ VectorsBut(X)' /\ TextBut(Y)'
      BY <1>3, StoresKept
<1>5. WriterInv(r)' /\ QuietInv(r)'
  <2>1. writer' = writer /\ WriterInv(r)
        BY DEF MarkSearchable, IndexInvBut, RunInv
  <2> QED
      BY <1>1, <2>1 DEF WriterInv, QuietInv, Locked, DeepPCs
<1>6. QueueInv(r)'
  <2>1. QueueInv(r)
        BY DEF IndexInvBut, RunInv
  <2>2. InFlight(w'[r]) = InFlight(w[r])
        BY <1>2 DEF InFlight
  <2> QED
      BY <1>1, <1>2, <1>3, <2>1, <2>2
      DEF QueueInv, IsPending, DeepPCs, BatchPCs, Committed
<1>7. VectorsInv(r)'
      BY <1>1, <1>2, <1>3 DEF IndexInvBut, RunInv, VectorsInv, DeepPCs, LanceChunks
<1>8. TextInv(r)'
      BY <1>1, <1>2, <1>3 DEF IndexInvBut, RunInv, TextInv, DeepPCs, Committed
<1>9. pc[r] \in Locked \/ UNCHANGED <<hashStore, lance, text, torn>>
      BY <1>1, <1>3 DEF Locked, DeepPCs
<1>f. /\ \A s \in Runs \ {r} : pc'[s] = pc[s] /\ w'[s] = w[s]
      /\ writer' = writer \/ writer \in {r, NoRun}
      BY GotoAt DEF MarkSearchable
<1> QED
    BY <1>f, <1>4, <1>5, <1>6, <1>7, <1>8, <1>9, Frame DEF RunInv

(* The ready marker is written.                                            *)
LEMMA MarkReadyInv ==
    ASSUME NEW X, NEW Y, TypeOK, IndexInvBut(X, Y), NEW r \in Runs, MarkReady(r)
    PROVE  IndexInvBut(X, Y)'
<1>1. /\ pc[r] = "ready"
      /\ pc'[r] \in {"full", "indexed"}
      BY GotoAt DEF MarkReady
<1>2. w'[r] = w[r]
      BY DEF MarkReady
<1>3. UNCHANGED <<hashStore, lance, text, torn>>
      BY DEF MarkReady, vectors, keyword
<1>4. HashInv' /\ VectorsBut(X)' /\ TextBut(Y)'
      BY <1>3, StoresKept
<1>5. WriterInv(r)' /\ QuietInv(r)'
  <2>1. writer' = writer /\ WriterInv(r)
        BY DEF MarkReady, IndexInvBut, RunInv
  <2> QED
      BY <1>1, <2>1 DEF WriterInv, QuietInv, Locked, DeepPCs
<1>6. QueueInv(r)'
  <2>1. QueueInv(r)
        BY DEF IndexInvBut, RunInv
  <2>2. InFlight(w'[r]) = InFlight(w[r])
        BY <1>2 DEF InFlight
  <2> QED
      BY <1>1, <1>2, <1>3, <2>1, <2>2
      DEF QueueInv, IsPending, DeepPCs, BatchPCs, Committed
<1>7. VectorsInv(r)'
      BY <1>1, <1>2, <1>3 DEF IndexInvBut, RunInv, VectorsInv, DeepPCs, LanceChunks
<1>8. TextInv(r)'
      BY <1>1, <1>2, <1>3 DEF IndexInvBut, RunInv, TextInv, DeepPCs, Committed
<1>9. pc[r] \in Locked \/ UNCHANGED <<hashStore, lance, text, torn>>
      BY <1>1, <1>3 DEF Locked, DeepPCs
<1>f. /\ \A s \in Runs \ {r} : pc'[s] = pc[s] /\ w'[s] = w[s]
      /\ writer' = writer \/ writer \in {r, NoRun}
      BY GotoAt DEF MarkReady
<1> QED
    BY <1>f, <1>4, <1>5, <1>6, <1>7, <1>8, <1>9, Frame DEF RunInv

(* The full index is recorded.                                             *)
LEMMA MarkFullInv ==
    ASSUME NEW X, NEW Y, TypeOK, IndexInvBut(X, Y), NEW r \in Runs, MarkFull(r)
    PROVE  IndexInvBut(X, Y)'
<1>1. /\ pc[r] = "full"
      /\ pc'[r] = "indexed"
      BY GotoAt DEF MarkFull
<1>2. /\ w'[r].todo = w[r].todo
      /\ w'[r].cur = w[r].cur
      /\ w'[r].seen = w[r].seen
      /\ w'[r].got = w[r].got
      /\ w'[r].queue = w[r].queue
      /\ w'[r].batch = w[r].batch
      /\ w'[r].rows = w[r].rows
      /\ w'[r].done = w[r].done
      /\ w'[r].touched = w[r].touched
      /\ w'[r].ops = w[r].ops
  <2>1. w[r] \in Locals
        BY DEF TypeOK
  <2>2. w'[r] = [w[r] EXCEPT !.meta.full = TRUE]
        BY LocallyAt DEF MarkFull
  <2> QED
      BY <1>1, <2>1, <2>2 DEF Locals
<1>3. UNCHANGED <<hashStore, lance, text, torn>>
      BY DEF MarkFull, vectors, keyword
<1>4. HashInv' /\ VectorsBut(X)' /\ TextBut(Y)'
      BY <1>3, StoresKept
<1>5. WriterInv(r)' /\ QuietInv(r)'
  <2>1. writer' = writer /\ WriterInv(r)
        BY DEF MarkFull, IndexInvBut, RunInv
  <2> QED
      BY <1>1, <2>1 DEF WriterInv, QuietInv, Locked, DeepPCs
<1>6. QueueInv(r)'
  <2>1. QueueInv(r)
        BY DEF IndexInvBut, RunInv
  <2>2. InFlight(w'[r]) = InFlight(w[r])
        BY <1>2 DEF InFlight
  <2> QED
      BY <1>1, <1>2, <1>3, <2>1, <2>2
      DEF QueueInv, IsPending, DeepPCs, BatchPCs, Committed
<1>7. VectorsInv(r)'
      BY <1>1, <1>2, <1>3 DEF IndexInvBut, RunInv, VectorsInv, DeepPCs, LanceChunks
<1>8. TextInv(r)'
      BY <1>1, <1>2, <1>3 DEF IndexInvBut, RunInv, TextInv, DeepPCs, Committed
<1>9. pc[r] \in Locked \/ UNCHANGED <<hashStore, lance, text, torn>>
      BY <1>1, <1>3 DEF Locked, DeepPCs
<1>f. /\ \A s \in Runs \ {r} : pc'[s] = pc[s] /\ w'[s] = w[s]
      /\ writer' = writer \/ writer \in {r, NoRun}
      BY GotoAt, LocallyAt DEF MarkFull
<1> QED
    BY <1>f, <1>4, <1>5, <1>6, <1>7, <1>8, <1>9, Frame DEF RunInv

(* A finished file becomes indexed: here everything is needed.             *)
LEMMA SetIndexedInv ==
    ASSUME NEW X, NEW Y, TypeOK, IndexInvBut(X, Y), NEW r \in Runs, NEW f \in Files, SetIndexed(r, f)
    PROVE  IndexInvBut(X, Y)'
<1>1. /\ pc[r] = "indexed" /\ pc'[r] = "indexed"
      /\ f \in w[r].done
      BY GotoAt DEF SetIndexed
<1>2. /\ w'[r].todo = w[r].todo
      /\ w'[r].cur = w[r].cur
      /\ w'[r].seen = w[r].seen
      /\ w'[r].got = w[r].got
      /\ w'[r].queue = w[r].queue
      /\ w'[r].batch = w[r].batch
      /\ w'[r].rows = w[r].rows
      /\ w'[r].done = w[r].done \ {f}
      /\ w'[r].touched = w[r].touched
      /\ w'[r].ops = w[r].ops
  <2>1. w[r] \in Locals
        BY DEF TypeOK
  <2>2. w'[r] = [w[r] EXCEPT !.done = @ \ {f}]
        BY LocallyAt DEF SetIndexed
  <2> QED
      BY <1>1, <2>1, <2>2 DEF Locals
<1>3. /\ UNCHANGED <<lance, text, torn>>
      /\ QueueInv(r) /\ VectorsInv(r) /\ TextInv(r) /\ w[r] \in Locals
      /\ hashStore'[f] = [hash |-> w[r].seen[f], status |-> "indexed"]
      /\ \A g \in Files \ {f} : hashStore'[g] = hashStore[g]
      BY DEF SetIndexed, SetHash, vectors, keyword, IndexInvBut, RunInv, TypeOK
<1>4. HashInv' /\ VectorsBut(X)' /\ TextBut(Y)'
  <2>1. /\ w[r].seen[f] \in Contents /\ w[r].got[f] \in Contents
        /\ f \notin torn => w[r].got[f] = w[r].seen[f]
        BY <1>1, <1>3 DEF QueueInv, InFlight, IsPending, DeepPCs
  <2>2. /\ LanceChunks(f) = ChunksOf[w[r].got[f]]
        /\ text[f] = DeepRows(w[r].got[f])
        BY <1>1, <1>3 DEF VectorsInv, TextInv, DeepPCs, Committed
  <2>3. /\ hashStore'[f].hash = w[r].seen[f]
        /\ \A g \in Files : LanceChunks(g)' = LanceChunks(g)
        BY <1>3 DEF LanceChunks
  <2>4. HashInv'
        BY <1>3, <2>1, <2>3 DEF IndexInvBut, HashInv, Indexed
  <2>5. VectorsBut(X)'
        BY <1>3, <2>1, <2>2, <2>3 DEF IndexInvBut, VectorsBut, Indexed
  <2>6. TextBut(Y)'
        BY <1>3, <2>1, <2>2, <2>3 DEF IndexInvBut, TextBut, Indexed
  <2> QED
      BY <2>4, <2>5, <2>6
<1>5. WriterInv(r)' /\ QuietInv(r)'
  <2>1. writer' = writer /\ WriterInv(r)
        BY DEF SetIndexed, IndexInvBut, RunInv
  <2> QED
      BY <1>1, <2>1 DEF WriterInv, QuietInv, Locked, DeepPCs
<1>6. QueueInv(r)'
  <2>1. f \notin InFlight(w'[r]) /\ InFlight(w'[r]) \subseteq InFlight(w[r])
        BY <1>1, <1>2, <1>3 DEF QueueInv, InFlight, DeepPCs
  <2>2. \A g \in InFlight(w'[r]) : hashStore'[g] = hashStore[g]
        BY <1>3, <2>1 DEF InFlight, Locals
  <2>3. \A g \in InFlight(w'[r]) :
            /\ IsPending(w[r], g)'
            /\ w'[r].got[g] \in Contents
            /\ g \notin torn' => w'[r].got[g] = w'[r].seen[g]
        BY <1>1, <1>2, <1>3, <2>1, <2>2 DEF QueueInv, IsPending, DeepPCs
  <2> QED
      BY <1>1, <1>2, <1>3, <2>1, <2>3 DEF QueueInv, DeepPCs, Committed, BatchPCs
<1>7. VectorsInv(r)'
      BY <1>1, <1>2, <1>3 DEF IndexInvBut, RunInv, VectorsInv, DeepPCs, LanceChunks
<1>8. TextInv(r)'
  <2>1. w[r].touched = {} /\ \A g \in w[r].done : text[g] = DeepRows(w[r].got[g])
        BY <1>1, <1>3 DEF TextInv, DeepPCs, Committed
  <2> QED
      BY <1>1, <1>2, <1>3, <2>1 DEF TextInv, Committed
<1>9. pc[r] \in Locked \/ UNCHANGED <<hashStore, lance, text, torn>>
      BY <1>1, <1>3 DEF Locked, DeepPCs
<1>f. /\ \A s \in Runs \ {r} : pc'[s] = pc[s] /\ w'[s] = w[s]
      /\ writer' = writer \/ writer \in {r, NoRun}
      BY LocallyAt DEF SetIndexed
<1> QED
    BY <1>f, <1>4, <1>5, <1>6, <1>7, <1>8, <1>9, Frame DEF RunInv

-----------------------------------------------------------------------------
(* Every step keeps the invariant: one step of the proof per action.       *)
LEMMA InvNextBut ==
    ASSUME NEW X, NEW Y
    PROVE  TypeOK /\ IndexInvBut(X, Y) /\ [Next]_vars => IndexInvBut(X, Y)'
<1> SUFFICES ASSUME TypeOK, IndexInvBut(X, Y), [Next]_vars PROVE IndexInvBut(X, Y)'
    OBVIOUS
<1>1. CASE UNCHANGED vars
      BY <1>1, UnmovedInv DEF vars
<1>2. ASSUME NEW e \in Edits, Edit(e[1], e[2]) PROVE IndexInvBut(X, Y)'
      BY <1>2, UnmovedInv DEF Edit, vectors, keyword
<1>3. ASSUME NEW r \in Runs, NEW q \in Requests, Start(r, q) PROVE IndexInvBut(X, Y)'
      BY <1>3, StartInv
<1>4. ASSUME NEW r \in Runs, Stop(r) PROVE IndexInvBut(X, Y)'
      BY <1>4, ReturnInv DEF Stop, vectors, keyword
<1>5. ASSUME NEW r \in Runs, WriterBusy(r) PROVE IndexInvBut(X, Y)'
      BY <1>5, ReturnInv DEF WriterBusy, vectors, keyword
<1>6. ASSUME NEW r \in Runs, ModelMismatch(r) PROVE IndexInvBut(X, Y)'
      BY <1>6, ReturnInv DEF ModelMismatch, vectors, keyword
<1>7. ASSUME NEW r \in Runs, NEW f \in Files, HashFileFails(r, f) PROVE IndexInvBut(X, Y)'
      BY <1>7, ReturnInv DEF HashFileFails, vectors, keyword
<1>8. ASSUME NEW r \in Runs, EmbedderRefused(r) PROVE IndexInvBut(X, Y)'
      BY <1>8, ReturnInv DEF EmbedderRefused, vectors, keyword
<1>9. ASSUME NEW r \in Runs, Finish(r) PROVE IndexInvBut(X, Y)'
      BY <1>9, ReturnInv DEF Finish, vectors, keyword
<1>10. ASSUME NEW r \in Runs, ShallowOpen(r) PROVE IndexInvBut(X, Y)'
      BY <1>10, ShallowOpenInv
<1>11. ASSUME NEW r \in Runs, NEW unreadable \in SUBSET Files, ShallowRead(r, unreadable) PROVE IndexInvBut(X, Y)'
      BY <1>11, ShallowReadInv
<1>12. ASSUME NEW r \in Runs, ShallowCommit(r) PROVE IndexInvBut(X, Y)'
      BY <1>12, ShallowCommitInv
<1>13. ASSUME NEW r \in Runs, ShallowMark(r) PROVE IndexInvBut(X, Y)'
      BY <1>13, ShallowMarkInv
<1>14. ASSUME NEW r \in Runs, OpenExisting(r) PROVE IndexInvBut(X, Y)'
      BY <1>14, OpenExistingInv
<1>15. ASSUME NEW r \in Runs, OpenNew(r) PROVE IndexInvBut(X, Y)'
      BY <1>15, OpenNewInv
<1>36. ASSUME NEW r \in Runs, NoStore(r) PROVE IndexInvBut(X, Y)'
      BY <1>36, NoStoreInv
<1>16. ASSUME NEW r \in Runs, CreateTable(r) PROVE IndexInvBut(X, Y)'
      BY <1>16, CreateTableInv
<1>17. ASSUME NEW r \in Runs, OpenText(r) PROVE IndexInvBut(X, Y)'
      BY <1>17, OpenTextInv
<1>18. ASSUME NEW r \in Runs, NEW f \in Files, SkipUnchanged(r, f) PROVE IndexInvBut(X, Y)'
      BY <1>18, SkipUnchangedInv
<1>19. ASSUME NEW r \in Runs, NEW f \in Files, Gate(r, f) PROVE IndexInvBut(X, Y)'
      BY <1>19, GateInv
<1>20. ASSUME NEW r \in Runs, ReadFile(r) PROVE IndexInvBut(X, Y)'
      BY <1>20, ReadFileInv
<1>21. ASSUME NEW r \in Runs, ReadFileFails(r) PROVE IndexInvBut(X, Y)'
      BY <1>21, ReadFileFailsInv
<1>22. ASSUME NEW r \in Runs, GateDone(r) PROVE IndexInvBut(X, Y)'
      BY <1>22, GateDoneInv
<1>23. ASSUME NEW r \in Runs, NEW B \in SUBSET Files, TakeBatch(r, B) PROVE IndexInvBut(X, Y)'
      BY <1>23, TakeBatchInv
<1>24. ASSUME NEW r \in Runs, DeleteRows(r) PROVE IndexInvBut(X, Y)'
      BY <1>24, DeleteRowsInv
<1>25. ASSUME NEW r \in Runs, Embed(r) PROVE IndexInvBut(X, Y)'
      BY <1>25, EmbedInv
<1>26. ASSUME NEW r \in Runs, NEW S \in SUBSET w[r].rows, InsertSlice(r, S) PROVE IndexInvBut(X, Y)'
      BY <1>26, InsertSliceInv
<1>27. ASSUME NEW r \in Runs, BatchFails(r) PROVE IndexInvBut(X, Y)'
      BY <1>27, BatchFailsInv
<1>28. ASSUME NEW r \in Runs, NEW f \in Files, QueueText(r, f) PROVE IndexInvBut(X, Y)'
      BY <1>28, QueueTextInv
<1>29. ASSUME NEW r \in Runs, NEW f \in Files, QueueTextFails(r, f) PROVE IndexInvBut(X, Y)'
      BY <1>29, QueueTextFailsInv
<1>30. ASSUME NEW r \in Runs, BatchDone(r) PROVE IndexInvBut(X, Y)'
      BY <1>30, BatchDoneInv
<1>31. ASSUME NEW r \in Runs, CommitText(r) PROVE IndexInvBut(X, Y)'
      BY <1>31, CommitTextInv
<1>32. ASSUME NEW r \in Runs, MarkSearchable(r) PROVE IndexInvBut(X, Y)'
      BY <1>32, MarkSearchableInv
<1>33. ASSUME NEW r \in Runs, MarkReady(r) PROVE IndexInvBut(X, Y)'
      BY <1>33, MarkReadyInv
<1>34. ASSUME NEW r \in Runs, MarkFull(r) PROVE IndexInvBut(X, Y)'
      BY <1>34, MarkFullInv
<1>35. ASSUME NEW r \in Runs, NEW f \in Files, SetIndexed(r, f) PROVE IndexInvBut(X, Y)'
      BY <1>35, SetIndexedInv
<1> QED
    BY <1>1, <1>2, <1>3, <1>4, <1>5, <1>6, <1>7, <1>8, <1>9, <1>10, <1>11,
       <1>12, <1>13, <1>14, <1>15, <1>16, <1>17, <1>18, <1>19, <1>20, <1>21,
       <1>22, <1>23, <1>24, <1>25, <1>26, <1>27, <1>28, <1>29, <1>30, <1>31,
       <1>32, <1>33, <1>34, <1>35, <1>36
    DEF Next, Environment, RunStep, ShallowStep, OpenStep, GateStep,
        BatchStep, EndStep

(* In the pipeline itself nothing is ever missing.                         *)
LEMMA InvInit == Init => IndexInv
BY InvInitBut, NothingMissing

LEMMA InvNext == TypeOK /\ IndexInv /\ [Next]_vars => IndexInv'
BY InvNextBut, NothingMissing

-----------------------------------------------------------------------------
(* The results.                                                            *)

(* The types and the invariant hold in every reachable state, however many *)
(* runs overlap, stop or fail and whatever is edited meanwhile.            *)
THEOREM IndexInvariant == Spec => [](TypeOK /\ IndexInv)
<1>1. Init => TypeOK /\ IndexInv
      BY TypeInit, InvInit
<1>2. TypeOK /\ IndexInv /\ [Next]_vars => TypeOK' /\ IndexInv'
      BY TypeNext, InvNext DEF IndexInv, CoreInv
<1> QED
    BY <1>1, <1>2, PTL DEF Spec

(* Every variable keeps its type.                                          *)
THEOREM TypeCorrect == Spec => []TypeOK
BY IndexInvariant, PTL

(* A file the hash store calls indexed has exactly its chunks in Lance.    *)
THEOREM IndexedFilesHaveVectors == Spec => []IndexedHasVectors
<1>1. IndexInv => IndexedHasVectors
      BY DEF IndexInv
<1> QED
    BY <1>1, IndexInvariant, PTL

(* ... and its deep rows, or the one shallow row of a later pass, in       *)
(* Tantivy.                                                                *)
THEOREM IndexedFilesHaveText == Spec => []IndexedHasText
<1>1. IndexInv => IndexedHasText
      BY DEF IndexInv
<1> QED
    BY <1>1, IndexInvariant, PTL

-----------------------------------------------------------------------------
(* The markers.                                                            *)

LEMMA MarkersInit == Init => MarkersInv
BY DEF Init, MarkersInv, FullNeedsReady, NoMeta, Idle, NewLocals

(* What a step of run r owes: markers stay, and a full mark, on disk or in *)
(* r's copy of the meta, comes from one that was there, or from the end of *)
(* r with both markers set.                                                *)
LEMMA MarkersFrame ==
    ASSUME MarkersInv, NEW r \in Runs,
           \A s \in Runs \ {r} : pc'[s] = pc[s] /\ w'[s] = w[s],
           (ready => ready') /\ (searchable => searchable'),
           ready' => ready \/ pc[r] = "ready",
           metaFile'.full => metaFile.full \/ w[r].meta.full \/ pc[r] = "full",
           w'[r].meta.full => metaFile.full \/ w[r].meta.full \/ pc[r] = "full",
           pc'[r] \in {"ready", "indexed"} =>
               searchable' \/ pc[r] \in {"ready", "full", "indexed"},
           pc'[r] = "full" => ready' \/ pc[r] = "full"
    PROVE  MarkersInv'
<1>1. metaFile.full \/ w[r].meta.full \/ pc[r] = "full" => ready /\ searchable
      BY DEF MarkersInv, FullNeedsReady
<1>0. ready => searchable
      BY DEF MarkersInv
<1>2. pc[r] \in {"ready", "full", "indexed"} => searchable
      BY DEF MarkersInv
<1>3. \A s \in Runs \ {r} :
          /\ w'[s].meta.full => ready' /\ searchable'
          /\ pc'[s] \in {"ready", "indexed"} => searchable'
          /\ pc'[s] = "full" => ready' /\ searchable'
      BY DEF MarkersInv
<1> QED
    BY <1>0, <1>1, <1>2, <1>3 DEF MarkersInv, FullNeedsReady

LEMMA MarkersNext == TypeOK /\ MarkersInv /\ [Next]_vars => MarkersInv'
<1> SUFFICES ASSUME TypeOK, MarkersInv, [Next]_vars PROVE MarkersInv'
    OBVIOUS
<1>w. \A r \in Runs : w[r] \in Locals
      BY DEF TypeOK
<1>1. CASE UNCHANGED vars
      BY <1>1 DEF MarkersInv, FullNeedsReady, vars
<1>2. ASSUME NEW e \in Edits, Edit(e[1], e[2]) PROVE MarkersInv'
      BY <1>2 DEF MarkersInv, FullNeedsReady, Edit, vectors, keyword
<1>3. ASSUME NEW r \in Runs, NEW q \in Requests, Start(r, q)
      PROVE  MarkersInv'
  <2>1. ~w'[r].meta.full /\ pc'[r] \notin {"ready", "full", "indexed"}
        BY <1>3, GotoAt, LocallyAt DEF Start, NewLocals, NoMeta
  <2>2. \A s \in Runs \ {r} : pc'[s] = pc[s] /\ w'[s] = w[s]
        BY <1>3, GotoAt, LocallyAt DEF Start
  <2>3. UNCHANGED <<ready, searchable, metaFile>>
        BY <1>3 DEF Start, vectors, keyword
  <2> QED
      BY <2>1, <2>2, <2>3, MarkersFrame
<1>4. ASSUME NEW r \in Runs, Stop(r)
      PROVE  MarkersInv'
  <2>1. ~w'[r].meta.full /\ pc'[r] \notin {"ready", "full", "indexed"}
        BY <1>4, GotoAt, LocallyAt DEF Stop, Return, Idle, NewLocals, NoMeta
  <2>2. \A s \in Runs \ {r} : pc'[s] = pc[s] /\ w'[s] = w[s]
        BY <1>4, GotoAt, LocallyAt DEF Stop, Return
  <2>3. UNCHANGED <<ready, searchable, metaFile>>
        BY <1>4 DEF Stop, vectors, keyword
  <2> QED
      BY <2>1, <2>2, <2>3, MarkersFrame
<1>5. ASSUME NEW r \in Runs, WriterBusy(r)
      PROVE  MarkersInv'
  <2>1. ~w'[r].meta.full /\ pc'[r] \notin {"ready", "full", "indexed"}
        BY <1>5, GotoAt, LocallyAt DEF WriterBusy, Return, Idle, NewLocals, NoMeta
  <2>2. \A s \in Runs \ {r} : pc'[s] = pc[s] /\ w'[s] = w[s]
        BY <1>5, GotoAt, LocallyAt DEF WriterBusy, Return
  <2>3. UNCHANGED <<ready, searchable, metaFile>>
        BY <1>5 DEF WriterBusy, vectors, keyword
  <2> QED
      BY <2>1, <2>2, <2>3, MarkersFrame
<1>6. ASSUME NEW r \in Runs, ModelMismatch(r)
      PROVE  MarkersInv'
  <2>1. ~w'[r].meta.full /\ pc'[r] \notin {"ready", "full", "indexed"}
        BY <1>6, GotoAt, LocallyAt DEF ModelMismatch, Return, Idle, NewLocals, NoMeta
  <2>2. \A s \in Runs \ {r} : pc'[s] = pc[s] /\ w'[s] = w[s]
        BY <1>6, GotoAt, LocallyAt DEF ModelMismatch, Return
  <2>3. UNCHANGED <<ready, searchable, metaFile>>
        BY <1>6 DEF ModelMismatch, vectors, keyword
  <2> QED
      BY <2>1, <2>2, <2>3, MarkersFrame
<1>7. ASSUME NEW r \in Runs, NEW f \in Files, HashFileFails(r, f)
      PROVE  MarkersInv'
  <2>1. ~w'[r].meta.full /\ pc'[r] \notin {"ready", "full", "indexed"}
        BY <1>7, GotoAt, LocallyAt DEF HashFileFails, Return, Idle, NewLocals, NoMeta
  <2>2. \A s \in Runs \ {r} : pc'[s] = pc[s] /\ w'[s] = w[s]
        BY <1>7, GotoAt, LocallyAt DEF HashFileFails, Return
  <2>3. UNCHANGED <<ready, searchable, metaFile>>
        BY <1>7 DEF HashFileFails, vectors, keyword
  <2> QED
      BY <2>1, <2>2, <2>3, MarkersFrame
<1>8. ASSUME NEW r \in Runs, EmbedderRefused(r)
      PROVE  MarkersInv'
  <2>1. ~w'[r].meta.full /\ pc'[r] \notin {"ready", "full", "indexed"}
        BY <1>8, GotoAt, LocallyAt DEF EmbedderRefused, Return, Idle, NewLocals, NoMeta
  <2>2. \A s \in Runs \ {r} : pc'[s] = pc[s] /\ w'[s] = w[s]
        BY <1>8, GotoAt, LocallyAt DEF EmbedderRefused, Return
  <2>3. UNCHANGED <<ready, searchable, metaFile>>
        BY <1>8 DEF EmbedderRefused, vectors, keyword
  <2> QED
      BY <2>1, <2>2, <2>3, MarkersFrame
<1>9. ASSUME NEW r \in Runs, Finish(r)
      PROVE  MarkersInv'
  <2>1. ~w'[r].meta.full /\ pc'[r] \notin {"ready", "full", "indexed"}
        BY <1>9, GotoAt, LocallyAt DEF Finish, Return, Idle, NewLocals, NoMeta
  <2>2. \A s \in Runs \ {r} : pc'[s] = pc[s] /\ w'[s] = w[s]
        BY <1>9, GotoAt, LocallyAt DEF Finish, Return
  <2>3. UNCHANGED <<ready, searchable, metaFile>>
        BY <1>9 DEF Finish, vectors, keyword
  <2> QED
      BY <2>1, <2>2, <2>3, MarkersFrame
<1>10. ASSUME NEW r \in Runs, ShallowOpen(r)
      PROVE  MarkersInv'
  <2>1. w'[r].meta = w[r].meta
        BY <1>10 DEF ShallowOpen
  <2>2. pc'[r] \notin {"ready", "full", "indexed"}
        BY <1>10, GotoAt DEF ShallowOpen
  <2>3. \A s \in Runs \ {r} : pc'[s] = pc[s] /\ w'[s] = w[s]
        BY <1>10, GotoAt, LocallyAt DEF ShallowOpen
  <2>4. UNCHANGED <<ready, searchable, metaFile>>
        BY <1>10 DEF ShallowOpen, vectors, keyword
  <2> QED
      BY <2>1, <2>2, <2>3, <2>4, MarkersFrame
<1>11. ASSUME NEW r \in Runs, NEW unreadable \in SUBSET Files, ShallowRead(r, unreadable)
      PROVE  MarkersInv'
  <2>1. w'[r].meta = w[r].meta
    <3>1. w'[r] = [w[r] EXCEPT !.touched = Collected(w[r].req) \ unreadable,
                  !.ops = [f \in Files |-> IF disk[f] = Absent THEN {} ELSE
                  ShallowRows(disk[f])]]
          BY <1>11, LocallyAt DEF ShallowRead
    <3> QED
        BY <1>w, <3>1 DEF Locals
  <2>2. pc'[r] \notin {"ready", "full", "indexed"}
        BY <1>11, GotoAt DEF ShallowRead
  <2>3. \A s \in Runs \ {r} : pc'[s] = pc[s] /\ w'[s] = w[s]
        BY <1>11, GotoAt, LocallyAt DEF ShallowRead
  <2>4. UNCHANGED <<ready, searchable, metaFile>>
        BY <1>11 DEF ShallowRead, vectors, keyword
  <2> QED
      BY <2>1, <2>2, <2>3, <2>4, MarkersFrame
<1>12. ASSUME NEW r \in Runs, ShallowCommit(r)
      PROVE  MarkersInv'
  <2>1. ~w'[r].meta.full
        BY <1>12, LocallyAt DEF ShallowCommit, NewLocals, NoMeta
  <2>2. pc'[r] \notin {"ready", "full", "indexed"}
        BY <1>12, GotoAt DEF ShallowCommit
  <2>3. \A s \in Runs \ {r} : pc'[s] = pc[s] /\ w'[s] = w[s]
        BY <1>12, GotoAt, LocallyAt DEF ShallowCommit
  <2>4. UNCHANGED <<ready, searchable, metaFile>>
        BY <1>12 DEF ShallowCommit, vectors, keyword
  <2> QED
      BY <2>1, <2>2, <2>3, <2>4, MarkersFrame
<1>13. ASSUME NEW r \in Runs, ShallowMark(r)
      PROVE  MarkersInv'
  <2>1. w'[r].meta = w[r].meta
        BY <1>13 DEF ShallowMark
  <2>2. pc'[r] \notin {"ready", "full", "indexed"}
        BY <1>13, GotoAt DEF ShallowMark
  <2>3. \A s \in Runs \ {r} : pc'[s] = pc[s] /\ w'[s] = w[s]
        BY <1>13, GotoAt, LocallyAt DEF ShallowMark
  <2>4. UNCHANGED <<ready, metaFile>> /\ searchable'
        BY <1>13 DEF ShallowMark, vectors, keyword
  <2> QED
      BY <2>1, <2>2, <2>3, <2>4, MarkersFrame
<1>14. ASSUME NEW r \in Runs, OpenExisting(r)
      PROVE  MarkersInv'
  <2>1. w'[r].meta.full = metaFile.full
    <3>1. w'[r] = [w[r] EXCEPT !.scope = Collected(w[r].req), !.todo =
                  Collected(w[r].req), !.meta = metaFile, !.lazy = TRUE]
          BY <1>14, LocallyAt DEF OpenExisting
    <3>2. metaFile \in Meta
          BY DEF TypeOK
    <3> QED
        BY <1>w, <3>1, <3>2 DEF Locals, Meta
  <2>2. pc'[r] \notin {"ready", "full", "indexed"}
        BY <1>14, GotoAt DEF OpenExisting
  <2>3. \A s \in Runs \ {r} : pc'[s] = pc[s] /\ w'[s] = w[s]
        BY <1>14, GotoAt, LocallyAt DEF OpenExisting
  <2>4. UNCHANGED <<ready, searchable, metaFile>>
        BY <1>14 DEF OpenExisting, vectors, keyword
  <2> QED
      BY <2>1, <2>2, <2>3, <2>4, MarkersFrame
<1>36. ASSUME NEW r \in Runs, NoStore(r)
      PROVE  MarkersInv'
  <2>1. w'[r].meta = w[r].meta
    <3>1. w'[r] = [w[r] EXCEPT !.scope = Collected(w[r].req), !.todo =
                  Collected(w[r].req)]
          BY <1>36, LocallyAt DEF NoStore
    <3>2. metaFile \in Meta
          BY DEF TypeOK
    <3> QED
        BY <1>w, <3>1, <3>2 DEF Locals, Meta
  <2>2. pc'[r] \notin {"ready", "full", "indexed"}
        BY <1>36, GotoAt DEF NoStore
  <2>3. \A s \in Runs \ {r} : pc'[s] = pc[s] /\ w'[s] = w[s]
        BY <1>36, GotoAt, LocallyAt DEF NoStore
  <2>4. UNCHANGED <<ready, searchable, metaFile>>
        BY <1>36 DEF NoStore, vectors, keyword
  <2> QED
      BY <2>1, <2>2, <2>3, <2>4, MarkersFrame
<1>15. ASSUME NEW r \in Runs, OpenNew(r)
      PROVE  MarkersInv'
  <2>1. w'[r].meta.full = metaFile.full
    <3>1. w'[r] = [w[r] EXCEPT !.meta = [metaFile EXCEPT
                  !.model = w[r].req.model]]
          BY <1>15, LocallyAt DEF OpenNew
    <3>2. metaFile \in Meta
          BY DEF TypeOK
    <3> QED
        BY <1>w, <3>1, <3>2 DEF Locals, Meta
  <2>2. pc'[r] \notin {"ready", "full", "indexed"}
        BY <1>15, GotoAt DEF OpenNew
  <2>3. \A s \in Runs \ {r} : pc'[s] = pc[s] /\ w'[s] = w[s]
        BY <1>15, GotoAt, LocallyAt DEF OpenNew
  <2>4. UNCHANGED <<ready, searchable, metaFile>>
        BY <1>15 DEF OpenNew, vectors, keyword
  <2> QED
      BY <2>1, <2>2, <2>3, <2>4, MarkersFrame
<1>16. ASSUME NEW r \in Runs, CreateTable(r)
      PROVE  MarkersInv'
  <2>1. w'[r].meta = w[r].meta
        BY <1>16 DEF CreateTable
  <2>2. pc'[r] \notin {"ready", "full", "indexed"}
        BY <1>16, GotoAt DEF CreateTable
  <2>3. \A s \in Runs \ {r} : pc'[s] = pc[s] /\ w'[s] = w[s]
        BY <1>16, GotoAt, LocallyAt DEF CreateTable
  <2>4. /\ UNCHANGED <<ready, searchable>>
        /\ metaFile' \in {metaFile, w[r].meta}
        BY <1>16 DEF CreateTable, vectors, keyword
  <2> QED
      BY <2>1, <2>2, <2>3, <2>4, MarkersFrame
<1>17. ASSUME NEW r \in Runs, OpenText(r)
      PROVE  MarkersInv'
  <2>1. w'[r].meta = w[r].meta
    <3>1. w'[r] = [w[r] EXCEPT !.force = w[r].req.force \/ ~ready, !.mark =
                  ready \/ w[r].req.full]
          BY <1>17, LocallyAt DEF OpenText
    <3> QED
        BY <1>w, <3>1 DEF Locals
  <2>2. pc'[r] \notin {"ready", "full", "indexed"}
        BY <1>17, GotoAt DEF OpenText
  <2>3. \A s \in Runs \ {r} : pc'[s] = pc[s] /\ w'[s] = w[s]
        BY <1>17, GotoAt, LocallyAt DEF OpenText
  <2>4. UNCHANGED <<ready, searchable, metaFile>>
        BY <1>17 DEF OpenText, vectors, keyword
  <2> QED
      BY <2>1, <2>2, <2>3, <2>4, MarkersFrame
<1>18. ASSUME NEW r \in Runs, NEW f \in Files, SkipUnchanged(r, f)
      PROVE  MarkersInv'
  <2>1. w'[r].meta = w[r].meta
    <3>1. w'[r] = [w[r] EXCEPT !.todo = @ \ {f}]
          BY <1>18, LocallyAt DEF SkipUnchanged
    <3> QED
        BY <1>w, <3>1 DEF Locals
  <2>2. UNCHANGED pc
        BY <1>18 DEF SkipUnchanged
  <2>3. \A s \in Runs \ {r} : pc'[s] = pc[s] /\ w'[s] = w[s]
        BY <1>18, GotoAt, LocallyAt DEF SkipUnchanged
  <2>4. UNCHANGED <<ready, searchable, metaFile>>
        BY <1>18 DEF SkipUnchanged, vectors, keyword
  <2> QED
      BY <2>1, <2>2, <2>3, <2>4, MarkersFrame
<1>19. ASSUME NEW r \in Runs, NEW f \in Files, Gate(r, f)
      PROVE  MarkersInv'
  <2>1. w'[r].meta = w[r].meta
    <3>1. w'[r] = [w[r] EXCEPT !.todo = @ \ {f}, !.cur = f, !.seen[f] =
                  disk[f]]
          BY <1>19, LocallyAt DEF Gate
    <3> QED
        BY <1>w, <3>1 DEF Locals
  <2>2. pc'[r] \notin {"ready", "full", "indexed"}
        BY <1>19, GotoAt DEF Gate
  <2>3. \A s \in Runs \ {r} : pc'[s] = pc[s] /\ w'[s] = w[s]
        BY <1>19, GotoAt, LocallyAt DEF Gate
  <2>4. UNCHANGED <<ready, searchable, metaFile>>
        BY <1>19 DEF Gate, vectors, keyword
  <2> QED
      BY <2>1, <2>2, <2>3, <2>4, MarkersFrame
<1>20. ASSUME NEW r \in Runs, ReadFile(r)
      PROVE  MarkersInv'
  <2>1. w'[r].meta = w[r].meta
    <3>1. w'[r] = [w[r] EXCEPT !.cur = NoFile, !.got[w[r].cur] =
                  disk[w[r].cur], !.queue = @ \cup {w[r].cur}]
          BY <1>20, LocallyAt DEF ReadFile
    <3> QED
        BY <1>w, <3>1 DEF Locals
  <2>2. pc'[r] \notin {"ready", "full", "indexed"}
        BY <1>20, GotoAt DEF ReadFile
  <2>3. \A s \in Runs \ {r} : pc'[s] = pc[s] /\ w'[s] = w[s]
        BY <1>20, GotoAt, LocallyAt DEF ReadFile
  <2>4. UNCHANGED <<ready, searchable, metaFile>>
        BY <1>20 DEF ReadFile, vectors, keyword
  <2> QED
      BY <2>1, <2>2, <2>3, <2>4, MarkersFrame
<1>21. ASSUME NEW r \in Runs, ReadFileFails(r)
      PROVE  MarkersInv'
  <2>1. w'[r].meta = w[r].meta
    <3>1. w'[r] = [w[r] EXCEPT !.cur = NoFile, !.failed = TRUE]
          BY <1>21, LocallyAt DEF ReadFileFails
    <3> QED
        BY <1>w, <3>1 DEF Locals
  <2>2. pc'[r] \notin {"ready", "full", "indexed"}
        BY <1>21, GotoAt DEF ReadFileFails
  <2>3. \A s \in Runs \ {r} : pc'[s] = pc[s] /\ w'[s] = w[s]
        BY <1>21, GotoAt, LocallyAt DEF ReadFileFails
  <2>4. UNCHANGED <<ready, searchable, metaFile>>
        BY <1>21 DEF ReadFileFails, vectors, keyword
  <2> QED
      BY <2>1, <2>2, <2>3, <2>4, MarkersFrame
<1>22. ASSUME NEW r \in Runs, GateDone(r)
      PROVE  MarkersInv'
  <2>1. w'[r].meta = w[r].meta
        BY <1>22 DEF GateDone
  <2>2. pc'[r] \notin {"ready", "full", "indexed"}
        BY <1>22, GotoAt DEF GateDone
  <2>3. \A s \in Runs \ {r} : pc'[s] = pc[s] /\ w'[s] = w[s]
        BY <1>22, GotoAt, LocallyAt DEF GateDone
  <2>4. UNCHANGED <<ready, searchable, metaFile>>
        BY <1>22 DEF GateDone, vectors, keyword
  <2> QED
      BY <2>1, <2>2, <2>3, <2>4, MarkersFrame
<1>23. ASSUME NEW r \in Runs, NEW B \in SUBSET Files, TakeBatch(r, B)
      PROVE  MarkersInv'
  <2>1. w'[r].meta = w[r].meta
    <3>1. w'[r] = [w[r] EXCEPT !.batch = B, !.queue = @ \ B]
          BY <1>23, LocallyAt DEF TakeBatch
    <3> QED
        BY <1>w, <3>1 DEF Locals
  <2>2. pc'[r] \notin {"ready", "full", "indexed"}
        BY <1>23, GotoAt DEF TakeBatch
  <2>3. \A s \in Runs \ {r} : pc'[s] = pc[s] /\ w'[s] = w[s]
        BY <1>23, GotoAt, LocallyAt DEF TakeBatch
  <2>4. UNCHANGED <<ready, searchable, metaFile>>
        BY <1>23 DEF TakeBatch, vectors, keyword
  <2> QED
      BY <2>1, <2>2, <2>3, <2>4, MarkersFrame
<1>24. ASSUME NEW r \in Runs, DeleteRows(r)
      PROVE  MarkersInv'
  <2>1. w'[r].meta = w[r].meta
    <3>1. w'[r] = [w[r] EXCEPT !.cache = UNION {lance[f] : f \in w[r].batch}]
          BY <1>24, LocallyAt DEF DeleteRows
    <3> QED
        BY <1>w, <3>1 DEF Locals
  <2>2. pc'[r] \notin {"ready", "full", "indexed"}
        BY <1>24, GotoAt DEF DeleteRows
  <2>3. \A s \in Runs \ {r} : pc'[s] = pc[s] /\ w'[s] = w[s]
        BY <1>24, GotoAt, LocallyAt DEF DeleteRows
  <2>4. /\ UNCHANGED <<ready, searchable>>
        /\ metaFile' \in {metaFile, w[r].meta}
        BY <1>24 DEF DeleteRows, vectors, keyword
  <2> QED
      BY <2>1, <2>2, <2>3, <2>4, MarkersFrame
<1>25. ASSUME NEW r \in Runs, Embed(r)
      PROVE  MarkersInv'
  <2>1. w'[r].meta = w[r].meta
    <3>1. w'[r] = [w[r] EXCEPT !.rows = PlannedRows(w[r]), !.cache = {}]
          BY <1>25, LocallyAt DEF Embed
    <3> QED
        BY <1>w, <3>1 DEF Locals
  <2>2. pc'[r] \notin {"ready", "full", "indexed"}
        BY <1>25, GotoAt DEF Embed
  <2>3. \A s \in Runs \ {r} : pc'[s] = pc[s] /\ w'[s] = w[s]
        BY <1>25, GotoAt, LocallyAt DEF Embed
  <2>4. UNCHANGED <<ready, searchable, metaFile>>
        BY <1>25 DEF Embed, vectors, keyword
  <2> QED
      BY <2>1, <2>2, <2>3, <2>4, MarkersFrame
<1>26. ASSUME NEW r \in Runs, NEW S \in SUBSET w[r].rows, InsertSlice(r, S)
      PROVE  MarkersInv'
  <2>1. w'[r].meta = w[r].meta
    <3>1. w'[r] = [w[r] EXCEPT !.rows = @ \ S]
          BY <1>26, LocallyAt DEF InsertSlice
    <3> QED
        BY <1>w, <3>1 DEF Locals
  <2>2. pc'[r] \notin {"ready", "full", "indexed"}
        BY <1>26, GotoAt DEF InsertSlice
  <2>3. \A s \in Runs \ {r} : pc'[s] = pc[s] /\ w'[s] = w[s]
        BY <1>26, GotoAt, LocallyAt DEF InsertSlice
  <2>4. /\ UNCHANGED <<ready, searchable>>
        /\ metaFile' \in {metaFile, w[r].meta}
        BY <1>26 DEF InsertSlice, vectors, keyword
  <2> QED
      BY <2>1, <2>2, <2>3, <2>4, MarkersFrame
<1>27. ASSUME NEW r \in Runs, BatchFails(r)
      PROVE  MarkersInv'
  <2>1. w'[r].meta = w[r].meta
    <3>1. w'[r] = [w[r] EXCEPT !.batch = {}, !.cache = {}, !.rows = {},
                  !.failed = TRUE]
          BY <1>27, LocallyAt DEF BatchFails
    <3> QED
        BY <1>w, <3>1 DEF Locals
  <2>2. pc'[r] \notin {"ready", "full", "indexed"}
        BY <1>27, GotoAt DEF BatchFails
  <2>3. \A s \in Runs \ {r} : pc'[s] = pc[s] /\ w'[s] = w[s]
        BY <1>27, GotoAt, LocallyAt DEF BatchFails
  <2>4. UNCHANGED <<ready, searchable, metaFile>>
        BY <1>27 DEF BatchFails, vectors, keyword
  <2> QED
      BY <2>1, <2>2, <2>3, <2>4, MarkersFrame
<1>28. ASSUME NEW r \in Runs, NEW f \in Files, QueueText(r, f)
      PROVE  MarkersInv'
  <2>1. w'[r].meta = w[r].meta
    <3>1. w'[r] = [w[r] EXCEPT !.batch = @ \ {f}, !.touched = @ \cup {f},
                  !.ops[f] = DeepRows(w[r].got[f]), !.done = @ \cup {f}]
          BY <1>28, LocallyAt DEF QueueText
    <3> QED
        BY <1>w, <3>1 DEF Locals
  <2>2. UNCHANGED pc
        BY <1>28 DEF QueueText
  <2>3. \A s \in Runs \ {r} : pc'[s] = pc[s] /\ w'[s] = w[s]
        BY <1>28, GotoAt, LocallyAt DEF QueueText
  <2>4. UNCHANGED <<ready, searchable, metaFile>>
        BY <1>28 DEF QueueText, vectors, keyword
  <2> QED
      BY <2>1, <2>2, <2>3, <2>4, MarkersFrame
<1>29. ASSUME NEW r \in Runs, NEW f \in Files, QueueTextFails(r, f)
      PROVE  MarkersInv'
  <2>1. w'[r].meta = w[r].meta
    <3>1. w'[r] = [w[r] EXCEPT !.batch = @ \ {f}, !.touched = @ \cup {f},
                  !.ops[f] = {}, !.failed = TRUE]
          BY <1>29, LocallyAt DEF QueueTextFails
    <3> QED
        BY <1>w, <3>1 DEF Locals
  <2>2. UNCHANGED pc
        BY <1>29 DEF QueueTextFails
  <2>3. \A s \in Runs \ {r} : pc'[s] = pc[s] /\ w'[s] = w[s]
        BY <1>29, GotoAt, LocallyAt DEF QueueTextFails
  <2>4. UNCHANGED <<ready, searchable, metaFile>>
        BY <1>29 DEF QueueTextFails, vectors, keyword
  <2> QED
      BY <2>1, <2>2, <2>3, <2>4, MarkersFrame
<1>30. ASSUME NEW r \in Runs, BatchDone(r)
      PROVE  MarkersInv'
  <2>1. w'[r].meta = w[r].meta
        BY <1>30 DEF BatchDone
  <2>2. pc'[r] \notin {"ready", "full", "indexed"}
        BY <1>30, GotoAt DEF BatchDone
  <2>3. \A s \in Runs \ {r} : pc'[s] = pc[s] /\ w'[s] = w[s]
        BY <1>30, GotoAt, LocallyAt DEF BatchDone
  <2>4. UNCHANGED <<ready, searchable, metaFile>>
        BY <1>30 DEF BatchDone, vectors, keyword
  <2> QED
      BY <2>1, <2>2, <2>3, <2>4, MarkersFrame
<1>31. ASSUME NEW r \in Runs, CommitText(r)
      PROVE  MarkersInv'
  <2>1. w'[r].meta = w[r].meta
    <3>1. w'[r] = [w[r] EXCEPT !.touched = {}, !.ops = [f \in Files |-> {}]]
          BY <1>31, LocallyAt DEF CommitText
    <3> QED
        BY <1>w, <3>1 DEF Locals
  <2>2. pc'[r] \notin {"ready", "full", "indexed"}
        BY <1>31, GotoAt DEF CommitText
  <2>3. \A s \in Runs \ {r} : pc'[s] = pc[s] /\ w'[s] = w[s]
        BY <1>31, GotoAt, LocallyAt DEF CommitText
  <2>4. UNCHANGED <<ready, searchable, metaFile>>
        BY <1>31 DEF CommitText, vectors, keyword
  <2> QED
      BY <2>1, <2>2, <2>3, <2>4, MarkersFrame
<1>32. ASSUME NEW r \in Runs, MarkSearchable(r)
      PROVE  MarkersInv'
  <2>1. w'[r].meta = w[r].meta
        BY <1>32 DEF MarkSearchable
  <2>2. pc'[r] \in {"ready", "indexed"} /\ searchable'
        BY <1>32, GotoAt DEF MarkSearchable
  <2>3. \A s \in Runs \ {r} : pc'[s] = pc[s] /\ w'[s] = w[s]
        BY <1>32, GotoAt, LocallyAt DEF MarkSearchable
  <2>4. UNCHANGED <<ready, metaFile>> /\ searchable'
        BY <1>32 DEF MarkSearchable, vectors, keyword
  <2> QED
      BY <2>1, <2>2, <2>3, <2>4, MarkersFrame
<1>33. ASSUME NEW r \in Runs, MarkReady(r)
      PROVE  MarkersInv'
  <2>1. w'[r].meta = w[r].meta
        BY <1>33 DEF MarkReady
  <2>2. pc'[r] \in {"full", "indexed"} /\ ready' /\ pc[r] = "ready"
        BY <1>33, GotoAt DEF MarkReady
  <2>3. \A s \in Runs \ {r} : pc'[s] = pc[s] /\ w'[s] = w[s]
        BY <1>33, GotoAt, LocallyAt DEF MarkReady
  <2>4. UNCHANGED <<searchable, metaFile>> /\ ready'
        BY <1>33 DEF MarkReady, vectors, keyword
  <2> QED
      BY <2>1, <2>2, <2>3, <2>4, MarkersFrame
<1>34. ASSUME NEW r \in Runs, MarkFull(r)
      PROVE  MarkersInv'
  <2>1. w[r].meta.full \in BOOLEAN /\ pc[r] = "full"
        BY <1>34, <1>w DEF MarkFull, Locals, Meta
  <2>2. pc'[r] = "indexed"
        BY <1>34, GotoAt DEF MarkFull
  <2>3. \A s \in Runs \ {r} : pc'[s] = pc[s] /\ w'[s] = w[s]
        BY <1>34, GotoAt, LocallyAt DEF MarkFull
  <2>4. UNCHANGED <<ready, searchable>>
        BY <1>34 DEF MarkFull, vectors, keyword
  <2> QED
      BY <2>1, <2>2, <2>3, <2>4, MarkersFrame
<1>35. ASSUME NEW r \in Runs, NEW f \in Files, SetIndexed(r, f)
      PROVE  MarkersInv'
  <2>1. w'[r].meta = w[r].meta
    <3>1. w'[r] = [w[r] EXCEPT !.done = @ \ {f}]
          BY <1>35, LocallyAt DEF SetIndexed
    <3> QED
        BY <1>w, <3>1 DEF Locals
  <2>2. UNCHANGED pc
        BY <1>35 DEF SetIndexed
  <2>3. \A s \in Runs \ {r} : pc'[s] = pc[s] /\ w'[s] = w[s]
        BY <1>35, GotoAt, LocallyAt DEF SetIndexed
  <2>4. UNCHANGED <<ready, searchable, metaFile>>
        BY <1>35 DEF SetIndexed, vectors, keyword
  <2> QED
      BY <2>1, <2>2, <2>3, <2>4, MarkersFrame
<1> QED
    BY <1>1, <1>2, <1>3, <1>4, <1>5, <1>6, <1>7, <1>8, <1>9, <1>10, <1>11,
       <1>12, <1>13, <1>14, <1>15, <1>16, <1>17, <1>18, <1>19, <1>20,
       <1>21, <1>22, <1>23, <1>24, <1>25, <1>26, <1>27, <1>28, <1>29,
       <1>30, <1>31, <1>32, <1>33, <1>34, <1>35, <1>36
    DEF Next, Environment, RunStep, ShallowStep, OpenStep, GateStep,
        BatchStep, EndStep

LEMMA MarkersInvariant == Spec => []MarkersInv
<1> QED
    BY MarkersInit, MarkersNext, TypeCorrect, PTL DEF Spec

(* A full mark on disk stands beside both text markers, so a server that   *)
(* starts on it finds both tiers.                                          *)
THEOREM FullMarkNeedsReady == Spec => []FullNeedsReady
<1>1. MarkersInv => FullNeedsReady
      BY DEF MarkersInv
<1> QED
    BY <1>1, MarkersInvariant, PTL

-----------------------------------------------------------------------------
(* The refinement of IndexContract.                                        *)

Trusted == [f \in Files |-> IF Indexed(f) /\ f \notin torn
                            THEN hashStore[f].hash ELSE Absent]
Rows    == [f \in Files |-> LanceChunks(f)]

(* Nothing is trusted at first, and there are no rows.                     *)
LEMMA ContractInit == Init => Vectors!ContractInit
BY DEF Init, Vectors!ContractInit, Indexed, LanceChunks

LEMMA ContractKept ==
    ASSUME UNCHANGED <<hashStore, lance, torn>>
    PROVE  UNCHANGED <<Trusted, Rows>>
BY DEF Trusted, Rows, Indexed, LanceChunks

(* A change of hash rows that are not indexed before or after does not     *)
(* show, whether their files were torn or not.                             *)
LEMMA StatusKept ==
    ASSUME NEW F \in SUBSET Files, UNCHANGED lance,
           \A f \in Files \ F : hashStore'[f] = hashStore[f],
           \A f \in Files \ F : f \in torn' <=> f \in torn,
           \A f \in F : hashStore[f].status # "indexed",
           \A f \in F : hashStore'[f].status # "indexed"
    PROVE  UNCHANGED <<Trusted, Rows>>
<1>1. UNCHANGED Rows
      BY DEF Rows, LanceChunks
<1>2. \A f \in Files : (IF Indexed(f) /\ f \notin torn
                         THEN hashStore[f].hash ELSE Absent)'
                       = IF Indexed(f) /\ f \notin torn
                         THEN hashStore[f].hash ELSE Absent
      BY DEF Indexed
<1> QED
    BY <1>1, <1>2 DEF Trusted

(* The hash gate distrusts a file before anything of it changes.           *)
LEMMA GateDistrusts ==
    ASSUME TypeOK, NEW r \in Runs, NEW f \in Files, Gate(r, f)
    PROVE  Vectors!Distrust(f)
<1>1. hashStore' = SetHash({f}, disk, "pending") /\ UNCHANGED <<lance, torn>>
      BY DEF Gate, vectors
<1>2. UNCHANGED Rows
      BY <1>1 DEF Rows, LanceChunks
<1>3. \A g \in Files : hashStore'[g] = IF g = f
                           THEN [hash |-> disk[f], status |-> "pending"]
                           ELSE hashStore[g]
      BY <1>1 DEF SetHash
<1>4. \A g \in Files : (IF Indexed(g) /\ g \notin torn
                         THEN hashStore[g].hash ELSE Absent)'
                       = IF g = f THEN Absent ELSE Trusted[g]
      BY <1>1, <1>3 DEF Trusted, Indexed
<1>5. Trusted' = [Trusted EXCEPT ![f] = Absent]
      BY <1>4 DEF Trusted
<1> QED
    BY <1>2, <1>5 DEF Vectors!Distrust, Trusted, Rows

(* The rows of files that are not indexed may change.                      *)
LEMMA RowsRewritten ==
    ASSUME NEW F \in SUBSET Files, UNCHANGED <<hashStore, torn>>,
           \A f \in F : hashStore[f].status # "indexed",
           \A f \in Files \ F : lance'[f] = lance[f],
           \A f \in F : \A row \in lance'[f] : row[1] \in Chunks
    PROVE  Vectors!Rewrite(F)
<1> DEFINE new == [f \in Files |-> IF f \in F THEN {row[1] : row \in lance'[f]}
                                   ELSE {}]
<1>1. UNCHANGED Trusted
      BY DEF Trusted, Indexed
<1>2. \A f \in F : Trusted[f] = Absent
      BY DEF Trusted, Indexed
<1>3. new \in [Files -> SUBSET Chunks]
  <2>1. ASSUME NEW f \in Files PROVE new[f] \in SUBSET Chunks
        OBVIOUS
  <2> QED
      BY <2>1
<1>4. Rows' = [f \in Files |-> IF f \in F THEN new[f] ELSE Rows[f]]
      BY DEF Rows, LanceChunks
<1> QED
    BY <1>1, <1>2, <1>3, <1>4 DEF Vectors!Rewrite, Trusted, Rows

(* A finished file becomes trusted, unless it is torn.                     *)
LEMMA IndexedTrusts ==
    ASSUME TypeOK, IndexInv, NEW r \in Runs, NEW f \in Files, SetIndexed(r, f)
    PROVE  \/ UNCHANGED <<Trusted, Rows>>
           \/ \E c \in Contents : Vectors!Trust(f, c)
<1>1. /\ f \in w[r].done /\ pc[r] = "indexed"
      /\ hashStore' = SetHash({f}, w[r].seen, "indexed")
      /\ UNCHANGED <<lance, torn>>
      BY DEF SetIndexed, vectors
<1>2. QueueInv(r) /\ VectorsInv(r) /\ pc[r] \in DeepPCs
      BY <1>1 DEF IndexInv, RunInv, DeepPCs
<1>3. /\ w[r].seen[f] \in Contents
      /\ hashStore[f].status # "indexed"
      /\ f \notin torn => w[r].got[f] = w[r].seen[f]
  <2>1. f \in InFlight(w[r])
        BY <1>1 DEF InFlight
  <2>2. /\ IsPending(w[r], f)
        /\ f \notin torn => w[r].got[f] = w[r].seen[f]
        BY <2>1, <1>2 DEF QueueInv
  <2> QED
      BY <2>2, PendingNotIndexed DEF IsPending
<1>4. LanceChunks(f) = ChunksOf[w[r].got[f]]
      BY <1>1, <1>2 DEF VectorsInv
<1>5. UNCHANGED Rows
      BY <1>1 DEF Rows, LanceChunks
<1>6. \A g \in Files : hashStore'[g] = IF g = f
                           THEN [hash |-> w[r].seen[f], status |-> "indexed"]
                           ELSE hashStore[g]
      BY <1>1 DEF SetHash
<1>7. CASE f \in torn
  <2>1. \A g \in Files : (IF Indexed(g) /\ g \notin torn
                           THEN hashStore[g].hash ELSE Absent)'
                         = IF Indexed(g) /\ g \notin torn
                           THEN hashStore[g].hash ELSE Absent
        BY <1>1, <1>6, <1>7 DEF Indexed
  <2>2. UNCHANGED Trusted
        BY <2>1 DEF Trusted
  <2> QED
      BY <2>2, <1>5
<1>8. CASE f \notin torn
  <2>0. \A g \in Files : (IF Indexed(g) /\ g \notin torn
                           THEN hashStore[g].hash ELSE Absent)'
                         = IF g = f THEN w[r].seen[f] ELSE Trusted[g]
        BY <1>1, <1>6, <1>8 DEF Trusted, Indexed
  <2>1. Trusted' = [Trusted EXCEPT ![f] = w[r].seen[f]]
        BY <2>0 DEF Trusted
  <2>2. Trusted[f] = Absent /\ Rows[f] = ChunksOf[w[r].seen[f]]
        BY <1>3, <1>4, <1>8 DEF Trusted, Rows, Indexed
  <2>3. Vectors!Trust(f, w[r].seen[f])
        BY <2>1, <2>2, <1>5 DEF Vectors!Trust, Trusted, Rows
  <2>4. w[r].seen[f] \in Contents
        BY <1>3
  <2> QED
      BY <2>3, <2>4 DEF Vectors!Trust
<1> QED
    BY <1>7, <1>8

(* Every step is a step of the contract or shows nothing of it.            *)
LEMMA ContractStep ==
    ASSUME TypeOK, IndexInv, [Next]_vars
    PROVE  Vectors!ContractNext \/ UNCHANGED <<Trusted, Rows>>
<1>q. \A r \in Runs : QueueInv(r) /\ VectorsInv(r) /\ w[r] \in Locals
      BY DEF IndexInv, RunInv, TypeOK
<1>p. \A r \in Runs : pc[r] \in DeepPCs =>
          \A f \in InFlight(w[r]) : hashStore[f].status # "indexed"
      BY <1>q, PendingNotIndexed DEF QueueInv
<1>b. \A r \in Runs : w[r].batch \in SUBSET Files
      BY <1>q DEF Locals
<1>1. CASE UNCHANGED <<hashStore, lance, torn>>
      BY <1>1, ContractKept
<1>2. ASSUME NEW r \in Runs, NEW f \in Files, Gate(r, f)
      PROVE  Vectors!ContractNext
      BY <1>2, GateDistrusts DEF Vectors!ContractNext
<1>3. ASSUME NEW r \in Runs, ReadFile(r)
      PROVE  UNCHANGED <<Trusted, Rows>>
  <2>1. w[r].cur \in Files /\ hashStore[w[r].cur].status # "indexed"
        BY <1>3, <1>q, PendingNotIndexed DEF ReadFile, QueueInv, DeepPCs
  <2>2. /\ UNCHANGED <<hashStore, lance>>
        /\ \A f \in Files \ {w[r].cur} : f \in torn' <=> f \in torn
        BY <1>3 DEF ReadFile, vectors
  <2>3. {w[r].cur} \in SUBSET Files
        BY <2>1
  <2>4. \A f \in {w[r].cur} : /\ hashStore[f].status # "indexed"
                              /\ hashStore'[f].status # "indexed"
        BY <2>1, <2>2
  <2> QED
      BY <2>2, <2>3, <2>4, StatusKept
<1>4. ASSUME NEW r \in Runs, ReadFileFails(r)
      PROVE  UNCHANGED <<Trusted, Rows>>
  <2>1. w[r].cur \in Files /\ hashStore[w[r].cur].status # "indexed"
        BY <1>4, <1>q, PendingNotIndexed DEF ReadFileFails, QueueInv, DeepPCs
  <2>2. /\ hashStore' = SetHash({w[r].cur}, w[r].seen, "failed")
        /\ UNCHANGED <<lance, torn>>
        BY <1>4 DEF ReadFileFails, vectors
  <2>3. {w[r].cur} \in SUBSET Files
        BY <2>1
  <2>4. /\ hashStore'[w[r].cur].status # "indexed"
        /\ \A g \in Files \ {w[r].cur} : hashStore'[g] = hashStore[g]
        BY <2>1, <2>2 DEF SetHash
  <2> QED
      BY <2>1, <2>2, <2>3, <2>4, StatusKept
<1>5. ASSUME NEW r \in Runs, BatchFails(r)
      PROVE  UNCHANGED <<Trusted, Rows>>
  <2>1. \A f \in w[r].batch : hashStore[f].status # "indexed"
        BY <1>5, <1>p DEF BatchFails, InFlight, DeepPCs
  <2>2. /\ hashStore' = SetHash(w[r].batch, w[r].seen, "failed")
        /\ UNCHANGED <<lance, torn>>
        BY <1>5 DEF BatchFails, vectors
  <2> QED
      BY <1>b, <2>1, <2>2, StatusKept DEF SetHash
<1>6. ASSUME NEW r \in Runs, NEW f \in Files, QueueTextFails(r, f)
      PROVE  UNCHANGED <<Trusted, Rows>>
  <2>1. hashStore[f].status # "indexed"
        BY <1>6, <1>p DEF QueueTextFails, InFlight, DeepPCs
  <2>2. /\ hashStore' = SetHash({f}, w[r].seen, "failed")
        /\ UNCHANGED <<lance, torn>>
        BY <1>6 DEF QueueTextFails, vectors
  <2>3. {f} \in SUBSET Files
        BY <2>1
  <2>4. /\ hashStore'[f].status # "indexed"
        /\ \A g \in Files \ {f} : hashStore'[g] = hashStore[g]
        BY <2>1, <2>2 DEF SetHash
  <2> QED
      BY <2>1, <2>2, <2>3, <2>4, StatusKept
<1>7. ASSUME NEW r \in Runs, DeleteRows(r)
      PROVE  Vectors!ContractNext
  <2>1. \A f \in w[r].batch : hashStore[f].status # "indexed"
        BY <1>7, <1>p DEF DeleteRows, InFlight, DeepPCs
  <2>2. /\ UNCHANGED <<hashStore, torn>>
        /\ \A f \in w[r].batch : lance'[f] = {}
        /\ \A f \in Files \ w[r].batch : lance'[f] = lance[f]
        BY <1>7, <1>b DEF DeleteRows
  <2>3. Vectors!Rewrite(w[r].batch)
        BY <1>b, <2>1, <2>2, RowsRewritten
  <2> QED
      BY <1>b, <2>3 DEF Vectors!ContractNext
<1>8. ASSUME NEW r \in Runs, NEW S \in SUBSET w[r].rows, InsertSlice(r, S)
      PROVE  Vectors!ContractNext
  <2>1. \A f \in w[r].batch : hashStore[f].status # "indexed"
        BY <1>8, <1>p DEF InsertSlice, InFlight, DeepPCs
  <2>2. /\ UNCHANGED <<hashStore, torn>>
        /\ \A f \in Files : lance'[f] =
              lance[f] \cup {fr[2] : fr \in {x \in S : x[1] = f}}
        /\ \A x \in S : x[1] \in w[r].batch
        BY <1>8, <1>q DEF InsertSlice, VectorsInv, DeepPCs
  <2>3. S \subseteq Files \X LanceRow
        BY <1>q DEF Locals
  <2>4. \A f \in Files : lance'[f] \subseteq LanceRow
        BY <2>2, <2>3 DEF TypeOK
  <2>5. \A f \in w[r].batch : \A row \in lance'[f] : row[1] \in Chunks
    <3>1. \A row \in LanceRow : row[1] \in Chunks
          BY DEF LanceRow
    <3>2. \A f \in w[r].batch : lance'[f] \subseteq LanceRow
          BY <1>b, <2>4
    <3> QED
        BY <3>1, <3>2
  <2>6. ASSUME NEW f \in Files \ w[r].batch
        PROVE  lance'[f] = lance[f]
    <3>1. {x \in S : x[1] = f} = {}
          BY <2>2
    <3>2. {fr[2] : fr \in {x \in S : x[1] = f}} = {}
          BY <3>1
    <3> QED
        BY <2>2, <3>2
  <2>7. Vectors!Rewrite(w[r].batch)
        BY <1>b, <2>1, <2>2, <2>5, <2>6, RowsRewritten
  <2> QED
      BY <1>b, <2>7 DEF Vectors!ContractNext
<1>9. ASSUME NEW r \in Runs, NEW f \in Files, SetIndexed(r, f)
      PROVE  Vectors!ContractNext \/ UNCHANGED <<Trusted, Rows>>
      BY <1>9, IndexedTrusts DEF Vectors!ContractNext
<1>10. ASSUME NEW r \in Runs, ShallowStep(r)
       PROVE  UNCHANGED <<hashStore, lance, torn>>
       BY <1>10 DEF ShallowStep, ShallowOpen, ShallowRead, ShallowCommit,
                    ShallowMark, vectors
<1>11. ASSUME NEW r \in Runs, OpenStep(r)
       PROVE  UNCHANGED <<hashStore, lance, torn>>
       BY <1>11 DEF OpenStep, OpenExisting, NoStore, OpenNew, CreateTable,
                    ModelMismatch, OpenText, WriterBusy, vectors
<1>12. ASSUME NEW r \in Runs, EndStep(r)
       PROVE  \/ UNCHANGED <<hashStore, lance, torn>>
              \/ \E f \in Files : SetIndexed(r, f)
       BY <1>12 DEF EndStep, CommitText, MarkSearchable, MarkReady, MarkFull,
                    Finish, vectors
<1>13. CASE Environment
       BY <1>1, <1>13 DEF Environment, Edit, Start, Stop, vectors
<1>14. ASSUME NEW r \in Runs, GateStep(r)
       PROVE  Vectors!ContractNext \/ UNCHANGED <<Trusted, Rows>>
  <2>1. \/ UNCHANGED <<hashStore, lance, torn>>
        \/ \E f \in Files : Gate(r, f)
        \/ ReadFile(r) \/ ReadFileFails(r)
        BY <1>14 DEF GateStep, SkipUnchanged, HashFileFails, GateDone, vectors
  <2> QED
      BY <2>1, <1>1, <1>2, <1>3, <1>4
<1>15. ASSUME NEW r \in Runs, BatchStep(r)
       PROVE  Vectors!ContractNext \/ UNCHANGED <<Trusted, Rows>>
  <2>1. \/ UNCHANGED <<hashStore, lance, torn>>
        \/ BatchFails(r) \/ DeleteRows(r)
        \/ \E f \in Files : QueueTextFails(r, f)
        \/ \E S \in SUBSET w[r].rows : InsertSlice(r, S)
        BY <1>15 DEF BatchStep, TakeBatch, EmbedderRefused, Embed, QueueText,
                     BatchDone, vectors
  <2> QED
      BY <2>1, <1>1, <1>5, <1>6, <1>7, <1>8
<1>16. CASE UNCHANGED vars
       BY <1>1, <1>16 DEF vars
<1> QED
    BY <1>1, <1>9, <1>10, <1>11, <1>12, <1>13, <1>14, <1>15, <1>16
    DEF Next, RunStep

(* Every behaviour of the index core is one the contract allows: Lance     *)
(* rows move only while the file is not trusted, and a file becomes        *)
(* trusted only when its rows are complete.                                *)
THEOREM VectorsRefine == Spec => VectorsKeepContract
<1>1. TypeOK /\ IndexInv /\ [Next]_vars
          => [Vectors!ContractNext]_(Vectors!contractVars)
      BY ContractStep DEF Vectors!contractVars, Trusted, Rows
<1> QED
    BY <1>1, ContractInit, IndexInvariant, PTL
    DEF Spec, VectorsKeepContract, Vectors!ContractSpec

-----------------------------------------------------------------------------
(* The tiers.                                                              *)

LEMMA RowsOneTier ==
    /\ OneTier({})
    /\ \A c \in Contents : OneTier(DeepRows(c)) /\ OneTier(ShallowRows(c))
BY ConstantsAssumption DEF OneTier, DeepRows, ShallowRows

LEMMA TiersInit == Init => TiersInv
BY RowsOneTier DEF Init, TiersInv, Idle, NewLocals

(* The shallow pass queues one shallow row for each file it reads.         *)
LEMMA ShallowReadTiers ==
    ASSUME TypeOK, TiersInv, NEW r \in Runs, NEW unreadable \in SUBSET Files,
           ShallowRead(r, unreadable)
    PROVE  TiersInv'
<1>1. w[r] \in Locals
      BY DEF TypeOK
<1>2. w'[r] = [w[r] EXCEPT !.touched = Collected(w[r].req) \ unreadable,
                           !.ops = [f \in Files |->
                               IF disk[f] = Absent THEN {}
                               ELSE ShallowRows(disk[f])]]
      BY LocallyAt DEF ShallowRead
<1>3. /\ w'[r].touched = Collected(w[r].req) \ unreadable
      /\ w'[r].ops = [f \in Files |-> IF disk[f] = Absent THEN {}
                                      ELSE ShallowRows(disk[f])]
      BY <1>1, <1>2 DEF Locals
<1>4. \A f \in Files : OneTier(w'[r].ops[f])
      BY <1>3, RowsOneTier DEF TypeOK
<1>5. w'[r].touched \subseteq Files
      BY <1>3 DEF Collected, Present
<1>6. /\ UNCHANGED text
      /\ \A s \in Runs \ {r} : w'[s] = w[s]
      BY LocallyAt DEF ShallowRead, keyword
<1> QED
    BY <1>4, <1>5, <1>6 DEF TiersInv

(* A commit replaces the rows of the touched files.                        *)
LEMMA AppliedTiers ==
    ASSUME TiersInv, NEW r \in Runs, NEW f \in Files
    PROVE  OneTier(Applied(w[r])[f])
BY DEF TiersInv, Applied

LEMMA ShallowCommitTiers ==
    ASSUME TypeOK, TiersInv, NEW r \in Runs, ShallowCommit(r)
    PROVE  TiersInv'
<1>1. w'[r].touched = {} /\ \A s \in Runs \ {r} : w'[s] = w[s]
      BY LocallyAt DEF ShallowCommit, NewLocals
<1>2. text' = Applied(w[r])
      BY DEF ShallowCommit
<1> QED
    BY <1>1, <1>2, AppliedTiers DEF TiersInv

LEMMA CommitTextTiers ==
    ASSUME TypeOK, TiersInv, NEW r \in Runs, CommitText(r)
    PROVE  TiersInv'
<1>1. w[r] \in Locals
      BY DEF TypeOK
<1>2. w'[r] = [w[r] EXCEPT !.touched = {}, !.ops = [f \in Files |-> {}]]
      BY LocallyAt DEF CommitText
<1>3. w'[r].touched = {}
      BY <1>1, <1>2 DEF Locals
<1>4. \A s \in Runs \ {r} : w'[s] = w[s]
      BY LocallyAt DEF CommitText
<1>5. text' = Applied(w[r])
      BY DEF CommitText
<1> QED
    BY <1>3, <1>4, <1>5, AppliedTiers DEF TiersInv

(* The deep pass queues the deep rows of the version it read ...           *)
LEMMA QueueTextTiers ==
    ASSUME TypeOK, IndexInv, TiersInv, NEW r \in Runs, NEW f \in Files,
           QueueText(r, f)
    PROVE  TiersInv'
<1>1. w[r] \in Locals /\ QueueInv(r) /\ pc[r] = "text" /\ f \in w[r].batch
      BY DEF TypeOK, IndexInv, RunInv, QueueText
<1>2. w'[r] = [w[r] EXCEPT !.batch = @ \ {f}, !.touched = @ \cup {f},
                           !.ops[f] = DeepRows(w[r].got[f]),
                           !.done = @ \cup {f}]
      BY LocallyAt DEF QueueText
<1>3. /\ w'[r].touched = w[r].touched \cup {f}
      /\ w'[r].ops[f] = DeepRows(w[r].got[f])
      /\ \A g \in Files \ {f} : w'[r].ops[g] = w[r].ops[g]
      BY <1>1, <1>2 DEF Locals
<1>4. w[r].got[f] \in Contents
      BY <1>1 DEF QueueInv, InFlight, DeepPCs
<1>5. \A g \in w'[r].touched : OneTier(w'[r].ops[g])
  <2>1. w[r].touched \subseteq Files
        BY <1>1 DEF Locals
  <2>2. \A g \in w[r].touched : OneTier(w[r].ops[g])
        BY DEF TiersInv
  <2> QED
      BY <1>3, <1>4, <2>1, <2>2, RowsOneTier
<1>6. /\ UNCHANGED text
      /\ \A s \in Runs \ {r} : w'[s] = w[s]
      BY LocallyAt DEF QueueText, keyword
<1> QED
    BY <1>5, <1>6 DEF TiersInv

(* ... or nothing, when they cannot be added.                              *)
LEMMA QueueTextFailsTiers ==
    ASSUME TypeOK, TiersInv, NEW r \in Runs, NEW f \in Files,
           QueueTextFails(r, f)
    PROVE  TiersInv'
<1>1. w[r] \in Locals
      BY DEF TypeOK
<1>2. w'[r] = [w[r] EXCEPT !.batch = @ \ {f}, !.touched = @ \cup {f},
                           !.ops[f] = {}, !.failed = TRUE]
      BY LocallyAt DEF QueueTextFails
<1>3. /\ w'[r].touched = w[r].touched \cup {f}
      /\ w'[r].ops[f] = {}
      /\ \A g \in Files \ {f} : w'[r].ops[g] = w[r].ops[g]
      BY <1>1, <1>2 DEF Locals
<1>5. \A g \in w'[r].touched : OneTier(w'[r].ops[g])
  <2>1. w[r].touched \subseteq Files
        BY <1>1 DEF Locals
  <2>2. \A g \in w[r].touched : OneTier(w[r].ops[g])
        BY DEF TiersInv
  <2> QED
      BY <1>3, <2>1, <2>2, RowsOneTier
<1>6. /\ UNCHANGED text
      /\ \A s \in Runs \ {r} : w'[s] = w[s]
      BY LocallyAt DEF QueueTextFails, keyword
<1> QED
    BY <1>5, <1>6 DEF TiersInv

LEMMA TiersNext == TypeOK /\ IndexInv /\ TiersInv /\ [Next]_vars => TiersInv'
<1> SUFFICES ASSUME TypeOK, IndexInv, TiersInv, [Next]_vars PROVE TiersInv'
    OBVIOUS
<1>w. \A r \in Runs : w[r] \in Locals
      BY DEF TypeOK
<1>1. CASE UNCHANGED vars
      BY <1>1 DEF TiersInv, vars
<1>2. ASSUME NEW e \in Edits, Edit(e[1], e[2]) PROVE TiersInv'
      BY <1>2 DEF TiersInv, Edit, vectors, keyword
<1>3. ASSUME NEW r \in Runs, NEW q \in Requests, Start(r, q)
      PROVE  TiersInv'
  <2>1. w'[r].touched = {}
        BY <1>3, LocallyAt DEF Start, NewLocals
  <2>2. \A s \in Runs \ {r} : w'[s] = w[s]
        BY <1>3, LocallyAt DEF Start
  <2>3. UNCHANGED text
        BY <1>3 DEF Start, keyword
  <2> QED
      BY <2>1, <2>2, <2>3 DEF TiersInv
<1>4. ASSUME NEW r \in Runs, Stop(r)
      PROVE  TiersInv'
  <2>1. w'[r].touched = {}
        BY <1>4, LocallyAt DEF Stop, Return, Idle, NewLocals
  <2>2. \A s \in Runs \ {r} : w'[s] = w[s]
        BY <1>4, LocallyAt DEF Stop, Return
  <2>3. UNCHANGED text
        BY <1>4 DEF Stop, keyword
  <2> QED
      BY <2>1, <2>2, <2>3 DEF TiersInv
<1>5. ASSUME NEW r \in Runs, WriterBusy(r)
      PROVE  TiersInv'
  <2>1. w'[r].touched = {}
        BY <1>5, LocallyAt DEF WriterBusy, Return, Idle, NewLocals
  <2>2. \A s \in Runs \ {r} : w'[s] = w[s]
        BY <1>5, LocallyAt DEF WriterBusy, Return
  <2>3. UNCHANGED text
        BY <1>5 DEF WriterBusy, keyword
  <2> QED
      BY <2>1, <2>2, <2>3 DEF TiersInv
<1>6. ASSUME NEW r \in Runs, ModelMismatch(r)
      PROVE  TiersInv'
  <2>1. w'[r].touched = {}
        BY <1>6, LocallyAt DEF ModelMismatch, Return, Idle, NewLocals
  <2>2. \A s \in Runs \ {r} : w'[s] = w[s]
        BY <1>6, LocallyAt DEF ModelMismatch, Return
  <2>3. UNCHANGED text
        BY <1>6 DEF ModelMismatch, keyword
  <2> QED
      BY <2>1, <2>2, <2>3 DEF TiersInv
<1>7. ASSUME NEW r \in Runs, NEW f \in Files, HashFileFails(r, f)
      PROVE  TiersInv'
  <2>1. w'[r].touched = {}
        BY <1>7, LocallyAt DEF HashFileFails, Return, Idle, NewLocals
  <2>2. \A s \in Runs \ {r} : w'[s] = w[s]
        BY <1>7, LocallyAt DEF HashFileFails, Return
  <2>3. UNCHANGED text
        BY <1>7 DEF HashFileFails, keyword
  <2> QED
      BY <2>1, <2>2, <2>3 DEF TiersInv
<1>8. ASSUME NEW r \in Runs, EmbedderRefused(r)
      PROVE  TiersInv'
  <2>1. w'[r].touched = {}
        BY <1>8, LocallyAt DEF EmbedderRefused, Return, Idle, NewLocals
  <2>2. \A s \in Runs \ {r} : w'[s] = w[s]
        BY <1>8, LocallyAt DEF EmbedderRefused, Return
  <2>3. UNCHANGED text
        BY <1>8 DEF EmbedderRefused, keyword
  <2> QED
      BY <2>1, <2>2, <2>3 DEF TiersInv
<1>9. ASSUME NEW r \in Runs, Finish(r)
      PROVE  TiersInv'
  <2>1. w'[r].touched = {}
        BY <1>9, LocallyAt DEF Finish, Return, Idle, NewLocals
  <2>2. \A s \in Runs \ {r} : w'[s] = w[s]
        BY <1>9, LocallyAt DEF Finish, Return
  <2>3. UNCHANGED text
        BY <1>9 DEF Finish, keyword
  <2> QED
      BY <2>1, <2>2, <2>3 DEF TiersInv
<1>10. ASSUME NEW r \in Runs, ShallowOpen(r)
      PROVE  TiersInv'
  <2>1. w'[r].touched = w[r].touched /\ w'[r].ops = w[r].ops
        BY <1>10 DEF ShallowOpen
  <2>2. \A s \in Runs \ {r} : w'[s] = w[s]
        BY <1>10, LocallyAt DEF ShallowOpen
  <2>3. UNCHANGED text
        BY <1>10 DEF ShallowOpen, keyword
  <2> QED
      BY <2>1, <2>2, <2>3 DEF TiersInv
<1>11. ASSUME NEW r \in Runs, NEW unreadable \in SUBSET Files, ShallowRead(r, unreadable)
      PROVE  TiersInv'
      BY <1>11, ShallowReadTiers
<1>12. ASSUME NEW r \in Runs, ShallowCommit(r)
      PROVE  TiersInv'
      BY <1>12, ShallowCommitTiers
<1>13. ASSUME NEW r \in Runs, ShallowMark(r)
      PROVE  TiersInv'
  <2>1. w'[r].touched = w[r].touched /\ w'[r].ops = w[r].ops
        BY <1>13 DEF ShallowMark
  <2>2. \A s \in Runs \ {r} : w'[s] = w[s]
        BY <1>13, LocallyAt DEF ShallowMark
  <2>3. UNCHANGED text
        BY <1>13 DEF ShallowMark, keyword
  <2> QED
      BY <2>1, <2>2, <2>3 DEF TiersInv
<1>14. ASSUME NEW r \in Runs, OpenExisting(r)
      PROVE  TiersInv'
  <2>1. w'[r].touched = w[r].touched /\ w'[r].ops = w[r].ops
    <3>1. w'[r] = [w[r] EXCEPT !.scope = Collected(w[r].req), !.todo =
                  Collected(w[r].req), !.meta = metaFile, !.lazy = TRUE]
          BY <1>14, LocallyAt DEF OpenExisting
    <3> QED
        BY <1>w, <3>1 DEF Locals
  <2>2. \A s \in Runs \ {r} : w'[s] = w[s]
        BY <1>14, LocallyAt DEF OpenExisting
  <2>3. UNCHANGED text
        BY <1>14 DEF OpenExisting, keyword
  <2> QED
      BY <2>1, <2>2, <2>3 DEF TiersInv
<1>36. ASSUME NEW r \in Runs, NoStore(r)
      PROVE  TiersInv'
  <2>1. w'[r].touched = w[r].touched /\ w'[r].ops = w[r].ops
    <3>1. w'[r] = [w[r] EXCEPT !.scope = Collected(w[r].req), !.todo =
                  Collected(w[r].req)]
          BY <1>36, LocallyAt DEF NoStore
    <3> QED
        BY <1>w, <3>1 DEF Locals
  <2>2. \A s \in Runs \ {r} : w'[s] = w[s]
        BY <1>36, LocallyAt DEF NoStore
  <2>3. UNCHANGED text
        BY <1>36 DEF NoStore, keyword
  <2> QED
      BY <2>1, <2>2, <2>3 DEF TiersInv
<1>15. ASSUME NEW r \in Runs, OpenNew(r)
      PROVE  TiersInv'
  <2>1. w'[r].touched = w[r].touched /\ w'[r].ops = w[r].ops
    <3>1. w'[r] = [w[r] EXCEPT !.meta = [metaFile EXCEPT
                  !.model = w[r].req.model]]
          BY <1>15, LocallyAt DEF OpenNew
    <3> QED
        BY <1>w, <3>1 DEF Locals
  <2>2. \A s \in Runs \ {r} : w'[s] = w[s]
        BY <1>15, LocallyAt DEF OpenNew
  <2>3. UNCHANGED text
        BY <1>15 DEF OpenNew, keyword
  <2> QED
      BY <2>1, <2>2, <2>3 DEF TiersInv
<1>16. ASSUME NEW r \in Runs, CreateTable(r)
      PROVE  TiersInv'
  <2>1. w'[r].touched = w[r].touched /\ w'[r].ops = w[r].ops
        BY <1>16 DEF CreateTable
  <2>2. \A s \in Runs \ {r} : w'[s] = w[s]
        BY <1>16, LocallyAt DEF CreateTable
  <2>3. UNCHANGED text
        BY <1>16 DEF CreateTable, keyword
  <2> QED
      BY <2>1, <2>2, <2>3 DEF TiersInv
<1>17. ASSUME NEW r \in Runs, OpenText(r)
      PROVE  TiersInv'
  <2>1. w'[r].touched = w[r].touched /\ w'[r].ops = w[r].ops
    <3>1. w'[r] = [w[r] EXCEPT !.force = w[r].req.force \/ ~ready, !.mark =
                  ready \/ w[r].req.full]
          BY <1>17, LocallyAt DEF OpenText
    <3> QED
        BY <1>w, <3>1 DEF Locals
  <2>2. \A s \in Runs \ {r} : w'[s] = w[s]
        BY <1>17, LocallyAt DEF OpenText
  <2>3. UNCHANGED text
        BY <1>17 DEF OpenText, keyword
  <2> QED
      BY <2>1, <2>2, <2>3 DEF TiersInv
<1>18. ASSUME NEW r \in Runs, NEW f \in Files, SkipUnchanged(r, f)
      PROVE  TiersInv'
  <2>1. w'[r].touched = w[r].touched /\ w'[r].ops = w[r].ops
    <3>1. w'[r] = [w[r] EXCEPT !.todo = @ \ {f}]
          BY <1>18, LocallyAt DEF SkipUnchanged
    <3> QED
        BY <1>w, <3>1 DEF Locals
  <2>2. \A s \in Runs \ {r} : w'[s] = w[s]
        BY <1>18, LocallyAt DEF SkipUnchanged
  <2>3. UNCHANGED text
        BY <1>18 DEF SkipUnchanged, keyword
  <2> QED
      BY <2>1, <2>2, <2>3 DEF TiersInv
<1>19. ASSUME NEW r \in Runs, NEW f \in Files, Gate(r, f)
      PROVE  TiersInv'
  <2>1. w'[r].touched = w[r].touched /\ w'[r].ops = w[r].ops
    <3>1. w'[r] = [w[r] EXCEPT !.todo = @ \ {f}, !.cur = f, !.seen[f] =
                  disk[f]]
          BY <1>19, LocallyAt DEF Gate
    <3> QED
        BY <1>w, <3>1 DEF Locals
  <2>2. \A s \in Runs \ {r} : w'[s] = w[s]
        BY <1>19, LocallyAt DEF Gate
  <2>3. UNCHANGED text
        BY <1>19 DEF Gate, keyword
  <2> QED
      BY <2>1, <2>2, <2>3 DEF TiersInv
<1>20. ASSUME NEW r \in Runs, ReadFile(r)
      PROVE  TiersInv'
  <2>1. w'[r].touched = w[r].touched /\ w'[r].ops = w[r].ops
    <3>1. w'[r] = [w[r] EXCEPT !.cur = NoFile, !.got[w[r].cur] =
                  disk[w[r].cur], !.queue = @ \cup {w[r].cur}]
          BY <1>20, LocallyAt DEF ReadFile
    <3> QED
        BY <1>w, <3>1 DEF Locals
  <2>2. \A s \in Runs \ {r} : w'[s] = w[s]
        BY <1>20, LocallyAt DEF ReadFile
  <2>3. UNCHANGED text
        BY <1>20 DEF ReadFile, keyword
  <2> QED
      BY <2>1, <2>2, <2>3 DEF TiersInv
<1>21. ASSUME NEW r \in Runs, ReadFileFails(r)
      PROVE  TiersInv'
  <2>1. w'[r].touched = w[r].touched /\ w'[r].ops = w[r].ops
    <3>1. w'[r] = [w[r] EXCEPT !.cur = NoFile, !.failed = TRUE]
          BY <1>21, LocallyAt DEF ReadFileFails
    <3> QED
        BY <1>w, <3>1 DEF Locals
  <2>2. \A s \in Runs \ {r} : w'[s] = w[s]
        BY <1>21, LocallyAt DEF ReadFileFails
  <2>3. UNCHANGED text
        BY <1>21 DEF ReadFileFails, keyword
  <2> QED
      BY <2>1, <2>2, <2>3 DEF TiersInv
<1>22. ASSUME NEW r \in Runs, GateDone(r)
      PROVE  TiersInv'
  <2>1. w'[r].touched = w[r].touched /\ w'[r].ops = w[r].ops
        BY <1>22 DEF GateDone
  <2>2. \A s \in Runs \ {r} : w'[s] = w[s]
        BY <1>22, LocallyAt DEF GateDone
  <2>3. UNCHANGED text
        BY <1>22 DEF GateDone, keyword
  <2> QED
      BY <2>1, <2>2, <2>3 DEF TiersInv
<1>23. ASSUME NEW r \in Runs, NEW B \in SUBSET Files, TakeBatch(r, B)
      PROVE  TiersInv'
  <2>1. w'[r].touched = w[r].touched /\ w'[r].ops = w[r].ops
    <3>1. w'[r] = [w[r] EXCEPT !.batch = B, !.queue = @ \ B]
          BY <1>23, LocallyAt DEF TakeBatch
    <3> QED
        BY <1>w, <3>1 DEF Locals
  <2>2. \A s \in Runs \ {r} : w'[s] = w[s]
        BY <1>23, LocallyAt DEF TakeBatch
  <2>3. UNCHANGED text
        BY <1>23 DEF TakeBatch, keyword
  <2> QED
      BY <2>1, <2>2, <2>3 DEF TiersInv
<1>24. ASSUME NEW r \in Runs, DeleteRows(r)
      PROVE  TiersInv'
  <2>1. w'[r].touched = w[r].touched /\ w'[r].ops = w[r].ops
    <3>1. w'[r] = [w[r] EXCEPT !.cache = UNION {lance[f] : f \in w[r].batch}]
          BY <1>24, LocallyAt DEF DeleteRows
    <3> QED
        BY <1>w, <3>1 DEF Locals
  <2>2. \A s \in Runs \ {r} : w'[s] = w[s]
        BY <1>24, LocallyAt DEF DeleteRows
  <2>3. UNCHANGED text
        BY <1>24 DEF DeleteRows, keyword
  <2> QED
      BY <2>1, <2>2, <2>3 DEF TiersInv
<1>25. ASSUME NEW r \in Runs, Embed(r)
      PROVE  TiersInv'
  <2>1. w'[r].touched = w[r].touched /\ w'[r].ops = w[r].ops
    <3>1. w'[r] = [w[r] EXCEPT !.rows = PlannedRows(w[r]), !.cache = {}]
          BY <1>25, LocallyAt DEF Embed
    <3> QED
        BY <1>w, <3>1 DEF Locals
  <2>2. \A s \in Runs \ {r} : w'[s] = w[s]
        BY <1>25, LocallyAt DEF Embed
  <2>3. UNCHANGED text
        BY <1>25 DEF Embed, keyword
  <2> QED
      BY <2>1, <2>2, <2>3 DEF TiersInv
<1>26. ASSUME NEW r \in Runs, NEW S \in SUBSET w[r].rows, InsertSlice(r, S)
      PROVE  TiersInv'
  <2>1. w'[r].touched = w[r].touched /\ w'[r].ops = w[r].ops
    <3>1. w'[r] = [w[r] EXCEPT !.rows = @ \ S]
          BY <1>26, LocallyAt DEF InsertSlice
    <3> QED
        BY <1>w, <3>1 DEF Locals
  <2>2. \A s \in Runs \ {r} : w'[s] = w[s]
        BY <1>26, LocallyAt DEF InsertSlice
  <2>3. UNCHANGED text
        BY <1>26 DEF InsertSlice, keyword
  <2> QED
      BY <2>1, <2>2, <2>3 DEF TiersInv
<1>27. ASSUME NEW r \in Runs, BatchFails(r)
      PROVE  TiersInv'
  <2>1. w'[r].touched = w[r].touched /\ w'[r].ops = w[r].ops
    <3>1. w'[r] = [w[r] EXCEPT !.batch = {}, !.cache = {}, !.rows = {},
                  !.failed = TRUE]
          BY <1>27, LocallyAt DEF BatchFails
    <3> QED
        BY <1>w, <3>1 DEF Locals
  <2>2. \A s \in Runs \ {r} : w'[s] = w[s]
        BY <1>27, LocallyAt DEF BatchFails
  <2>3. UNCHANGED text
        BY <1>27 DEF BatchFails, keyword
  <2> QED
      BY <2>1, <2>2, <2>3 DEF TiersInv
<1>28. ASSUME NEW r \in Runs, NEW f \in Files, QueueText(r, f)
      PROVE  TiersInv'
      BY <1>28, QueueTextTiers
<1>29. ASSUME NEW r \in Runs, NEW f \in Files, QueueTextFails(r, f)
      PROVE  TiersInv'
      BY <1>29, QueueTextFailsTiers
<1>30. ASSUME NEW r \in Runs, BatchDone(r)
      PROVE  TiersInv'
  <2>1. w'[r].touched = w[r].touched /\ w'[r].ops = w[r].ops
        BY <1>30 DEF BatchDone
  <2>2. \A s \in Runs \ {r} : w'[s] = w[s]
        BY <1>30, LocallyAt DEF BatchDone
  <2>3. UNCHANGED text
        BY <1>30 DEF BatchDone, keyword
  <2> QED
      BY <2>1, <2>2, <2>3 DEF TiersInv
<1>31. ASSUME NEW r \in Runs, CommitText(r)
      PROVE  TiersInv'
      BY <1>31, CommitTextTiers
<1>32. ASSUME NEW r \in Runs, MarkSearchable(r)
      PROVE  TiersInv'
  <2>1. w'[r].touched = w[r].touched /\ w'[r].ops = w[r].ops
        BY <1>32 DEF MarkSearchable
  <2>2. \A s \in Runs \ {r} : w'[s] = w[s]
        BY <1>32, LocallyAt DEF MarkSearchable
  <2>3. UNCHANGED text
        BY <1>32 DEF MarkSearchable, keyword
  <2> QED
      BY <2>1, <2>2, <2>3 DEF TiersInv
<1>33. ASSUME NEW r \in Runs, MarkReady(r)
      PROVE  TiersInv'
  <2>1. w'[r].touched = w[r].touched /\ w'[r].ops = w[r].ops
        BY <1>33 DEF MarkReady
  <2>2. \A s \in Runs \ {r} : w'[s] = w[s]
        BY <1>33, LocallyAt DEF MarkReady
  <2>3. UNCHANGED text
        BY <1>33 DEF MarkReady, keyword
  <2> QED
      BY <2>1, <2>2, <2>3 DEF TiersInv
<1>34. ASSUME NEW r \in Runs, MarkFull(r)
      PROVE  TiersInv'
  <2>1. w'[r].touched = w[r].touched /\ w'[r].ops = w[r].ops
    <3>1. w'[r] = [w[r] EXCEPT !.meta.full = TRUE]
          BY <1>34, LocallyAt DEF MarkFull
    <3> QED
        BY <1>w, <3>1 DEF Locals
  <2>2. \A s \in Runs \ {r} : w'[s] = w[s]
        BY <1>34, LocallyAt DEF MarkFull
  <2>3. UNCHANGED text
        BY <1>34 DEF MarkFull, keyword
  <2> QED
      BY <2>1, <2>2, <2>3 DEF TiersInv
<1>35. ASSUME NEW r \in Runs, NEW f \in Files, SetIndexed(r, f)
      PROVE  TiersInv'
  <2>1. w'[r].touched = w[r].touched /\ w'[r].ops = w[r].ops
    <3>1. w'[r] = [w[r] EXCEPT !.done = @ \ {f}]
          BY <1>35, LocallyAt DEF SetIndexed
    <3> QED
        BY <1>w, <3>1 DEF Locals
  <2>2. \A s \in Runs \ {r} : w'[s] = w[s]
        BY <1>35, LocallyAt DEF SetIndexed
  <2>3. UNCHANGED text
        BY <1>35 DEF SetIndexed, keyword
  <2> QED
      BY <2>1, <2>2, <2>3 DEF TiersInv
<1> QED
    BY <1>1, <1>2, <1>3, <1>4, <1>5, <1>6, <1>7, <1>8, <1>9, <1>10, <1>11,
       <1>12, <1>13, <1>14, <1>15, <1>16, <1>17, <1>18, <1>19, <1>20,
       <1>21, <1>22, <1>23, <1>24, <1>25, <1>26, <1>27, <1>28, <1>29,
       <1>30, <1>31, <1>32, <1>33, <1>34, <1>35, <1>36
    DEF Next, Environment, RunStep, ShallowStep, OpenStep, GateStep,
        BatchStep, EndStep

LEMMA TiersInvariant == Spec => []TiersInv
<1> QED
    BY TiersInit, TiersNext, IndexInvariant, PTL DEF Spec

(* Rows of one tier have one first component.                              *)
LEMMA OneTierOneDepth ==
    ASSUME NEW rows, OneTier(rows)
    PROVE  Cardinality({row[1] : row \in rows}) <= 1
<1> DEFINE D == {row[1] : row \in rows}
<1>1. PICK d : D \subseteq {d}
  <2>1. CASE rows \subseteq {"deep"} \X Chunks
        BY <2>1
  <2>2. CASE rows \subseteq {"shallow"} \X Contents
        BY <2>2
  <2> QED
      BY <2>1, <2>2 DEF OneTier
<1>2. D = {} \/ D = {d}
      BY <1>1
<1>3. Cardinality(D) = 0 \/ Cardinality(D) = 1
      BY <1>2, FS_EmptySet, FS_Singleton
<1> QED
    BY <1>3

(* Deep and shallow rows never coexist for a file in the committed index,  *)
(* whether a deep pass, a shallow pass or a failed one wrote it last.      *)
THEOREM TiersAreExclusive == Spec => []TiersNeverCoexist
<1>1. TiersInv => TiersNeverCoexist
      BY OneTierOneDepth DEF TiersInv, TiersNeverCoexist
<1> QED
    BY <1>1, TiersInvariant, PTL

-----------------------------------------------------------------------------
(* A run that ends clean has covered its scope.                            *)

CoverAll == \A r \in Runs : CoverInv(r)

(* Files run r still has to deal with.                                     *)
OpenFiles(r) == w[r].todo \cup BeingRead(r) \cup InFlight(w[r])

(* What a step of another run leaves to s: in its deep pass s holds the    *)
(* writer, so only s writes the hash store.                                *)
LEMMA CoverOthers ==
    ASSUME NEW r \in Runs, NEW s \in Runs \ {r}, WriterInv(r), WriterInv(s),
           CoverInv(s), pc'[s] = pc[s], w'[s] = w[s],
           disk' = disk, dirty'[s] = dirty[s],
           pc[r] \in Locked \/ UNCHANGED <<hashStore, torn>>
    PROVE  CoverInv(s)'
<1>1. CASE pc[s] \in DeepPCs
  <2>1. pc[r] \notin Locked
        BY <1>1, ConstantsAssumption DEF WriterInv, Locked
  <2>2. UNCHANGED <<hashStore, torn>>
        BY <2>1
  <2>3. /\ BeingRead(s)' = BeingRead(s)
        /\ InFlight(w[s])' = InFlight(w[s])
        /\ \A f : Settled(s, f)' <=> Settled(s, f)
        BY <2>2 DEF BeingRead, InFlight, Settled
  <2> QED
      BY <1>1, <2>3 DEF CoverInv
<1>2. CASE pc[s] \notin DeepPCs
      BY <1>2 DEF CoverInv
<1> QED
    BY <1>1, <1>2

(* So it is enough to look at the run that moves.                          *)
LEMMA CoverFrame ==
    ASSUME CoreInv, CoverAll, NEW r \in Runs,
           \A s \in Runs \ {r} : pc'[s] = pc[s] /\ w'[s] = w[s]
                                 /\ dirty'[s] = dirty[s],
           disk' = disk,
           pc[r] \in Locked \/ UNCHANGED <<hashStore, torn>>,
           CoverInv(r)'
    PROVE  CoverAll'
<1>1. ASSUME NEW s \in Runs \ {r} PROVE CoverInv(s)'
      BY CoverOthers DEF CoreInv, RunInv, CoverAll
<1> QED
    BY <1>1 DEF CoverAll

(* What a step of r within its deep pass owes: a file leaves OpenFiles     *)
(* only settled, or the run has failed; a settled file stays settled.      *)
LEMMA CoverStep ==
    ASSUME TypeOK, NEW r \in Runs, CoverInv(r),
           pc[r] \in DeepPCs, pc'[r] \in DeepPCs,
           disk' = disk, dirty' = dirty,
           w'[r].scope = w[r].scope,
           pc'[r] \notin {"gate", "read"} => w'[r].todo = {},
           \A f \in BeingRead(r)' \cup InFlight(w'[r]) :
              \/ w'[r].seen[f] = disk[f]
              \/ /\ f \in BeingRead(r) \cup InFlight(w[r])
                 /\ w'[r].seen[f] = w[r].seen[f],
           \/ w'[r].failed
           \/ /\ ~w[r].failed
              /\ \A f \in OpenFiles(r) : f \in OpenFiles(r)' \/ Settled(r, f)'
              /\ \A f \in Files \ OpenFiles(r) :
                    Settled(r, f) => Settled(r, f)'
    PROVE  CoverInv(r)'
<1>1. w[r].scope \subseteq Files
      BY DEF TypeOK, Locals
<1>2. \A f \in (BeingRead(r)' \cup InFlight(w'[r])) \ dirty'[r] :
          w'[r].seen[f] = disk'[f]
      BY DEF CoverInv
<1>3. w'[r].failed \/ \A f \in w'[r].scope :
          f \in OpenFiles(r)' \/ Settled(r, f)'
      BY <1>1 DEF CoverInv, OpenFiles
<1>4. /\ InFlight(w[r])' = InFlight(w'[r])
      /\ pc'[r] \notin {"eager", "create", "lock"}
      BY DEF InFlight, DeepPCs
<1> QED
    BY <1>2, <1>3, <1>4 DEF CoverInv, OpenFiles

(* A step that moves files from one queue of r to the next.                *)
LEMMA CoverMove ==
    ASSUME TypeOK, NEW r \in Runs, CoverInv(r),
           pc[r] \in DeepPCs \ {"read"}, pc'[r] \in DeepPCs \ {"read"},
           pc[r] = "gate" => w[r].todo = {},
           UNCHANGED <<disk, dirty, hashStore, torn>>,
           w'[r].scope = w[r].scope, w'[r].todo = w[r].todo,
           w'[r].seen = w[r].seen, w'[r].failed = w[r].failed,
           InFlight(w'[r]) = InFlight(w[r])
    PROVE  CoverInv(r)'
<1>1. BeingRead(r) = {} /\ BeingRead(r)' = {} /\ w[r].todo = {}
      BY DEF BeingRead, CoverInv
<1>2. InFlight(w[r])' = InFlight(w'[r])
      BY DEF InFlight
<1>3. OpenFiles(r)' = OpenFiles(r)
      BY <1>1, <1>2 DEF OpenFiles
<1>4. \A f : Settled(r, f)' <=> Settled(r, f)
      BY DEF Settled
<1> QED
    BY <1>1, <1>3, <1>4, CoverStep DEF OpenFiles

(* The end of phase 1 and the steps of phase 2 and of the end that leave   *)
(* the hash store alone: files move from one queue to the next.            *)
LEMMA MoveCover ==
    ASSUME TypeOK, CoreInv, CoverAll, NEW r \in Runs,
           \/ GateDone(r) \/ \E B \in SUBSET Files : TakeBatch(r, B)
           \/ DeleteRows(r) \/ Embed(r) \/ \E S \in SUBSET w[r].rows : InsertSlice(r, S)
           \/ \E f \in Files : QueueText(r, f)
           \/ BatchDone(r) \/ CommitText(r)
           \/ MarkSearchable(r) \/ MarkReady(r) \/ MarkFull(r)
    PROVE  CoverInv(r)' /\ pc[r] \in DeepPCs /\ UNCHANGED <<disk, dirty>>
<1>w. w[r] \in Locals /\ CoverInv(r)
      BY DEF TypeOK, CoverAll
<1> DEFINE Moved == /\ UNCHANGED <<disk, dirty, hashStore, torn>>
                    /\ w'[r].scope = w[r].scope /\ w'[r].todo = w[r].todo
                    /\ w'[r].seen = w[r].seen /\ w'[r].failed = w[r].failed
                    /\ InFlight(w'[r]) = InFlight(w[r])
                    /\ pc[r] \in DeepPCs \ {"read"} /\ pc'[r] \in DeepPCs \ {"read"}
                    /\ pc[r] = "gate" => w[r].todo = {}
<1>1. ASSUME GateDone(r) PROVE Moved
      BY <1>w, <1>1, LocallyAt, GotoAt
      DEF GateDone, tree, vectors, keyword, Locals, InFlight, DeepPCs
<1>2. ASSUME NEW B \in SUBSET Files, TakeBatch(r, B) PROVE Moved
  <2>1. /\ w'[r] = [w[r] EXCEPT !.batch = B, !.queue = @ \ B]
        /\ pc[r] = "batch" /\ pc'[r] = "delete" /\ B \subseteq w[r].queue
        BY <1>2, LocallyAt, GotoAt DEF TakeBatch, IsSlice
  <2>2. w[r].batch = {}
        BY <2>1 DEF CoreInv, RunInv, QueueInv, DeepPCs, BatchPCs
  <2>3. UNCHANGED <<disk, dirty, hashStore, torn>>
        BY <1>2 DEF TakeBatch, tree
  <2> QED
      BY <1>w, <2>1, <2>2, <2>3 DEF Locals, InFlight, DeepPCs
<1>3. ASSUME DeleteRows(r) PROVE Moved
      BY <1>w, <1>3, LocallyAt, GotoAt
      DEF DeleteRows, tree, vectors, keyword, Locals, InFlight, DeepPCs
<1>4. ASSUME Embed(r) PROVE Moved
  <2>1. /\ w'[r] = [w[r] EXCEPT !.rows = PlannedRows(w[r]), !.cache = {}]
        /\ pc[r] = "embed" /\ pc'[r] \in {"text", "insert"}
        BY <1>4, LocallyAt, GotoAt DEF Embed
  <2>2. UNCHANGED <<disk, dirty, hashStore, torn>>
        BY <1>4 DEF Embed, tree
  <2> QED
      BY <1>w, <2>1, <2>2 DEF Locals, InFlight, DeepPCs
<1>5. ASSUME NEW S \in SUBSET w[r].rows, InsertSlice(r, S) PROVE Moved
      BY <1>w, <1>5, LocallyAt, GotoAt
      DEF InsertSlice, tree, vectors, keyword, Locals, InFlight, DeepPCs
<1>6. ASSUME NEW f \in Files, QueueText(r, f) PROVE Moved
  <2>1. /\ w'[r] = [w[r] EXCEPT !.batch = @ \ {f}, !.touched = @ \cup {f},
                                 !.ops[f] = DeepRows(w[r].got[f]),
                                 !.done = @ \cup {f}]
        /\ pc[r] = "text" /\ pc'[r] = "text" /\ f \in w[r].batch
        BY <1>6, LocallyAt DEF QueueText
  <2>2. UNCHANGED <<disk, dirty, hashStore, torn>>
        BY <1>6 DEF QueueText, tree
  <2> QED
      BY <1>w, <2>1, <2>2 DEF Locals, InFlight, DeepPCs
<1>7. ASSUME BatchDone(r) PROVE Moved
      BY <1>w, <1>7, LocallyAt, GotoAt
      DEF BatchDone, tree, vectors, keyword, Locals, InFlight, DeepPCs
<1>8. ASSUME CommitText(r) PROVE Moved
  <2>1. /\ w'[r] = [w[r] EXCEPT !.touched = {}, !.ops = [f \in Files |-> {}]]
        /\ pc[r] = "batch" /\ pc'[r] = "searchable"
        BY <1>8, LocallyAt, GotoAt DEF CommitText
  <2>2. UNCHANGED <<disk, dirty, hashStore, torn>>
        BY <1>8 DEF CommitText, tree
  <2> QED
      BY <1>w, <2>1, <2>2 DEF Locals, InFlight, DeepPCs
<1>9. ASSUME MarkSearchable(r) PROVE Moved
      BY <1>w, <1>9, LocallyAt, GotoAt
      DEF MarkSearchable, tree, vectors, keyword, Locals, InFlight, DeepPCs
<1>10. ASSUME MarkReady(r) PROVE Moved
      BY <1>w, <1>10, LocallyAt, GotoAt
      DEF MarkReady, tree, vectors, keyword, Locals, InFlight, DeepPCs
<1>11. ASSUME MarkFull(r) PROVE Moved
      BY <1>w, <1>11, LocallyAt, GotoAt
      DEF MarkFull, tree, vectors, keyword, Locals, InFlight, DeepPCs
<1>20. Moved
      BY <1>1, <1>2, <1>3, <1>4, <1>5, <1>6, <1>7, <1>8, <1>9, <1>10, <1>11
<1> QED
    BY <1>w, <1>20, CoverMove

(* Phase 1: a skipped file is settled ...                                  *)
LEMMA SkipCover ==
    ASSUME TypeOK, CoverAll, NEW r \in Runs, NEW f \in Files,
           SkipUnchanged(r, f)
    PROVE  CoverInv(r)'
<1>w. w[r] \in Locals /\ CoverInv(r) /\ hashStore[f] \in HashRow
      BY DEF TypeOK, CoverAll
<1>1. /\ w'[r] = [w[r] EXCEPT !.todo = @ \ {f}]
      /\ pc[r] = "gate" /\ pc'[r] = "gate"
      /\ UNCHANGED <<disk, dirty, hashStore, torn>>
      BY LocallyAt DEF SkipUnchanged, tree
<1>2. hashStore[f] = [hash |-> disk[f], status |-> "indexed"]
      BY <1>w DEF SkipUnchanged, ShouldProcess, HashRow
<1>3. /\ w'[r].todo = w[r].todo \ {f} /\ InFlight(w'[r]) = InFlight(w[r])
      /\ w'[r].scope = w[r].scope /\ w'[r].seen = w[r].seen
      /\ w'[r].failed = w[r].failed
      BY <1>w, <1>1 DEF Locals, InFlight
<1>4. BeingRead(r) = {} /\ BeingRead(r)' = {} /\ InFlight(w[r])' = InFlight(w[r])
      BY <1>1, <1>3 DEF BeingRead, InFlight
<1>5. OpenFiles(r)' = OpenFiles(r)
          \/ OpenFiles(r) \subseteq OpenFiles(r)' \cup {f}
      BY <1>3, <1>4 DEF OpenFiles
<1>6. Settled(r, f)' /\ \A g : Settled(r, g) => Settled(r, g)'
      BY <1>1, <1>2 DEF Settled
<1> QED
    BY <1>w, <1>1, <1>3, <1>4, <1>5, <1>6, CoverStep DEF DeepPCs

(* ... a gated one has the hash of its current version taken ...           *)
LEMMA GateCover ==
    ASSUME TypeOK, CoverAll, NEW r \in Runs, NEW f \in Files, Gate(r, f)
    PROVE  CoverInv(r)'
<1>w. w[r] \in Locals /\ CoverInv(r)
      BY DEF TypeOK, CoverAll
<1>1. /\ w'[r] = [w[r] EXCEPT !.todo = @ \ {f}, !.cur = f, !.seen[f] = disk[f]]
      /\ pc[r] = "gate" /\ pc'[r] = "read" /\ f \in w[r].todo
      /\ UNCHANGED <<disk, dirty, torn>>
      BY LocallyAt, GotoAt DEF Gate, tree
<1>2. \A g \in Files \ {f} : hashStore'[g] = hashStore[g]
      BY DEF Gate, SetHash
<1>3. /\ w'[r].todo = w[r].todo \ {f} /\ InFlight(w'[r]) = InFlight(w[r])
      /\ w'[r].scope = w[r].scope /\ w'[r].cur = f
      /\ w'[r].seen[f] = disk[f]
      /\ \A g \in Files \ {f} : w'[r].seen[g] = w[r].seen[g]
      /\ w'[r].failed = w[r].failed
      /\ InFlight(w[r]) \subseteq Files
      BY <1>w, <1>1 DEF Locals, InFlight
<1>4. BeingRead(r) = {} /\ BeingRead(r)' = {f} /\ InFlight(w[r])' = InFlight(w[r])
      BY <1>1, <1>3 DEF BeingRead, InFlight
<1>5. OpenFiles(r) \subseteq OpenFiles(r)' /\ f \in OpenFiles(r)
      BY <1>1, <1>3, <1>4 DEF OpenFiles
<1>6. \A g \in Files \ {f} : Settled(r, g) => Settled(r, g)'
      BY <1>1, <1>2 DEF Settled
<1> QED
    BY <1>w, <1>1, <1>3, <1>4, <1>5, <1>6, CoverStep DEF DeepPCs

(* ... and is queued when it was read: only its own torn mark changes.     *)
LEMMA ReadCover ==
    ASSUME TypeOK, CoreInv, CoverAll, NEW r \in Runs, ReadFile(r)
    PROVE  CoverInv(r)'
<1> DEFINE f == w[r].cur
<1>w. w[r] \in Locals /\ CoverInv(r) /\ f \in Files
      BY DEF TypeOK, CoverAll, ReadFile, CoreInv, RunInv, QueueInv, DeepPCs
<1>1. /\ w'[r] = [w[r] EXCEPT !.cur = NoFile, !.got[f] = disk[f],
                              !.queue = @ \cup {f}]
      /\ pc[r] = "read" /\ pc'[r] = "gate"
      /\ UNCHANGED <<disk, dirty, hashStore>>
      /\ \A g \in Files \ {f} : g \in torn' <=> g \in torn
      BY LocallyAt, GotoAt DEF ReadFile, tree
<1>3. /\ w'[r].todo = w[r].todo /\ InFlight(w'[r]) = InFlight(w[r]) \cup {f}
      /\ w'[r].scope = w[r].scope
      /\ w'[r].seen = w[r].seen
      /\ w'[r].failed = w[r].failed
      BY <1>w, <1>1 DEF Locals, InFlight
<1>4. /\ BeingRead(r) = {f} /\ BeingRead(r)' = {}
      /\ InFlight(w[r])' = InFlight(w[r]) \cup {f}
      BY <1>1, <1>3 DEF BeingRead, InFlight
<1>5. OpenFiles(r)' = OpenFiles(r) /\ f \in OpenFiles(r)
      BY <1>3, <1>4 DEF OpenFiles
<1>6. \A g \in Files \ {f} : Settled(r, g) => Settled(r, g)'
      BY <1>1 DEF Settled
<1> HIDE DEF f
<1> QED
    BY <1>w, <1>1, <1>3, <1>4, <1>5, <1>6, CoverStep DEF DeepPCs

(* A failure of any kind only has to be recorded in the run.               *)
LEMMA FailureCover ==
    ASSUME TypeOK, CoreInv, CoverAll, NEW r \in Runs,
           \/ ReadFileFails(r) \/ BatchFails(r)
           \/ \E f \in Files : QueueTextFails(r, f)
    PROVE  CoverInv(r)' /\ pc[r] \in DeepPCs /\ UNCHANGED <<disk, dirty>>
<1>w. w[r] \in Locals /\ CoverInv(r)
      BY DEF TypeOK, CoverAll
<1> DEFINE Failure ==
              /\ UNCHANGED <<disk, dirty>>
              /\ pc[r] \in DeepPCs /\ pc'[r] \in DeepPCs \ {"read"}
              /\ pc'[r] = "gate" => pc[r] \in {"gate", "read"}
              /\ pc[r] \in {"gate", "read"} => pc'[r] = "gate"
              /\ w'[r].todo = w[r].todo /\ w'[r].scope = w[r].scope
              /\ w'[r].seen = w[r].seen /\ w'[r].failed = TRUE
              /\ InFlight(w'[r]) \subseteq InFlight(w[r])
<1>1. ASSUME ReadFileFails(r) PROVE Failure
  <2>1. /\ w'[r] = [w[r] EXCEPT !.cur = NoFile, !.failed = TRUE]
        /\ pc[r] = "read" /\ pc'[r] = "gate" /\ UNCHANGED <<disk, dirty>>
        BY <1>1, LocallyAt, GotoAt DEF ReadFileFails, tree
  <2> QED
      BY <1>w, <2>1 DEF Locals, InFlight, DeepPCs
<1>2. ASSUME BatchFails(r) PROVE Failure
  <2>1. /\ w'[r] = [w[r] EXCEPT !.batch = {}, !.cache = {}, !.rows = {},
                                !.failed = TRUE]
        /\ pc[r] \in {"delete", "embed", "insert"} /\ pc'[r] = "batch"
        /\ UNCHANGED <<disk, dirty>>
        BY <1>2, LocallyAt, GotoAt DEF BatchFails, tree
  <2> QED
      BY <1>w, <2>1 DEF Locals, InFlight, DeepPCs
<1>3. ASSUME NEW f \in Files, QueueTextFails(r, f) PROVE Failure
  <2>1. /\ w'[r] = [w[r] EXCEPT !.batch = @ \ {f}, !.touched = @ \cup {f},
                                !.ops[f] = {}, !.failed = TRUE]
        /\ pc[r] = "text" /\ pc'[r] = "text" /\ UNCHANGED <<disk, dirty>>
        BY <1>3, LocallyAt DEF QueueTextFails, tree
  <2> QED
      BY <1>w, <2>1 DEF Locals, InFlight, DeepPCs
<1>4. Failure
      BY <1>1, <1>2, <1>3
<1>5. BeingRead(r)' = {} /\ InFlight(w[r])' = InFlight(w'[r])
      BY <1>4 DEF BeingRead, InFlight
<1>6. pc'[r] \notin {"gate", "read"} => w'[r].todo = {}
      BY <1>4, <1>w DEF CoverInv
<1> QED
    BY <1>w, <1>4, <1>5, <1>6, CoverStep

(* An indexed file is settled: its hash is that of the version it has.     *)
LEMMA SetIndexedCover ==
    ASSUME TypeOK, CoreInv, CoverAll, NEW r \in Runs, NEW f \in Files,
           SetIndexed(r, f)
    PROVE  CoverInv(r)'
<1>w. w[r] \in Locals /\ CoverInv(r)
      BY DEF TypeOK, CoverAll
<1>1. /\ w'[r] = [w[r] EXCEPT !.done = @ \ {f}]
      /\ pc[r] = "indexed" /\ pc'[r] = "indexed" /\ f \in w[r].done
      /\ UNCHANGED <<disk, dirty, torn>>
      BY LocallyAt DEF SetIndexed, tree
<1>2. /\ hashStore'[f] = [hash |-> w[r].seen[f], status |-> "indexed"]
      /\ \A g \in Files \ {f} : hashStore'[g] = hashStore[g]
      BY DEF SetIndexed, SetHash
<1>3. /\ w'[r].todo = w[r].todo
      /\ InFlight(w'[r]) \subseteq InFlight(w[r])
      /\ InFlight(w[r]) \subseteq InFlight(w'[r]) \cup {f}
      /\ w'[r].scope = w[r].scope /\ w'[r].seen = w[r].seen
      /\ w'[r].failed = w[r].failed
      BY <1>w, <1>1 DEF Locals, InFlight
<1>4. /\ BeingRead(r) = {} /\ BeingRead(r)' = {} /\ w[r].todo = {}
      /\ InFlight(w[r])' = InFlight(w'[r])
      BY <1>w, <1>1, <1>3 DEF BeingRead, InFlight, CoverInv, DeepPCs
<1>5. OpenFiles(r) \subseteq OpenFiles(r)' \cup {f}
      BY <1>3, <1>4 DEF OpenFiles
<1>6. f \notin dirty[r] => w[r].seen[f] = disk[f]
      BY <1>w, <1>1 DEF CoverInv, InFlight, DeepPCs
<1>7. Settled(r, f)' /\ \A g \in Files \ {f} : Settled(r, g) => Settled(r, g)'
      BY <1>1, <1>2, <1>6 DEF Settled
<1> QED
    BY <1>w, <1>1, <1>3, <1>4, <1>5, <1>7, CoverStep DEF DeepPCs

(* Before the deep pass the scope is still to be gated as a whole.         *)
LEMMA OpeningCover ==
    ASSUME TypeOK, CoreInv, CoverAll, NEW r \in Runs,
           \/ OpenExisting(r) \/ NoStore(r) \/ OpenNew(r) \/ CreateTable(r)
           \/ OpenText(r)
    PROVE  CoverInv(r)' /\ UNCHANGED <<disk, dirty, hashStore, torn>>
<1>w. w[r] \in Locals /\ CoverInv(r) /\ Collected(w[r].req) \subseteq Files
      BY DEF TypeOK, CoverAll, Collected, Present
<1>1. ASSUME OpenExisting(r) \/ NoStore(r) PROVE CoverInv(r)'
  <2>1. /\ w'[r].scope = w'[r].todo
        /\ pc'[r] \in {"lock", "eager"}
    <3>1. CASE OpenExisting(r)
      <4>1. /\ w'[r] = [w[r] EXCEPT !.scope = Collected(w[r].req),
                                    !.todo = Collected(w[r].req),
                                    !.meta = metaFile, !.lazy = TRUE]
            /\ pc'[r] = "lock"
            BY <3>1, LocallyAt, GotoAt DEF OpenExisting
      <4> QED
          BY <1>w, <4>1 DEF Locals
    <3>2. CASE NoStore(r)
      <4>1. /\ w'[r] = [w[r] EXCEPT !.scope = Collected(w[r].req),
                                    !.todo = Collected(w[r].req)]
            /\ pc'[r] = "eager"
            BY <3>2, LocallyAt, GotoAt DEF NoStore
      <4> QED
          BY <1>w, <4>1 DEF Locals
    <3> QED
        BY <1>1, <3>1, <3>2
  <2> QED
      BY <2>1 DEF CoverInv, DeepPCs
<1>2. ASSUME OpenNew(r) PROVE CoverInv(r)'
  <2>1. /\ w'[r].scope = w[r].scope /\ w'[r].todo = w[r].todo
        /\ pc[r] = "eager" /\ pc'[r] = "create"
        BY <1>2, <1>w, LocallyAt, GotoAt DEF OpenNew, Locals
  <2> QED
      BY <1>w, <2>1 DEF CoverInv, DeepPCs
<1>3. ASSUME CreateTable(r) PROVE CoverInv(r)'
  <2>1. w' = w /\ pc[r] = "create" /\ pc'[r] = "lock"
        BY <1>3, GotoAt DEF CreateTable
  <2> QED
      BY <1>w, <2>1 DEF CoverInv, DeepPCs
<1>4. ASSUME OpenText(r) PROVE CoverInv(r)'
  <2>1. /\ w'[r] = [w[r] EXCEPT !.force = w[r].req.force \/ ~ready,
                                !.mark = ready \/ w[r].req.full]
        /\ pc[r] = "lock" /\ pc'[r] = "gate"
        BY <1>4, LocallyAt, GotoAt DEF OpenText
  <2>2. /\ w'[r].scope = w[r].scope /\ w'[r].todo = w[r].todo
        /\ InFlight(w'[r]) = InFlight(w[r])
        BY <1>w, <2>1 DEF Locals, InFlight
  <2>3. InFlight(w'[r]) = {} /\ w[r].scope \subseteq w[r].todo
        BY <1>w, <2>1, <2>2 DEF CoreInv, RunInv, QuietInv, DeepPCs, CoverInv
  <2>4. BeingRead(r)' = {} /\ InFlight(w[r])' = InFlight(w'[r])
        BY <2>1 DEF BeingRead, InFlight
  <2> QED
      BY <2>1, <2>2, <2>3, <2>4 DEF CoverInv
<1>5. UNCHANGED <<disk, dirty, hashStore, torn>>
      BY DEF OpenExisting, NoStore, OpenNew, CreateTable, OpenText, tree
<1> QED
    BY <1>1, <1>2, <1>3, <1>4, <1>5

(* A run outside its deep pass and not yet collecting owes nothing.        *)
LEMMA NothingToCover ==
    ASSUME NEW r \in Runs, pc'[r] \in {"idle", "shallow", "open"} \cup ShallowPCs
    PROVE  CoverInv(r)'
BY DEF CoverInv, ShallowPCs, DeepPCs

(* The coverage of every run is kept by every step.                        *)
LEMMA CoverInit == Init => CoverAll
BY DEF Init, CoverAll, CoverInv, DeepPCs

LEMMA CoverNext == TypeOK /\ CoreInv /\ CoverAll /\ [Next]_vars => CoverAll'
<1> SUFFICES ASSUME TypeOK, CoreInv, CoverAll, [Next]_vars PROVE CoverAll'
    OBVIOUS
<1> DEFINE Moves(r) ==
              /\ disk' = disk
              /\ \A s \in Runs \ {r} : pc'[s] = pc[s] /\ w'[s] = w[s]
                                       /\ dirty'[s] = dirty[s]
<1>1. CASE UNCHANGED vars
      BY <1>1 DEF vars, CoverAll, CoverInv, BeingRead, InFlight, Settled
<1>2. ASSUME NEW e \in Edits, Edit(e[1], e[2]) PROVE CoverAll'
  <2>1. e[1] \in Files
        BY ConstantsAssumption
  <2>2. /\ UNCHANGED <<hashStore, torn, pc, w>>
        /\ \A f \in Files \ {e[1]} : disk'[f] = disk[f]
        /\ \A r \in Runs : pc[r] # "idle" =>
              e[1] \in dirty'[r] /\ dirty[r] \subseteq dirty'[r]
        BY <1>2, <2>1 DEF Edit, TypeOK
  <2>3. ASSUME NEW r \in Runs PROVE CoverInv(r)'
    <3>1. CASE pc[r] = "idle"
          BY <2>2, <3>1 DEF CoverInv, DeepPCs
    <3>2. CASE pc[r] # "idle"
      <4>1. CoverInv(r) /\ w[r] \in Locals /\ w[r].scope \subseteq Files
            BY DEF CoverAll, TypeOK, Locals
      <4>2. /\ BeingRead(r)' = BeingRead(r)
            /\ InFlight(w[r])' = InFlight(w[r])
            BY <2>2 DEF BeingRead, InFlight
      <4>3. \A f \in Files : Settled(r, f) => Settled(r, f)'
            BY <2>2, <3>2 DEF Settled
      <4>4. pc[r] \in DeepPCs => BeingRead(r) \cup InFlight(w[r]) \subseteq Files
            BY <4>1 DEF BeingRead, InFlight, Locals, CoreInv, RunInv, QueueInv,
                        DeepPCs
      <4> QED
          BY <2>2, <3>2, <4>1, <4>2, <4>3, <4>4 DEF CoverInv
    <3> QED
        BY <3>1, <3>2
  <2> QED
      BY <2>3 DEF CoverAll
<1>3. ASSUME NEW r \in Runs, NEW q \in Requests, Start(r, q) PROVE CoverAll'
  <2>1. pc'[r] \in {"shallow", "open"} /\ Moves(r)
        BY <1>3, GotoAt, LocallyAt DEF Start, tree
  <2> QED
      BY <1>3, <2>1, NothingToCover, CoverFrame DEF Start
<1>4. ASSUME NEW r \in Runs, Return(r), UNCHANGED <<disk, hashStore, torn>>
      PROVE  CoverAll'
  <2>1. pc'[r] = "idle" /\ Moves(r)
        BY <1>4, GotoAt, LocallyAt DEF Return, TypeOK
  <2> QED
      BY <1>4, <2>1, NothingToCover, CoverFrame
<1>5. ASSUME NEW r \in Runs,
             \/ Stop(r) \/ WriterBusy(r) \/ ModelMismatch(r)
             \/ \E f \in Files : HashFileFails(r, f)
             \/ EmbedderRefused(r) \/ Finish(r)
      PROVE  CoverAll'
      BY <1>4, <1>5
      DEF Stop, WriterBusy, ModelMismatch, HashFileFails, EmbedderRefused, Finish
<1>6. ASSUME NEW r \in Runs, ShallowStep(r) PROVE CoverAll'
  <2>1. pc'[r] \in {"open"} \cup ShallowPCs /\ UNCHANGED <<disk, hashStore, torn>>
        BY <1>6, GotoAt
        DEF ShallowStep, ShallowOpen, ShallowRead, ShallowCommit, ShallowMark,
            ShallowPCs, tree
  <2>2. Moves(r)
        BY <1>6, GotoAt, LocallyAt
        DEF ShallowStep, ShallowOpen, ShallowRead, ShallowCommit, ShallowMark, tree
  <2> QED
      BY <2>1, <2>2, NothingToCover, CoverFrame
<1>7. ASSUME NEW r \in Runs,
             \/ OpenExisting(r) \/ NoStore(r) \/ OpenNew(r) \/ CreateTable(r)
             \/ OpenText(r)
      PROVE  CoverAll'
  <2>1. Moves(r)
        BY <1>7, GotoAt, LocallyAt
        DEF OpenExisting, NoStore, OpenNew, CreateTable, OpenText, tree
  <2> QED
      BY <1>7, <2>1, OpeningCover, CoverFrame
<1>8. ASSUME NEW r \in Runs, pc[r] \in DeepPCs, CoverInv(r)',
             UNCHANGED <<disk, dirty>>,
             \A s \in Runs \ {r} : pc'[s] = pc[s] /\ w'[s] = w[s]
      PROVE  CoverAll'
      BY <1>8, CoverFrame DEF Locked
<1>9. ASSUME NEW r \in Runs, NEW f \in Files,
             SkipUnchanged(r, f) \/ Gate(r, f) \/ SetIndexed(r, f)
      PROVE  CoverAll'
  <2>1. CoverInv(r)'
        BY <1>9, SkipCover, GateCover, SetIndexedCover
  <2>2. /\ pc[r] \in DeepPCs /\ UNCHANGED <<disk, dirty>>
        /\ \A s \in Runs \ {r} : pc'[s] = pc[s] /\ w'[s] = w[s]
        BY <1>9, GotoAt, LocallyAt
        DEF SkipUnchanged, Gate, SetIndexed, DeepPCs, tree
  <2> QED
      BY <1>8, <2>1, <2>2
<1>10. ASSUME NEW r \in Runs, ReadFile(r) PROVE CoverAll'
  <2>1. /\ pc[r] \in DeepPCs /\ UNCHANGED <<disk, dirty>>
        /\ \A s \in Runs \ {r} : pc'[s] = pc[s] /\ w'[s] = w[s]
        BY <1>10, GotoAt, LocallyAt DEF ReadFile, DeepPCs, tree
  <2> QED
      BY <1>8, <1>10, <2>1, ReadCover
<1>11. ASSUME NEW r \in Runs,
              \/ ReadFileFails(r) \/ BatchFails(r)
              \/ \E f \in Files : QueueTextFails(r, f)
       PROVE  CoverAll'
  <2>1. \A s \in Runs \ {r} : pc'[s] = pc[s] /\ w'[s] = w[s]
        BY ZenonT(60), <1>11, GotoAt, LocallyAt DEF ReadFileFails, BatchFails, QueueTextFails
  <2> QED
      BY <1>8, <1>11, <2>1, FailureCover
<1>12. ASSUME NEW r \in Runs,
              \/ GateDone(r) \/ \E B \in SUBSET Files : TakeBatch(r, B)
              \/ DeleteRows(r) \/ Embed(r)
              \/ \E S \in SUBSET w[r].rows : InsertSlice(r, S)
              \/ \E f \in Files : QueueText(r, f)
              \/ BatchDone(r) \/ CommitText(r)
              \/ MarkSearchable(r) \/ MarkReady(r) \/ MarkFull(r)
       PROVE  CoverAll'
  <2>1. \A s \in Runs \ {r} : pc'[s] = pc[s] /\ w'[s] = w[s]
        BY <1>12, GotoAt, LocallyAt
        DEF GateDone, TakeBatch, DeleteRows, Embed, InsertSlice, QueueText,
            BatchDone, CommitText, MarkSearchable, MarkReady, MarkFull
  <2> QED
      BY <1>8, <1>12, <2>1, MoveCover
<1> HIDE DEF Moves
<1>13. ASSUME NEW r \in Runs, RunStep(r) PROVE CoverAll'
  <2>1. CASE OpenStep(r)
        BY <2>1, <1>5, <1>7 DEF OpenStep
  <2>2. CASE GateStep(r)
        BY <2>2, <1>5, <1>9, <1>10, <1>11, <1>12 DEF GateStep
  <2>3. CASE BatchStep(r)
        BY <2>3, <1>5, <1>11, <1>12 DEF BatchStep
  <2>4. CASE EndStep(r)
        BY <2>4, <1>5, <1>9, <1>12 DEF EndStep
  <2> QED
      BY <1>6, <1>13, <2>1, <2>2, <2>3, <2>4 DEF RunStep
<1> QED
    BY <1>1, <1>2, <1>3, <1>5, <1>13 DEF Next, Environment

(* A run that reaches its end without a failed file has indexed the        *)
(* current version of every file it collected and nobody edited meanwhile, *)
(* with the vectors of that version, whatever other runs did around it.    *)
THEOREM CleanRunsCover == Spec => []CleanRunCovers
<1>1. TypeOK /\ IndexInv /\ CoverAll => CleanRunCovers
  <2> SUFFICES ASSUME TypeOK, IndexInv, CoverAll, NEW r \in Runs,
                      pc[r] = "indexed", w[r].done = {}, ~w[r].failed,
                      NEW f \in w[r].scope \ (dirty[r] \cup torn)
               PROVE  /\ hashStore[f] = [hash |-> disk[f], status |-> "indexed"]
                      /\ LanceChunks(f) = ChunksOf[disk[f]]
      BY DEF CleanRunCovers
  <2>1. f \in Files /\ w[r] \in Locals
        BY DEF TypeOK, Locals
  <2>2. w[r].todo = {} /\ BeingRead(r) = {}
        BY DEF CoverAll, CoverInv, BeingRead, DeepPCs
  <2>3. InFlight(w[r]) = {}
        BY DEF IndexInv, RunInv, QueueInv, InFlight, DeepPCs, BatchPCs, Committed
  <2>4. hashStore[f] = [hash |-> disk[f], status |-> "indexed"]
        BY <2>2, <2>3 DEF CoverAll, CoverInv, Settled, DeepPCs
  <2> QED
      BY <2>1, <2>4 DEF IndexInv, IndexedHasVectors, Indexed
<1>2. TypeOK /\ IndexInv /\ CoverAll /\ [Next]_vars => CoverAll'
      BY CoverNext DEF IndexInv, CoreInv
<1> QED
    BY <1>1, <1>2, CoverInit, IndexInvariant, PTL DEF Spec

-----------------------------------------------------------------------------
(* IndexContract is worth implementing: what it says of a trusted file     *)
(* holds in all of its behaviours, whatever two variables it is about.     *)

VARIABLES promised, held

Contract == INSTANCE IndexContract WITH trusted <- promised, rows <- held

ContractType ==
    /\ promised \in [Files -> Contents \cup {Absent}]
    /\ held \in [Files -> SUBSET Chunks]

ContractInv == ContractType /\ Contract!TrustedRowsAreRight

LEMMA ContractInvInit == Contract!ContractInit => ContractInv
BY DEF Contract!ContractInit, ContractInv, ContractType, Contract!TrustedRowsAreRight

LEMMA ContractInvNext ==
    ContractInv /\ [Contract!ContractNext]_(Contract!contractVars) => ContractInv'
<1> SUFFICES ASSUME ContractInv, [Contract!ContractNext]_(Contract!contractVars)
             PROVE  ContractInv'
    OBVIOUS
<1> USE DEF ContractInv, ContractType, Contract!TrustedRowsAreRight
<1>1. CASE UNCHANGED Contract!contractVars
      BY <1>1 DEF Contract!contractVars
<1>2. ASSUME NEW f \in Files, Contract!Distrust(f) PROVE ContractInv'
      BY <1>2 DEF Contract!Distrust
<1>3. ASSUME NEW F \in SUBSET Files, Contract!Rewrite(F) PROVE ContractInv'
  <2>1. PICK new \in [Files -> SUBSET Chunks] :
            held' = [f \in Files |-> IF f \in F THEN new[f] ELSE held[f]]
        BY <1>3 DEF Contract!Rewrite
  <2> QED
      BY <1>3, <2>1 DEF Contract!Rewrite
<1>4. ASSUME NEW f \in Files, NEW c \in Contents, Contract!Trust(f, c) PROVE ContractInv'
      BY <1>4 DEF Contract!Trust
<1> QED
    BY <1>1, <1>2, <1>3, <1>4 DEF Contract!ContractNext

(* In every behaviour of the contract a trusted file has exactly the rows  *)
(* of the version it is trusted at, so a reader needs no other check.      *)
THEOREM ContractSuffices == Contract!ContractSpec => []Contract!TrustedRowsAreRight
<1>1. ContractInv => Contract!TrustedRowsAreRight
      BY DEF ContractInv
<1> QED
    BY <1>1, ContractInvInit, ContractInvNext, PTL DEF Contract!ContractSpec
=============================================================================
