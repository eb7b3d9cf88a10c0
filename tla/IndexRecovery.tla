---------------------------- MODULE IndexRecovery ----------------------------
(***************************************************************************)
(* IndexPipeline under what happens to its stores between runs: a user     *)
(* who follows the advice of the "re-index required" errors and deletes    *)
(* the lance directory, and an upgrade of vektor that changes the Tantivy  *)
(* schema, upon which the next TextIndex::new throws the old index away -  *)
(* in steps, and before it has any lock.                                   *)
(***************************************************************************)
EXTENDS IndexPipeline

VARIABLES
    refused,     \* a run ended in "re-index required: delete {lance_dir}"
    outdated,    \* the Tantivy directory has the schema of an older vektor
    removers,    \* runs that found it so and are about to remove it
    orphan       \* a removal cut short left the ready marker, not the index

schemaVars == <<outdated, removers, orphan>>
recoveryVars == <<vars, refused, schemaVars>>

AllIdle == \A r \in Runs : pc[r] = "idle"

(* "... delete {lance_dir} and run `vektor index` again": the directory    *)
(* holds the chunks table only, vector_meta.json is its sibling.           *)
DeleteLance ==
    /\ refused /\ AllIdle
    /\ lance' = [f \in Files |-> {}]
    /\ table' = FALSE
    /\ refused' = FALSE
    /\ UNCHANGED <<tree, hashStore, metaFile, keyword, writer, pc, w, torn,
                   schemaVars>>

Upgrade ==
    /\ AllIdle
    /\ outdated' = TRUE
    /\ UNCHANGED <<vars, refused, removers, orphan>>

(* open_or_create_with_schema_rebuild: Index::open_or_create reports that  *)
(* the schema does not match. The run holds no lock here.                  *)
FindOutdated(r) ==
    /\ outdated /\ r \notin removers
    /\ pc[r] \in {"shallow", "lock"}
    /\ removers' = removers \cup {r}
    /\ UNCHANGED <<vars, refused, outdated, orphan>>

(* remove_dir_all has deleted all entries of the directory but those in    *)
(* left: "index" is Tantivy's meta.json, without which the directory is    *)
(* that of a new index. The file of the writer lock goes as well, so a     *)
(* writer another run holds no longer keeps anybody out.                   *)
RemoveAllBut(left) ==
    /\ text' = IF "index" \in left THEN text ELSE [f \in Files |-> {}]
    /\ searchable' = (searchable /\ "searchable" \in left)
    /\ ready' = (ready /\ "ready" \in left)
    /\ outdated' = (outdated /\ "index" \in left)
    /\ orphan' = (ready' /\ (orphan \/ "index" \notin left))

(* Mutant: the directory is rebuilt around the old ready marker.           *)
RebuildKeepsReady(r) ==
    /\ r \in removers
    /\ text' = [f \in Files |-> {}] /\ searchable' = FALSE
    /\ outdated' = FALSE /\ removers' = removers \ {r}
    /\ writer' = NoRun
    /\ UNCHANGED <<tree, hashStore, vectors, ready, pc, w, torn, refused,
                   orphan>>

(* The directory is removed, markers included, and made anew; the schema   *)
(* is not looked at again.                                                 *)
RebuildText(r) ==
    /\ r \in removers
    /\ RemoveAllBut({}) /\ removers' = removers \ {r}
    /\ writer' = NoRun
    /\ UNCHANGED <<tree, hashStore, vectors, pc, w, torn, refused>>

(* The process dies, or an entry cannot be deleted, half way through.      *)
RebuildStops(r, left) ==
    /\ "stop" \in Faults
    /\ r \in removers
    /\ RemoveAllBut(left) /\ removers' = removers \ {r}
    /\ Return(r)
    /\ UNCHANGED <<disk, hashStore, vectors, torn, refused>>

(* The two refusals that carry the advice.                                 *)
Refuse(r) ==
    /\ EmbedderRefused(r) \/ ModelMismatch(r)
    /\ refused' = TRUE
    /\ UNCHANGED schemaVars

(* Every other step; nobody gets the writer of an outdated index, and a    *)
(* run that is about to remove the directory does nothing else.            *)
Ordinary ==
    /\ Next
    /\ outdated => \A r \in Runs : writer' # r
    /\ \A r \in removers : pc'[r] = pc[r]
    /\ UNCHANGED <<refused, schemaVars>>

RecoveryNext ==
    \/ DeleteLance
    \/ Upgrade
    \/ \E r \in Runs : FindOutdated(r) \/ RebuildText(r) \/ Refuse(r)
    \/ \E r \in Runs, left \in SUBSET {"index", "searchable", "ready"} :
          RebuildStops(r, left)
    \/ Ordinary

RecoveryInit ==
    /\ Init /\ refused = FALSE
    /\ outdated = FALSE /\ removers = {} /\ orphan = FALSE

RecoverySpec == RecoveryInit /\ [][RecoveryNext]_recoveryVars

-----------------------------------------------------------------------------
(* Properties.                                                             *)

(* While the ready marker stands, an indexed file has its keyword rows,    *)
(* even when the Tantivy directory was thrown away in between: the marker  *)
(* goes with the rows, its absence forces every run, and only a run over   *)
(* the whole project brings it back. It holds of runs that do not overlap, *)
(* and until a removal is cut short between the index and its marker.      *)
ReadyHasText == ready /\ ~orphan => IndexedHasText

(* It does not hold of a directory that such a removal left (README).      *)
LeftMarkerHasText == ready => IndexedHasText

(* After the advice was followed the next run can open the store: this is  *)
(* what the advice is for.                                                 *)
DeletedStoreOpens ==
    \A r \in Runs : pc[r] = "eager" /\ ~table =>
        metaFile.model \in {NoModel, w[r].req.model}

-----------------------------------------------------------------------------
(* Why the marker can be believed when runs do not overlap: the inductive  *)
(* invariant.                                                              *)

(* f is not called indexed, or its keyword rows are there.                 *)
HasText(f) ==
    Indexed(f) /\ f \notin torn =>
        \/ text[f] = DeepRows(hashStore[f].hash)
        \/ \E c \in Contents : text[f] = ShallowRows(c)

(* The writer lock is held by a run that is in an index pass, and only a   *)
(* run that is not in one yet removes the directory.                       *)
LockInv ==
    /\ \A r \in Runs : writer = r => pc[r] \in Locked
    /\ \A r \in removers : r \in Runs /\ pc[r] \in {"shallow", "lock"}

(* Files the hash store knows are still there: what a full run collects    *)
(* holds every indexed file.                                               *)
KnownInv == \A f \in Files : hashStore[f].status # "none" => disk[f] # Absent

(* What a run that will set the marker still has to do: no indexed file is *)
(* outside its scope, and a file without rows is still to be gated, with   *)
(* the gate forced open.                                                   *)
MarkInv(r) ==
    /\ pc[r] \in {"eager", "create", "lock"} /\ w[r].req.full =>
          \A f \in Files \ w[r].scope : ~Indexed(f)
    /\ pc[r] \in DeepPCs /\ w[r].mark =>
          \/ orphan
          \/ \A f \in Files : HasText(f) \/ (w[r].force /\ f \in w[r].todo)
    /\ pc[r] = "ready" => w[r].mark

ReadyInv == LockInv /\ KnownInv /\ ReadyHasText /\ \A r \in Runs : MarkInv(r)

(* Why the rows have one model: a single run keeps the meta it opened the  *)
(* store with equal to the one on disk, and embeds with that model only.   *)
ModelInv(r) ==
    /\ pc[r] \notin {"lock"} \cup DeepPCs => ~w[r].lazy
    /\ pc[r] \notin DeepPCs => w[r].cache = {} /\ w[r].rows = {}
    /\ pc[r] = "create" =>
          /\ w[r].meta.model = w[r].req.model
          /\ metaFile.model \in {NoModel, w[r].req.model}
    /\ pc[r] \in {"lock"} \cup DeepPCs =>
          /\ w[r].meta.model = metaFile.model
          /\ ~w[r].lazy => w[r].meta.model = w[r].req.model
    /\ pc[r] \in DeepPCs =>
          \A row \in w[r].cache \cup {fr[2] : fr \in w[r].rows} :
              row[2] = w[r].meta.model
    /\ pc[r] \in BatchPCs => w[r].meta.model = w[r].req.model
=============================================================================
