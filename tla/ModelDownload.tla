--------------------------- MODULE ModelDownload ---------------------------
(***************************************************************************)
(* vektor models download: download_model fetches the artifacts of a model *)
(* one after the other, each into <file>.part, which a later attempt       *)
(* resumes with a range request, and renames it when the body has ended.   *)
(*                                                                         *)
(* Files are inodes that a path and the handles of processes share, and a  *)
(* file is the sequence of its bytes; a byte is told apart by the version  *)
(* of the artifact it comes from and its offset.  Runs are processes: each *)
(* may stop anywhere and be started again.                                 *)
(***************************************************************************)
EXTENDS Integers, Sequences, FiniteSets

CONSTANTS
    Runs,            \* processes that download the model
    Artifacts,       \* number of artifacts: tokenizer.json, onnx/model.onnx
    Versions,        \* versions of the remote repository
    SizeOf(_, _),    \* bytes of an artifact in a version
    Inodes,          \* enough of them
    MaxPart,         \* the 4 GiB a .part may have
    RangesHonoured,  \* BOOLEAN values: does the server answer a range?
    Framings,        \* how a body ends: "length" (or chunked), "close"
    FreeRepository,  \* may the repository change below a half-done download?
    MaxFaults        \* bound: failures and stops in a behaviour

ASSUME SizesAssumption ==
    /\ Artifacts \in Nat /\ MaxPart \in Nat /\ MaxFaults \in Nat
    /\ \A a \in 1..Artifacts, v \in Versions : SizeOf(a, v) \in Nat \ {0}
ASSUME EnvironmentAssumption ==
    /\ RangesHonoured \subseteq BOOLEAN /\ FreeRepository \in BOOLEAN
    /\ Framings \subseteq {"length", "close"}

None == [none |-> TRUE]
ASSUME NoneAssumption == None \notin Inodes /\ None \notin Versions

Byte == (Versions \cup {None}) \X Nat   \* <<None, 0>>: a hole, read as zero

VARIABLES
    remote,    \* the version the repository serves
    final,     \* artifact -> the inode at its final path, or None
    part,      \* artifact -> the inode at <file>.part, or None
    content,   \* inode -> its bytes
    pc,        \* run -> its step
    w,         \* run -> its locals
    faults     \* failures and stops so far

disk == <<final, part, content>>
vars == <<remote, disk, pc, w, faults>>

(* len: existing_part_len; resp: the response; file: the open file, pos    *)
(* where it writes unless it appends; next: bytes of the body received.    *)
NoResponse == [version |-> None, from |-> 0, framing |-> "length"]
Idle == [a |-> 1, len |-> 0, append |-> FALSE, file |-> None, pos |-> 0,
         resp |-> NoResponse, next |-> 0]

Init ==
    /\ remote \in Versions
    /\ content = [i \in Inodes |-> <<>>]
    /\ part = [a \in 1..Artifacts |-> None]
    /\ final \in [1..Artifacts -> Inodes \cup {None}]
    /\ \A a, b \in 1..Artifacts :
          a # b /\ final[a] # None => final[a] # final[b]
    /\ pc = [r \in Runs |-> "idle"]
    /\ w = [r \in Runs |-> Idle]
    /\ faults = 0

Goto(r, step) == pc' = [pc EXCEPT ![r] = step]
Set(r, locals) == w' = [w EXCEPT ![r] = locals]
At(r, step) == pc[r] = step
Art(r) == w[r].a
Length(inode) == IF inode = None THEN 0 ELSE Len(content[inode])
Fresh(i) == /\ i \in Inodes
            /\ \A a \in 1..Artifacts : final[a] # i /\ part[a] # i
            /\ \A r \in Runs : w[r].file # i

-----------------------------------------------------------------------------
(* download_model.                                                         *)
Start(r) == /\ At(r, "idle")
            /\ Goto(r, "check") /\ Set(r, Idle)
            /\ UNCHANGED <<remote, disk, faults>>

Return(r) == /\ At(r, "check") /\ Art(r) > Artifacts
             /\ Goto(r, "idle") /\ Set(r, Idle)
             /\ UNCHANGED <<remote, disk, faults>>

(* download_artifact: a final file that is not empty is complete.          *)
(* Mutant: any final file is complete.                                     *)
PresentAtAll(r) == final[Art(r)] # None
(* Mutant: a complete file is fetched again.                               *)
PresentNever(r) == FALSE
Present(r) == Length(final[Art(r)]) > 0

Skip(r) == /\ At(r, "check") /\ Art(r) <= Artifacts /\ Present(r)
           /\ Goto(r, "check") /\ Set(r, [Idle EXCEPT !.a = Art(r) + 1])
           /\ UNCHANGED <<remote, disk, faults>>

RemoveEmpty(r) ==
    /\ At(r, "check") /\ Art(r) <= Artifacts
    /\ ~Present(r) /\ final[Art(r)] # None
    /\ final' = [final EXCEPT ![Art(r)] = None]
    /\ UNCHANGED <<remote, part, content, pc, w, faults>>

RemovePart(r) == part' = [part EXCEPT ![Art(r)] = None]

MeasurePart(r) ==
    /\ At(r, "check") /\ Art(r) <= Artifacts /\ final[Art(r)] = None
    /\ LET len == Length(part[Art(r)])
       IN  IF len > MaxPart
           THEN RemovePart(r) /\ Set(r, [w[r] EXCEPT !.len = 0])
           ELSE UNCHANGED part /\ Set(r, [w[r] EXCEPT !.len = len])
    /\ Goto(r, "request")
    /\ UNCHANGED <<remote, final, content, faults>>

-----------------------------------------------------------------------------
(* The request.  A server that honours ranges answers 206 from the first   *)
(* missing byte, and 416 when there is none; otherwise 200 with all bytes. *)
Respond(r, from, append, framing) ==
    Set(r, [w[r] EXCEPT !.resp = [version |-> remote, from |-> from,
                                  framing |-> framing],
                        !.append = append, !.next = 0])

PartialContent(r) ==
    /\ At(r, "request") /\ TRUE \in RangesHonoured
    /\ w[r].len > 0 /\ w[r].len < SizeOf(Art(r), remote)
    /\ \E framing \in Framings : Respond(r, w[r].len, TRUE, framing)
    /\ Goto(r, "open")
    /\ UNCHANGED <<remote, disk, faults>>

WholeContent(r) ==
    /\ At(r, "request") /\ (w[r].len = 0 \/ FALSE \in RangesHonoured)
    /\ \E framing \in Framings : Respond(r, 0, FALSE, framing)
    /\ Goto(r, IF w[r].len > 0 THEN "discard" ELSE "open")
    /\ UNCHANGED <<remote, disk, faults>>

RangeRefused(r) ==
    /\ At(r, "request") /\ TRUE \in RangesHonoured
    /\ w[r].len > 0 /\ w[r].len >= SizeOf(Art(r), remote)
    /\ Goto(r, "idle") /\ Set(r, Idle)
    /\ UNCHANGED <<remote, disk, faults>>

(* 200 instead of 206: the partial file is discarded.                      *)
(* Mutant: the partial file is kept, and the body appended to it.          *)
DiscardNothing(r) ==
    /\ At(r, "discard")
    /\ UNCHANGED part /\ Set(r, [w[r] EXCEPT !.append = TRUE])
    /\ Goto(r, "open")
    /\ UNCHANGED <<remote, final, content, faults>>
Discard(r) ==
    /\ At(r, "discard")
    /\ RemovePart(r) /\ UNCHANGED w
    /\ Goto(r, "open")
    /\ UNCHANGED <<remote, final, content, faults>>

OpenAppend(r) ==
    /\ At(r, "open") /\ w[r].append /\ part[Art(r)] # None
    /\ Set(r, [w[r] EXCEPT !.file = part[Art(r)]])
    /\ Goto(r, "body")
    /\ UNCHANGED <<remote, disk, faults>>

(* File::create truncates the file that is there, or makes a new one.      *)
Create(r) ==
    /\ At(r, "open") /\ ~w[r].append
    /\ \E i \in Inodes :
          /\ IF part[Art(r)] = None THEN Fresh(i) ELSE i = part[Art(r)]
          /\ content' = [content EXCEPT ![i] = <<>>]
          /\ part' = [part EXCEPT ![Art(r)] = i]
          /\ Set(r, [w[r] EXCEPT !.file = i, !.pos = 0])
    /\ Goto(r, "body")
    /\ UNCHANGED <<remote, final, faults>>

-----------------------------------------------------------------------------
(* The body: the write loop, then the rename.                              *)
(* Mutant: a resumed body is taken for a whole one.                        *)
RemainingOfAll(r) == SizeOf(Art(r), w[r].resp.version) - w[r].next
Remaining(r) == SizeOf(Art(r), w[r].resp.version) - w[r].resp.from - w[r].next

(* Writing beyond the end of a file that became shorter leaves a hole.     *)
Write(bytes, at, byte) ==
    [k \in 1..(IF at < Len(bytes) THEN Len(bytes) ELSE at + 1) |->
        IF k = at + 1 THEN byte
        ELSE IF k <= Len(bytes) THEN bytes[k] ELSE <<None, 0>>]

Receive(r) ==
    /\ At(r, "body") /\ Remaining(r) > 0
    /\ LET file == w[r].file
           byte == <<w[r].resp.version, w[r].resp.from + w[r].next + 1>>
           at   == IF w[r].append THEN Len(content[file]) ELSE w[r].pos
       IN  content' = [content EXCEPT ![file] = Write(@, at, byte)]
    /\ Set(r, [w[r] EXCEPT !.next = w[r].next + 1,
                           !.pos = w[r].pos + 1])
    /\ UNCHANGED <<remote, final, part, pc, faults>>

(* A body with a length that ends early is an error of the client; one     *)
(* that ends with the connection looks complete.                           *)
(* Mutant: an early end is not noticed.                                    *)
BodyDoneAtEnd(r) == TRUE
BodyDone(r) == Remaining(r) = 0 \/ w[r].resp.framing = "close"

EndBody(r) ==
    /\ At(r, "body") /\ BodyDone(r)
    /\ Goto(r, "rename") /\ Set(r, [w[r] EXCEPT !.file = None])
    /\ UNCHANGED <<remote, disk, faults>>

Rename(r) ==
    /\ At(r, "rename") /\ part[Art(r)] # None
    /\ final' = [final EXCEPT ![Art(r)] = part[Art(r)]]
    /\ part' = [part EXCEPT ![Art(r)] = None]
    /\ Goto(r, "check") /\ Set(r, [Idle EXCEPT !.a = Art(r) + 1])
    /\ UNCHANGED <<remote, content, faults>>

-----------------------------------------------------------------------------
(* An error status, a transport error, an interrupted body, an error of    *)
(* the file system, or the end of the process: the .part stays.            *)
Fails(r) ==
    /\ pc[r] # "idle" /\ faults < MaxFaults
    /\ faults' = faults + 1
    /\ Goto(r, "idle") /\ Set(r, Idle)
    /\ UNCHANGED <<remote, disk>>

(* The repository gets a new commit: resolve/main names another file.      *)
HalfDone == \/ \E a \in 1..Artifacts : part[a] # None
            \/ \E r \in Runs : pc[r] # "idle"
Publish ==
    /\ FreeRepository \/ ~HalfDone
    /\ \E v \in Versions \ {remote} : remote' = v
    /\ faults < MaxFaults /\ faults' = faults + 1
    /\ UNCHANGED <<disk, pc, w>>

RunStep(r) ==
    \/ Start(r) \/ Return(r) \/ Skip(r) \/ RemoveEmpty(r) \/ MeasurePart(r)
    \/ PartialContent(r) \/ WholeContent(r) \/ RangeRefused(r)
    \/ Discard(r) \/ OpenAppend(r) \/ Create(r)
    \/ Receive(r) \/ EndBody(r) \/ Rename(r)

Next == \/ \E r \in Runs : RunStep(r) \/ Fails(r)
        \/ Publish

(* The user retries until the model is there, and the server answers; no   *)
(* more than MaxFaults attempts fail for another reason.                   *)
Spec == Init /\ [][Next]_vars /\ \A r \in Runs : WF_vars(RunStep(r))

-----------------------------------------------------------------------------
(* Type correctness.                                                       *)
Steps == {"idle", "check", "request", "discard", "open", "body", "rename"}
Locals == [a : 1..(Artifacts + 1), len : Nat, append : BOOLEAN,
           file : Inodes \cup {None}, pos : Nat, next : Nat,
           resp : [version : Versions \cup {None}, from : Nat,
                   framing : {"length", "close"}]]
DownloadTypeOK ==
    /\ remote \in Versions
    /\ final \in [1..Artifacts -> Inodes \cup {None}]
    /\ part \in [1..Artifacts -> Inodes \cup {None}]
    /\ content \in [Inodes -> Seq(Byte)]
    /\ pc \in [Runs -> Steps] /\ w \in [Runs -> Locals]
    /\ faults \in 0..MaxFaults
    /\ \A r \in Runs : pc[r] = "body" =>
          /\ w[r].file # None /\ w[r].resp.version # None
          /\ w[r].resp.from + w[r].next <= SizeOf(Art(r), w[r].resp.version)

FileOf(a, v) == [k \in 1..SizeOf(a, v) |-> <<v, k>>]

(* "The final path is never half-written": what OnnxEmbedder finds at a    *)
(* final path that is not empty is one whole version of the artifact,      *)
(* however many attempts it took and wherever they stopped.                *)
FinalIsWhole ==
    \A a \in 1..Artifacts : Length(final[a]) > 0 =>
        \E v \in Versions : content[final[a]] = FileOf(a, v)

(* A .part is the beginning of some version of its artifact. (A complete   *)
(* one cannot be resumed all the same: see ResumableNextRun.)              *)
PartIsPrefix ==
    \A a \in 1..Artifacts : part[a] # None =>
        \E v \in Versions :
            /\ Length(part[a]) <= SizeOf(a, v)
            /\ \A k \in 1..Length(part[a]) : content[part[a]][k] = <<v, k>>

(* An installed artifact is never touched again.                           *)
InstalledStays ==
    [][\A a \in 1..Artifacts : Length(final[a]) > 0 =>
          final'[a] = final[a] /\ content'[final[a]] = content[final[a]]]_vars

Ready == \A a \in 1..Artifacts : Length(final[a]) > 0
CompletePart ==
    \E a \in 1..Artifacts : Length(part[a]) >= SizeOf(a, remote)

(* Retries finish the download, unless an attempt ended between the last   *)
(* byte and the rename: every later range request is then refused (416).   *)
RetriesFinish == <>Ready \/ <>[]CompletePart

(* "A failed download leaves only the `.part` (resumable next run)".       *)
ResumableNextRun == <>Ready
=============================================================================
