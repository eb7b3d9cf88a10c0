--------------------------- MODULE DownloadProofs ---------------------------
(***************************************************************************)
(* Proofs about ModelDownload for one process at a time, bodies whose end  *)
(* the client can tell and a repository that stands still below a half-    *)
(* done download: for any artifacts, sizes, versions, servers and number   *)
(* of failures.  The model `download` has the same assumptions; without    *)
(* any one of them FinalIsWhole can be violated.                           *)
(***************************************************************************)
EXTENDS ModelDownload, SequenceTheorems, TLAPS

OneAtATime == /\ \A r, s \in Runs : r = s
              /\ Framings \subseteq {"length"} /\ FreeRepository = FALSE

PrefixOf(bytes, a, v) == /\ Len(bytes) <= SizeOf(a, v)
                         /\ \A k \in 1..Len(bytes) : bytes[k] = <<v, k>>

(* No two paths share an inode.                                            *)
PathsApart ==
    \A a, b \in 1..Artifacts :
        /\ part[a] # None => part[a] # final[b]
        /\ a # b /\ part[a] # None => part[a] # part[b]
        /\ a # b /\ final[a] # None => final[a] # final[b]

(* A .part continues the version the repository serves.                    *)
PartsContinue == \A a \in 1..Artifacts :
                    part[a] # None => PrefixOf(content[part[a]], a, remote)

(* What a run knows of the .part at each of its steps.                     *)
Working(r) ==
    pc[r] \in {"request", "discard", "open", "body", "rename"} =>
        /\ Art(r) \in 1..Artifacts /\ final[Art(r)] = None
Measured(r) ==
    pc[r] \in {"request", "discard"} => w[r].len = Length(part[Art(r)])
Answered(r) ==
    pc[r] \in {"discard", "open", "body"} =>
        /\ w[r].resp.version = remote /\ w[r].resp.framing = "length"
        /\ ~w[r].append => w[r].resp.from = 0
        /\ pc[r] = "discard" => ~w[r].append
        /\ pc[r] # "body" => w[r].next = 0
Opening(r) ==
    pc[r] = "open" /\ w[r].append =>
        /\ part[Art(r)] # None
        /\ w[r].resp.from = Length(part[Art(r)])
Writing(r) ==
    pc[r] = "body" =>
        /\ part[Art(r)] # None /\ w[r].file = part[Art(r)]
        /\ Length(part[Art(r)]) = w[r].resp.from + w[r].next
        /\ ~w[r].append => w[r].pos = Length(part[Art(r)])
Renaming(r) ==
    pc[r] = "rename" =>
        /\ part[Art(r)] # None
        /\ Length(part[Art(r)]) = SizeOf(Art(r), remote)

RunInv(r) == /\ Working(r) /\ Measured(r) /\ Answered(r)
             /\ Opening(r) /\ Writing(r) /\ Renaming(r)

DownloadInv == /\ DownloadTypeOK /\ PathsApart /\ PartsContinue
               /\ FinalIsWhole /\ \A r \in Runs : RunInv(r)

-----------------------------------------------------------------------------
(* A write at the end of a file appends.                                   *)
LEMMA WriteAtEnd ==
    ASSUME NEW bytes \in Seq(Byte), NEW byte \in Byte
    PROVE  Write(bytes, Len(bytes), byte) = Append(bytes, byte)
<1>1. Append(bytes, byte) \in Seq(Byte)
      /\ Len(Append(bytes, byte)) = Len(bytes) + 1
      /\ \A k \in 1..Len(bytes) : Append(bytes, byte)[k] = bytes[k]
      /\ Append(bytes, byte)[Len(bytes) + 1] = byte
  BY AppendProperties
<1>2. Len(bytes) \in Nat
  BY LenProperties
<1>3. Append(bytes, byte) = [k \in 1..(Len(bytes) + 1) |-> Append(bytes, byte)[k]]
  <2>1. ASSUME NEW more \in Seq(Byte), Len(more) = Len(bytes) + 1
        PROVE  more = [k \in 1..(Len(bytes) + 1) |-> more[k]]
    BY <2>1
  <2> QED
    BY <1>1, <2>1
<1>4. \A k \in 1..(Len(bytes) + 1) : k = Len(bytes) + 1 \/ k \in 1..Len(bytes)
  BY <1>2
<1>5. Write(bytes, Len(bytes), byte) =
         [k \in 1..(Len(bytes) + 1) |->
             IF k = Len(bytes) + 1 THEN byte
             ELSE IF k <= Len(bytes) THEN bytes[k] ELSE None]
  BY <1>2 DEF Write
<1>6. \A k \in 1..(Len(bytes) + 1) :
         (IF k = Len(bytes) + 1 THEN byte
          ELSE IF k <= Len(bytes) THEN bytes[k] ELSE None)
         = Append(bytes, byte)[k]
  BY <1>1, <1>2, <1>4
<1> QED
  BY <1>3, <1>5, <1>6

(* So the .part that has all bytes is the file.                            *)
LEMMA FullPrefix ==
    ASSUME NEW a \in 1..Artifacts, NEW v \in Versions,
           NEW bytes \in Seq(Byte), PrefixOf(bytes, a, v),
           Len(bytes) = SizeOf(a, v)
    PROVE  bytes = FileOf(a, v)
<1>1. bytes = [k \in 1..Len(bytes) |-> bytes[k]]
  OBVIOUS
<1>2. \A k \in 1..Len(bytes) : bytes[k] = <<v, k>>
  BY DEF PrefixOf
<1> QED
  BY <1>1, <1>2 DEF FileOf

(* No byte more than the file has is a prefix of it too.                   *)
LEMMA LongerPrefix ==
    ASSUME NEW a \in 1..Artifacts, NEW v \in Versions,
           NEW bytes \in Seq(Byte), PrefixOf(bytes, a, v),
           Len(bytes) < SizeOf(a, v)
    PROVE  LET more == Append(bytes, <<v, Len(bytes) + 1>>)
           IN  /\ more \in Seq(Byte) /\ Len(more) = Len(bytes) + 1
               /\ PrefixOf(more, a, v)
<1> DEFINE byte == <<v, Len(bytes) + 1>>
           more == Append(bytes, byte)
<1>1. byte \in Byte
  BY LenProperties DEF Byte
<1> HIDE DEF byte
<1>2. /\ more \in Seq(Byte) /\ Len(more) = Len(bytes) + 1
      /\ \A k \in 1..Len(bytes) : more[k] = bytes[k]
      /\ more[Len(bytes) + 1] = byte
  BY <1>1, AppendProperties
<1>3. Len(bytes) \in Nat /\ SizeOf(a, v) \in Nat
  BY LenProperties, SizesAssumption
<1> HIDE DEF more
<1>4. PrefixOf(more, a, v)
  <2>1. ASSUME NEW k \in 1..Len(more)
        PROVE  more[k] = <<v, k>>
    <3>1. k \in 1..Len(bytes) \/ k = Len(bytes) + 1
      BY <1>2, <1>3
    <3> QED
      BY <3>1, <1>2 DEF PrefixOf, byte
  <2> QED
    BY <2>1, <1>2, <1>3 DEF PrefixOf
<1> QED
  BY <1>2, <1>4 DEF more, byte

-----------------------------------------------------------------------------
LEMMA InitEstablishes ==
    ASSUME Init PROVE DownloadInv
<1> USE SizesAssumption, NoneAssumption DEF Init
<1>1. \A i \in Inodes : content[i] = <<>> /\ Len(content[i]) = 0
  OBVIOUS
<1>2. DownloadTypeOK
  <2>1. content \in [Inodes -> Seq(Byte)]
    OBVIOUS
  <2>2. Idle \in Locals
    BY DEF Idle, NoResponse, Locals
  <2>3. pc \in [Runs -> Steps] /\ w \in [Runs -> Locals]
    BY <2>2 DEF Steps
  <2>4. \A r \in Runs : pc[r] # "body"
    OBVIOUS
  <2> QED
    BY <2>1, <2>3, <2>4 DEF DownloadTypeOK
<1>3. PathsApart /\ PartsContinue
  BY DEF PathsApart, PartsContinue
<1>4. FinalIsWhole
  BY <1>1 DEF FinalIsWhole, Length
<1>5. \A r \in Runs : RunInv(r)
  BY DEF RunInv, Working, Measured, Answered, Opening, Writing, Renaming
<1> QED
  BY <1>2, <1>3, <1>4, <1>5 DEF DownloadInv

(* With one run, its own facts are all there is to preserve.               *)
LEMMA OnlyRun ==
    ASSUME OneAtATime, NEW r \in Runs, RunInv(r)'
    PROVE  \A s \in Runs : RunInv(s)'
BY DEF OneAtATime

(* What the type invariant says of a run's locals.                         *)
LEMMA LocalsOf ==
    ASSUME DownloadTypeOK, NEW r \in Runs
    PROVE  /\ w[r] \in Locals /\ pc[r] \in Steps
           /\ w[r].len \in Nat /\ w[r].next \in Nat /\ w[r].pos \in Nat
           /\ w[r].resp.from \in Nat /\ Art(r) \in 1..(Artifacts + 1)
           /\ w[r].append \in BOOLEAN
BY DEF DownloadTypeOK, Locals, Art

LEMMA LengthType ==
    ASSUME DownloadTypeOK, NEW i \in Inodes \cup {None}
    PROVE  Length(i) \in Nat
<1>1. i # None => content[i] \in Seq(Byte)
  BY DEF DownloadTypeOK
<1> QED
  BY <1>1, LenProperties DEF Length

-----------------------------------------------------------------------------
(* Steps that leave the disk alone.                                        *)
LEMMA SameDisk ==
    ASSUME DownloadInv, UNCHANGED <<remote, disk>>
    PROVE  PathsApart' /\ PartsContinue' /\ FinalIsWhole'
BY DEF DownloadInv, disk, PathsApart, PartsContinue, PrefixOf, FinalIsWhole,
       Length

(* A run that goes back to the start, or to the check, knows nothing.      *)
LEMMA Restarted ==
    ASSUME DownloadInv, NEW r \in Runs, NEW locals \in Locals,
           NEW step \in {"idle", "check"},
           Goto(r, step), Set(r, locals)
    PROVE  /\ RunInv(r)'
           /\ pc' \in [Runs -> Steps] /\ w' \in [Runs -> Locals]
           /\ w'[r] = locals /\ pc'[r] = step
<1>1. pc \in [Runs -> Steps] /\ w \in [Runs -> Locals]
  BY DEF DownloadInv, DownloadTypeOK
<1>3. pc'[r] = step /\ w'[r] = locals
  BY <1>1 DEF Goto, Set
<1>4. RunInv(r)'
  BY <1>3 DEF RunInv, Working, Measured, Answered, Opening, Writing, Renaming
<1>5. pc' \in [Runs -> Steps] /\ w' \in [Runs -> Locals]
  BY <1>1 DEF Goto, Set, Steps
<1> QED
  BY <1>3, <1>4, <1>5

LEMMA Resting ==
    ASSUME OneAtATime, DownloadInv, NEW r \in Runs,
           NEW locals \in Locals, NEW step \in {"idle", "check"},
           Goto(r, step), Set(r, locals),
           UNCHANGED <<remote, disk>>, faults' \in 0..MaxFaults
    PROVE  DownloadInv'
<1>1. /\ RunInv(r)' /\ pc'[r] = step
      /\ pc' \in [Runs -> Steps] /\ w' \in [Runs -> Locals]
  BY Restarted
<1>2. \A s \in Runs : RunInv(s)' /\ pc'[s] # "body"
  BY <1>1, OnlyRun DEF OneAtATime
<1>3. DownloadTypeOK'
  BY <1>1, <1>2 DEF DownloadInv, DownloadTypeOK, disk
<1> QED
  BY <1>2, <1>3, SameDisk DEF DownloadInv

LEMMA IdleLocals ==
    /\ Idle \in Locals
    /\ \A a \in 1..(Artifacts + 1) : [Idle EXCEPT !.a = a] \in Locals
<1>1. Idle \in Locals
  BY SizesAssumption DEF Idle, NoResponse, Locals
<1>2. ASSUME NEW l \in Locals, NEW a \in 1..(Artifacts + 1)
      PROVE  [l EXCEPT !.a = a] \in Locals
  BY DEF Locals
<1> QED
  BY <1>1, <1>2

LEMMA StopsKeep ==
    ASSUME OneAtATime, DownloadInv, NEW r \in Runs,
           Start(r) \/ Return(r) \/ RangeRefused(r) \/ Fails(r) \/ Skip(r)
    PROVE  DownloadInv'
<1> USE SizesAssumption
<1>1. faults \in 0..MaxFaults /\ Art(r) \in 1..(Artifacts + 1)
  BY LocalsOf DEF DownloadInv, DownloadTypeOK
<1>2. CASE Start(r)
  BY <1>1, <1>2, Resting, IdleLocals DEF Start
<1>3. CASE Return(r)
  BY <1>1, <1>3, Resting, IdleLocals DEF Return
<1>4. CASE RangeRefused(r)
  BY <1>1, <1>4, Resting, IdleLocals DEF RangeRefused
<1>5. CASE Fails(r)
  BY <1>1, <1>5, Resting, IdleLocals DEF Fails
<1>6. CASE Skip(r)
  <2>1. Art(r) + 1 \in 1..(Artifacts + 1)
    BY <1>1, <1>6 DEF Skip
  <2> QED
    BY <1>1, <1>6, <2>1, Resting, IdleLocals DEF Skip
<1> QED
  BY <1>2, <1>3, <1>4, <1>5, <1>6

LEMMA RemoveEmptyKeeps ==
    ASSUME OneAtATime, DownloadInv, NEW r \in Runs, RemoveEmpty(r)
    PROVE  DownloadInv'
<1>1. /\ Art(r) \in 1..Artifacts /\ DownloadTypeOK
      /\ final' = [final EXCEPT ![Art(r)] = None]
      /\ UNCHANGED <<remote, part, content, pc, w, faults>>
      /\ pc[r] = "check"
  BY SizesAssumption, LocalsOf DEF RemoveEmpty, DownloadInv, At
<1>2. /\ final' \in [1..Artifacts -> Inodes \cup {None}]
      /\ \A a \in 1..Artifacts : final'[a] = final[a] \/ final'[a] = None
  BY <1>1 DEF DownloadTypeOK
<1>3. DownloadTypeOK'
  BY <1>1, <1>2 DEF DownloadTypeOK, Art
<1>4. PathsApart'
  BY <1>1, <1>2 DEF DownloadInv, PathsApart
<1>5. PartsContinue'
  BY <1>1 DEF DownloadInv, PartsContinue, PrefixOf
<1>6. FinalIsWhole'
  BY <1>1, <1>2 DEF DownloadInv, FinalIsWhole, Length
<1>7. RunInv(r)'
  BY <1>1 DEF RunInv, Working, Measured, Answered, Opening, Writing, Renaming
<1> QED
  BY <1>3, <1>4, <1>5, <1>6, <1>7, OnlyRun DEF DownloadInv

(* The .part that is dropped: what stays is as it was.                     *)
LEMMA PartDropped ==
    ASSUME DownloadInv, NEW a \in 1..Artifacts,
           part' = [part EXCEPT ![a] = None] \/ part' = part,
           UNCHANGED <<remote, final, content>>
    PROVE  /\ PathsApart' /\ PartsContinue' /\ FinalIsWhole'
           /\ part' \in [1..Artifacts -> Inodes \cup {None}]
<1>1. /\ part' \in [1..Artifacts -> Inodes \cup {None}]
      /\ \A b \in 1..Artifacts : part'[b] = part[b] \/ part'[b] = None
  BY DEF DownloadInv, DownloadTypeOK
<1>2. PathsApart'
  BY <1>1 DEF DownloadInv, PathsApart
<1>3. PartsContinue'
  BY ZenonT(60), <1>1 DEF DownloadInv, PartsContinue, PrefixOf
<1>4. FinalIsWhole'
  BY DEF DownloadInv, FinalIsWhole, Length
<1> QED
  BY <1>1, <1>2, <1>3, <1>4

LEMMA MeasureKeeps ==
    ASSUME OneAtATime, DownloadInv, NEW r \in Runs, MeasurePart(r)
    PROVE  DownloadInv'
<1> DEFINE len == Length(part[Art(r)])
<1>1. /\ Art(r) \in 1..Artifacts /\ DownloadTypeOK /\ w[r] \in Locals
      /\ final[Art(r)] = None
      /\ UNCHANGED <<remote, final, content, faults>>
      /\ pc' = [pc EXCEPT ![r] = "request"]
  BY SizesAssumption, LocalsOf DEF MeasurePart, DownloadInv, At, Goto
<1>2. len \in Nat
  BY <1>1, LengthType DEF DownloadTypeOK
<1>3. PICK m \in Nat :
        /\ w' = [w EXCEPT ![r] = [w[r] EXCEPT !.len = m]]
        /\ \/ part' = [part EXCEPT ![Art(r)] = None] /\ m = 0
           \/ part' = part /\ m = len
  BY <1>2 DEF MeasurePart, Set, RemovePart
<1>4. [w[r] EXCEPT !.len = m] \in Locals
  BY <1>1 DEF Locals
<1>5. /\ w'[r] = [w[r] EXCEPT !.len = m] /\ w' \in [Runs -> Locals]
      /\ pc'[r] = "request" /\ pc' \in [Runs -> Steps]
  BY <1>1, <1>3, <1>4 DEF DownloadTypeOK, Steps
<1>6. w'[r].a = w[r].a /\ w'[r].len = m
  BY <1>1, <1>5 DEF Locals
<1>7. /\ PathsApart' /\ PartsContinue' /\ FinalIsWhole'
      /\ part' \in [1..Artifacts -> Inodes \cup {None}]
  BY <1>1, <1>3, PartDropped
<1>8. \A s \in Runs : pc'[s] # "body"
  BY <1>5 DEF OneAtATime
<1>9. DownloadTypeOK'
  BY <1>1, <1>5, <1>7, <1>8 DEF DownloadTypeOK
<1>10. Measured(r)'
  <2>1. CASE part' = part /\ m = len
    BY <1>1, <1>6, <2>1 DEF Measured, Art, Length
  <2>2. CASE part' = [part EXCEPT ![Art(r)] = None] /\ m = 0
    <3>1. part'[Art(r)] = None
      BY <1>1, <2>2 DEF DownloadTypeOK
    <3> QED
      BY <1>6, <2>2, <3>1 DEF Measured, Art, Length
  <2> QED
    BY <1>3, <2>1, <2>2
<1>11. RunInv(r)'
  BY <1>1, <1>5, <1>6, <1>10
     DEF RunInv, Working, Answered, Opening, Writing, Renaming, Art
<1> QED
  BY <1>7, <1>9, <1>11, OnlyRun DEF DownloadInv

-----------------------------------------------------------------------------
(* The response.                                                           *)
LEMMA RespondSets ==
    ASSUME DownloadTypeOK, NEW r \in Runs, NEW from \in Nat,
           NEW append \in BOOLEAN, NEW framing \in {"length"},
           NEW step \in {"open", "discard"},
           Respond(r, from, append, framing), Goto(r, step)
    PROVE  /\ w' \in [Runs -> Locals] /\ pc' \in [Runs -> Steps]
           /\ pc'[r] = step
           /\ w'[r].a = w[r].a /\ w'[r].len = w[r].len /\ w'[r].next = 0
           /\ w'[r].append = append
           /\ w'[r].resp.version = remote /\ w'[r].resp.from = from
           /\ w'[r].resp.framing = "length"
<1> DEFINE response == [version |-> remote, from |-> from, framing |-> framing]
           locals == [w[r] EXCEPT !.resp = response, !.append = append,
                                  !.next = 0]
<1>1. /\ w[r] \in Locals /\ remote \in Versions
      /\ w \in [Runs -> Locals] /\ pc \in [Runs -> Steps]
  BY DEF DownloadTypeOK
<1>2. response \in [version : Versions \cup {None}, from : Nat,
                    framing : {"length", "close"}]
      /\ response.version = remote /\ response.from = from
      /\ response.framing = "length"
  BY <1>1
<1> HIDE DEF response
<1>3. /\ locals \in Locals
      /\ locals.a = w[r].a /\ locals.len = w[r].len /\ locals.next = 0
      /\ locals.append = append /\ locals.resp = response
  <2> DEFINE Response == [version : Versions \cup {None}, from : Nat,
                          framing : {"length", "close"}]
             Answer(l, x, b) == [l EXCEPT !.resp = x, !.append = b, !.next = 0]
  <2>1. ASSUME NEW l \in Locals, NEW b \in BOOLEAN, NEW x \in Response
        PROVE  /\ Answer(l, x, b) \in Locals
               /\ Answer(l, x, b).a = l.a /\ Answer(l, x, b).len = l.len
               /\ Answer(l, x, b).next = 0 /\ Answer(l, x, b).append = b
               /\ Answer(l, x, b).resp = x
    BY DEF Locals
  <2>2. locals = Answer(w[r], response, append) /\ response \in Response
    BY <1>2
  <2> HIDE DEF Answer, Response, locals
  <2> QED
    BY <1>1, <2>1, <2>2
<1>4. w' = [w EXCEPT ![r] = locals] /\ pc' = [pc EXCEPT ![r] = step]
  BY DEF Respond, Set, Goto, response
<1> HIDE DEF locals
<1> QED
  BY <1>1, <1>2, <1>3, <1>4 DEF Steps

LEMMA ResponseKeeps ==
    ASSUME OneAtATime, DownloadInv, NEW r \in Runs,
           PartialContent(r) \/ WholeContent(r)
    PROVE  DownloadInv'
<1>1. /\ DownloadTypeOK /\ Art(r) \in 1..Artifacts /\ final[Art(r)] = None
      /\ UNCHANGED <<remote, disk, faults>>
      /\ w[r].len \in Nat /\ w[r].len = Length(part[Art(r)])
  BY LocalsOf
     DEF DownloadInv, RunInv, Working, Measured, PartialContent, WholeContent,
         At
<1>2. PICK from \in Nat, append \in BOOLEAN, framing \in {"length"},
           step \in {"open", "discard"} :
        /\ Respond(r, from, append, framing) /\ Goto(r, step)
        /\ append => from > 0 /\ from = w[r].len
        /\ ~append => from = 0
        /\ step = "discard" => ~append
  <2>1. CASE PartialContent(r)
    BY <1>1, <2>1 DEF PartialContent, OneAtATime
  <2>2. CASE WholeContent(r)
    BY <1>1, <2>2 DEF WholeContent, OneAtATime
  <2> QED
    BY <2>1, <2>2
<1>3. /\ w' \in [Runs -> Locals] /\ pc' \in [Runs -> Steps] /\ pc'[r] = step
      /\ w'[r].a = w[r].a /\ w'[r].len = w[r].len /\ w'[r].next = 0
      /\ w'[r].append = append
      /\ w'[r].resp.version = remote /\ w'[r].resp.from = from
      /\ w'[r].resp.framing = "length"
  BY <1>1, <1>2, RespondSets
<1>4. \A s \in Runs : pc'[s] # "body"
  BY <1>3 DEF OneAtATime
<1>5. DownloadTypeOK'
  BY <1>1, <1>3, <1>4 DEF DownloadTypeOK, disk
<1>6. PathsApart' /\ PartsContinue' /\ FinalIsWhole'
  BY <1>1, SameDisk
<1>7. Length(part[Art(r)])' = Length(part[Art(r)]) /\ Art(r)' = Art(r)
  BY <1>1, <1>3 DEF Length, disk, Art
<1>8. Working(r)' /\ Measured(r)'
  BY <1>1, <1>3, <1>7 DEF Working, Measured, disk
<1>11. Answered(r)'
  BY <1>1, <1>2, <1>3 DEF Answered, disk
<1>9. Opening(r)'
  <2>1. append => part[Art(r)] # None
    BY <1>1, <1>2 DEF Length
  <2> QED
    BY <1>1, <1>2, <1>3, <1>7, <2>1 DEF Opening, disk
<1>10. RunInv(r)'
  BY <1>3, <1>8, <1>9, <1>11 DEF RunInv, Writing, Renaming
<1> QED
  BY <1>5, <1>6, <1>10, OnlyRun DEF DownloadInv

LEMMA DiscardKeeps ==
    ASSUME OneAtATime, DownloadInv, NEW r \in Runs, Discard(r)
    PROVE  DownloadInv'
<1>1. /\ DownloadTypeOK /\ Art(r) \in 1..Artifacts
      /\ UNCHANGED <<remote, final, content, w, faults>>
      /\ pc[r] = "discard" /\ pc' = [pc EXCEPT ![r] = "open"]
      /\ part' = [part EXCEPT ![Art(r)] = None]
      /\ ~w[r].append
  BY DEF DownloadInv, RunInv, Working, Answered, Discard, At, Goto, RemovePart
<1>2. pc'[r] = "open" /\ pc' \in [Runs -> Steps]
  BY <1>1 DEF DownloadTypeOK, Steps
<1>3. \A s \in Runs : pc'[s] # "body"
  BY <1>2 DEF OneAtATime
<1>4. /\ PathsApart' /\ PartsContinue' /\ FinalIsWhole'
      /\ part' \in [1..Artifacts -> Inodes \cup {None}]
  BY <1>1, PartDropped
<1>5. DownloadTypeOK'
  BY <1>1, <1>2, <1>3, <1>4 DEF DownloadTypeOK
<1>6. RunInv(r)'
  BY <1>1, <1>2
     DEF DownloadInv, RunInv, Working, Measured, Answered, Opening, Writing,
         Renaming, Art
<1> QED
  BY <1>4, <1>5, <1>6, OnlyRun DEF DownloadInv

-----------------------------------------------------------------------------
(* The .part opens.                                                        *)
LEMMA OpenAppendKeeps ==
    ASSUME OneAtATime, DownloadInv, NEW r \in Runs, OpenAppend(r)
    PROVE  DownloadInv'
<1> DEFINE locals == [w[r] EXCEPT !.file = part[Art(r)]]
<1>1. /\ DownloadTypeOK /\ Art(r) \in 1..Artifacts /\ final[Art(r)] = None
      /\ UNCHANGED <<remote, disk, faults>>
      /\ w[r].append /\ part[Art(r)] # None
      /\ part[Art(r)] \in Inodes
      /\ w[r].resp.version = remote /\ w[r].resp.framing = "length"
      /\ w[r].next = 0 /\ w[r].resp.from = Length(part[Art(r)])
      /\ w[r] \in Locals /\ remote \in Versions
      /\ pc' = [pc EXCEPT ![r] = "body"] /\ w' = [w EXCEPT ![r] = locals]
  BY DEF DownloadInv, DownloadTypeOK, RunInv, Working, Answered, Opening,
         OpenAppend, At, Goto, Set
<1>2. /\ locals \in Locals /\ locals.file = part[Art(r)]
      /\ locals.a = w[r].a /\ locals.append = w[r].append
      /\ locals.next = w[r].next /\ locals.resp = w[r].resp
  BY <1>1 DEF Locals
<1> HIDE DEF locals
<1>3. /\ w'[r] = locals /\ w' \in [Runs -> Locals]
      /\ pc'[r] = "body" /\ pc' \in [Runs -> Steps]
  BY <1>1, <1>2 DEF DownloadTypeOK, Steps
<1>4. Art(r)' = Art(r) /\ Length(part[Art(r)])' = Length(part[Art(r)])
  BY <1>1, <1>2, <1>3 DEF Art, Length, disk
<1>5. PrefixOf(content[part[Art(r)]], Art(r), remote)
  BY <1>1 DEF DownloadInv, PartsContinue
<1>6. w[r].resp.from <= SizeOf(Art(r), remote) /\ w[r].resp.from \in Nat
  BY <1>1, <1>5, LocalsOf DEF Length, PrefixOf
<1>7. DownloadTypeOK'
  <2>1. \A s \in Runs : pc'[s] = "body" =>
           /\ w'[s].file # None /\ w'[s].resp.version # None
           /\ w'[s].resp.from + w'[s].next
                 <= SizeOf(w'[s].a, w'[s].resp.version)
    BY <1>1, <1>2, <1>3, <1>6, NoneAssumption DEF OneAtATime, Art
  <2> QED
    BY <1>1, <1>3, <2>1 DEF DownloadTypeOK, disk, Art
<1>8. PathsApart' /\ PartsContinue' /\ FinalIsWhole'
  BY <1>1, SameDisk
<1>9. RunInv(r)'
  <2>1. Working(r)' /\ Answered(r)'
    BY <1>1, <1>2, <1>3, <1>4 DEF Working, Answered, disk
  <2>2. Writing(r)'
    <3>1. w'[r].append /\ w'[r].file = part'[Art(r)'] /\ part'[Art(r)'] # None
      BY <1>1, <1>2, <1>3, <1>4 DEF disk
    <3>2. /\ w'[r].resp.from = w[r].resp.from /\ w'[r].next = 0
          /\ Length(part[Art(r)])' = w[r].resp.from
      BY <1>1, <1>2, <1>3, <1>4
    <3> QED
      BY <1>6, <3>1, <3>2 DEF Writing
  <2> QED
    BY <1>3, <2>1, <2>2 DEF RunInv, Measured, Opening, Renaming
<1> QED
  BY <1>7, <1>8, <1>9, OnlyRun DEF DownloadInv

LEMMA CreateKeeps ==
    ASSUME OneAtATime, DownloadInv, NEW r \in Runs, Create(r)
    PROVE  DownloadInv'
<1>1. /\ DownloadTypeOK /\ Art(r) \in 1..Artifacts /\ final[Art(r)] = None
      /\ UNCHANGED <<remote, final, faults>>
      /\ ~w[r].append
      /\ w[r].resp.version = remote /\ w[r].resp.framing = "length"
      /\ w[r].next = 0 /\ w[r].resp.from = 0
      /\ w[r] \in Locals /\ remote \in Versions
      /\ pc' = [pc EXCEPT ![r] = "body"]
  BY DEF DownloadInv, DownloadTypeOK, RunInv, Working, Answered,
         Create, At, Goto
<1>2. PICK i \in Inodes :
        /\ IF part[Art(r)] = None THEN Fresh(i) ELSE i = part[Art(r)]
        /\ content' = [content EXCEPT ![i] = <<>>]
        /\ part' = [part EXCEPT ![Art(r)] = i]
        /\ w' = [w EXCEPT ![r] = [w[r] EXCEPT !.file = i, !.pos = 0]]
  BY DEF Create, Set
<1> DEFINE locals == [w[r] EXCEPT !.file = i, !.pos = 0]
<1>3. /\ locals \in Locals /\ locals.file = i /\ locals.pos = 0
      /\ locals.a = w[r].a /\ locals.append = w[r].append
      /\ locals.next = w[r].next /\ locals.resp = w[r].resp
  BY <1>1 DEF Locals
<1>4. w' = [w EXCEPT ![r] = locals] /\ i # None
  BY <1>2, NoneAssumption
<1> HIDE DEF locals
<1>5. /\ w'[r] = locals /\ w' \in [Runs -> Locals]
      /\ pc'[r] = "body" /\ pc' \in [Runs -> Steps]
  BY <1>1, <1>3, <1>4 DEF DownloadTypeOK, Steps
<1>6. /\ part' \in [1..Artifacts -> Inodes \cup {None}]
      /\ part'[Art(r)] = i
      /\ \A a \in 1..Artifacts \ {Art(r)} : part'[a] = part[a]
  BY <1>1, <1>2 DEF DownloadTypeOK
<1>7. /\ content' \in [Inodes -> Seq(Byte)]
      /\ content'[i] = <<>> /\ Len(content'[i]) = 0
      /\ \A j \in Inodes \ {i} : content'[j] = content[j]
  BY <1>1, <1>2 DEF DownloadTypeOK
<1>8. /\ \A a \in 1..Artifacts : final[a] # i
      /\ \A a \in 1..Artifacts \ {Art(r)} : part[a] # i
  BY <1>1, <1>2, <1>4 DEF Fresh, DownloadInv, PathsApart
<1>9. Art(r)' = Art(r) /\ Length(part[Art(r)])' = 0
  BY <1>3, <1>5, <1>6, <1>7, <1>4 DEF Art, Length
<1>10. DownloadTypeOK'
  <2>1. SizeOf(Art(r), remote) \in Nat
    BY <1>1, SizesAssumption
  <2>2. \A s \in Runs : pc'[s] = "body" =>
           /\ w'[s].file # None /\ w'[s].resp.version # None
           /\ w'[s].resp.from + w'[s].next
                 <= SizeOf(w'[s].a, w'[s].resp.version)
    BY <1>1, <1>3, <1>4, <1>5, <2>1, NoneAssumption DEF OneAtATime, Art
  <2> QED
    BY <1>1, <1>5, <1>6, <1>7, <2>2 DEF DownloadTypeOK, Art
<1>11. PathsApart'
  BY <1>1, <1>4, <1>6, <1>8 DEF DownloadInv, PathsApart
<1>12. PartsContinue'
  <2>1. SUFFICES ASSUME NEW a \in 1..Artifacts, part'[a] # None
                 PROVE  PrefixOf(content'[part'[a]], a, remote)
    BY <1>1 DEF PartsContinue, PrefixOf
  <2>2. CASE a = Art(r)
    BY <1>1, <1>6, <1>7, <2>2, SizesAssumption DEF PrefixOf
  <2>3. CASE a # Art(r)
    <3>1. part'[a] = part[a] /\ part[a] \in Inodes \ {i}
      BY <1>1, <1>6, <1>8, <2>1, <2>3 DEF DownloadTypeOK
    <3> QED
      BY <1>7, <2>1, <3>1 DEF DownloadInv, PartsContinue
  <2> QED
    BY <2>2, <2>3
<1>13. FinalIsWhole'
  <2>1. \A a \in 1..Artifacts : final[a] # None => final[a] \in Inodes \ {i}
    BY <1>1, <1>8 DEF DownloadTypeOK
  <2> QED
    BY <1>1, <1>7, <2>1 DEF DownloadInv, FinalIsWhole, Length
<1>14. RunInv(r)'
  <2>1. Working(r)' /\ Answered(r)'
    BY <1>1, <1>3, <1>5, <1>9 DEF Working, Answered
  <2>2. Writing(r)'
    BY <1>1, <1>3, <1>4, <1>5, <1>6, <1>9 DEF Writing
  <2> QED
    BY <1>5, <2>1, <2>2 DEF RunInv, Measured, Opening, Renaming
<1> QED
  BY <1>10, <1>11, <1>12, <1>13, <1>14, OnlyRun DEF DownloadInv

-----------------------------------------------------------------------------
(* The body arrives, and the .part becomes the final file.                 *)
Received(l, n, p) == [l EXCEPT !.next = n, !.pos = p]

LEMMA ReceivedLocals ==
    ASSUME NEW l \in Locals, NEW n \in Nat, NEW p \in Nat
    PROVE  /\ Received(l, n, p) \in Locals
           /\ Received(l, n, p).file = l.file
           /\ Received(l, n, p).a = l.a
           /\ Received(l, n, p).append = l.append
           /\ Received(l, n, p).resp = l.resp
           /\ Received(l, n, p).next = n
           /\ Received(l, n, p).pos = p
BY DEF Received, Locals

LEMMA ReceiveKeeps ==
    ASSUME OneAtATime, DownloadInv, NEW r \in Runs, Receive(r)
    PROVE  DownloadInv'
<1> DEFINE a == Art(r)
           file == w[r].file
           at == IF w[r].append THEN Len(content[file]) ELSE w[r].pos
           byte == <<remote, w[r].resp.from + w[r].next + 1>>
           locals == [w[r] EXCEPT !.next = w[r].next + 1,
                              !.pos = w[r].pos + 1]
<1>1. /\ DownloadTypeOK /\ a \in 1..Artifacts /\ final[a] = None
      /\ UNCHANGED <<remote, final, part, pc, faults>>
      /\ pc[r] = "body" /\ part[a] # None /\ file = part[a]
      /\ part[a] \in Inodes
      /\ w[r].resp.version = remote /\ w[r].resp.framing = "length"
      /\ w[r] \in Locals /\ remote \in Versions
      /\ ~w[r].append => w[r].resp.from = 0 /\ w[r].pos = Len(content[file])
      /\ Len(content[file]) = w[r].resp.from + w[r].next
  BY DEF DownloadInv, DownloadTypeOK, RunInv, Working, Answered, Writing,
         Receive, At, Length
<1>2. /\ w[r].resp.from \in Nat /\ w[r].next \in Nat /\ w[r].pos \in Nat
      /\ SizeOf(a, remote) \in Nat /\ content[file] \in Seq(Byte)
      /\ Len(content[file]) \in Nat
  BY <1>1, LocalsOf, LenProperties, SizesAssumption DEF DownloadTypeOK
<1>3. Len(content[file]) < SizeOf(a, remote)
  BY SMTT(60), <1>1, <1>2 DEF Receive, Remaining
<1>4. content' = [content EXCEPT ![file] = Write(content[file], at, byte)]
  BY <1>1 DEF Receive
<1>5. at = Len(content[file]) /\ byte = <<remote, Len(content[file]) + 1>>
  BY <1>1, <1>2
<1>6. PrefixOf(content[file], a, remote)
  BY <1>1 DEF DownloadInv, PartsContinue
<1>7. /\ content'[file] \in Seq(Byte)
      /\ Len(content'[file]) = Len(content[file]) + 1
      /\ PrefixOf(content'[file], a, remote)
      /\ content' \in [Inodes -> Seq(Byte)]
      /\ \A j \in Inodes \ {file} : content'[j] = content[j]
  <2>1. byte \in Byte
    BY <1>1, <1>2 DEF Byte
  <2> DEFINE more == Append(content[file], <<remote, Len(content[file]) + 1>>)
  <2>2. Write(content[file], at, byte) = more
    BY <1>2, <1>5, <2>1, WriteAtEnd
  <2>3. /\ more \in Seq(Byte) /\ Len(more) = Len(content[file]) + 1
        /\ PrefixOf(more, a, remote)
    BY <1>1, <1>2, <1>3, <1>6, LongerPrefix
  <2> HIDE DEF more, at, byte, a
  <2> QED
    BY <1>1, <1>4, <2>2, <2>3 DEF DownloadTypeOK
<1>8. w' = [w EXCEPT ![r] = locals]
  BY DEF Receive, Set
<1>9. /\ locals \in Locals /\ locals.file = file
      /\ locals.a = w[r].a /\ locals.append = w[r].append
      /\ locals.next = w[r].next + 1 /\ locals.pos = w[r].pos + 1
      /\ locals.resp = w[r].resp
  <2>1. w[r] \in Locals /\ w[r].next + 1 \in Nat /\ w[r].pos + 1 \in Nat
    BY SMTT(60), <1>1, <1>2
  <2>2. locals = Received(w[r], w[r].next + 1, w[r].pos + 1)
    BY DEF Received
  <2> DEFINE m == Received(w[r], w[r].next + 1, w[r].pos + 1)
  <2>3. m \in Locals
    BY <2>1, ReceivedLocals
  <2>6. m.file = w[r].file /\ m.a = w[r].a
    BY ZenonT(60), <2>1, ReceivedLocals
  <2>7. m.resp = w[r].resp
    BY ZenonT(60), <2>1, ReceivedLocals
  <2>8. m.append = w[r].append
    BY ZenonT(60), <2>1, ReceivedLocals
  <2>4. m.next = w[r].next + 1
    BY <2>1, ReceivedLocals
  <2>5. m.pos = w[r].pos + 1
    BY <2>1, ReceivedLocals
  <2> HIDE DEF locals, m
  <2> QED
    BY <2>2, <2>3, <2>4, <2>5, <2>6, <2>7, <2>8 DEF m
<1> HIDE DEF locals, byte, at
<1>10. w'[r] = locals /\ w' \in [Runs -> Locals]
  BY <1>1, <1>8, <1>9 DEF DownloadTypeOK
<1>11. DownloadTypeOK'
  <2>1. w[r].resp.from + (w[r].next + 1) <= SizeOf(w[r].a, remote)
    BY <1>1, <1>2, <1>3 DEF Art
  <2>2. \A s \in Runs : pc'[s] = "body" =>
           /\ w'[s].file # None /\ w'[s].resp.version # None
           /\ w'[s].resp.from + w'[s].next
                 <= SizeOf(w'[s].a, w'[s].resp.version)
    BY <1>1, <1>9, <1>10, <2>1, NoneAssumption DEF OneAtATime
  <2> QED
    BY <1>1, <1>7, <1>10, <2>2 DEF DownloadTypeOK, Art
<1>12. PathsApart'
  BY <1>1 DEF DownloadInv, PathsApart
<1>13. PartsContinue'
  <2>1. SUFFICES ASSUME NEW b \in 1..Artifacts, part[b] # None
                 PROVE  PrefixOf(content'[part[b]], b, remote)
    BY <1>1 DEF PartsContinue, PrefixOf
  <2>2. CASE b = a
    BY <1>1, <1>7, <2>2
  <2>3. CASE b # a
    <3>1. part[b] \in Inodes \ {file}
      BY <1>1, <2>1, <2>3 DEF DownloadTypeOK, DownloadInv, PathsApart
    <3> QED
      BY <1>7, <2>1, <3>1 DEF DownloadInv, PartsContinue
  <2> QED
    BY <2>2, <2>3
<1>14. FinalIsWhole'
  <2>1. \A b \in 1..Artifacts : final[b] # None => final[b] \in Inodes \ {file}
    BY <1>1 DEF DownloadTypeOK, DownloadInv, PathsApart
  <2> QED
    BY <1>1, <1>7, <2>1 DEF DownloadInv, FinalIsWhole, Length
<1>15. RunInv(r)'
  <2>1. Art(r)' = a /\ Length(part[Art(r)])' = Len(content'[file])
    BY <1>1, <1>9, <1>10 DEF Art, Length
  <2>2. Working(r)' /\ Answered(r)'
    BY <1>1, <1>9, <1>10, <2>1 DEF Working, Answered
  <2>3. Writing(r)'
    <3>1. /\ part'[Art(r)'] # None /\ w'[r].file = part'[Art(r)']
      BY <1>1, <1>9, <1>10, <2>1
    <3>2. Length(part[Art(r)])' = w'[r].resp.from + w'[r].next
      <4>1. /\ w'[r].resp.from = w[r].resp.from
            /\ w'[r].next = w[r].next + 1
        BY <1>9, <1>10
      <4>2. Len(content'[file]) = w[r].resp.from + w[r].next + 1
        BY <1>1, <1>7
      <4>3. Length(part[Art(r)])' = w[r].resp.from + w[r].next + 1
        BY <2>1, <4>2
      <4>4. \A m, n \in Nat : m + n + 1 = m + (n + 1)
        OBVIOUS
      <4> QED
        BY ZenonT(60), <1>2, <4>1, <4>3, <4>4
    <3>3. ~w'[r].append => w'[r].pos = Length(part[Art(r)])'
      BY <1>1, <1>2, <1>7, <1>9, <1>10, <2>1
    <3> QED
      BY <3>1, <3>2, <3>3 DEF Writing
  <2> QED
    BY <1>1, <2>2, <2>3 DEF RunInv, Measured, Opening, Renaming
<1> QED
  BY <1>11, <1>12, <1>13, <1>14, <1>15, OnlyRun DEF DownloadInv

LEMMA EndBodyKeeps ==
    ASSUME OneAtATime, DownloadInv, NEW r \in Runs, EndBody(r)
    PROVE  DownloadInv'
<1> DEFINE locals == [w[r] EXCEPT !.file = None]
<1>1. /\ DownloadTypeOK /\ Art(r) \in 1..Artifacts /\ final[Art(r)] = None
      /\ UNCHANGED <<remote, disk, faults>>
      /\ part[Art(r)] # None /\ w[r] \in Locals /\ remote \in Versions
      /\ w[r].resp.version = remote /\ w[r].resp.framing = "length"
      /\ Length(part[Art(r)]) = w[r].resp.from + w[r].next
      /\ pc' = [pc EXCEPT ![r] = "rename"] /\ w' = [w EXCEPT ![r] = locals]
  BY DEF DownloadInv, DownloadTypeOK, RunInv, Working, Answered, Writing,
         EndBody, At, Goto, Set
<1>2. Length(part[Art(r)]) = SizeOf(Art(r), remote)
  <2>1. /\ w[r].resp.from \in Nat /\ w[r].next \in Nat
        /\ SizeOf(Art(r), remote) \in Nat
    BY <1>1, LocalsOf, SizesAssumption
  <2> QED
    BY <1>1, <2>1 DEF EndBody, BodyDone, Remaining
<1>3. locals \in Locals /\ locals.a = w[r].a
  BY <1>1 DEF Locals
<1> HIDE DEF locals
<1>4. /\ w'[r] = locals /\ w' \in [Runs -> Locals]
      /\ pc'[r] = "rename" /\ pc' \in [Runs -> Steps]
  BY <1>1, <1>3 DEF DownloadTypeOK, Steps
<1>5. Art(r)' = Art(r) /\ Length(part[Art(r)])' = Length(part[Art(r)])
  BY <1>1, <1>3, <1>4 DEF Art, Length, disk
<1>6. \A s \in Runs : pc'[s] # "body"
  BY <1>4 DEF OneAtATime
<1>7. DownloadTypeOK'
  BY <1>1, <1>4, <1>6 DEF DownloadTypeOK, disk
<1>8. PathsApart' /\ PartsContinue' /\ FinalIsWhole'
  BY <1>1, SameDisk
<1>9. RunInv(r)'
  BY <1>1, <1>2, <1>4, <1>5
     DEF RunInv, Working, Measured, Answered, Opening, Writing, Renaming, disk
<1> QED
  BY <1>7, <1>8, <1>9, OnlyRun DEF DownloadInv

LEMMA RenameKeeps ==
    ASSUME OneAtATime, DownloadInv, NEW r \in Runs, Rename(r)
    PROVE  DownloadInv'
<1> DEFINE a == Art(r)
<1>1. /\ DownloadTypeOK /\ a \in 1..Artifacts /\ final[a] = None
      /\ UNCHANGED <<remote, content, faults>>
      /\ part[a] # None /\ part[a] \in Inodes
      /\ Length(part[a]) = SizeOf(a, remote) /\ remote \in Versions
      /\ final' = [final EXCEPT ![a] = part[a]]
      /\ part' = [part EXCEPT ![a] = None]
      /\ Goto(r, "check") /\ Set(r, [Idle EXCEPT !.a = Art(r) + 1])
  BY DEF DownloadInv, DownloadTypeOK, RunInv, Working, Renaming, Rename, At
<1>2. content[part[a]] = FileOf(a, remote)
  <2>1. /\ content[part[a]] \in Seq(Byte)
        /\ Len(content[part[a]]) = SizeOf(a, remote)
        /\ PrefixOf(content[part[a]], a, remote)
    BY <1>1 DEF DownloadInv, DownloadTypeOK, PartsContinue, Length
  <2> QED
    BY <1>1, <2>1, FullPrefix
<1>3. [Idle EXCEPT !.a = Art(r) + 1] \in Locals
  BY <1>1, IdleLocals, SizesAssumption
<1>4. /\ RunInv(r)' /\ pc'[r] = "check"
      /\ pc' \in [Runs -> Steps] /\ w' \in [Runs -> Locals]
  BY <1>1, <1>3, Restarted
<1>5. \A s \in Runs : pc'[s] # "body"
  BY <1>4 DEF OneAtATime
<1>6. /\ final' \in [1..Artifacts -> Inodes \cup {None}]
      /\ part' \in [1..Artifacts -> Inodes \cup {None}]
      /\ final'[a] = part[a] /\ part'[a] = None
      /\ \A b \in 1..Artifacts \ {a} : final'[b] = final[b] /\ part'[b] = part[b]
  BY <1>1 DEF DownloadTypeOK
<1>7. DownloadTypeOK'
  BY <1>1, <1>4, <1>5, <1>6 DEF DownloadTypeOK
<1>8. PathsApart'
  <2> HIDE DEF a
  <2>1. PathsApart
    BY DEF DownloadInv
  <2> QED
    BY <1>1, <1>6, <2>1 DEF PathsApart
<1>9. PartsContinue'
  <2> HIDE DEF a
  <2> QED
    BY <1>1, <1>6 DEF DownloadInv, PartsContinue, PrefixOf
<1>10. FinalIsWhole'
  <2> HIDE DEF a
  <2>1. SUFFICES ASSUME NEW b \in 1..Artifacts, Length(final[b])' > 0
                 PROVE  \E v \in Versions : content'[final'[b]] = FileOf(b, v)
    BY DEF FinalIsWhole, FileOf
  <2>2. CASE b = a
    BY <1>1, <1>2, <1>6, <2>2
  <2>3. CASE b # a
    <3>1. final'[b] = final[b] /\ Length(final[b]) > 0
      BY <1>1, <1>6, <2>1, <2>3 DEF Length
    <3> QED
      BY <1>1, <3>1 DEF DownloadInv, FinalIsWhole
  <2> QED
    BY <2>2, <2>3
<1> QED
  BY <1>4, <1>7, <1>8, <1>9, <1>10, OnlyRun DEF DownloadInv

LEMMA PublishKeeps ==
    ASSUME OneAtATime, DownloadInv, Publish PROVE DownloadInv'
<1>1. /\ ~HalfDone /\ UNCHANGED <<disk, pc, w>>
      /\ remote' \in Versions /\ faults' \in 0..MaxFaults
      /\ DownloadTypeOK
  BY SizesAssumption
     DEF Publish, OneAtATime, DownloadInv, DownloadTypeOK
<1>2. /\ \A a \in 1..Artifacts : part[a] = None
      /\ \A r \in Runs : pc[r] = "idle"
  BY <1>1 DEF HalfDone
<1>3. DownloadTypeOK'
  BY <1>1, <1>2 DEF DownloadTypeOK, disk, Art
<1>4. PathsApart' /\ PartsContinue'
  BY <1>1, <1>2 DEF DownloadInv, PathsApart, PartsContinue, disk
<1>5. FinalIsWhole'
  BY <1>1 DEF DownloadInv, FinalIsWhole, Length, disk
<1>6. \A r \in Runs : RunInv(r)'
  BY <1>1, <1>2
     DEF RunInv, Working, Measured, Answered, Opening, Writing, Renaming
<1> QED
  BY <1>3, <1>4, <1>5, <1>6 DEF DownloadInv

LEMMA StutterKeeps ==
    ASSUME DownloadInv, UNCHANGED vars PROVE DownloadInv'
<1>1. DownloadTypeOK'
  BY DEF DownloadInv, DownloadTypeOK, vars, disk, Art
<1>2. PathsApart' /\ PartsContinue' /\ FinalIsWhole'
  BY SameDisk DEF vars
<1>3. \A r \in Runs : RunInv(r)'
  BY DEF DownloadInv, vars, disk, RunInv, Working, Measured, Answered,
         Opening, Writing, Renaming, Art, Length
<1> QED
  BY <1>1, <1>2, <1>3 DEF DownloadInv

-----------------------------------------------------------------------------
(* The inductive invariant: the run knows the .part it works on, the .part *)
(* continues the file the repository serves, and no two paths share an     *)
(* inode (download_artifact).                                              *)
THEOREM DownloadInvariant ==
    ASSUME OneAtATime PROVE Spec => []DownloadInv
<1>1. Init => DownloadInv
  BY InitEstablishes
<1>2. DownloadInv /\ [Next]_vars => DownloadInv'
  <2>1. SUFFICES ASSUME DownloadInv, [Next]_vars PROVE DownloadInv'
    OBVIOUS
  <2>2. ASSUME NEW r \in Runs, RunStep(r) \/ Fails(r) PROVE DownloadInv'
    <3>1. CASE Start(r) \/ Return(r) \/ RangeRefused(r) \/ Fails(r) \/ Skip(r)
      BY <2>1, <3>1, StopsKeep
    <3>2. CASE RemoveEmpty(r)
      BY <2>1, <3>2, RemoveEmptyKeeps
    <3>3. CASE MeasurePart(r)
      BY <2>1, <3>3, MeasureKeeps
    <3>4. CASE PartialContent(r) \/ WholeContent(r)
      BY <2>1, <3>4, ResponseKeeps
    <3>5. CASE Discard(r)
      BY <2>1, <3>5, DiscardKeeps
    <3>6. CASE OpenAppend(r)
      BY <2>1, <3>6, OpenAppendKeeps
    <3>7. CASE Create(r)
      BY <2>1, <3>7, CreateKeeps
    <3>8. CASE Receive(r)
      BY <2>1, <3>8, ReceiveKeeps
    <3>9. CASE EndBody(r)
      BY <2>1, <3>9, EndBodyKeeps
    <3>10. CASE Rename(r)
      BY <2>1, <3>10, RenameKeeps
    <3> QED
      BY <2>2, <3>1, <3>2, <3>3, <3>4, <3>5, <3>6, <3>7, <3>8, <3>9, <3>10
         DEF RunStep
  <2>3. CASE Publish
    BY <2>1, <2>3, PublishKeeps
  <2>4. CASE UNCHANGED vars
    BY <2>1, <2>4, StutterKeeps
  <2> QED
    BY <2>1, <2>2, <2>3, <2>4 DEF Next
<1> QED
  BY <1>1, <1>2, PTL DEF Spec

(* Every variable keeps its type, and a run never receives more than the   *)
(* body holds.                                                             *)
THEOREM DownloadTyped ==
    ASSUME OneAtATime PROVE Spec => []DownloadTypeOK
<1>1. DownloadInv => DownloadTypeOK
  BY DEF DownloadInv
<1> QED
  BY <1>1, DownloadInvariant, PTL

(* "The final path is never half-written": however often the download is   *)
(* interrupted and resumed, what gets the final name is one whole version  *)
(* of the artifact.                                                        *)
THEOREM InstalledIsWhole ==
    ASSUME OneAtATime PROVE Spec => []FinalIsWhole
<1>1. DownloadInv => FinalIsWhole
  BY DEF DownloadInv
<1> QED
  BY <1>1, DownloadInvariant, PTL

(* A .part is always the beginning of the file the repository serves, so   *)
(* that the next attempt may ask for the rest of it.                       *)
THEOREM PartResumes ==
    ASSUME OneAtATime PROVE Spec => []PartIsPrefix
<1>1. DownloadInv => PartIsPrefix
  BY DEF DownloadInv, DownloadTypeOK, PartsContinue, PrefixOf, PartIsPrefix,
         Length
<1> QED
  BY <1>1, DownloadInvariant, PTL

(* No step touches an artifact that is installed: not its final path, and  *)
(* not the bytes of the file there.                                        *)
Untouched == \A a \in 1..Artifacts : Length(final[a]) > 0 =>
                final'[a] = final[a] /\ content'[final[a]] = content[final[a]]

LEMMA StepLeavesInstalled ==
    ASSUME OneAtATime, DownloadInv, [Next]_vars PROVE Untouched
<1> SUFFICES ASSUME NEW a \in 1..Artifacts, Length(final[a]) > 0
             PROVE  final'[a] = final[a] /\ content'[final[a]] = content[final[a]]
  BY DEF Untouched
<1>1. final[a] # None /\ final[a] \in Inodes /\ DownloadTypeOK
  BY DEF Length, DownloadInv, DownloadTypeOK
<1>2. ASSUME NEW r \in Runs, RemoveEmpty(r)
      PROVE  final'[a] = final[a] /\ content' = content
  <2>1. a # Art(r)
    BY <1>2 DEF RemoveEmpty, Present
  <2> QED
    BY <1>1, <1>2, <2>1 DEF RemoveEmpty, DownloadTypeOK
<1>3. ASSUME NEW r \in Runs, Rename(r)
      PROVE  final'[a] = final[a] /\ content' = content
  <2>1. a # Art(r)
    BY <1>1, <1>3 DEF Rename, At, DownloadInv, RunInv, Working
  <2> QED
    BY <1>1, <1>3, <2>1 DEF Rename, DownloadTypeOK
<1>4. ASSUME NEW r \in Runs, Create(r)
      PROVE  final' = final /\ content'[final[a]] = content[final[a]]
  <2>1. Art(r) \in 1..Artifacts
    BY <1>4 DEF Create, At, DownloadInv, RunInv, Working
  <2>2. PICK i \in Inodes :
          /\ IF part[Art(r)] = None THEN Fresh(i) ELSE i = part[Art(r)]
          /\ content' = [content EXCEPT ![i] = <<>>]
    BY <1>4 DEF Create
  <2>3. final[a] # i
    BY <1>1, <2>1, <2>2 DEF Fresh, DownloadInv, PathsApart
  <2> QED
    BY <1>1, <1>4, <2>2, <2>3 DEF Create, DownloadTypeOK
<1>5. ASSUME NEW r \in Runs, Receive(r)
      PROVE  final' = final /\ content'[final[a]] = content[final[a]]
  <2>1. /\ Art(r) \in 1..Artifacts /\ part[Art(r)] # None
        /\ w[r].file = part[Art(r)]
    BY <1>5 DEF Receive, At, DownloadInv, RunInv, Working, Writing
  <2>2. final[a] # w[r].file
    BY <1>1, <2>1 DEF DownloadInv, PathsApart
  <2> QED
    BY <1>1, <1>5, <2>2 DEF Receive, DownloadTypeOK
<1>6. ASSUME NEW r \in Runs,
             \/ Start(r) \/ Return(r) \/ Skip(r) \/ MeasurePart(r)
             \/ PartialContent(r) \/ WholeContent(r) \/ RangeRefused(r)
             \/ Discard(r) \/ OpenAppend(r) \/ EndBody(r) \/ Fails(r)
      PROVE  final' = final /\ content' = content
  BY <1>6
     DEF Start, Return, Skip, MeasurePart, PartialContent, WholeContent,
         RangeRefused, Discard, OpenAppend, EndBody, Fails, disk
<1>7. Publish \/ UNCHANGED vars => final' = final /\ content' = content
  BY DEF Publish, vars, disk
<1> QED
  BY <1>2, <1>3, <1>4, <1>5, <1>6, <1>7 DEF Next, RunStep

(* A file that is installed is never written again, by any later run of     *)
(* download_artifact (models.rs): it is found before anything is requested. *)
THEOREM InstalledUntouched ==
    ASSUME OneAtATime PROVE Spec => InstalledStays
<1>1. DownloadInv /\ [Next]_vars => [Untouched]_vars
  BY StepLeavesInstalled
<1>2. Spec => [][Untouched]_vars
  BY <1>1, DownloadInvariant, PTL DEF Spec
<1> QED
  BY <1>2 DEF InstalledStays, Untouched
=============================================================================
