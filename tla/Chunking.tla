----------------------------- MODULE Chunking -----------------------------
(***************************************************************************)
(* From a directory entry to the chunks of a file: discover_files, the     *)
(* file filters of an index run, chunk_file with the syntax tree walk and  *)
(* the sliding windows, and the secret gate in front of the embedder.      *)
(* The files of a run do not influence each other here, so a behaviour is  *)
(* one file.  Tree-sitter and the directory walker are external: a file    *)
(* comes with the tree its parser returns.                                 *)
(***************************************************************************)
EXTENDS Integers, Sequences, FiniteSets

CONSTANTS
    Inputs,        \* files as the walker meets them, with their syntax tree
    Configs,       \* [chunk, pct, doc]: chunk_max_lines, chunk_overlap_pct,
                   \* doc_chunk_max_lines
    CodeWindow,    \* CODE_WINDOW_LINES (80)
    CodeOverlap,   \* CODE_OVERLAP_PCT (25)
    DocOverlap,    \* DOC_OVERLAP_PCT (40)
    HeaderLines,   \* lines of a symbol repeated in its later windows (5)
    Threshold      \* ENTROPY_THRESHOLD (4.0)

None == 0     \* a node without a name; names count from 1

(* A line: word tells lines apart; token: a known key format is in it, or  *)
(* the header of a private key (whose body has nothing the patterns know); *)
(* assigned: it gives a value to a name like `api_key`; names: it ends     *)
(* after such a name; value: it starts with what may follow the name; the  *)
(* value has that entropy and that many classes of characters.             *)
Line == [word : Nat, token : BOOLEAN, assigned : BOOLEAN, names : BOOLEAN,
         value : BOOLEAN, blank : BOOLEAN, entropy : Nat, classes : 0..4]
(* A node of a syntax tree.  "item" is a function, method or struct,       *)
(* "container" a class or impl.  Node 1 is the root; the children of a     *)
(* node have larger numbers, in the order of the source.                   *)
Node == [parent : Nat, first : Nat, last : Nat,
         kind : {"plain", "item", "container"}, name : Nat]
Obstacles == {"none", "generated", "ignored", "special", "oversize",
              "extension", "secret", "unreadable", "broken"}

ASSUME ConstantsAssumption ==
    /\ CodeWindow \in Nat /\ CodeOverlap \in Nat /\ DocOverlap \in Nat
    /\ HeaderLines \in Nat /\ Threshold \in Nat
    /\ \A c \in Configs : c.chunk \in Nat /\ c.pct \in Nat /\ c.doc \in Nat
ASSUME InputsAssumption ==
    \A f \in Inputs :
        /\ f.entry \in Obstacles /\ f.language \in BOOLEAN /\ f.doc \in BOOLEAN
        /\ f.parses \in BOOLEAN
        /\ f.lines \in Seq(Line) /\ f.tree \in Seq(Node)
        /\ \A n \in 1..Len(f.tree) :
              /\ f.tree[n].parent < n
              /\ 1 <= f.tree[n].first /\ f.tree[n].first <= f.tree[n].last
              /\ f.tree[n].last <= Len(f.lines)
              /\ f.tree[n].parent # 0 =>      \* nodes are nested
                    /\ f.tree[f.tree[n].parent].first <= f.tree[n].first
                    /\ f.tree[n].last <= f.tree[f.tree[n].parent].last

VARIABLES
    file,      \* the input file
    cfg,       \* its configuration
    pc,
    stack,     \* frames of collect_chunks: [node, todo, before]
    win,       \* the window loop: [node, base, size, step, header, at]
    chunks,    \* Vec<Chunk>, in the order of emission
    safe,      \* safe_chunks: indices of the chunks that passed the gate
    next       \* the chunk at the gate
vars == <<file, cfg, pc, stack, win, chunks, safe, next>>
input == <<file, cfg>>

Smaller(m, n) == IF m < n THEN m ELSE n
Larger(m, n) == IF m > n THEN m ELSE n
NoWindow == [node |-> 0, base |-> 1, size |-> 1, step |-> 1,
             header |-> <<>>, lines |-> <<>>, at |-> 0]

Init ==
    /\ file \in Inputs /\ cfg \in Configs
    /\ pc = "walk"
    /\ stack = <<>> /\ win = NoWindow
    /\ chunks = <<>> /\ safe = {} /\ next = 1

At(step) == pc = step
Goto(step) == pc' = step

-----------------------------------------------------------------------------
(* discover_files: the walker prunes ignored files and generated or cache  *)
(* directories; other kinds of entries and large files are passed over.    *)
Visited == file.entry \notin {"generated", "ignored"}
Discovered == Visited /\ file.entry \notin {"special", "oversize"}

Discover ==
    /\ At("walk") /\ file.entry # "broken"
    /\ Goto(IF Discovered THEN "filter" ELSE "done")
    /\ UNCHANGED <<input, stack, win, chunks, safe, next>>

(* An entry the walker cannot read ends the run of every file.             *)
WalkFails ==
    /\ At("walk") /\ file.entry = "broken"
    /\ Goto("done")
    /\ UNCHANGED <<input, stack, win, chunks, safe, next>>

(* The extension filter of the request, and should_skip_file: a name that  *)
(* stands for credentials is never read.                                   *)
Wanted == file.entry # "extension"
ShouldSkip == file.entry = "secret"

Filter ==
    /\ At("filter")
    /\ Goto(IF Wanted /\ ~ShouldSkip THEN "read" ELSE "done")
    /\ UNCHANGED <<input, stack, win, chunks, safe, next>>

Read ==
    /\ At("read")
    /\ Goto(IF file.entry = "unreadable" THEN "done" ELSE "chunk")
    /\ UNCHANGED <<input, stack, win, chunks, safe, next>>

-----------------------------------------------------------------------------
(* Windows over a run of lines.                                            *)
Overlap(size, pct) == Smaller((size * pct) \div 100, size - 1)
(* Mutant: the overlap comes on top of the window.                         *)
StepPast(size, overlap) == size + overlap
Step(size, overlap) == Larger(1, size - overlap)

(* Mutant: a window is one line longer.                                    *)
WindowEndLong(start, size, len) == Smaller(start + size + 1, len)
WindowEnd(start, size, len) == Smaller(start + size, len)

Windows(node, base, lines, size, pct, header) ==
    [node |-> node, base |-> base, size |-> size,
     step |-> Step(size, Overlap(size, pct)), header |-> header,
     lines |-> lines, at |-> 0]

Chunk(node, content, first, last) ==
    [node |-> node, content |-> content, first |-> first, last |-> last,
     id |-> <<>>]
NameOf(n) == IF n = 0 THEN None ELSE file.tree[n].name

(* One window, lines at+1..end of the run; a later window of a symbol      *)
(* starts with the head of the symbol.                                     *)
EmitWindow ==
    /\ At("window") /\ win.at < Len(win.lines)
    /\ LET end == WindowEnd(win.at, win.size, Len(win.lines))
           body == SubSeq(win.lines, win.at + 1, end)
           content == IF win.at > 0 THEN win.header \o body ELSE body
       IN  /\ chunks' = Append(chunks, Chunk(win.node, content,
                                             win.base + win.at,
                                             win.base + end - 1))
           /\ IF end = Len(win.lines)
              THEN Goto("windowed") /\ UNCHANGED win
              ELSE UNCHANGED pc /\ win' = [win EXCEPT !.at = @ + win.step]
    /\ UNCHANGED <<input, stack, safe, next>>

(* The loop's condition: nothing is left, also of an empty run.            *)
WindowsOver ==
    /\ At("window") /\ win.at >= Len(win.lines)
    /\ Goto("windowed")
    /\ UNCHANGED <<input, stack, win, chunks, safe, next>>

(* After the windows: back to the walk of the tree, or to the ids.         *)
EndWindows ==
    /\ At("windowed")
    /\ Goto(IF stack # <<>> THEN "tree" ELSE "ids")
    /\ win' = NoWindow
    /\ UNCHANGED <<input, stack, chunks, safe, next>>

-----------------------------------------------------------------------------
(* chunk_file.                                                             *)
(* window_settings: documents have windows of their own.                   *)
SlidingSize == Larger(1, IF file.doc THEN cfg.doc ELSE CodeWindow)
SlidingPct == IF file.doc THEN DocOverlap ELSE CodeOverlap
SlideOver == /\ win' = Windows(0, 1, file.lines, SlidingSize, SlidingPct, <<>>)
             /\ Goto("window")

Parsed == file.language /\ file.parses

Slide == /\ At("chunk") /\ ~Parsed
         /\ SlideOver
         /\ UNCHANGED <<input, stack, chunks, safe, next>>

Children(n) == {m \in 1..Len(file.tree) : file.tree[m].parent = n}
Frame(n) == [node |-> n, todo |-> Children(n), before |-> Len(chunks)]

ParseTree == /\ At("chunk") /\ Parsed
             /\ stack' = <<Frame(0)>>
             /\ Goto("tree")
             /\ UNCHANGED <<input, win, chunks, safe, next>>

-----------------------------------------------------------------------------
(* collect_chunks: a walk of the tree that stops at items.                 *)
Top == stack[Len(stack)]
LeastOf(nodes) == CHOOSE n \in nodes : \A m \in nodes : n <= m
Popped == SubSeq(stack, 1, Len(stack) - 1)

(* emit_node_chunks: the lines of a node, whole when they are few.  The    *)
(* text of a node may begin and end inside a line; here it has full lines. *)
NodeLines(n) == SubSeq(file.lines, file.tree[n].first, file.tree[n].last)
NodeSize == Larger(1, cfg.chunk)
EmitNode(n) ==
    LET lines == NodeLines(n)
        head  == SubSeq(lines, 1, Smaller(HeaderLines, Len(lines)))
    IN  /\ win' = IF Len(lines) <= NodeSize
                  THEN Windows(n, file.tree[n].first, lines, Len(lines), 0, <<>>)
                  ELSE Windows(n, file.tree[n].first, lines, NodeSize,
                               cfg.pct, head)
        /\ Goto("window")

Descend ==
    /\ At("tree") /\ stack # <<>> /\ Top.todo # {}
    /\ LET child == LeastOf(Top.todo)
           rest  == Append(Popped, [Top EXCEPT !.todo = @ \ {child}])
       IN  IF file.tree[child].kind = "item"
           THEN stack' = rest /\ EmitNode(child)
           ELSE stack' = Append(rest, Frame(child)) /\ UNCHANGED <<win, pc>>
    /\ UNCHANGED <<input, chunks, safe, next>>

(* Mutant: a container without items inside is passed over.                *)
EmptyContainerNever(frame) == FALSE
(* A container is a chunk when nothing inside it is.                       *)
EmptyContainer(frame) ==
    /\ frame.node # 0 /\ file.tree[frame.node].kind = "container"
    /\ Len(chunks) = frame.before

Ascend ==
    /\ At("tree") /\ stack # <<>> /\ Top.todo = {} /\ Len(stack) > 1
    /\ stack' = Popped
    /\ IF EmptyContainer(Top) THEN EmitNode(Top.node) ELSE UNCHANGED <<win, pc>>
    /\ UNCHANGED <<input, chunks, safe, next>>

(* sort_by_key((start_line, end_line)), which keeps the order of equals.   *)
Before(s, i, j) ==
    \/ s[i].first < s[j].first
    \/ s[i].first = s[j].first /\ s[i].last < s[j].last
    \/ s[i].first = s[j].first /\ s[i].last = s[j].last /\ i < j
Sorted(s) ==
    [k \in 1..Len(s) |->
        s[CHOOSE i \in 1..Len(s) :
             Cardinality({j \in 1..Len(s) : Before(s, j, i)}) = k - 1]]

(* The walk ends.  Without any chunk the file slides like a text.          *)
EndTree ==
    /\ At("tree") /\ Len(stack) = 1 /\ Top.todo = {}
    /\ stack' = <<>>
    /\ IF chunks = <<>> THEN SlideOver /\ UNCHANGED chunks
       ELSE chunks' = Sorted(chunks) /\ Goto("ids") /\ UNCHANGED win
    /\ UNCHANGED <<input, safe, next>>

(* assign_chunk_ids: the name and the content of a symbol, or the place    *)
(* and the content of another chunk; the hashes are left out.              *)
Id(k) == LET name == NameOf(chunks[k].node)
         IN  IF name # None THEN <<"symbol", name, chunks[k].content>>
             ELSE <<"chunk", k - 1, chunks[k].content>>
AssignIds ==
    /\ At("ids")
    /\ chunks' = [k \in 1..Len(chunks) |-> [chunks[k] EXCEPT !.id = Id(k)]]
    /\ Goto("gate")
    /\ UNCHANGED <<input, stack, win, safe, next>>

-----------------------------------------------------------------------------
(* The secret gate of the index run (and of --dump-chunks).  The patterns  *)
(* run over the content of a chunk, and the white space of an assignment   *)
(* may hold line breaks: its name and its value can be on different lines, *)
(* in the lines of the chunk or in the head it repeats and its first line. *)
HighEntropy(line) == line.entropy >= Threshold /\ line.classes >= 2
IsSecret(line) == line.token \/ (line.assigned /\ HighEntropy(line))
SecretAt(content, j, k) ==
    \/ j = k /\ IsSecret(content[j])
    \/ /\ j < k /\ content[j].names
       /\ \A i \in (j + 1)..(k - 1) : content[i].blank
       /\ content[k].value /\ HighEntropy(content[k])
ContainsSecret(content) ==
    \E j, k \in 1..Len(content) : SecretAt(content, j, k)

GateChunk ==
    /\ At("gate") /\ next <= Len(chunks)
    /\ safe' = IF ContainsSecret(chunks[next].content) THEN safe
               ELSE safe \cup {next}
    /\ next' = next + 1
    /\ UNCHANGED <<input, pc, stack, win, chunks>>

EndGate ==
    /\ At("gate") /\ next > Len(chunks)
    /\ Goto("chunked")
    /\ UNCHANGED <<input, stack, win, chunks, safe, next>>

Next == \/ Discover \/ WalkFails \/ Filter \/ Read
        \/ Slide \/ ParseTree \/ Descend \/ Ascend \/ EndTree
        \/ EmitWindow \/ WindowsOver \/ EndWindows
        \/ AssignIds \/ GateChunk \/ EndGate

Spec == Init /\ [][Next]_vars

-----------------------------------------------------------------------------
(* Properties.                                                             *)
Steps == {"walk", "filter", "read", "chunk", "tree", "window", "windowed",
          "ids", "gate", "chunked", "done"}
Window == [node : Nat, base : Nat, size : Nat, step : Nat, at : Nat,
           header : Seq(Line), lines : Seq(Line)]

(* Every variable keeps its type.  A chunk names lines of the file, no     *)
(* more than a window holds, and its content ends with these lines; what   *)
(* is in front of them is the head of its symbol.                          *)
LimitOf(c) == IF c.node = 0 THEN SlidingSize ELSE NodeSize
ChunkOK(c) ==
    /\ 1 <= c.first /\ c.first <= c.last /\ c.last <= Len(file.lines)
    /\ c.last - c.first < LimitOf(c)
    /\ LET head == Len(c.content) - (c.last - c.first + 1)
       IN  /\ head \in 0..HeaderLines
           /\ SubSeq(c.content, head + 1, Len(c.content))
                 = SubSeq(file.lines, c.first, c.last)
           /\ head > 0 => c.node # 0
ChunkingTypeOK ==
    /\ file.lines \in Seq(Line) /\ file.tree \in Seq(Node) /\ pc \in Steps
    /\ win \in Window /\ win.size > 0 /\ win.step > 0
    /\ \A k \in 1..Len(chunks) : ChunkOK(chunks[k])
    /\ safe \subseteq 1..Len(chunks) /\ next \in 1..(Len(chunks) + 1)

(* The windows of one run of lines follow each other: each one starts      *)
(* after the start of the one before and not after the line behind it, so  *)
(* that no line falls between two windows, and ends after its end, so that *)
(* the loop makes progress whatever overlap is configured.                 *)
WindowsAdvance ==
    \A k \in 1..Len(chunks) - 1 :
        chunks[k].node = chunks[k + 1].node =>
            /\ chunks[k].first < chunks[k + 1].first
            /\ chunks[k + 1].first <= chunks[k].last + 1
            /\ chunks[k].last < chunks[k + 1].last

(* The lines a file's chunks owe the index: all of them when the file      *)
(* slides, else those of every function, method, struct, and of every      *)
(* class or impl that has none of these inside.  The other lines of a      *)
(* parsed file with symbols - imports, constants, the head and the fields  *)
(* of a class with methods - are in no chunk: collect_chunks drops them.   *)
Symbols == {n \in 1..Len(file.tree) : file.tree[n].kind # "plain"}
Within(m, n) == /\ m > n /\ file.tree[m].last <= file.tree[n].last
                /\ file.tree[m].first >= file.tree[n].first
Bare(n) == file.tree[n].kind = "item" \/ ~\E m \in Symbols : Within(m, n)
Owed == IF Parsed /\ Symbols # {}
        THEN UNION {file.tree[n].first..file.tree[n].last :
                       n \in {n \in Symbols : Bare(n)}}
        ELSE 1..Len(file.lines)

(* No symbol is lost between the file and the embedder: every owed line    *)
(* is in a chunk that passes the gate unless its own content shows a       *)
(* secret.  And the gate keeps what it can see: no chunk that passed shows *)
(* a line with a whole secret, in its lines or in the head it repeats, nor *)
(* all lines of a secret that is spread over several.  A part of one may   *)
(* pass: a window can begin between a name and its value.                  *)
Shows(k, line) == \E j \in 1..Len(chunks[k].content) :
                     chunks[k].content[j] = line
SymbolsAreChunked ==
    pc = "chunked" =>
        /\ \A k \in Owed : \E i \in 1..Len(chunks) :
              /\ k \in chunks[i].first..chunks[i].last
              /\ i \in safe \/ ContainsSecret(chunks[i].content)
        /\ \A k \in 1..Len(file.lines), i \in safe :
              IsSecret(file.lines[k]) => ~Shows(i, file.lines[k])
        /\ \A j, k \in 1..Len(file.lines), i \in safe :
              SecretAt(file.lines, j, k) =>
                 ~(chunks[i].first <= j /\ k <= chunks[i].last)

(* It does not hold that the lines of a secret all stay: the name `key =`  *)
(* in the last line before a window, its value in the first line of it,    *)
(* and the window passes (README).                                         *)
SpreadSecretsStay ==
    pc = "chunked" =>
        \A j, k \in 1..Len(file.lines), i \in safe :
            SecretAt(file.lines, j, k) => ~Shows(i, file.lines[k])

-----------------------------------------------------------------------------
(* Why this holds: the inductive invariant.                                *)

Ids == {<<>>} \cup ({"symbol", "chunk"} \X Nat \X Seq(Line))
TypeInv ==
    /\ file \in Inputs /\ cfg \in Configs /\ pc \in Steps
    /\ win \in Window /\ win.size > 0 /\ win.step > 0
    /\ chunks \in Seq([node : Nat, content : Seq(Line), first : Nat,
                       last : Nat, id : Ids])
    /\ stack \in Seq([node : 0..Len(file.tree), before : Nat,
                      todo : SUBSET (1..Len(file.tree))])
    /\ next \in Nat \ {0} /\ safe \subseteq 1..(next - 1)

(* The chunks of s are whole windows of the file, made of its lines.       *)
FromFile(content) ==
    \A j \in 1..Len(content) : \E k \in 1..Len(file.lines) :
        content[j] = file.lines[k]
AllOK(s) == \A k \in 1..Len(s) : /\ ChunkOK(s[k]) /\ FromFile(s[k].content)
                                 /\ s[k].node \in 0..Len(file.tree)

(* WindowsAdvance in a form that sorting keeps: of two windows of a run    *)
(* the earlier one starts and ends before, and joins a later one.          *)
Advance(s) ==
    \A j, k \in 1..Len(s) : j < k /\ s[j].node = s[k].node =>
        /\ s[j].first < s[k].first /\ s[j].last < s[k].last
        /\ \E i \in (j + 1)..Len(s) : /\ s[i].node = s[j].node
                                     /\ s[i].first <= s[j].last + 1

(* Line k, and the lines first to last, are in chunks of s.                *)
Held(s, k) == \E i \in 1..Len(s) : k \in s[i].first..s[i].last
Covers(s, first, last) == \A k \in first..last : Held(s, k)

(* The window loop: its lines, and how far it has come in them.            *)
WindowInv ==
    /\ win.base >= 1 /\ win.base + Len(win.lines) <= Len(file.lines) + 1
    /\ win.lines = SubSeq(file.lines, win.base,
                         win.base + Len(win.lines) - 1)
    /\ win.size <= LimitOf(win) /\ win.step <= win.size
    /\ Len(win.header) <= HeaderLines /\ FromFile(win.header)
    /\ win.node = 0 =>
          /\ stack = <<>> /\ win.header = <<>>
          /\ win.base = 1 /\ Len(win.lines) = Len(file.lines)
    /\ win.node # 0 =>
          /\ stack # <<>> /\ win.node \in Symbols
          /\ win.base = file.tree[win.node].first
          /\ win.base + Len(win.lines) - 1 = file.tree[win.node].last
    /\ win.at = 0 => \A k \in 1..Len(chunks) : chunks[k].node # win.node
    /\ win.at > 0 =>
          /\ win.at < Len(win.lines) /\ chunks # <<>>
          /\ LET c == chunks[Len(chunks)]
             IN  /\ c.node = win.node
                 /\ c.first = win.base + win.at - win.step
                 /\ c.last = c.first + win.size - 1
                 /\ c.last < win.base + Len(win.lines) - 1
                 /\ Covers(chunks, win.base, c.last)

(* The walk has reached the nodes V, each once: the frames are a path of   *)
(* enclosing nodes, and what they still have to do lies outside V.         *)
InWork(n) == pc = "window" /\ win.node = n
NodeCovered(n) == Covers(chunks, file.tree[n].first, file.tree[n].last)
Open(n) == \E i \in 1..Len(stack) : stack[i].node = n
FrameOK(V, i) ==
    /\ stack[i].node \in V /\ (stack[i].node = 0 <=> i = 1)
    /\ i > 1 => file.tree[stack[i].node].kind # "item"
    /\ stack[i].todo \cap V = {}
    /\ \A n \in stack[i].todo : file.tree[n].parent = stack[i].node
    /\ Children(stack[i].node) \subseteq V \cup stack[i].todo
    /\ stack[i].before <= Len(chunks)
    /\ i > 1 /\ stack[i].before < Len(chunks) =>
          \E m \in Symbols : Within(m, stack[i].node)
    /\ \A k \in 1..Len(chunks) : chunks[k].node # stack[i].node
    /\ \A j \in (i + 1)..Len(stack) :
          i > 1 => Within(stack[j].node, stack[i].node)
    /\ pc = "window" => /\ win.node # stack[i].node
                        /\ i > 1 => Within(win.node, stack[i].node)
FrameInv(V) == \A i \in 1..Len(stack) : FrameOK(V, i)
(* A node of V that is left has its lines in chunks or leaves them to a    *)
(* symbol inside, and all its children are in V.                           *)
LeftInv(V) ==
    \A n \in V \ {0} :
        /\ file.tree[n].parent \in V
        /\ file.tree[n].kind = "item" => InWork(n) \/ NodeCovered(n)
        /\ file.tree[n].kind # "item" /\ ~Open(n) =>
              /\ Children(n) \subseteq V
              /\ n \in Symbols /\ Bare(n) => InWork(n) \/ NodeCovered(n)
Reached(V) ==
    /\ 0 \in V /\ FrameInv(V) /\ LeftInv(V)
    /\ \A k \in 1..Len(chunks) : chunks[k].node \in V \cap Symbols
    /\ pc = "window" => win.node \in V
WalkInv == \E V \in SUBSET (0..Len(file.tree)) : Reached(V)

(* Which part of the chunking a step belongs to.                           *)
PhaseInv ==
    /\ pc \in {"walk", "filter", "read", "chunk"} =>
          stack = <<>> /\ chunks = <<>>
    /\ pc = "tree" => stack # <<>>
    /\ stack # <<>> => Parsed
    /\ pc \in {"tree", "window", "windowed"} /\ stack # <<>> => WalkInv
    /\ pc = "window" => WindowInv
    /\ pc = "windowed" /\ stack = <<>> => Covers(chunks, 1, Len(file.lines))
    /\ pc \in {"ids", "gate", "chunked"} =>
          \A k \in Owed : Held(chunks, k)
    /\ pc \notin {"gate", "chunked"} => next = 1
    /\ pc = "chunked" => next > Len(chunks)

GateInv ==
    /\ next <= Len(chunks) + 1
    /\ \A i \in 1..(next - 1) :
          i \in safe <=> ~ContainsSecret(chunks[i].content)

ChunkingInv == TypeInv /\ AllOK(chunks) /\ Advance(chunks) /\ PhaseInv /\ GateInv
=============================================================================
