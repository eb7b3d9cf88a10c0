-------------------------- MODULE ContextAssembly --------------------------
(***************************************************************************)
(* ContextAssembler::assemble: from the hits of one search to the package  *)
(* get_context_for_prompt answers with.  It filters and normalises, merges *)
(* hits that overlap, adds chunks of related files, boosts recent files,   *)
(* sorts, fills the token budget in two passes and cuts the last chunks    *)
(* until the package fits.  Each loop is one action per iteration.         *)
(*                                                                         *)
(* Scores are permille, line ranges and paths are numbers (paths in their  *)
(* string order), contents are a number of characters.  How many tokens a  *)
(* text has is up to the constants: nothing is assumed of CountExact, not  *)
(* even that a longer text has more tokens.  The loops over a sorted Vec   *)
(* take the least remaining element by the sort key instead.               *)
(* deduplicate is not a parameter: the only callers set it.                *)
(***************************************************************************)
EXTENDS Integers, Sequences, FiniteSets

CONSTANTS
    Paths,           \* file paths, numbered in their order
    Requests,        \* what the handler may ask: see Request
    Estimate(_),     \* TokenCounter::estimate of a number of characters
    CountExact(_),   \* tokens of a package text, a sequence of Piece
    HighTier(_),     \* path -> the test files named after it
    LowTier(_),      \* path -> mod.rs, index.ts, ... beside it
    RelatedHits(_),  \* path -> its best hits for the query in the store
    DirOf(_),        \* path -> its directory
    DocPaths         \* the paths is_doc_path recognises

MaxExpandedFiles == 5
MaxChunksPerFile == 3
MinSimilarity    == 300

Ages == {"unknown", "future", "day", "week", "older"}
Hit  == [id : STRING, path : Paths, from : Nat \ {0}, to : Nat \ {0},
         score : Nat, len : Nat, age : Ages]
(* hits: the Vec the search returned; scope: the paths below the asked     *)
(* scope; store: the handler opened a vector store for the expansion.      *)
Request == [hits : Seq(Hit), scope : SUBSET Paths, docs : BOOLEAN,
            related : BOOLEAN, store : BOOLEAN, minRel : Nat,
            budget : Nat \ {0}, maxFiles : Nat \ {0},
            status : {"full", "partial", "empty", "unknown"}]

ASSUME PathsAssumption == Paths \subseteq Nat
ASSUME RequestsAssumption ==
    \A q \in Requests :
        /\ q \in Request
        /\ \A i \in DOMAIN q.hits : q.hits[i].from <= q.hits[i].to
ASSUME TierAssumption ==
    \A p \in Paths : HighTier(p) \in Seq(Paths) /\ LowTier(p) \in Seq(Paths)
ASSUME RelatedAssumption == \A p \in Paths : RelatedHits(p) \in Seq(Hit)

VARIABLES
    pc,         \* the stage of assemble
    ask,        \* the request
    best,       \* max_raw_score
    direct,     \* Vec direct: the hits kept, later the merged ones
    todo,       \* what the current loop has not visited yet
    active,     \* current of Deduplicator::deduplicate
    merged,     \* merged of Deduplicator::deduplicate
    expanded,   \* chunks of related files
    filtered,   \* threshold_filtered
    selected,   \* selected, later allocated: a sequence of chunks
    rest,       \* remaining
    used,       \* estimate_used
    cut,        \* the binary search on the last chunk
    package     \* what is returned

searched   == <<ask, best, filtered>>
deduping   == <<direct, active, merged>>
allocating == <<selected, rest, used>>
vars == <<pc, searched, deduping, allocating, todo, expanded, cut, package>>

Nothing == [none |-> TRUE]

(* The least element by a key that is a tuple of integers.                 *)
LexLess(a, b) == \E i \in 1..Len(a) : /\ a[i] < b[i]
                                      /\ \A j \in 1..(i - 1) : a[j] = b[j]
Least(c, S, Key(_)) == c \in S /\ \A d \in S \ {c} : LexLess(Key(c), Key(d))

Smaller(a, b) == IF a < b THEN a ELSE b
Larger(a, b)  == IF a < b THEN b ELSE a
Ceil(a, b)    == (a + b - 1) \div b

Init ==
    /\ pc = "filter"
    /\ ask \in Requests
    /\ best = 0 /\ direct = {} /\ todo = {} /\ active = Nothing /\ merged = {}
    /\ expanded = {} /\ filtered = FALSE
    /\ selected = <<>> /\ rest = {} /\ used = 0
    /\ cut = Nothing /\ package = Nothing

-----------------------------------------------------------------------------
(* Filtering.  The scores are normalised by the best of all hits, those of *)
(* other scopes included.                                                  *)
Normal(score, top) == IF top = 0 THEN 0 ELSE (1000 * score) \div top
Scores(q) == {q.hits[i].score : i \in DOMAIN q.hits} \cup {0}

InView(q) == {i \in DOMAIN q.hits : /\ q.docs \/ q.hits[i].path \notin DocPaths
                                    /\ q.hits[i].path \in q.scope}
Normalised(q, top, i) ==
    [idx |-> i, related |-> FALSE,
     hit |-> [q.hits[i] EXCEPT !.score = Normal(@, top)]]
Kept(q, top) == {c \in {Normalised(q, top, i) : i \in InView(q)} :
                     c.hit.score >= q.minRel}

Filter ==
    /\ pc = "filter"
    /\ \E top \in Scores(ask) :
          /\ \A score \in Scores(ask) : score <= top
          /\ best' = top
          /\ todo' = Kept(ask, top)
          /\ filtered' = \E i \in InView(ask) :
                            Normal(ask.hits[i].score, top) < ask.minRel
    /\ pc' = "dedup"
    /\ UNCHANGED <<deduping, allocating, ask, expanded, cut, package>>

-----------------------------------------------------------------------------
(* Deduplicator::deduplicate: in the order of path, lines and position.    *)
SpanKey(c) == <<c.hit.path, c.hit.from, c.hit.to, c.idx>>

Span(h)       == IF h.to < h.from THEN 0 ELSE h.to - h.from + 1
Overlap(g, h) == LET from == Larger(g.from, h.from)
                     to   == Smaller(g.to, h.to)
                 IN  IF to < from THEN 0 ELSE to - from + 1
(* Mutant: any overlap of at least half of the larger one is needed.       *)
ShouldMergeLarger(g, h) ==
    /\ g.path = h.path
    /\ Overlap(g, h) * 2 > Larger(Span(g), Span(h))
ShouldMerge(g, h) ==
    /\ g.path = h.path
    /\ Overlap(g, h) > 0 /\ Smaller(Span(g), Span(h)) > 0
    /\ Overlap(g, h) * 2 > Smaller(Span(g), Span(h))
ShouldReplace(a, h) ==
    \/ h.score > a.score
    \/ h.score = a.score /\ Span(h) > Span(a)
    \/ h.score = a.score /\ Span(h) = Span(a) /\ a.from > h.from

(* merge_into: one of the two survives, with the lines of both.            *)
(* Mutant: the survivor keeps its own last line.                           *)
MergedShort(a, c) ==
    LET keep == IF ShouldReplace(a.hit, c.hit) THEN c ELSE a
    IN  [keep EXCEPT !.hit = [@ EXCEPT
            !.from = Smaller(a.hit.from, c.hit.from)]]
Merged(a, c) ==
    LET keep == IF ShouldReplace(a.hit, c.hit) THEN c ELSE a
    IN  [keep EXCEPT !.hit = [@ EXCEPT
            !.from = Smaller(a.hit.from, c.hit.from),
            !.to   = Larger(a.hit.to, c.hit.to)]]

Visit(c) ==
    /\ Least(c, todo, SpanKey)
    /\ todo' = todo \ {c}
    /\ UNCHANGED <<pc, searched, allocating, direct, expanded, cut, package>>

TakeFirst(c) == /\ pc = "dedup" /\ active = Nothing
                /\ Visit(c)
                /\ active' = c /\ UNCHANGED merged

MergeNext(c) == /\ pc = "dedup" /\ active # Nothing
                /\ Visit(c)
                /\ ShouldMerge(active.hit, c.hit)
                /\ active' = Merged(active, c) /\ UNCHANGED merged

KeepNext(c) ==  /\ pc = "dedup" /\ active # Nothing
                /\ Visit(c)
                /\ ~ShouldMerge(active.hit, c.hit)
                /\ merged' = merged \cup {active} /\ active' = c

EndDedup ==
    /\ pc = "dedup" /\ todo = {}
    /\ direct' = IF active = Nothing THEN {} ELSE merged \cup {active}
    /\ pc' = "expand"
    /\ UNCHANGED <<searched, allocating, todo, active, merged, expanded, cut,
                   package>>

-----------------------------------------------------------------------------
(* RelatedExpander::expand.  The candidates are the test files of all      *)
(* direct hits, then the index files beside them, each where it is named   *)
(* first; import_degree has no implementation but the default.             *)
DirectFiles == {c.hit.path : c \in direct}
ImportDegree(p) == 0

TierOf(tier, p) == IF tier = 1 THEN HighTier(p) ELSE LowTier(p)
Mentions == UNION {{[tier |-> t, by |-> c.idx, at |-> k,
                     path |-> TierOf(t, c.hit.path)[k]] :
                        k \in DOMAIN TierOf(t, c.hit.path)} :
                            t \in {1, 2}, c \in direct}
MentionKey(m) == <<m.tier, m.by, m.at>>
FirstMention(m) == Least(m, {n \in Mentions : n.path = m.path}, MentionKey)
(* Mutant: a file is a candidate once for every time it is named.          *)
CandidatesRepeated == {m \in Mentions : /\ m.path \notin DirectFiles
                                        /\ ImportDegree(m.path) <= 20}
Candidates == {m \in Mentions : /\ FirstMention(m)
                                /\ m.path \notin DirectFiles
                                /\ ImportDegree(m.path) <= 20}

NoRelated == ~ask.related \/ ~ask.store \/ direct = {}
SkipExpansion ==
    /\ pc = "expand" /\ NoRelated
    /\ pc' = "rank"
    /\ UNCHANGED <<searched, deduping, allocating, todo, expanded, cut,
                   package>>

StartExpansion ==
    /\ pc = "expand" /\ ~NoRelated
    /\ todo' = Candidates
    /\ pc' = "related"
    /\ UNCHANGED <<searched, deduping, allocating, expanded, cut, package>>

(* A hit's score is its similarity 1 / (1 + distance); the filter of the   *)
(* search is the candidate's path, so all hits are of that file.           *)
Multiplier(m) == IF m.tier = 1 THEN 600 ELSE 400
Similar(m) == {k \in DOMAIN RelatedHits(m.path) :
                   /\ k <= MaxChunksPerFile
                   /\ RelatedHits(m.path)[k].score > MinSimilarity}
StoreChunk(m, k) ==
    [idx |-> k, related |-> TRUE,
     hit |-> [RelatedHits(m.path)[k] EXCEPT
                 !.path = m.path,
                 !.score = (@ * Multiplier(m)) \div 1000]]
FromStore(m) == {StoreChunk(m, k) : k \in Similar(m)}

ExpandedFiles == {c.hit.path : c \in expanded}

ExpandFile(m) ==
    /\ pc = "related" /\ Cardinality(ExpandedFiles) < MaxExpandedFiles
    /\ Least(m, todo, MentionKey)
    /\ todo' = todo \ {m}
    /\ expanded' = expanded \cup FromStore(m)
    /\ UNCHANGED <<pc, searched, deduping, allocating, cut, package>>

(* An error of the vector store ends the request.                          *)
ExpandFails ==
    /\ pc = "related" /\ todo # {}
    /\ Cardinality(ExpandedFiles) < MaxExpandedFiles
    /\ pc' = "error"
    /\ UNCHANGED <<searched, deduping, allocating, todo, expanded, cut,
                   package>>

EndExpansion ==
    /\ pc = "related"
    /\ todo = {} \/ Cardinality(ExpandedFiles) >= MaxExpandedFiles
    /\ todo' = {}
    /\ pc' = "rank"
    /\ UNCHANGED <<searched, deduping, allocating, expanded, cut, package>>

-----------------------------------------------------------------------------
(* RecencyTracker::score, and the order of the final sort.  The sort is    *)
(* stable: what still ties stays in the order direct, then expanded.       *)
Recent(h) ==
    IF h.score <= 300 \/ h.age \in {"unknown", "future", "older"} THEN h.score
    ELSE IF h.age = "day" THEN (h.score * 110) \div 100
    ELSE (h.score * 103) \div 100
RankKey(c) == <<-c.hit.score, c.hit.path, c.hit.from, c.hit.to,
                IF c.related THEN 1 ELSE 0, c.idx>>
Boosted(c) == [c EXCEPT !.hit = [@ EXCEPT !.score = Recent(c.hit)]]
Ranked == {Boosted(c) : c \in direct \cup expanded}

Rank ==
    /\ pc = "rank"
    /\ todo' = Ranked
    /\ pc' = IF Ranked = {} \/ ask.budget = 0 THEN "package" ELSE "select"
    /\ UNCHANGED <<searched, deduping, allocating, expanded, cut, package>>

-----------------------------------------------------------------------------
(* allocate_budget.                                                        *)
Piece(c) == [id |-> c.hit.id, kept |-> c.hit.len]
Text(s)  == [i \in DOMAIN s |-> Piece(s[i])]
FilesOf(s) == {s[i].hit.path : i \in DOMAIN s}

HeuristicLimit == Larger(Ceil(ask.budget * 90, 100), 1)
RefillFloor    == Ceil(ask.budget * 95, 100)
FilesFull(c)   == /\ c.hit.path \notin FilesOf(selected)
                  /\ Cardinality(FilesOf(selected)) >= ask.maxFiles
(* Mutant: the estimate may refuse the first chunk too.                    *)
OverEstimateAlways(c) == used + Estimate(c.hit.len) > HeuristicLimit
OverEstimate(c) == /\ selected # <<>>
                   /\ used + Estimate(c.hit.len) > HeuristicLimit

SelectNext(c) ==
    /\ pc = "select" /\ Least(c, todo, RankKey)
    /\ ~FilesFull(c) /\ ~OverEstimate(c)
    /\ todo' = todo \ {c}
    /\ selected' = Append(selected, c)
    /\ used' = used + Estimate(c.hit.len)
    /\ UNCHANGED <<pc, searched, deduping, expanded, rest, cut, package>>

SetAside(c) ==
    /\ pc = "select" /\ Least(c, todo, RankKey)
    /\ FilesFull(c) \/ OverEstimate(c)
    /\ todo' = todo \ {c}
    /\ rest' = rest \cup {c}
    /\ UNCHANGED <<pc, searched, deduping, expanded, selected, used, cut,
                   package>>

(* The first remaining chunk is taken if nothing was; with max_files >= 1, *)
(* which the argument parser ensures, something always was.                *)
EndSelect ==
    /\ pc = "select" /\ todo = {}
    /\ LET first == {c \in rest : selected = <<>> /\ Least(c, rest, RankKey)}
       IN  /\ selected' = IF first = {} THEN selected
                          ELSE <<CHOOSE c \in first : TRUE>>
           /\ rest' = rest \ first
    /\ pc' = "refill"
    /\ UNCHANGED <<searched, deduping, todo, expanded, used, cut, package>>

Room == CountExact(Text(selected)) < RefillFloor
Fits(c) == CountExact(Text(Append(selected, c))) <= ask.budget
(* Mutant: the second pass forgets the limit on files.                     *)
RefillAnyFile(c) ==
    /\ pc = "refill" /\ Room
    /\ Least(c, rest, RankKey)
    /\ rest' = rest \ {c}
    /\ selected' = IF ~Fits(c) THEN selected ELSE Append(selected, c)
    /\ UNCHANGED <<pc, searched, deduping, todo, expanded, used, cut, package>>
Refill(c) ==
    /\ pc = "refill" /\ Room
    /\ Least(c, rest, RankKey)
    /\ rest' = rest \ {c}
    /\ selected' = IF FilesFull(c) \/ ~Fits(c) THEN selected
                   ELSE Append(selected, c)
    /\ UNCHANGED <<pc, searched, deduping, todo, expanded, used, cut, package>>

EndRefill ==
    /\ pc = "refill" /\ (rest = {} \/ ~Room)
    /\ pc' = "truncate"
    /\ UNCHANGED <<searched, deduping, allocating, todo, expanded, cut,
                   package>>

-----------------------------------------------------------------------------
(* truncate_to_budget: while the package is over budget, search for the    *)
(* longest prefix of the last chunk that fits, or drop the chunk.          *)
LastOf(s)    == s[Len(s)]
Short(s)   == SubSeq(s, 1, Len(s) - 1)
Resized(c, n) == [c EXCEPT !.hit = [@ EXCEPT !.len = n]]
Keep(s, n) == [s EXCEPT ![Len(s)] = Resized(@, n)]
WithinBudget(s) == CountExact(Text(s)) <= ask.budget

EndTruncate ==
    /\ pc = "truncate" /\ (WithinBudget(selected) \/ selected = <<>>)
    /\ pc' = "package"
    /\ UNCHANGED <<searched, deduping, allocating, todo, expanded, cut,
                   package>>

DropEmpty ==
    /\ pc = "truncate" /\ selected # <<>> /\ ~WithinBudget(selected)
    /\ LastOf(selected).hit.len = 0
    /\ selected' = Short(selected)
    /\ UNCHANGED <<pc, searched, deduping, todo, expanded, rest, used, cut,
                   package>>

StartCut ==
    /\ pc = "truncate" /\ selected # <<>> /\ ~WithinBudget(selected)
    /\ LastOf(selected).hit.len > 0
    /\ cut' = [low |-> 0, high |-> LastOf(selected).hit.len]
    /\ pc' = "cut"
    /\ UNCHANGED <<searched, deduping, allocating, todo, expanded, package>>

(* Mutant: the middle is rounded down.                                     *)
MiddleDown(low, high) == (low + high) \div 2
Middle(low, high) == Ceil(low + high, 2)
Probe ==
    /\ pc = "cut" /\ cut.low < cut.high
    /\ LET mid == Middle(cut.low, cut.high)
       IN  cut' = IF WithinBudget(Keep(selected, mid))
                  THEN [cut EXCEPT !.low = mid]
                  ELSE [cut EXCEPT !.high = mid - 1]
    /\ UNCHANGED <<pc, searched, deduping, allocating, todo, expanded,
                   package>>

EndCut ==
    /\ pc = "cut" /\ cut.low >= cut.high
    /\ selected' = IF cut.low = 0 THEN Short(selected)
                   ELSE Keep(selected, cut.low)
    /\ cut' = Nothing
    /\ pc' = "truncate"
    /\ UNCHANGED <<searched, deduping, todo, expanded, rest, used, package>>

-----------------------------------------------------------------------------
(* The metadata of the package.                                            *)
Total(s) == IF s = <<>> THEN 0 ELSE CountExact(Text(s))

GapReason(s) == IF ask.status # "full" THEN "index_incomplete"
                ELSE IF filtered THEN "threshold_filtered"
                ELSE IF Total(s) < ask.budget THEN "no_more_relevant"
                ELSE "none"

Above(s) == Cardinality({i \in DOMAIN s : s[i].hit.score >= ask.minRel})
Confidence(s) ==
    IF s = <<>> \/ s[1].hit.score < 500 \/ Above(s) < 2 THEN "low"
    ELSE IF s[1].hit.score > 800 /\ Above(s) >= 3 THEN "high" ELSE "medium"

Clusters(s) == LET dirs == {DirOf(p) : p \in FilesOf(s)}
               IN  IF Cardinality(dirs) <= 2 THEN {} ELSE dirs

Warnings(s) ==
    {w \in {"incomplete", "deduplicated", "no store"} :
        \/ w = "incomplete" /\ ask.status # "full"
        \/ /\ w = "deduplicated"
           /\ Cardinality(direct) < Cardinality(Kept(ask, best))
        \/ w = "no store" /\ ask.related /\ ~ask.store}

SuggestedAction(s) == IF ask.status # "full" THEN "index"
                      ELSE IF s = <<>> THEN "broaden"
                      ELSE IF Confidence(s) = "low" THEN "more files"
                      ELSE "none"

Finish ==
    /\ pc = "package"
    /\ package' = [chunks |-> selected, files |-> FilesOf(selected),
                   tokens |-> Total(selected), gap |-> GapReason(selected),
                   confidence |-> Confidence(selected),
                   clusters |-> Clusters(selected),
                   warnings |-> Warnings(selected),
                   action |-> SuggestedAction(selected)]
    /\ pc' = "done"
    /\ UNCHANGED <<searched, deduping, allocating, todo, expanded, cut>>

-----------------------------------------------------------------------------
Dedup    == \E c \in todo : TakeFirst(c) \/ MergeNext(c) \/ KeepNext(c)
Expand   == \E m \in todo : ExpandFile(m)
Allocate == \/ \E c \in todo : SelectNext(c) \/ SetAside(c)
            \/ \E c \in rest : Refill(c)
Truncate == EndTruncate \/ DropEmpty \/ StartCut \/ Probe \/ EndCut

Next == \/ Filter \/ Dedup \/ EndDedup
        \/ SkipExpansion \/ StartExpansion \/ Expand \/ ExpandFails
        \/ EndExpansion \/ Rank \/ Allocate \/ EndSelect \/ EndRefill
        \/ Truncate \/ Finish

Spec == Init /\ [][Next]_vars /\ WF_vars(Next)

-----------------------------------------------------------------------------
Deduped == pc \notin {"filter", "dedup"}

(* Type correctness.                                                       *)
Candidate == [idx : Nat, related : BOOLEAN, hit : Hit]
AssemblyTypeOK ==
    /\ pc \in {"filter", "dedup", "expand", "related", "rank", "select",
               "refill", "truncate", "cut", "package", "done", "error"}
    /\ ask \in Request /\ best \in Nat /\ filtered \in BOOLEAN
    /\ direct \subseteq Candidate /\ merged \subseteq Candidate
    /\ active \in Candidate \cup {Nothing}
    /\ expanded \subseteq Candidate /\ rest \subseteq Candidate
    /\ pc \notin {"related", "error"} => todo \subseteq Candidate
    /\ selected \in Seq(Candidate)
    /\ pc = "cut" => /\ selected # <<>>
                     /\ cut \in [low : Nat, high : Nat]
                     /\ cut.low <= cut.high

(* Deduplicator::deduplicate compares neighbours in sorted order only.     *)
(* Still no two of the hits it returns overlap by more than half of the    *)
(* smaller one, neighbours or not.                                         *)
KeptApart ==
    Deduped => \A c, d \in direct : c # d => ~ShouldMerge(c.hit, d.hit)

(* Merging loses no hit: each one that passed the filters lies within the  *)
(* lines of a merged one of its file, which scores at least as much. The   *)
(* text of the merged one is that of the best of its hits only.            *)
NothingLost ==
    Deduped => \A c \in Kept(ask, best) : \E d \in direct :
        /\ d.hit.path = c.hit.path
        /\ d.hit.from <= c.hit.from /\ c.hit.to <= d.hit.to
        /\ d.hit.score >= c.hit.score

(* The package is within the token budget and the number of files the      *)
(* caller asked for, whatever the tokenizer makes of the joined text.      *)
LimitsHold ==
    pc = "done" => /\ package.tokens <= ask.budget
                   /\ Cardinality(package.files) <= ask.maxFiles

(* Expansion adds at most five files, and at most three chunks of each     *)
(* even when hits and tiers name it several times; none of them is a file  *)
(* of a hit that was passed on to it. A file whose hits were all filtered  *)
(* out before may come back as a related one.                              *)
ChunksFrom(p) == {c \in expanded : c.hit.path = p}
RelatedApart ==
    /\ ExpandedFiles \cap DirectFiles = {}
    /\ Cardinality(ExpandedFiles) <= MaxExpandedFiles
    /\ \A p \in ExpandedFiles : Cardinality(ChunksFrom(p)) <= MaxChunksPerFile

(* Of a file that the filters dropped altogether this does not hold: it    *)
(* may come back as a related one (README).                                *)
DroppedStaysOut ==
    ExpandedFiles \cap {ask.hits[i].path : i \in DOMAIN ask.hits} = {}

(* The refill appends and the cuts drop, so a package is not sorted; but   *)
(* its first chunk, which the confidence is read from, is the best one.    *)
BestComesFirst ==
    pc = "done" /\ package.chunks # <<>> =>
        \A c \in Ranked : c.hit.score <= package.chunks[1].hit.score

(* The loops end, whatever the token counts are: a package is returned or  *)
(* the error of the store.                                                 *)
Assembles == <>(pc \in {"done", "error"})
=============================================================================
