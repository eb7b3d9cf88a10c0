--------------------------- MODULE AssemblyProofs ---------------------------
(* Theorems about ContextAssembly for every request, every answer of the   *)
(* related store and every tokenizer.                                      *)
EXTENDS ContextAssembly, FiniteSetTheorems, SequenceTheorems, TLAPS

-----------------------------------------------------------------------------
(* Lines and their overlaps.                                               *)

Good == {c \in Candidate : c.hit.from <= c.hit.to}

(* Of two hits of one file, the one that does not start later either ends  *)
(* earlier too, or the two are merged.                                     *)
LEMMA UnmergedEndsLater ==
    ASSUME NEW g \in Hit, NEW h \in Hit, g.from <= g.to, h.from <= h.to,
           g.path = h.path, g.from <= h.from, ~ShouldMerge(g, h)
    PROVE  g.to < h.to
BY PathsAssumption DEF Hit, ShouldMerge, Overlap, Span, Smaller, Larger

(* For two such hits, being merged is a matter of the lines between the    *)
(* start of the second and the end of the first.                           *)
LEMMA OverlapOfNeighbours ==
    ASSUME NEW g \in Hit, NEW h \in Hit, g.from <= g.to, h.from <= h.to,
           g.path = h.path, g.from <= h.from, g.to < h.to
    PROVE  ~ShouldMerge(g, h) <=>
               /\ 2 * (g.to - h.from + 1) <= g.to - g.from + 1
               /\ 2 * (g.to - h.from + 1) <= h.to - h.from + 1
BY PathsAssumption DEF Hit, ShouldMerge, Overlap, Span, Smaller, Larger

LEMMA MergingIsSymmetric ==
    ASSUME NEW g \in Hit, NEW h \in Hit, g.from <= g.to, h.from <= h.to
    PROVE  ShouldMerge(g, h) <=> ShouldMerge(h, g)
BY PathsAssumption DEF Hit, ShouldMerge, Overlap, Span, Smaller, Larger

(* The merged hit has the lines of both and the better score.              *)
LEMMA MergedLines ==
    ASSUME NEW a \in Good, NEW c \in Good, a.hit.path = c.hit.path,
           a.hit.from <= c.hit.from
    PROVE  /\ Merged(a, c) \in Good
           /\ Merged(a, c).hit.path = a.hit.path
           /\ Merged(a, c).hit.from = a.hit.from
           /\ Merged(a, c).hit.to = Larger(a.hit.to, c.hit.to)
           /\ Merged(a, c).hit.score >= a.hit.score
           /\ Merged(a, c).hit.score >= c.hit.score
<1> DEFINE keep == IF ShouldReplace(a.hit, c.hit) THEN c ELSE a
<1>1. keep \in Good /\ keep.hit.path = a.hit.path
  OBVIOUS
<1>2. keep.hit.score >= a.hit.score /\ keep.hit.score >= c.hit.score
  <2>1. CASE ShouldReplace(a.hit, c.hit)
    BY <2>1 DEF ShouldReplace, Good, Candidate, Hit
  <2>2. CASE ~ShouldReplace(a.hit, c.hit)
    BY <2>2 DEF ShouldReplace, Good, Candidate, Hit
  <2> QED BY <2>1, <2>2
<1>3. /\ Smaller(a.hit.from, c.hit.from) = a.hit.from
      /\ Larger(a.hit.to, c.hit.to) \in Nat \ {0}
      /\ Larger(a.hit.to, c.hit.to) >= a.hit.to
  BY DEF Smaller, Larger, Good, Candidate, Hit
<1> DEFINE lines == [keep.hit EXCEPT !.from = a.hit.from,
                                     !.to = Larger(a.hit.to, c.hit.to)]
<1>4. Merged(a, c) = [keep EXCEPT !.hit = lines]
  BY <1>3 DEF Merged
<1> HIDE DEF keep
<1>5. /\ lines \in Hit
      /\ lines.path = keep.hit.path /\ lines.score = keep.hit.score
      /\ lines.from = a.hit.from /\ lines.to = Larger(a.hit.to, c.hit.to)
  BY <1>1, <1>3 DEF Good, Candidate, Hit
<1> HIDE DEF lines
<1>6. [keep EXCEPT !.hit = lines] \in Candidate
  BY <1>1, <1>5 DEF Good, Candidate
<1>7. [keep EXCEPT !.hit = lines].hit = lines
  BY <1>1 DEF Good, Candidate
<1>8. a.hit.from <= Larger(a.hit.to, c.hit.to)
  BY <1>3 DEF Good, Candidate, Hit
<1> QED
  BY <1>1, <1>2, <1>4, <1>5, <1>6, <1>7, <1>8 DEF Good

(* The order of the loop: by file, then by first line.                     *)
LEMMA LeastSpan ==
    ASSUME NEW S \in SUBSET Candidate, NEW c, Least(c, S, SpanKey), NEW d \in S
    PROVE  /\ c \in S
           /\ \/ c.hit.path < d.hit.path
              \/ c.hit.path = d.hit.path /\ c.hit.from <= d.hit.from
<1>1. c \in S
  BY DEF Least
<1>2. CASE c = d
  BY <1>1, <1>2, PathsAssumption DEF Candidate, Hit
<1>3. CASE c # d
  <2>1. LexLess(SpanKey(c), SpanKey(d))
    BY <1>3 DEF Least
  <2>2. PICK i \in 1..4 : /\ SpanKey(c)[i] < SpanKey(d)[i]
                          /\ \A j \in 1..(i - 1) : SpanKey(c)[j] = SpanKey(d)[j]
    <3>1. Len(SpanKey(c)) = 4
      BY DEF SpanKey
    <3> QED BY <2>1, <3>1 DEF LexLess
  <2>3. /\ SpanKey(c)[1] = c.hit.path /\ SpanKey(d)[1] = d.hit.path
        /\ SpanKey(c)[2] = c.hit.from /\ SpanKey(d)[2] = d.hit.from
    BY DEF SpanKey
  <2>4. CASE i = 1
    BY <1>1, <2>2, <2>3, <2>4
  <2>5. CASE i = 2
    BY <2>2, <2>3, <2>5, <1>1 DEF Candidate, Hit
  <2>6. CASE i > 2
    BY <2>2, <2>3, <2>6, <1>1 DEF Candidate, Hit
  <2> QED BY <2>4, <2>5, <2>6
<1> QED BY <1>2, <1>3

-----------------------------------------------------------------------------
(* The inductive invariant of the deduplication loop: what is settled      *)
(* starts no later than the active hit, ends before it and does not merge  *)
(* with it; what is still to be visited starts no earlier.                 *)
Before(a, c)  == \/ a.hit.path < c.hit.path
                 \/ a.hit.path = c.hit.path /\ a.hit.from <= c.hit.from
Settled(m, a) == /\ Before(m, a)
                 /\ m.hit.path = a.hit.path =>
                        m.hit.to < a.hit.to /\ ~ShouldMerge(m.hit, a.hit)
AllApart(S)   == \A c, d \in S : c # d => ~ShouldMerge(c.hit, d.hit)
Covers(d, c)  == /\ d.hit.path = c.hit.path
                 /\ d.hit.from <= c.hit.from /\ c.hit.to <= d.hit.to
                 /\ d.hit.score >= c.hit.score
Outputs       == IF active = Nothing THEN {} ELSE merged \cup {active}

Inputs  == ask \in Requests /\ best \in Nat
Ready   == pc = "filter" => active = Nothing /\ merged = {}
Loop    == /\ todo \subseteq Good /\ merged \subseteq Good
           /\ active \in Good \cup {Nothing}
           /\ active = Nothing => merged = {}
           /\ active # Nothing => /\ \A c \in todo : Before(active, c)
                                  /\ \A m \in merged : Settled(m, active)
           /\ AllApart(merged)
           /\ \A c \in Kept(ask, best) :
                  c \in todo \/ \E d \in Outputs : Covers(d, c)
Result  == direct \subseteq Good /\ KeptApart /\ NothingLost
DedupInv == Inputs /\ Ready /\ (pc = "dedup" => Loop) /\ (Deduped => Result)

LEMMA NothingIsNoHit == Nothing \notin Candidate
BY DEF Nothing, Candidate

LEMMA KeptIsGood ==
    ASSUME NEW q \in Requests, NEW top \in Nat
    PROVE  Kept(q, top) \subseteq Good
<1>1. /\ q \in Request
      /\ \A i \in DOMAIN q.hits : q.hits[i].from <= q.hits[i].to
  BY RequestsAssumption
<1> SUFFICES ASSUME NEW i \in InView(q)
             PROVE  Normalised(q, top, i) \in Good
  BY DEF Kept
<1>2. i \in Nat /\ i \in DOMAIN q.hits /\ q.hits[i] \in Hit
  BY <1>1 DEF InView, Request
<1>3. Normal(q.hits[i].score, top) \in Nat
  BY <1>2 DEF Normal, Hit
<1> DEFINE h == [q.hits[i] EXCEPT !.score = Normal(@, top)]
<1>4. h \in Hit /\ h.from <= h.to
  BY <1>1, <1>2, <1>3 DEF Hit
<1>5. Normalised(q, top, i) = [idx |-> i, related |-> FALSE, hit |-> h]
  BY DEF Normalised
<1> HIDE DEF h
<1> QED BY <1>2, <1>4, <1>5 DEF Good, Candidate

LEMMA GoodNumbers ==
    ASSUME NEW c \in Good
    PROVE  /\ c.hit \in Hit /\ c.hit.path \in Nat
           /\ c.hit.from \in Nat /\ c.hit.to \in Nat /\ c.hit.score \in Nat
           /\ c.hit.from <= c.hit.to
BY PathsAssumption DEF Good, Candidate, Hit

(* The active hit has grown: nothing that was settled overlaps it more.    *)
LEMMA SettledAfterMerge ==
    ASSUME NEW a \in Good, NEW c \in Good, NEW m \in Good, Settled(m, a),
           a.hit.path = c.hit.path, a.hit.from <= c.hit.from
    PROVE  Settled(m, Merged(a, c))
<1> DEFINE b == Merged(a, c)
<1>1. /\ b \in Good /\ b.hit.path = a.hit.path /\ b.hit.from = a.hit.from
      /\ b.hit.to >= a.hit.to
  BY MergedLines DEF Larger, Good, Candidate, Hit
<1> HIDE DEF b
<1>2. Before(m, b)
  BY <1>1 DEF Settled, Before
<1>3. ASSUME m.hit.path = b.hit.path
      PROVE  m.hit.to < b.hit.to /\ ~ShouldMerge(m.hit, b.hit)
  <2>1. m.hit.from <= a.hit.from /\ m.hit.to < a.hit.to
    BY <1>1, <1>3, GoodNumbers DEF Settled, Before
  <2>2. /\ 2 * (m.hit.to - a.hit.from + 1) <= m.hit.to - m.hit.from + 1
        /\ 2 * (m.hit.to - a.hit.from + 1) <= a.hit.to - a.hit.from + 1
    BY <1>1, <1>3, <2>1, OverlapOfNeighbours
       DEF Settled, Good, Candidate
  <2>3. m.hit.to < b.hit.to
    BY <1>1, <2>1 DEF Good, Candidate, Hit
  <2>4. /\ 2 * (m.hit.to - b.hit.from + 1) <= m.hit.to - m.hit.from + 1
        /\ 2 * (m.hit.to - b.hit.from + 1) <= b.hit.to - b.hit.from + 1
    BY <1>1, <2>2 DEF Good, Candidate, Hit
  <2> QED BY <1>1, <1>3, <2>1, <2>3, <2>4, OverlapOfNeighbours
          DEF Good, Candidate
<1> QED BY <1>2, <1>3 DEF Settled, b

(* The next hit becomes the active one: the old one is settled, and all    *)
(* that was settled before it is settled with the new one too.             *)
LEMMA SettledAfterKeep ==
    ASSUME NEW a \in Good, NEW c \in Good, Before(a, c),
           ~ShouldMerge(a.hit, c.hit)
    PROVE  /\ Settled(a, c)
           /\ \A m \in Good : Settled(m, a) => Settled(m, c)
<1>1. ASSUME a.hit.path = c.hit.path
      PROVE  /\ a.hit.to < c.hit.to
             /\ 2 * (a.hit.to - c.hit.from + 1) <= c.hit.to - c.hit.from + 1
  <2>1. a.hit.from <= c.hit.from
    BY <1>1, GoodNumbers DEF Before
  <2>2. a.hit.to < c.hit.to
    BY <1>1, <2>1, UnmergedEndsLater DEF Good, Candidate
  <2> QED BY <1>1, <2>1, <2>2, OverlapOfNeighbours DEF Good, Candidate
<1>2. Settled(a, c)
  BY <1>1 DEF Settled
<1>3. ASSUME NEW m \in Good, Settled(m, a)
      PROVE  Settled(m, c)
  <2>1. Before(m, c)
    BY <1>3, GoodNumbers DEF Settled, Before
  <2>2. ASSUME m.hit.path = c.hit.path
        PROVE  m.hit.to < c.hit.to /\ ~ShouldMerge(m.hit, c.hit)
    <3>1. m.hit.path = a.hit.path /\ a.hit.path = c.hit.path
      BY <1>3, <2>2, GoodNumbers
         DEF Settled, Before
    <3>2. /\ m.hit.from <= a.hit.from /\ m.hit.to < a.hit.to
          /\ a.hit.from <= c.hit.from
      BY <1>3, <3>1, GoodNumbers
         DEF Settled, Before
    <3>3. 2 * (m.hit.to - a.hit.from + 1) <= m.hit.to - m.hit.from + 1
      BY <1>3, <3>1, <3>2, OverlapOfNeighbours
         DEF Settled, Good, Candidate
    <3>4. m.hit.to < c.hit.to /\ m.hit.from <= c.hit.from
      BY <1>1, <3>1, <3>2 DEF Good, Candidate, Hit
    <3>5. /\ 2 * (m.hit.to - c.hit.from + 1) <= m.hit.to - m.hit.from + 1
          /\ 2 * (m.hit.to - c.hit.from + 1) <= c.hit.to - c.hit.from + 1
      BY <1>1, <3>1, <3>2, <3>3 DEF Good, Candidate, Hit
    <3> QED BY <2>2, <3>4, <3>5, OverlapOfNeighbours DEF Good, Candidate
  <2> QED BY <2>1, <2>2 DEF Settled
<1> QED BY <1>2, <1>3

(* Settling keeps what is settled pairwise apart.                          *)
LEMMA ApartWithSettled ==
    ASSUME NEW S \in SUBSET Good, NEW a \in Good, AllApart(S),
           \A m \in S : Settled(m, a)
    PROVE  AllApart(S \cup {a})
<1>1. ASSUME NEW m \in S
      PROVE  ~ShouldMerge(m.hit, a.hit) /\ ~ShouldMerge(a.hit, m.hit)
  <2>1. CASE m.hit.path = a.hit.path
    BY <2>1, MergingIsSymmetric DEF Settled, Good, Candidate
  <2>2. CASE m.hit.path # a.hit.path
    BY <2>2 DEF ShouldMerge
  <2> QED BY <2>1, <2>2
<1> QED BY <1>1 DEF AllApart

LEMMA CoversThroughMerge ==
    ASSUME NEW a \in Good, NEW c \in Good, a.hit.path = c.hit.path,
           a.hit.from <= c.hit.from, NEW k \in Good,
           Covers(a, k) \/ Covers(c, k)
    PROVE  Covers(Merged(a, c), k)
<1> DEFINE b == Merged(a, c)
<1>1. /\ b \in Good /\ b.hit.path = a.hit.path
      /\ b.hit.from <= a.hit.from /\ b.hit.from <= c.hit.from
      /\ b.hit.to >= a.hit.to /\ b.hit.to >= c.hit.to
      /\ b.hit.score >= a.hit.score /\ b.hit.score >= c.hit.score
  BY MergedLines DEF Larger, Good, Candidate, Hit
<1> HIDE DEF b
<1>2. Covers(b, k)
  BY <1>1 DEF Covers, Good, Candidate, Hit
<1> QED BY <1>2 DEF b

-----------------------------------------------------------------------------
LEMMA DedupInit == Init => DedupInv
BY DEF Init, DedupInv, Inputs, Ready, Deduped

(* Past the deduplication nothing changes what it returned.                *)
LEMMA LaterSteps ==
    ASSUME DedupInv, Deduped, Deduped', UNCHANGED <<ask, best, direct>>
    PROVE  DedupInv'
BY DEF DedupInv, Inputs, Ready, Result, KeptApart, NothingLost, Deduped, Kept,
       Normalised, InView

LEMMA FilterDedup == DedupInv /\ Filter => DedupInv'
<1> SUFFICES ASSUME DedupInv, Filter PROVE DedupInv'
  OBVIOUS
<1>1. PICK top \in Scores(ask) : best' = top /\ todo' = Kept(ask, top)
  BY DEF Filter
<1>2. top \in Nat
  <2>1. ask.hits \in Seq(Hit)
    BY RequestsAssumption DEF DedupInv, Inputs, Request
  <2>2. \A i \in DOMAIN ask.hits : ask.hits[i] \in Hit
    BY <2>1
  <2>3. \A i \in DOMAIN ask.hits : ask.hits[i].score \in Nat
    BY <2>2 DEF Hit
  <2> QED BY <2>3 DEF Scores
<1>3. /\ pc = "filter" /\ pc' = "dedup" /\ ask' = ask
      /\ active = Nothing /\ merged = {} /\ active' = active /\ merged' = merged
  BY DEF Filter, deduping, DedupInv, Ready
<1>4. Kept(ask, top) \subseteq Good
  BY <1>2, KeptIsGood DEF DedupInv, Inputs
<1>5. Kept(ask, best)' = Kept(ask, top)
  BY <1>1, <1>3 DEF Kept, Normalised, InView
<1>6. Loop'
  BY <1>1, <1>3, <1>4, <1>5 DEF Loop, AllApart
<1> QED BY <1>1, <1>2, <1>3, <1>6 DEF DedupInv, Inputs, Ready, Deduped

LEMMA VisitKeeps ==
    ASSUME DedupInv, pc = "dedup", NEW c, Visit(c)
    PROVE  /\ c \in todo /\ c \in Good /\ todo' = todo \ {c}
           /\ todo' \subseteq Good /\ pc' = "dedup" /\ Inputs'
           /\ \A d \in todo : Before(c, d)
           /\ Kept(ask, best)' = Kept(ask, best)
<1>1. todo \in SUBSET Candidate /\ todo \subseteq Good
  BY DEF DedupInv, Loop, Good
<1>2. Least(c, todo, SpanKey) /\ todo' = todo \ {c} /\ pc' = pc
      /\ ask' = ask /\ best' = best
  BY DEF Visit, searched
<1>3. c \in todo
  BY <1>2 DEF Least
<1>4. \A d \in todo : Before(c, d)
  BY <1>1, <1>2, LeastSpan DEF Before
<1>5. Kept(ask, best)' = Kept(ask, best)
  BY <1>2 DEF Kept, Normalised, InView
<1> QED BY <1>1, <1>2, <1>3, <1>4, <1>5 DEF DedupInv, Inputs

LEMMA GoodCoversItself == ASSUME NEW c \in Good PROVE Covers(c, c)
BY GoodNumbers DEF Covers

LEMMA TakeFirstDedup == ASSUME DedupInv, NEW c, TakeFirst(c) PROVE DedupInv'
<1>1. /\ pc = "dedup" /\ active = Nothing /\ Visit(c)
      /\ active' = c /\ merged' = merged
  BY DEF TakeFirst
<1>2. /\ c \in todo /\ c \in Good /\ todo' = todo \ {c}
      /\ todo' \subseteq Good /\ pc' = "dedup" /\ Inputs'
      /\ \A d \in todo : Before(c, d)
      /\ Kept(ask, best)' = Kept(ask, best)
  BY <1>1, VisitKeeps
<1>3. merged = {} /\ Outputs = {} /\ Loop
  BY <1>1 DEF DedupInv, Loop, Outputs
<1>4. Outputs' = {c}
  BY <1>1, <1>2, <1>3, NothingIsNoHit DEF Outputs, Good
<1>5. \A k \in Kept(ask, best) : k \in todo' \/ Covers(c, k)
  BY <1>2, <1>3, GoodCoversItself DEF Loop
<1>6. Loop'
  BY <1>1, <1>2, <1>3, <1>4, <1>5 DEF Loop, AllApart
<1> QED BY <1>2, <1>6 DEF DedupInv, Ready, Deduped

LEMMA MergeNextDedup == ASSUME DedupInv, NEW c, MergeNext(c) PROVE DedupInv'
<1>1. /\ pc = "dedup" /\ active # Nothing /\ Visit(c)
      /\ ShouldMerge(active.hit, c.hit)
      /\ active' = Merged(active, c) /\ merged' = merged
  BY DEF MergeNext
<1>2. /\ c \in todo /\ c \in Good /\ todo' = todo \ {c}
      /\ todo' \subseteq Good /\ pc' = "dedup" /\ Inputs'
      /\ \A d \in todo : Before(c, d)
      /\ Kept(ask, best)' = Kept(ask, best)
  BY <1>1, VisitKeeps
<1>3. Loop /\ active \in Good /\ merged \subseteq Good
  BY <1>1 DEF DedupInv, Loop
<1>4. active.hit.path = c.hit.path /\ active.hit.from <= c.hit.from
  BY <1>1, <1>2, <1>3, GoodNumbers DEF Loop, ShouldMerge, Before
<1>5. /\ active' \in Good /\ active'.hit.path = active.hit.path
      /\ active'.hit.from = active.hit.from
  BY <1>1, <1>2, <1>3, <1>4, MergedLines
<1>6. \A d \in todo' : Before(active', d)
  BY <1>1, <1>2, <1>3, <1>5 DEF Loop, Before
<1>7. \A m \in merged' : Settled(m, active')
  BY <1>1, <1>2, <1>3, <1>4, SettledAfterMerge DEF Loop
<1>8. active' # Nothing
  BY <1>5, NothingIsNoHit DEF Good
<1>9. ASSUME NEW k \in Kept(ask, best)
      PROVE  k \in todo' \/ \E d \in Outputs' : Covers(d, k)
  <2>1. k \in Good
    BY <1>9, KeptIsGood DEF DedupInv, Inputs
  <2>2. Outputs = merged \cup {active} /\ Outputs' = merged \cup {active'}
    BY <1>1, <1>8 DEF Outputs
  <2>3. CASE k = c
    BY <1>1, <1>2, <1>3, <1>4, <2>1, <2>2, <2>3, GoodCoversItself,
       CoversThroughMerge
  <2>4. CASE k # c /\ k \in todo
    BY <1>2, <2>4
  <2>5. CASE \E d \in Outputs : Covers(d, k)
    BY <1>1, <1>2, <1>3, <1>4, <2>1, <2>2, <2>5, CoversThroughMerge
  <2> QED BY <1>3, <1>9, <2>3, <2>4, <2>5 DEF Loop
<1>10. AllApart(merged)'
  BY <1>1, <1>3 DEF Loop, AllApart
<1>11. Loop'
  BY <1>1, <1>2, <1>3, <1>5, <1>6, <1>7, <1>8, <1>9, <1>10 DEF Loop
<1> QED BY <1>2, <1>11 DEF DedupInv, Ready, Deduped

LEMMA KeepNextDedup == ASSUME DedupInv, NEW c, KeepNext(c) PROVE DedupInv'
<1>1. /\ pc = "dedup" /\ active # Nothing /\ Visit(c)
      /\ ~ShouldMerge(active.hit, c.hit)
      /\ active' = c /\ merged' = merged \cup {active}
  BY DEF KeepNext
<1>2. /\ c \in todo /\ c \in Good /\ todo' = todo \ {c}
      /\ todo' \subseteq Good /\ pc' = "dedup" /\ Inputs'
      /\ \A d \in todo : Before(c, d)
      /\ Kept(ask, best)' = Kept(ask, best)
  BY <1>1, VisitKeeps
<1>3. Loop /\ active \in Good /\ merged \subseteq Good /\ Before(active, c)
  BY <1>1, <1>2 DEF DedupInv, Loop
<1>4. \A m \in merged' : Settled(m, c)
  BY <1>1, <1>2, <1>3, SettledAfterKeep DEF Loop
<1>5. AllApart(merged')
  BY <1>1, <1>3, ApartWithSettled DEF Loop
<1>6. Outputs = merged' /\ Outputs' = merged' \cup {c}
  BY <1>1, <1>2, NothingIsNoHit DEF Outputs, Good
<1>7. \A k \in Kept(ask, best) :
          k \in todo' \/ \E d \in Outputs' : Covers(d, k)
  BY <1>2, <1>3, <1>6, GoodCoversItself DEF Loop
<1>8. AllApart(merged)' = AllApart(merged')
  BY DEF AllApart
<1>9. Loop'
  BY <1>1, <1>2, <1>3, <1>4, <1>5, <1>7, <1>8, NothingIsNoHit DEF Loop, Good
<1> QED BY <1>2, <1>9 DEF DedupInv, Ready, Deduped

LEMMA EndDedupDedup == DedupInv /\ EndDedup => DedupInv'
<1> SUFFICES ASSUME DedupInv, EndDedup PROVE DedupInv'
  OBVIOUS
<1>1. /\ pc = "dedup" /\ todo = {} /\ direct' = Outputs /\ pc' = "expand"
      /\ ask' = ask /\ best' = best
  BY DEF EndDedup, Outputs, searched
<1>2. Loop /\ Inputs
  BY <1>1 DEF DedupInv
<1>3. Outputs \subseteq Good
  BY <1>2 DEF Loop, Outputs
<1>4. AllApart(Outputs)
  BY <1>2, ApartWithSettled DEF Loop, Outputs, AllApart
<1>5. Kept(ask, best)' = Kept(ask, best)
  BY <1>1 DEF Kept, Normalised, InView
<1>6. KeptApart'
  BY <1>1, <1>4 DEF KeptApart, AllApart
<1>7. NothingLost'
  BY <1>1, <1>2, <1>5 DEF NothingLost, Loop, Covers
<1> QED BY <1>1, <1>2, <1>3, <1>6, <1>7 DEF DedupInv, Inputs, Ready, Result

LEMMA DedupStep == DedupInv /\ [Next]_vars => DedupInv'
<1> SUFFICES ASSUME DedupInv, [Next]_vars PROVE DedupInv'
  OBVIOUS
<1> USE DEF Deduped, searched, deduping, allocating
<1>1. CASE Filter
  BY <1>1, FilterDedup
<1>2. CASE Dedup
  BY <1>2, TakeFirstDedup, MergeNextDedup, KeepNextDedup DEF Dedup
<1>3. CASE EndDedup
  BY <1>3, EndDedupDedup
<1>4. CASE SkipExpansion \/ StartExpansion \/ ExpandFails \/ EndExpansion
  BY <1>4, LaterSteps
     DEF SkipExpansion, StartExpansion, ExpandFails, EndExpansion
<1>5. CASE Expand
  BY <1>5, LaterSteps DEF Expand, ExpandFile
<1>6. CASE Rank
  BY <1>6, LaterSteps DEF Rank
<1>7. CASE Allocate
  BY <1>7, LaterSteps DEF Allocate, SelectNext, SetAside, Refill
<1>8. CASE EndSelect \/ EndRefill
  BY <1>8, LaterSteps DEF EndSelect, EndRefill
<1>9. CASE Truncate
  BY <1>9, LaterSteps
     DEF Truncate, EndTruncate, DropEmpty, StartCut, Probe, EndCut
<1>10. CASE Finish
  BY <1>10, LaterSteps DEF Finish
<1>11. CASE UNCHANGED vars
  BY <1>11 DEF vars, DedupInv, Inputs, Ready, Loop, Result, Outputs, KeptApart,
               NothingLost, Kept, Normalised, InView, AllApart
<1> QED BY <1>1, <1>2, <1>3, <1>4, <1>5, <1>6, <1>7, <1>8, <1>9, <1>10, <1>11
        DEF Next

(* The invariant of deduplicate (dedup.rs:31): at every step the finished   *)
(* and the active spans of a file are well formed, sorted, apart, and cover *)
(* every hit looked at so far.                                              *)
THEOREM DedupInvariant == Spec => []DedupInv
BY DedupInit, DedupStep, PTL DEF Spec

(* No two hits of a package overlap by more than half of the smaller one,  *)
(* although the loop of Deduplicator::deduplicate compares a hit with the  *)
(* active one only.                                                        *)
THEOREM NoHalfOverlap == Spec => []KeptApart
<1>1. DedupInv => KeptApart
  BY DEF DedupInv, Result, KeptApart
<1> QED BY <1>1, DedupInvariant, PTL

(* Deduplication keeps the lines and the best score of every hit.          *)
THEOREM MergingLosesNothing == Spec => []NothingLost
<1>1. DedupInv => NothingLost
  BY DEF DedupInv, Result, NothingLost
<1> QED BY <1>1, DedupInvariant, PTL

-----------------------------------------------------------------------------
(* The inductive invariant of the second half.  Until a first chunk is     *)
(* selected none has been set aside, because an empty selection is refused *)
(* nothing; so the first one is the best of all.                           *)
Early   == {"filter", "dedup", "expand", "related", "rank", "error"}
Chosen  == /\ selected \in Seq(Candidate) /\ rest \subseteq Candidate
           /\ IsFiniteSet(FilesOf(selected))
           /\ Cardinality(FilesOf(selected)) <= ask.maxFiles
Untouched == /\ pc \in Early => selected = <<>> /\ rest = {}
             /\ pc = "select" => /\ todo \subseteq Ranked
                                 /\ selected = <<>> => todo = Ranked /\ rest = {}
             /\ pc = "refill" /\ selected = <<>> => rest = {}
BestFirst == selected # <<>> => \A c \in Ranked :
                                   c.hit.score <= selected[1].hit.score
Cutting == /\ pc \in {"truncate", "cut"} => rest \subseteq Candidate
           /\ pc = "cut" => /\ selected # <<>>
                            /\ cut \in [low : Nat, high : Nat]
                            /\ cut.low <= cut.high
Bounded == /\ pc = "package" => selected = <<>> \/ WithinBudget(selected)
           /\ pc = "done" => /\ package.chunks = selected
                             /\ package.files = FilesOf(selected)
                             /\ package.tokens <= ask.budget
Related == /\ expanded \subseteq Candidate
           /\ pc = "related" => todo \subseteq Candidates

Stages == {"filter", "dedup", "expand", "related", "rank", "select",
           "refill", "truncate", "cut", "package", "done", "error"}
LimitInv == /\ pc \in Stages /\ filtered \in BOOLEAN
            /\ pc = "filter" => todo = {}
            /\ Chosen /\ Untouched /\ BestFirst /\ Cutting /\ Bounded /\ Related

LEMMA AskTyped ==
    ASSUME DedupInv
    PROVE  /\ ask.maxFiles \in Nat \ {0} /\ ask.budget \in Nat \ {0}
           /\ ask \in Request
BY RequestsAssumption DEF DedupInv, Inputs, Request

LEMMA FilesOfEmpty ==
    FilesOf(<<>>) = {} /\ IsFiniteSet({}) /\ Cardinality({}) = 0
BY FS_EmptySet DEF FilesOf

LEMMA FilesOfAppend ==
    ASSUME NEW s \in Seq(Candidate), NEW c \in Candidate,
           IsFiniteSet(FilesOf(s))
    PROVE  /\ IsFiniteSet(FilesOf(Append(s, c)))
           /\ Cardinality(FilesOf(s)) \in Nat
           /\ Cardinality(FilesOf(Append(s, c))) =
                  IF c.hit.path \in FilesOf(s) THEN Cardinality(FilesOf(s))
                  ELSE Cardinality(FilesOf(s)) + 1
<1>1. FilesOf(Append(s, c)) = FilesOf(s) \cup {c.hit.path}
  <2>1. DOMAIN Append(s, c) = 1..(Len(s) + 1) /\ DOMAIN s = 1..Len(s)
    OBVIOUS
  <2>2. /\ \A i \in 1..Len(s) : Append(s, c)[i] = s[i]
        /\ Append(s, c)[Len(s) + 1] = c
    OBVIOUS
  <2>3. 1..(Len(s) + 1) = (1..Len(s)) \cup {Len(s) + 1}
    OBVIOUS
  <2> QED BY <2>1, <2>2, <2>3 DEF FilesOf
<1>2. Cardinality(FilesOf(s)) \in Nat
  BY FS_CardinalityType
<1>3. /\ IsFiniteSet(FilesOf(s) \cup {c.hit.path})
      /\ Cardinality(FilesOf(s) \cup {c.hit.path}) =
             IF c.hit.path \in FilesOf(s) THEN Cardinality(FilesOf(s))
             ELSE Cardinality(FilesOf(s)) + 1
  BY FS_AddElement
<1> QED BY <1>1, <1>2, <1>3

(* Cutting or dropping the last chunk.                                     *)
LEMMA ShortAndKeep ==
    ASSUME NEW s \in Seq(Candidate), s # <<>>, IsFiniteSet(FilesOf(s))
    PROVE  /\ Short(s) \in Seq(Candidate)
           /\ FilesOf(Short(s)) \subseteq FilesOf(s)
           /\ Short(s) # <<>> => Short(s)[1] = s[1]
           /\ \A n \in Nat : /\ Keep(s, n) \in Seq(Candidate)
                             /\ Keep(s, n) # <<>>
                             /\ FilesOf(Keep(s, n)) = FilesOf(s)
                             /\ Keep(s, n)[1].hit.score = s[1].hit.score
<1>1. Len(s) \in Nat /\ Len(s) >= 1 /\ DOMAIN s = 1..Len(s)
  OBVIOUS
<1>2. Short(s) \in Seq(Candidate) /\ Len(Short(s)) = Len(s) - 1
  BY <1>1 DEF Short
<1>3. \A i \in 1..(Len(s) - 1) : Short(s)[i] = s[i]
  BY <1>1 DEF Short
<1>4. FilesOf(Short(s)) \subseteq FilesOf(s)
  BY SMTT(60), <1>1, <1>2, <1>3 DEF FilesOf
<1>5. Short(s) # <<>> => Short(s)[1] = s[1]
  BY <1>1, <1>2, <1>3
<1>6. ASSUME NEW n \in Nat
      PROVE  /\ Keep(s, n) \in Seq(Candidate) /\ Keep(s, n) # <<>>
             /\ FilesOf(Keep(s, n)) = FilesOf(s)
             /\ Keep(s, n)[1].hit.score = s[1].hit.score
  <2> DEFINE last == s[Len(s)]
             h == [last.hit EXCEPT !.len = n]
             c == Resized(last, n)
  <2>1. last \in Candidate
    BY <1>1
  <2>2. h \in Hit /\ h.path = last.hit.path /\ h.score = last.hit.score
    BY <2>1 DEF Candidate, Hit
  <2>3. c \in Candidate /\ c.hit = h
    BY <2>1, <2>2 DEF Candidate, Resized
  <2>4. Keep(s, n) = [s EXCEPT ![Len(s)] = c]
    BY DEF Keep
  <2> HIDE DEF c, h, last
  <2>5. /\ Keep(s, n) \in Seq(Candidate) /\ Len(Keep(s, n)) = Len(s)
        /\ Keep(s, n)[Len(s)] = c
        /\ \A i \in 1..Len(s) : i # Len(s) => Keep(s, n)[i] = s[i]
    <3> DEFINE t == [s EXCEPT ![Len(s)] = c]
    <3>1. Len(s) \in 1..Len(s)
      BY <1>1
    <3>2. /\ t \in Seq(Candidate) /\ Len(t) = Len(s)
          /\ \A j \in 1..Len(s) : t[j] = IF j = Len(s) THEN c ELSE s[j]
      BY <2>3, <3>1, ExceptSeq
    <3> HIDE DEF t
    <3>3. Keep(s, n) = t
      BY SMTT(60), <2>4 DEF t
    <3> QED BY <3>1, <3>2, <3>3
  <2>6. \A i \in 1..Len(s) : /\ Keep(s, n)[i].hit.path = s[i].hit.path
                             /\ Keep(s, n)[i].hit.score = s[i].hit.score
    BY <1>1, <2>2, <2>3, <2>5 DEF last
  <2>7. Keep(s, n) # <<>> /\ DOMAIN Keep(s, n) = 1..Len(s)
    BY <1>1, <2>5, EmptySeq, LenProperties
  <2>8. FilesOf(Keep(s, n)) = FilesOf(s)
    BY <1>1, <2>6, <2>7 DEF FilesOf
  <2>9. 1 \in 1..Len(s)
    BY <1>1
  <2> QED BY <2>5, <2>6, <2>7, <2>8, <2>9
<1> QED BY <1>2, <1>4, <1>5, <1>6

LEMMA RankedTyped ==
    ASSUME direct \subseteq Candidate, expanded \subseteq Candidate
    PROVE  Ranked \subseteq Candidate
<1> SUFFICES ASSUME NEW c \in Candidate PROVE Boosted(c) \in Candidate
  BY DEF Ranked
<1>1. c.hit \in Hit
  BY DEF Candidate
<1>2. Recent(c.hit) \in Nat
  BY <1>1 DEF Recent, Hit
<1> DEFINE h == [c.hit EXCEPT !.score = Recent(c.hit)]
<1>3. h \in Hit
  BY <1>1, <1>2 DEF Hit
<1>4. Boosted(c) = [c EXCEPT !.hit = h]
  BY DEF Boosted
<1> HIDE DEF h
<1> QED BY <1>3, <1>4 DEF Candidate

LEMMA CandidatesTyped ==
    ASSUME direct \subseteq Candidate, NEW m \in Candidates
    PROVE  m.path \in Paths
<1>1. PICK t \in {1, 2}, c \in direct :
          \E k \in DOMAIN TierOf(t, c.hit.path) :
              m = [tier |-> t, by |-> c.idx, at |-> k,
                   path |-> TierOf(t, c.hit.path)[k]]
  BY DEF Candidates, Mentions
<1>2. c.hit.path \in Paths
  BY DEF Candidate, Hit
<1>3. TierOf(t, c.hit.path) \in Seq(Paths)
  BY <1>2, TierAssumption DEF TierOf
<1> QED BY <1>1, <1>3

LEMMA FromStoreTyped ==
    ASSUME NEW m, m.path \in Paths
    PROVE  FromStore(m) \subseteq Candidate
<1> SUFFICES ASSUME NEW c \in FromStore(m) PROVE c \in Candidate
  OBVIOUS
<1>0. PICK k \in Similar(m) : c = StoreChunk(m, k)
  BY DEF FromStore
<1>1. RelatedHits(m.path) \in Seq(Hit)
  BY RelatedAssumption
<1>2. PICK g \in Hit : g = RelatedHits(m.path)[k]
  BY <1>0, <1>1 DEF Similar
<1>3. k \in Nat
  BY <1>0, <1>1 DEF Similar
<1>4. PICK n \in Nat : n = (g.score * Multiplier(m)) \div 1000
  BY DEF Multiplier, Hit
<1> DEFINE h == [g EXCEPT !.path = m.path, !.score = n]
<1>5. h \in Hit
  BY DEF Hit
<1>6. StoreChunk(m, k) = [idx |-> k, related |-> TRUE, hit |-> h]
  BY <1>2, <1>4 DEF StoreChunk
<1> HIDE DEF h
<1> QED BY <1>0, <1>2, <1>3, <1>5, <1>6 DEF Candidate

LEMMA LimitInit == Init /\ DedupInv => LimitInv
<1> SUFFICES ASSUME Init, DedupInv PROVE LimitInv
  OBVIOUS
<1>1. selected = <<>> /\ selected \in Seq(Candidate)
  BY DEF Init
<1>2. IsFiniteSet(FilesOf(selected)) /\ Cardinality(FilesOf(selected)) <= ask.maxFiles
  <2>1. FilesOf(selected) = {}
    BY <1>1, FilesOfEmpty
  <2>2. ask.maxFiles \in Nat
    BY AskTyped
  <2> QED BY <2>1, <2>2, FilesOfEmpty
<1> QED BY <1>1, <1>2 DEF Init, LimitInv, Stages, Early, Chosen, Untouched,
           BestFirst, Cutting, Bounded, Related

(* Steps of the first half leave the package alone.                        *)
LEMMA EarlySteps ==
    ASSUME LimitInv, pc \in Early, pc' \in Early, UNCHANGED <<ask, allocating>>,
           expanded' \subseteq Candidate, filtered' \in BOOLEAN, pc' # "filter",
           pc' = "related" => (todo \subseteq Candidates)'
    PROVE  LimitInv'
<1>1. selected' = <<>> /\ rest' = {} /\ selected' = selected /\ ask' = ask
  BY DEF LimitInv, Untouched, allocating
<1>2. Chosen'
  BY <1>1 DEF LimitInv, Chosen, allocating
<1> QED BY <1>1, <1>2 DEF LimitInv, Stages, Early, Untouched, BestFirst,
           Cutting, Bounded, Related

LEMMA EarlyStages ==
    ASSUME DedupInv, LimitInv,
           \/ Filter \/ Dedup \/ EndDedup \/ SkipExpansion \/ StartExpansion
           \/ Expand \/ ExpandFails \/ EndExpansion
    PROVE  LimitInv'
<1> USE DEF searched, deduping, allocating
<1>0. expanded \subseteq Candidate /\ filtered \in BOOLEAN
  BY DEF LimitInv, Related
<1>1. CASE Filter
  BY <1>0, <1>1, EarlySteps DEF Filter, Early
<1>2. CASE Dedup
  BY <1>0, <1>2, EarlySteps
     DEF Dedup, TakeFirst, MergeNext, KeepNext, Visit, Early
<1>3. CASE EndDedup
  BY <1>0, <1>3, EarlySteps DEF EndDedup, Early
<1>4. CASE SkipExpansion
  BY <1>0, <1>4, EarlySteps DEF SkipExpansion, Early
<1>5. CASE StartExpansion
  BY <1>0, <1>5, EarlySteps
     DEF StartExpansion, Early, Candidates, Mentions, FirstMention, DirectFiles
<1>6. CASE Expand
  <2>1. PICK m \in todo : ExpandFile(m)
    BY <1>6 DEF Expand
  <2>2. direct \subseteq Candidate /\ todo \subseteq Candidates
    BY <2>1 DEF ExpandFile, DedupInv, Deduped, Result, Good, LimitInv, Related
  <2>3. expanded' \subseteq Candidate
    BY <1>0, <2>1, <2>2, CandidatesTyped, FromStoreTyped DEF ExpandFile
  <2>4. (todo \subseteq Candidates)'
    <3>1. direct' = direct /\ todo' \subseteq todo
      BY <2>1 DEF ExpandFile
    <3>2. Candidates' = Candidates
      BY <3>1 DEF Candidates, Mentions, FirstMention, DirectFiles
    <3> QED BY <2>2, <3>1, <3>2
  <2> QED BY <1>0, <2>1, <2>3, <2>4, EarlySteps DEF ExpandFile, Early
<1>7. CASE ExpandFails
  BY <1>0, <1>7, EarlySteps DEF ExpandFails, Early
<1>8. CASE EndExpansion
  BY <1>0, <1>8, EarlySteps DEF EndExpansion, Early
<1> QED BY <1>1, <1>2, <1>3, <1>4, <1>5, <1>6, <1>7, <1>8

LEMMA RankStep == ASSUME DedupInv, LimitInv, Rank PROVE LimitInv'
<1>1. /\ pc = "rank" /\ selected = <<>> /\ rest = {} /\ todo' = Ranked
      /\ pc' \in {"package", "select"}
      /\ UNCHANGED <<ask, best, filtered, direct, expanded, selected, rest>>
  BY DEF Rank, searched, deduping, allocating, LimitInv, Untouched, Early
<1>2. direct \subseteq Candidate /\ expanded \subseteq Candidate
  BY <1>1 DEF DedupInv, Deduped, Result, Good, LimitInv, Related
<1>3. Ranked' = Ranked
  BY <1>1 DEF Ranked
<1>4. Chosen' /\ BestFirst' /\ Untouched'
  BY <1>1, <1>3 DEF LimitInv, Chosen, BestFirst, Untouched, Early
<1>5. Cutting' /\ Bounded' /\ Related'
  BY <1>1, <1>2 DEF Cutting, Bounded, Related
<1> QED BY <1>1, <1>4, <1>5 DEF LimitInv, Stages

LEMMA RankedStays ==
    ASSUME UNCHANGED <<direct, expanded>>
    PROVE  Ranked' = Ranked
BY DEF Ranked

LEMMA LeastScore ==
    ASSUME NEW S \in SUBSET Candidate, NEW c, Least(c, S, RankKey), NEW d \in S
    PROVE  c \in S /\ d.hit.score <= c.hit.score
<1>1. c \in S
  BY DEF Least
<1>2. /\ c.hit.score \in Nat /\ d.hit.score \in Nat
  BY <1>1 DEF Candidate, Hit
<1>3. CASE c = d
  BY <1>1, <1>2, <1>3
<1>4. CASE c # d
  <2>1. LexLess(RankKey(c), RankKey(d))
    BY <1>4 DEF Least
  <2>2. Len(RankKey(c)) = 6
    BY DEF RankKey
  <2>3. PICK i \in 1..6 : /\ RankKey(c)[i] < RankKey(d)[i]
                          /\ \A j \in 1..(i - 1) : RankKey(c)[j] = RankKey(d)[j]
    BY <2>1, <2>2 DEF LexLess
  <2>4. RankKey(c)[1] = -c.hit.score /\ RankKey(d)[1] = -d.hit.score
    BY DEF RankKey
  <2>5. CASE i = 1
    BY <1>1, <1>2, <2>3, <2>4, <2>5
  <2>6. CASE i > 1
    BY <1>1, <1>2, <2>3, <2>4, <2>6
  <2> QED BY <2>5, <2>6
<1> QED BY <1>3, <1>4

LEMMA FirstIsAllowed ==
    ASSUME DedupInv, LimitInv, selected = <<>>, NEW c
    PROVE  ~FilesFull(c) /\ ~OverEstimate(c)
<1>1. Cardinality(FilesOf(selected)) = 0 /\ ask.maxFiles \in Nat \ {0}
  BY FilesOfEmpty, AskTyped
<1> QED BY <1>1 DEF FilesFull, OverEstimate

LEMMA AppendKeepsLimit ==
    ASSUME DedupInv, LimitInv, NEW c \in Candidate, ~FilesFull(c),
           selected' = Append(selected, c), ask' = ask
    PROVE  /\ selected' \in Seq(Candidate) /\ selected' # <<>>
           /\ selected # <<>> => selected'[1] = selected[1]
           /\ selected = <<>> => selected'[1] = c
           /\ IsFiniteSet(FilesOf(selected))'
           /\ Cardinality(FilesOf(selected'))  <= ask.maxFiles
<1>1. selected \in Seq(Candidate) /\ IsFiniteSet(FilesOf(selected))
      /\ Cardinality(FilesOf(selected)) <= ask.maxFiles
  BY DEF LimitInv, Chosen
<1>2. /\ IsFiniteSet(FilesOf(Append(selected, c)))
      /\ Cardinality(FilesOf(selected)) \in Nat
      /\ Cardinality(FilesOf(Append(selected, c))) =
             IF c.hit.path \in FilesOf(selected)
             THEN Cardinality(FilesOf(selected))
             ELSE Cardinality(FilesOf(selected)) + 1
  BY <1>1, FilesOfAppend
<1>3. Cardinality(FilesOf(Append(selected, c))) <= ask.maxFiles
  BY <1>1, <1>2, AskTyped DEF FilesFull
<1>4. /\ Append(selected, c) \in Seq(Candidate) /\ Append(selected, c) # <<>>
      /\ selected # <<>> => Append(selected, c)[1] = selected[1]
      /\ selected = <<>> => Append(selected, c)[1] = c
  BY <1>1
<1>5. FilesOf(selected)' = FilesOf(Append(selected, c))
  BY DEF FilesOf
<1> QED BY <1>2, <1>3, <1>4, <1>5 DEF FilesOf

LEMMA SelectStep ==
    ASSUME DedupInv, LimitInv, NEW c, SelectNext(c) PROVE LimitInv'
<1>1. /\ pc = "select" /\ pc' = "select" /\ Least(c, todo, RankKey)
      /\ ~FilesFull(c) /\ todo' = todo \ {c} /\ selected' = Append(selected, c)
      /\ UNCHANGED <<ask, filtered, direct, expanded, rest>>
  BY DEF SelectNext, searched, deduping
<1>2. direct \subseteq Candidate /\ expanded \subseteq Candidate
  BY <1>1 DEF DedupInv, Deduped, Result, Good, LimitInv, Related
<1>3. /\ Ranked' = Ranked /\ Ranked \subseteq Candidate /\ todo \subseteq Ranked
  <2>1. Ranked' = Ranked
    BY <1>1, RankedStays
  <2>2. Ranked \subseteq Candidate
    BY <1>2, RankedTyped
  <2>3. todo \subseteq Ranked
    BY <1>1 DEF LimitInv, Untouched
  <2> QED BY <2>1, <2>2, <2>3
<1>4. c \in todo /\ c \in Candidate
  BY <1>1, <1>3 DEF Least
<1>5. /\ selected' \in Seq(Candidate) /\ selected' # <<>>
      /\ selected # <<>> => selected'[1] = selected[1]
      /\ selected = <<>> => selected'[1] = c
      /\ IsFiniteSet(FilesOf(selected))'
      /\ Cardinality(FilesOf(selected')) <= ask.maxFiles
  BY <1>1, <1>4, AppendKeepsLimit
<1>6. Chosen'
  BY <1>1, <1>5 DEF LimitInv, Chosen
<1>7. BestFirst'
  <2>1. CASE selected = <<>>
    <3>1. todo = Ranked
      BY <1>1, <2>1 DEF LimitInv, Untouched
    <3> QED BY <1>1, <1>3, <1>5, <2>1, <3>1, LeastScore DEF BestFirst
  <2>2. CASE selected # <<>>
    BY <1>3, <1>5, <2>2 DEF LimitInv, BestFirst
  <2> QED BY <2>1, <2>2
<1>8. Untouched' /\ Cutting' /\ Bounded' /\ Related'
  BY <1>1, <1>2, <1>3, <1>5 DEF Untouched, Cutting, Bounded, Related, Early
<1> QED BY <1>1, <1>6, <1>7, <1>8 DEF LimitInv, Stages

LEMMA SetAsideStep ==
    ASSUME DedupInv, LimitInv, NEW c, SetAside(c) PROVE LimitInv'
<1>1. /\ pc = "select" /\ pc' = "select" /\ Least(c, todo, RankKey)
      /\ FilesFull(c) \/ OverEstimate(c)
      /\ todo' = todo \ {c} /\ rest' = rest \cup {c}
      /\ UNCHANGED <<ask, filtered, direct, expanded, selected>>
  BY DEF SetAside, searched, deduping
<1>2. direct \subseteq Candidate /\ expanded \subseteq Candidate
  BY <1>1 DEF DedupInv, Deduped, Result, Good, LimitInv, Related
<1>3. /\ Ranked' = Ranked /\ Ranked \subseteq Candidate /\ todo \subseteq Ranked
  <2>1. Ranked' = Ranked
    BY <1>1, RankedStays
  <2>2. Ranked \subseteq Candidate
    BY <1>2, RankedTyped
  <2>3. todo \subseteq Ranked
    BY <1>1 DEF LimitInv, Untouched
  <2> QED BY <2>1, <2>2, <2>3
<1>4. c \in Candidate /\ selected # <<>>
  BY <1>1, <1>3, FirstIsAllowed DEF Least
<1>5. Chosen' /\ BestFirst'
  BY <1>1, <1>3, <1>4 DEF LimitInv, Chosen, BestFirst
<1>6. Untouched' /\ Cutting' /\ Bounded' /\ Related'
  BY <1>1, <1>2, <1>3, <1>4 DEF Untouched, Cutting, Bounded, Related, Early
<1> QED BY <1>1, <1>5, <1>6 DEF LimitInv, Stages

LEMMA EndSelectStep == ASSUME DedupInv, LimitInv, EndSelect PROVE LimitInv'
<1>1. /\ pc = "select" /\ pc' = "refill"
      /\ UNCHANGED <<ask, filtered, direct, expanded>>
  BY DEF EndSelect, searched, deduping
<1>2. selected' = selected /\ rest' = rest
  BY <1>1 DEF EndSelect, LimitInv, Untouched
<1>3. Ranked' = Ranked
  BY <1>1, RankedStays
<1>4. Chosen' /\ BestFirst' /\ Untouched'
  BY <1>1, <1>2, <1>3 DEF LimitInv, Chosen, BestFirst, Untouched, Early
<1>5. Cutting' /\ Bounded' /\ Related'
  BY <1>1, <1>2 DEF LimitInv, Chosen, Cutting, Bounded, Related
<1> QED BY <1>1, <1>4, <1>5 DEF LimitInv, Stages

(* The later loops change the selection only.                              *)
LEMMA LateSteps ==
    ASSUME LimitInv, pc \notin Early, pc' \in Stages \ Early,
           pc' # "select", UNCHANGED <<ask, searched, direct, expanded>>,
           Chosen', Cutting', Bounded', rest' \subseteq rest,
           selected = <<>> => selected' = <<>>,
           pc' = "refill" /\ selected' = <<>> => rest' = {},
           selected' # <<>> => selected'[1].hit.score = selected[1].hit.score
    PROVE  LimitInv'
<1>1. Ranked' = Ranked
  BY RankedStays
<1>2. BestFirst'
  BY <1>1 DEF LimitInv, BestFirst
<1>3. Untouched' /\ Related'
  BY DEF LimitInv, Untouched, Related, Early
<1> QED BY <1>2, <1>3 DEF LimitInv, Early, searched

LEMMA RefillStep ==
    ASSUME DedupInv, LimitInv, NEW c, Refill(c) PROVE LimitInv'
<1>1. /\ pc = "refill" /\ pc' = "refill" /\ Least(c, rest, RankKey)
      /\ rest' = rest \ {c}
      /\ UNCHANGED <<ask, searched, direct, expanded>>
  BY DEF Refill, searched, deduping
<1>2. c \in rest /\ c \in Candidate
  BY <1>1 DEF Least, LimitInv, Chosen
<1>3. selected # <<>>
  BY <1>1, <1>2 DEF LimitInv, Untouched, Early
<1>4. CASE selected' = selected
  <2>1. Chosen'
    BY <1>1, <1>4 DEF LimitInv, Chosen
  <2>2. Cutting' /\ Bounded'
    BY <1>1 DEF Cutting, Bounded
  <2> QED BY <1>1, <1>3, <1>4, <2>1, <2>2, LateSteps DEF Early, Stages
<1>5. CASE ~FilesFull(c) /\ selected' = Append(selected, c)
  <2>1. /\ selected' \in Seq(Candidate) /\ selected' # <<>>
        /\ selected'[1] = selected[1]
        /\ IsFiniteSet(FilesOf(selected))'
        /\ Cardinality(FilesOf(selected')) <= ask.maxFiles
    BY <1>1, <1>2, <1>3, <1>5, AppendKeepsLimit DEF searched
  <2>2. Chosen'
    BY <1>1, <2>1 DEF LimitInv, Chosen
  <2>3. Cutting' /\ Bounded'
    BY <1>1 DEF Cutting, Bounded
  <2> QED BY <1>1, <1>3, <2>1, <2>2, <2>3, LateSteps DEF Early, Stages
<1> QED BY <1>4, <1>5 DEF Refill

(* Steps that move on without touching the selection.                      *)
LEMMA MovesOn ==
    ASSUME LimitInv, EndRefill \/ EndTruncate \/ StartCut \/ Probe
    PROVE  LimitInv'
<1>1. /\ pc \in {"refill", "truncate", "cut"}
      /\ pc' \in {"truncate", "package", "cut"}
      /\ UNCHANGED <<ask, searched, direct, expanded, selected, rest>>
  BY DEF EndRefill, EndTruncate, StartCut, Probe, searched, deduping, allocating
<1>2. Chosen'
  BY <1>1 DEF LimitInv, Chosen
<1>3. Bounded'
  BY <1>1 DEF LimitInv, Bounded, EndRefill, EndTruncate, StartCut, Probe,
              WithinBudget
<1>4. Cutting'
  <2>1. rest' \subseteq Candidate
    BY <1>2 DEF Chosen
  <2>2. CASE EndRefill \/ EndTruncate
    BY <2>1, <2>2 DEF EndRefill, EndTruncate, Cutting
  <2>3. CASE StartCut
    <3>1. selected # <<>> /\ LastOf(selected).hit.len \in Nat
      <4>1. selected # <<>> /\ selected \in Seq(Candidate)
        BY <2>3 DEF StartCut, LimitInv, Chosen
      <4>2. LastOf(selected) \in Candidate
        BY <4>1 DEF LastOf
      <4> QED BY <4>1, <4>2 DEF Candidate, Hit
    <3> QED BY <2>1, <2>3, <3>1 DEF StartCut, Cutting, allocating
  <2>4. CASE Probe
    <3>1. /\ selected # <<>> /\ selected' = selected
          /\ cut \in [low : Nat, high : Nat] /\ cut.low < cut.high
      BY <2>4 DEF Probe, LimitInv, Cutting, allocating
    <3>2. /\ Middle(cut.low, cut.high) \in Nat
          /\ cut.low < Middle(cut.low, cut.high)
          /\ Middle(cut.low, cut.high) <= cut.high
      BY <3>1 DEF Middle, Ceil
    <3>3. \/ cut' = [cut EXCEPT !.low = Middle(cut.low, cut.high)]
          \/ cut' = [cut EXCEPT !.high = Middle(cut.low, cut.high) - 1]
      BY <2>4 DEF Probe
    <3> QED BY <2>1, <3>1, <3>2, <3>3 DEF Cutting
  <2> QED BY <2>2, <2>3, <2>4
<1>5. selected' # <<>> => selected'[1].hit.score = selected[1].hit.score
  BY <1>1
<1> QED BY <1>1, <1>2, <1>3, <1>4, <1>5, LateSteps DEF Early, Stages

LEMMA CutSteps ==
    ASSUME DedupInv, LimitInv, DropEmpty \/ EndCut PROVE LimitInv'
<1>1. /\ pc \in {"truncate", "cut"} /\ pc' = "truncate" /\ selected # <<>>
      /\ UNCHANGED <<ask, searched, direct, expanded, rest>>
  BY DEF DropEmpty, EndCut, LimitInv, Cutting, searched, deduping
<1>2. /\ selected \in Seq(Candidate) /\ IsFiniteSet(FilesOf(selected))
      /\ Cardinality(FilesOf(selected)) <= ask.maxFiles
      /\ rest \subseteq Candidate
  BY DEF LimitInv, Chosen
<1>3. /\ Short(selected) \in Seq(Candidate)
      /\ FilesOf(Short(selected)) \subseteq FilesOf(selected)
      /\ Short(selected) # <<>> => Short(selected)[1] = selected[1]
      /\ \A n \in Nat : /\ Keep(selected, n) \in Seq(Candidate)
                        /\ FilesOf(Keep(selected, n)) = FilesOf(selected)
                        /\ Keep(selected, n)[1].hit.score =
                               selected[1].hit.score
  BY <1>1, <1>2, ShortAndKeep
<1>4. \/ selected' = Short(selected)
      \/ \E n \in Nat : selected' = Keep(selected, n)
  BY DEF DropEmpty, EndCut, LimitInv, Cutting
<1>5. /\ selected' \in Seq(Candidate)
      /\ FilesOf(selected') \subseteq FilesOf(selected)
      /\ selected' # <<>> => selected'[1].hit.score = selected[1].hit.score
  BY <1>3, <1>4
<1>6. /\ IsFiniteSet(FilesOf(selected'))
      /\ Cardinality(FilesOf(selected')) <= Cardinality(FilesOf(selected))
      /\ Cardinality(FilesOf(selected')) \in Nat
      /\ Cardinality(FilesOf(selected)) \in Nat
  BY <1>2, <1>5, FS_Subset, FS_CardinalityType
<1>7. Chosen'
  BY <1>1, <1>2, <1>5, <1>6, AskTyped DEF Chosen, searched, FilesOf
<1>8. Cutting' /\ Bounded'
  BY <1>1, <1>2 DEF Cutting, Bounded
<1> QED BY <1>1, <1>5, <1>7, <1>8, LateSteps DEF Early, Stages

LEMMA FinishStep == ASSUME DedupInv, LimitInv, Finish PROVE LimitInv'
<1>1. /\ pc = "package" /\ pc' = "done"
      /\ package'.chunks = selected /\ package'.files = FilesOf(selected)
      /\ package'.tokens = Total(selected)
      /\ UNCHANGED <<ask, searched, direct, expanded, selected, rest>>
  BY DEF Finish, searched, deduping, allocating
<1>2. Total(selected) <= ask.budget
  BY <1>1, AskTyped DEF LimitInv, Bounded, Total, WithinBudget
<1>3. Chosen'
  BY <1>1 DEF LimitInv, Chosen
<1>4. FilesOf(selected)' = FilesOf(selected)
  BY <1>1 DEF FilesOf
<1>5. Bounded'
  BY <1>1, <1>2, <1>4 DEF Bounded, searched
<1>6. Cutting'
  BY <1>1 DEF Cutting
<1> QED BY <1>1, <1>3, <1>5, <1>6, LateSteps DEF Early, Stages

LEMMA LimitStep == DedupInv /\ LimitInv /\ [Next]_vars => LimitInv'
<1> SUFFICES ASSUME DedupInv, LimitInv, [Next]_vars PROVE LimitInv'
  OBVIOUS
<1>1. CASE \/ Filter \/ Dedup \/ EndDedup \/ SkipExpansion \/ StartExpansion
           \/ Expand \/ ExpandFails \/ EndExpansion
  BY <1>1, EarlyStages
<1>2. CASE Rank
  BY <1>2, RankStep
<1>3. CASE Allocate
  BY <1>3, SelectStep, SetAsideStep, RefillStep DEF Allocate
<1>4. CASE EndSelect
  BY <1>4, EndSelectStep
<1>5. CASE EndRefill
  BY <1>5, MovesOn
<1>6. CASE Truncate
  BY <1>6, MovesOn, CutSteps DEF Truncate
<1>7. CASE Finish
  BY <1>7, FinishStep
<1>8. CASE UNCHANGED vars
  <2>1. UNCHANGED <<pc, ask, filtered, direct, todo, expanded, selected, rest,
                    cut, package>>
    BY <1>8 DEF vars, searched, deduping, allocating
  <2>2. Ranked' = Ranked /\ Candidates' = Candidates
    BY <2>1 DEF Ranked, Candidates, Mentions, FirstMention, DirectFiles
  <2> QED BY <2>1, <2>2
          DEF LimitInv, Chosen, Untouched, BestFirst, Cutting, Bounded,
              Related, FilesOf, WithinBudget
<1> QED BY <1>1, <1>2, <1>3, <1>4, <1>5, <1>6, <1>7, <1>8 DEF Next

(* The invariant of the steps behind it: filling, refilling and truncating  *)
(* (assembler.rs) never leave more tokens or files than were asked for.     *)
THEOREM LimitInvariant == Spec => []LimitInv
BY DedupInit, LimitInit, LimitStep, DedupInvariant, PTL DEF Spec

(* The token budget and the number of files the caller asked for hold for  *)
(* every package, whatever the tokenizer counts: the estimates of the      *)
(* first pass only decide what is tried first.                             *)
THEOREM PackageKeepsLimits == Spec => []LimitsHold
<1>1. LimitInv => LimitsHold
  BY DEF LimitInv, Chosen, Bounded, LimitsHold
<1> QED BY <1>1, LimitInvariant, PTL

(* Neither the second pass, which appends out of order, nor the cuts take  *)
(* the first place from the best chunk.                                    *)
THEOREM FirstIsBest == Spec => []BestComesFirst
<1>1. LimitInv => BestComesFirst
  BY DEF LimitInv, BestFirst, Bounded, BestComesFirst
<1> QED BY <1>1, LimitInvariant, PTL

(* Type correctness of the assembler.                                      *)
LoopTyped == /\ direct \subseteq Candidate /\ merged \subseteq Candidate
             /\ active \in Candidate \cup {Nothing}
             /\ pc \notin {"related", "error"} => todo \subseteq Candidate

LEMMA LoopTypedStep ==
    ASSUME DedupInv, LimitInv, LoopTyped, Next, DedupInv', LimitInv'
    PROVE  LoopTyped'
<1> USE DEF searched, deduping, allocating
<1>1. CASE Filter
  BY <1>1 DEF Filter, LoopTyped, DedupInv, Loop, Good
<1>2. CASE Dedup
  <2>1. pc' = "dedup" /\ direct' = direct
    BY <1>2 DEF Dedup, TakeFirst, MergeNext, KeepNext, Visit
  <2> QED BY <2>1 DEF LoopTyped, DedupInv, Loop, Good
<1>3. CASE EndDedup
  BY <1>3 DEF EndDedup, LoopTyped
<1>4. CASE SkipExpansion \/ StartExpansion \/ Expand \/ ExpandFails
  BY <1>4 DEF SkipExpansion, StartExpansion, Expand, ExpandFile, ExpandFails,
              LoopTyped
<1>5. CASE EndExpansion \/ EndSelect \/ EndRefill \/ Finish
  BY <1>5 DEF EndExpansion, EndSelect, EndRefill, Finish, LoopTyped
<1>6. CASE Rank
  <2>1. direct \subseteq Candidate /\ expanded \subseteq Candidate
    BY DEF LoopTyped, LimitInv, Related
  <2> QED BY <1>6, <2>1, RankedTyped DEF Rank, LoopTyped
<1>7. CASE Allocate
  BY <1>7 DEF Allocate, SelectNext, SetAside, Refill, LoopTyped
<1>8. CASE Truncate
  BY <1>8 DEF Truncate, EndTruncate, DropEmpty, StartCut, Probe, EndCut,
              LoopTyped
<1> QED BY <1>1, <1>2, <1>3, <1>4, <1>5, <1>6, <1>7, <1>8 DEF Next

(* Every variable of the assembly stays in its type, the bounds of the      *)
(* binary search of truncate_to_budget among them (assembler.rs).           *)
THEOREM AssemblyTyped == Spec => []AssemblyTypeOK
<1>1. Init => LoopTyped
  BY DEF Init, LoopTyped
<1>2. ASSUME DedupInv, LimitInv, LoopTyped, [Next]_vars, DedupInv', LimitInv'
      PROVE  LoopTyped'
  <2>1. CASE UNCHANGED vars
    BY <1>2, <2>1 DEF vars, searched, deduping, LoopTyped
  <2> QED BY <1>2, <2>1, LoopTypedStep
<1>3. Spec => []LoopTyped
  BY <1>1, <1>2, DedupInvariant, LimitInvariant, PTL DEF Spec
<1>4. ASSUME DedupInv, LimitInv, LoopTyped PROVE AssemblyTypeOK
  <2>1. ask \in Request /\ best \in Nat
    BY <1>4, AskTyped DEF DedupInv, Inputs
  <2> QED BY <1>4, <2>1
          DEF AssemblyTypeOK, LoopTyped, LimitInv, Stages, Chosen, Cutting,
              Related
<1> QED BY <1>3, <1>4, DedupInvariant, LimitInvariant, PTL

-----------------------------------------------------------------------------
(* The expansion.  Every path has one candidate, so that a file is         *)
(* expanded once, and what is still to do is of other files.               *)
Expansion ==
    /\ pc \in {"filter", "dedup", "expand"} => expanded = {}
    /\ pc = "related" => \A m \in todo : m.path \notin ExpandedFiles
    /\ IsFiniteSet(ExpandedFiles)
    /\ ExpandedFiles \cap DirectFiles = {}
    /\ Cardinality(ExpandedFiles) <= MaxExpandedFiles
    /\ \A p \in ExpandedFiles : Cardinality(ChunksFrom(p)) <= MaxChunksPerFile

LEMMA MentionNumbers ==
    ASSUME direct \subseteq Candidate, NEW m \in Mentions
    PROVE  m.tier \in Nat /\ m.by \in Nat /\ m.at \in Nat
<1>1. PICK t \in {1, 2}, c \in direct :
          \E k \in DOMAIN TierOf(t, c.hit.path) :
              m = [tier |-> t, by |-> c.idx, at |-> k,
                   path |-> TierOf(t, c.hit.path)[k]]
  BY DEF Mentions
<1>2. c.hit.path \in Paths /\ c.idx \in Nat
  BY DEF Candidate, Hit
<1>3. TierOf(t, c.hit.path) \in Seq(Paths)
  BY <1>2, TierAssumption DEF TierOf
<1>4. \A k \in DOMAIN TierOf(t, c.hit.path) : k \in Nat
  BY <1>3
<1> QED BY <1>1, <1>2, <1>4

LEMMA OneMention ==
    ASSUME direct \subseteq Candidate, NEW m \in Candidates, NEW n \in Candidates,
           m.path = n.path
    PROVE  m = n
<1> SUFFICES ASSUME m # n PROVE FALSE
  OBVIOUS
<1>1. m \in Mentions /\ n \in Mentions /\ FirstMention(m) /\ FirstMention(n)
  BY DEF Candidates
<1>2. LexLess(MentionKey(m), MentionKey(n)) /\ LexLess(MentionKey(n), MentionKey(m))
  BY <1>1 DEF FirstMention, Least
<1>3. /\ m.tier \in Nat /\ m.by \in Nat /\ m.at \in Nat
      /\ n.tier \in Nat /\ n.by \in Nat /\ n.at \in Nat
  BY <1>1, MentionNumbers
<1>4. /\ Len(MentionKey(m)) = 3 /\ Len(MentionKey(n)) = 3
      /\ MentionKey(m)[1] = m.tier /\ MentionKey(n)[1] = n.tier
      /\ MentionKey(m)[2] = m.by /\ MentionKey(n)[2] = n.by
      /\ MentionKey(m)[3] = m.at /\ MentionKey(n)[3] = n.at
  BY DEF MentionKey
<1>5. PICK i \in 1..3 :
         /\ MentionKey(m)[i] < MentionKey(n)[i]
         /\ \A j \in 1..(i - 1) : MentionKey(m)[j] = MentionKey(n)[j]
  BY <1>2, <1>4 DEF LexLess
<1>6. PICK k \in 1..3 :
         /\ MentionKey(n)[k] < MentionKey(m)[k]
         /\ \A j \in 1..(k - 1) : MentionKey(n)[j] = MentionKey(m)[j]
  BY <1>2, <1>4 DEF LexLess
<1>7. /\ MentionKey(m)[i] \in Nat /\ MentionKey(n)[i] \in Nat
      /\ MentionKey(m)[k] \in Nat /\ MentionKey(n)[k] \in Nat
  BY <1>3, <1>4
<1>8. CASE i = k
  BY <1>5, <1>6, <1>7, <1>8
<1>9. CASE i < k
  <2>1. i \in 1..(k - 1)
    BY <1>9
  <2> QED BY <1>5, <1>6, <1>7, <2>1
<1>10. CASE k < i
  <2>1. k \in 1..(i - 1)
    BY <1>10
  <2> QED BY <1>5, <1>6, <1>7, <2>1
<1> QED BY <1>8, <1>9, <1>10

(* The store gives at most three chunks, all of the file that was asked    *)
(* for.                                                                    *)
LEMMA FromStoreFew ==
    ASSUME NEW m, m.path \in Paths
    PROVE  /\ \A c \in FromStore(m) : c.hit.path = m.path
           /\ Cardinality(FromStore(m)) <= MaxChunksPerFile
<1>1. RelatedHits(m.path) \in Seq(Hit)
  BY RelatedAssumption
<1>2. Similar(m) \subseteq 1..3
  BY <1>1 DEF Similar, MaxChunksPerFile
<1>3. \A k \in Similar(m) : StoreChunk(m, k).hit.path = m.path
  <2>1. ASSUME NEW k \in Similar(m)
        PROVE  StoreChunk(m, k).hit.path = m.path
    <3>1. PICK g \in Hit : g = RelatedHits(m.path)[k]
      BY <1>1 DEF Similar
    <3> QED BY <3>1 DEF StoreChunk, Hit
  <2> QED BY <2>1
<1>4. IsFiniteSet(1..3) /\ Cardinality(1..3) = 3
  <2>1. 1 \in Int /\ 3 \in Int
    OBVIOUS
  <2>2. IsFiniteSet(1..3) /\ Cardinality(1..3) = IF 1 > 3 THEN 0 ELSE 3 - 1 + 1
    BY <2>1, FS_Interval
  <2> QED BY <2>2
<1>5. /\ IsFiniteSet(Similar(m)) /\ Cardinality(Similar(m)) <= 3
      /\ Cardinality(Similar(m)) \in Nat
  BY <1>2, <1>4, FS_Subset, FS_CardinalityType
<1> DEFINE f == [k \in Similar(m) |-> StoreChunk(m, k)]
<1>6. f \in Surjection(Similar(m), FromStore(m))
  BY DEF FromStore, Surjection
<1>7. /\ IsFiniteSet(FromStore(m))
      /\ Cardinality(FromStore(m)) <= Cardinality(Similar(m))
  BY <1>5, <1>6, FS_Surjection
<1>8. Cardinality(FromStore(m)) \in Nat
  BY <1>7, FS_CardinalityType
<1>9. \A c \in FromStore(m) : c.hit.path = m.path
  BY <1>3 DEF FromStore
<1> QED BY <1>5, <1>7, <1>8, <1>9 DEF MaxChunksPerFile

LEMMA ExpandFileStep ==
    ASSUME DedupInv, LimitInv, Expansion, NEW m \in todo, ExpandFile(m)
    PROVE  Expansion'
<1>1. /\ pc = "related" /\ pc' = "related" /\ direct' = direct
      /\ Cardinality(ExpandedFiles) < MaxExpandedFiles
      /\ todo' = todo \ {m} /\ expanded' = expanded \cup FromStore(m)
  BY DEF ExpandFile, deduping
<1>2. direct \subseteq Candidate /\ todo \subseteq Candidates
  BY <1>1 DEF DedupInv, Deduped, Result, Good, LimitInv, Related
<1>3. /\ m.path \in Paths /\ m.path \notin ExpandedFiles
      /\ m.path \notin DirectFiles
  BY <1>1, <1>2, CandidatesTyped DEF Expansion, Candidates
<1>4. /\ \A c \in FromStore(m) : c.hit.path = m.path
      /\ Cardinality(FromStore(m)) <= MaxChunksPerFile
  BY <1>3, FromStoreFew
<1>5. /\ IsFiniteSet(ExpandedFiles)
      /\ Cardinality(ExpandedFiles) \in Nat
  BY FS_CardinalityType DEF Expansion
<1>6. DirectFiles' = DirectFiles
  BY <1>1 DEF DirectFiles
<1>7. CASE FromStore(m) = {}
  <2>1. expanded' = expanded /\ ExpandedFiles' = ExpandedFiles
    BY <1>1, <1>7 DEF ExpandedFiles
  <2> QED BY <1>1, <1>6, <2>1 DEF Expansion, ChunksFrom
<1>8. CASE FromStore(m) # {}
  <2>1. ExpandedFiles' = ExpandedFiles \cup {m.path}
    BY <1>1, <1>4, <1>8 DEF ExpandedFiles
  <2>2. /\ IsFiniteSet(ExpandedFiles')
        /\ Cardinality(ExpandedFiles') = Cardinality(ExpandedFiles) + 1
    BY <1>3, <1>5, <2>1, FS_AddElement
  <2>3. ASSUME NEW p \in ExpandedFiles'
        PROVE  Cardinality(ChunksFrom(p)') <= MaxChunksPerFile
    <3>1. CASE p = m.path
      <4>1. ChunksFrom(p)' = FromStore(m)
        BY <1>1, <1>3, <1>4, <3>1 DEF ChunksFrom, ExpandedFiles
      <4> QED BY <1>4, <4>1
    <3>2. CASE p # m.path
      <4>1. ChunksFrom(p)' = ChunksFrom(p)
        BY <1>1, <1>4, <3>2 DEF ChunksFrom
      <4> QED BY <2>1, <3>2, <4>1 DEF Expansion
    <3> QED BY <3>1, <3>2
  <2>4. \A n \in todo' : n.path \notin ExpandedFiles'
    <3>1. ASSUME NEW n \in todo'
          PROVE  n.path \notin ExpandedFiles'
      <4>1. n \in todo /\ n # m
        BY <1>1
      <4>2. n.path # m.path
        BY <1>2, <4>1, OneMention
      <4> QED BY <1>1, <2>1, <4>1, <4>2 DEF Expansion
    <3> QED BY <3>1
  <2>5. ExpandedFiles' \cap DirectFiles' = {}
    BY <1>3, <1>6, <2>1 DEF Expansion
  <2>6. Cardinality(ExpandedFiles') <= MaxExpandedFiles
    BY <1>1, <1>5, <2>2 DEF MaxExpandedFiles
  <2> QED BY <1>1, <2>2, <2>3, <2>4, <2>5, <2>6 DEF Expansion
<1> QED BY <1>7, <1>8

LEMMA ExpansionStep ==
    ASSUME DedupInv, LimitInv, Expansion, [Next]_vars
    PROVE  Expansion'
<1> USE DEF searched, deduping, allocating
<1>1. CASE Expand
  BY <1>1, ExpandFileStep DEF Expand
<1>2. CASE StartExpansion
  <2>1. /\ expanded = {} /\ expanded' = {} /\ direct' = direct
    BY <1>2 DEF StartExpansion, Expansion
  <2>2. ExpandedFiles' = {} /\ ExpandedFiles = {}
    BY <2>1 DEF ExpandedFiles
  <2> QED BY <1>2, <2>1, <2>2 DEF Expansion, StartExpansion
<1>3. CASE Filter \/ Dedup \/ EndDedup
  <2>1. /\ expanded = {} /\ expanded' = {}
        /\ pc' \in {"dedup", "expand"}
    BY <1>3 DEF Filter, Dedup, TakeFirst, MergeNext, KeepNext, Visit, EndDedup,
                Expansion
  <2>2. ExpandedFiles' = {} /\ ExpandedFiles = {}
    BY <2>1 DEF ExpandedFiles
  <2> QED BY <2>1, <2>2 DEF Expansion
<1>4. CASE ~(Expand \/ StartExpansion \/ Filter \/ Dedup \/ EndDedup)
  <2>1. /\ UNCHANGED <<direct, expanded>>
        /\ \/ pc' \notin {"filter", "dedup", "expand", "related"}
           \/ UNCHANGED <<pc, todo>>
    <3>1. CASE SkipExpansion \/ ExpandFails \/ EndExpansion \/ Rank
      BY <3>1 DEF SkipExpansion, ExpandFails, EndExpansion, Rank
    <3>2. CASE Allocate \/ EndSelect \/ EndRefill
      BY <3>2 DEF Allocate, SelectNext, SetAside, Refill, EndSelect, EndRefill
    <3>3. CASE Truncate \/ Finish
      BY <3>3 DEF Truncate, EndTruncate, DropEmpty, StartCut, Probe, EndCut, Finish
    <3>4. CASE UNCHANGED vars
      BY <3>4 DEF vars
    <3> QED BY <1>4, <3>1, <3>2, <3>3, <3>4 DEF Next
  <2>2. /\ ExpandedFiles' = ExpandedFiles /\ DirectFiles' = DirectFiles
        /\ \A p : ChunksFrom(p)' = ChunksFrom(p)
    BY <2>1 DEF ExpandedFiles, DirectFiles, ChunksFrom
  <2> QED BY <2>1, <2>2 DEF Expansion
<1> QED BY <1>1, <1>2, <1>3, <1>4

(* RelatedExpander::expand adds at most five files and at most three       *)
(* chunks of each, and none of a file of the hits it was given, however    *)
(* many hits and tiers name the same file and however many chunks it has.  *)
THEOREM ExpansionIsBounded == Spec => []RelatedApart
<1>1. Init => Expansion
  <2> SUFFICES ASSUME Init PROVE Expansion
    OBVIOUS
  <2>1. expanded = {} /\ ExpandedFiles = {} /\ pc = "filter"
    BY DEF Init, ExpandedFiles
  <2>2. IsFiniteSet({}) /\ Cardinality({}) = 0
    BY FS_EmptySet
  <2> QED BY <2>1, <2>2 DEF Expansion, MaxExpandedFiles
<1>2. Spec => []Expansion
  BY <1>1, ExpansionStep, DedupInvariant, LimitInvariant, PTL DEF Spec
<1>3. Expansion => RelatedApart
  BY DEF Expansion, RelatedApart
<1> QED BY <1>2, <1>3, PTL

=============================================================================
