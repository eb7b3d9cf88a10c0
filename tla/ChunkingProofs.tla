--------------------------- MODULE ChunkingProofs ---------------------------
(***************************************************************************)
(* Proofs about Chunking, for every file, syntax tree with nested nodes,   *)
(* window, overlap and length of a repeated head.  The invariant names the *)
(* nodes the walk has reached; everything else follows from where they     *)
(* are: open in a frame, in the window loop, covered by chunks, or left to *)
(* the symbols inside.                                                     *)
(***************************************************************************)
EXTENDS Chunking, FiniteSetTheorems, SequenceTheorems, WellFoundedInduction,
        TLAPS

ChunkRecord == [node : Nat, content : Seq(Line), first : Nat, last : Nat,
                id : Ids]

-----------------------------------------------------------------------------
(* The least of a set of numbers.                                          *)
LEMMA LeastExists ==
    ASSUME NEW S \in SUBSET Nat, S # {}
    PROVE  \E n \in S : \A m \in S : n <= m
<1>1. PICK n \in S : \A m \in S : ~(<<m, n>> \in OpToRel(<, Nat))
  BY NatLessThanWellFounded, WFMin
<1>2. \A m \in S : ~(m < n)
  BY <1>1 DEF OpToRel
<1> QED
  BY <1>2

LEMMA LeastIsIn ==
    ASSUME NEW S \in SUBSET Nat, S # {}
    PROVE  LeastOf(S) \in S /\ \A m \in S : LeastOf(S) <= m
BY LeastExists DEF LeastOf

-----------------------------------------------------------------------------
(* Sorting.                                                                *)

LEMMA ChunkFields ==
    ASSUME NEW s \in Seq(ChunkRecord), NEW i \in 1..Len(s)
    PROVE  /\ s[i] \in ChunkRecord /\ s[i].node \in Nat
           /\ s[i].first \in Nat /\ s[i].last \in Nat
           /\ s[i].content \in Seq(Line)
<1>1. s[i] \in ChunkRecord
  BY ElementOfSeq
<1> QED
  BY <1>1 DEF ChunkRecord

Preceding(s, i) == {j \in 1..Len(s) : Before(s, j, i)}

(* A chunk has more predecessors than each of them, so that the numbers of *)
(* predecessors of n chunks are n different ones below n.                  *)
LEMMA PrecedingCount ==
    ASSUME NEW s \in Seq(ChunkRecord)
    PROVE  /\ \A i \in 1..Len(s) :
                 Cardinality(Preceding(s, i)) \in 0..(Len(s) - 1)
           /\ \A i, j \in 1..Len(s) : Before(s, i, j) =>
                 Cardinality(Preceding(s, i)) < Cardinality(Preceding(s, j))
           /\ \A i, j \in 1..Len(s) : i # j =>
                 Before(s, i, j) \/ Before(s, j, i)
<1> DEFINE D == 1..Len(s)
<1>1. IsFiniteSet(D) /\ Cardinality(D) = Len(s) /\ Len(s) \in Nat
  <2>1. Len(s) \in Nat
    OBVIOUS
  <2>2. IsFiniteSet(D) /\ Cardinality(D) = IF 1 > Len(s) THEN 0 ELSE Len(s) - 1 + 1
    BY <2>1, FS_Interval
  <2> QED
    BY <2>1, <2>2
<1>2. \A i \in D : s[i].first \in Nat /\ s[i].last \in Nat
  BY ChunkFields
<1>3. ASSUME NEW i \in D
      PROVE  /\ IsFiniteSet(Preceding(s, i))
             /\ Cardinality(Preceding(s, i)) \in 0..(Len(s) - 1)
  <2>1. Preceding(s, i) \in SUBSET D /\ i \notin Preceding(s, i)
    BY <1>2 DEF Preceding, Before
  <2>2. /\ IsFiniteSet(Preceding(s, i))
        /\ Cardinality(Preceding(s, i)) <= Len(s)
        /\ Cardinality(Preceding(s, i)) # Len(s)
    BY <1>1, <2>1, FS_Subset
  <2>3. Cardinality(Preceding(s, i)) \in Nat
    BY <2>2, FS_CardinalityType
  <2> QED
    BY <1>1, <2>2, <2>3
<1>4. ASSUME NEW i \in D, NEW j \in D, Before(s, i, j)
      PROVE  Cardinality(Preceding(s, i)) < Cardinality(Preceding(s, j))
  <2>1. /\ Preceding(s, i) \in SUBSET Preceding(s, j)
        /\ i \in Preceding(s, j) /\ i \notin Preceding(s, i)
    BY <1>2, <1>4 DEF Preceding, Before
  <2>2. /\ Cardinality(Preceding(s, i)) <= Cardinality(Preceding(s, j))
        /\ Cardinality(Preceding(s, i)) # Cardinality(Preceding(s, j))
    BY <2>1, <1>3, FS_Subset
  <2>3. /\ Cardinality(Preceding(s, i)) \in Nat
        /\ Cardinality(Preceding(s, j)) \in Nat
    BY <1>3
  <2> QED
    BY <2>2, <2>3
<1>5. \A i, j \in D : i # j => Before(s, i, j) \/ Before(s, j, i)
  BY <1>2 DEF Before
<1> QED
  BY <1>3, <1>4, <1>5

(* Sorted lists the same elements, each once, in order.                    *)
LEMMA SortedPermutes ==
    ASSUME NEW s \in Seq(ChunkRecord)
    PROVE  \E g \in [1..Len(s) -> 1..Len(s)] :
              /\ Sorted(s) = [k \in 1..Len(s) |-> s[g[k]]]
              /\ \A i \in 1..Len(s) : \E k \in 1..Len(s) : g[k] = i
              /\ \A j, k \in 1..Len(s) : j < k => Before(s, g[j], g[k])
<1> DEFINE D == 1..Len(s)
           count(i) == Cardinality(Preceding(s, i))
           rank == [i \in D |-> count(i) + 1]
           g == [k \in D |-> CHOOSE i \in D : count(i) = k - 1]
<1>1. /\ \A i \in D : count(i) \in 0..(Len(s) - 1)
      /\ \A i, j \in D : Before(s, i, j) => count(i) < count(j)
      /\ \A i, j \in D : i # j => Before(s, i, j) \/ Before(s, j, i)
  BY PrecedingCount
<1>2. IsFiniteSet(D) /\ Len(s) \in Nat
  BY FS_Interval
<1>3. Sorted(s) = [k \in D |-> s[g[k]]]
  BY DEF Sorted, Preceding
<1> HIDE DEF count
<1>4. rank \in Surjection(D, D)
  <2>1. \A i \in D : count(i) + 1 \in D
    BY <1>1, <1>2
  <2>2. \A i, j \in D : count(i) + 1 = count(j) + 1 => i = j
    <3>1. ASSUME NEW i \in D, NEW j \in D, count(i) + 1 = count(j) + 1, i # j
          PROVE  FALSE
      <4>1. count(i) \in Nat /\ count(j) \in Nat
        BY <1>1, <1>2
      <4>2. count(i) = count(j)
        BY <3>1, <4>1
      <4> QED
        BY <1>1, <3>1, <4>1, <4>2
    <3> QED
      BY <3>1
  <2>3. rank \in Injection(D, D)
    BY <2>1, <2>2 DEF Injection, IsInjective
  <2> QED
    BY <1>2, <2>3, FS_Injection
<1>5. ASSUME NEW k \in D
      PROVE  \E i \in D : count(i) = k - 1
  <2>1. PICK i \in D : rank[i] = k
    BY <1>4 DEF Surjection
  <2>2. count(i) \in Nat /\ count(i) + 1 = k
    BY <1>1, <1>2, <2>1
  <2> QED
    BY <2>2
<1>6. \A k \in D : g[k] \in D /\ count(g[k]) = k - 1
  BY <1>5
<1> HIDE DEF g
<1>7. g \in [D -> D]
  <2>1. g = [k \in D |-> g[k]]
    BY DEF g
  <2> QED
    BY <2>1, <1>6
<1>8. ASSUME NEW j \in D, NEW k \in D, j < k
      PROVE  Before(s, g[j], g[k])
  <2>1. /\ g[j] \in D /\ g[k] \in D
        /\ count(g[j]) = j - 1 /\ count(g[k]) = k - 1
    BY <1>6
  <2>2. g[j] # g[k] /\ ~(count(g[k]) < count(g[j]))
    BY <1>8, <2>1, <1>2
  <2> QED
    BY <1>1, <2>1, <2>2
<1>9. ASSUME NEW i \in D
      PROVE  \E k \in D : g[k] = i
  <2>1. count(i) \in 0..(Len(s) - 1)
    BY <1>1
  <2>2. PICK k \in D : count(i) = k - 1
    <3>1. count(i) + 1 \in D /\ count(i) = (count(i) + 1) - 1
      BY <1>2, <2>1
    <3> QED
      BY <3>1
  <2>3. g[k] \in D /\ count(g[k]) = count(i)
    BY <1>6, <2>2
  <2>4. g[k] = i
    <3>1. ~(count(i) < count(i))
      BY <2>1
    <3> QED
      BY <1>1, <2>3, <3>1
  <2> QED
    BY <2>2, <2>4
<1> QED
  BY <1>3, <1>7, <1>8, <1>9

(* What sorting keeps: the type, what is known of every chunk, the lines   *)
(* that are covered, and how the windows of a run follow each other.       *)
LEMMA SortedKeeps ==
    ASSUME NEW s \in Seq(ChunkRecord)
    PROVE  /\ Sorted(s) \in Seq(ChunkRecord) /\ Len(Sorted(s)) = Len(s)
           /\ AllOK(s) => AllOK(Sorted(s))
           /\ \A k : Held(s, k) => Held(Sorted(s), k)
           /\ Advance(s) => Advance(Sorted(s))
<1> DEFINE t == Sorted(s)
           D == 1..Len(s)
<1>1. PICK g \in [D -> D] :
         /\ t = [k \in D |-> s[g[k]]]
         /\ \A i \in D : \E k \in D : g[k] = i
         /\ \A j, k \in D : j < k => Before(s, g[j], g[k])
  BY SortedPermutes
<1> HIDE DEF t
<1>2. /\ t \in Seq(ChunkRecord) /\ Len(t) = Len(s) /\ Len(s) \in Nat
      /\ \A k \in D : g[k] \in D /\ t[k] = s[g[k]]
  <2>1. \A k \in D : g[k] \in D /\ s[g[k]] \in ChunkRecord
    BY ChunkFields
  <2> QED
    BY <1>1, <2>1
<1>3. AllOK(s) => AllOK(t)
  BY <1>2 DEF AllOK
<1>4. ASSUME NEW k, NEW i \in D, k \in s[i].first..s[i].last
      PROVE  Held(t, k)
  <2>1. PICK j \in D : g[j] = i
    BY <1>1
  <2> QED
    BY <2>1, <1>2, <1>4 DEF Held
<1>5. ASSUME Advance(s) PROVE Advance(t)
  <2>1. \A i \in D : s[i].first \in Nat /\ s[i].last \in Nat
    BY ChunkFields
  <2>2. ASSUME NEW j \in D, NEW k \in D, j < k, t[j].node = t[k].node
        PROVE  g[j] < g[k]
    <3>0. /\ Before(s, g[j], g[k]) /\ g[j] \in D /\ g[k] \in D
          /\ s[g[j]].node = s[g[k]].node
      BY <1>1, <1>2, <2>2
    <3>1. Before(s, g[j], g[k]) /\ g[j] # g[k]
      BY <3>0, <2>1 DEF Before
    <3>2. CASE g[k] < g[j]
      <4>1. s[g[k]].first < s[g[j]].first
        BY <1>5, <3>0, <3>2 DEF Advance
      <4> QED
        BY <3>1, <4>1, <1>2, <2>1 DEF Before
    <3> QED
      BY <3>1, <3>2, <1>2
  <2>3. ASSUME NEW j \in D, NEW k \in D, j < k, t[j].node = t[k].node
        PROVE  /\ t[j].first < t[k].first /\ t[j].last < t[k].last
               /\ \E i \in (j + 1)..Len(t) : /\ t[i].node = t[j].node
                                             /\ t[i].first <= t[j].last + 1
    <3>1. /\ s[g[j]].first < s[g[k]].first /\ s[g[j]].last < s[g[k]].last
          /\ \E i \in (g[j] + 1)..Len(s) :
                /\ s[i].node = s[g[j]].node
                /\ s[i].first <= s[g[j]].last + 1
      <4>1. /\ g[j] \in D /\ g[k] \in D /\ g[j] < g[k]
            /\ s[g[j]].node = s[g[k]].node
        BY <1>2, <2>2, <2>3
      <4> QED
        BY <1>5, <4>1 DEF Advance
    <3>2. PICK i \in (g[j] + 1)..Len(s) : /\ s[i].node = s[g[j]].node
                                          /\ s[i].first <= s[g[j]].last + 1
      BY <3>1
    <3>3. i \in D /\ g[j] < i
      BY <1>2
    <3>4. PICK m \in D : g[m] = i
      BY <1>1, <3>3
    <3>5. ~(m < j)
      <4>1. t[m].node = t[j].node /\ g[j] \in D /\ g[m] \in D
        BY <1>2, <3>2, <3>4
      <4>2. m < j => g[m] < g[j]
        BY <2>2, <4>1
      <4> QED
        BY <3>3, <3>4, <4>1, <4>2
    <3>6. m # j
      BY <3>3, <3>4, <1>2
    <3>7. m \in (j + 1)..Len(t) /\ t[m] = s[i]
      BY <1>2, <3>4, <3>5, <3>6
    <3> QED
      BY <3>1, <3>2, <3>7, <1>2
  <2> QED
    BY <2>3, <1>2 DEF Advance
<1>6. \A k : Held(s, k) => Held(t, k)
  BY <1>4 DEF Held
<1> QED
  BY <1>2, <1>3, <1>5, <1>6 DEF t

-----------------------------------------------------------------------------
(* What an input is, and what is cut out of it.                            *)
FrameRecord == [node : 0..Len(file.tree), before : Nat,
                todo : SUBSET (1..Len(file.tree))]

LEMMA InputFacts ==
    ASSUME file \in Inputs, cfg \in Configs
    PROVE  /\ file.lines \in Seq(Line) /\ Len(file.lines) \in Nat
           /\ file.tree \in Seq(Node) /\ Len(file.tree) \in Nat
           /\ SlidingSize \in Nat \ {0} /\ SlidingPct \in Nat
           /\ NodeSize \in Nat \ {0} /\ cfg.pct \in Nat
           /\ HeaderLines \in Nat
<1>1. file.lines \in Seq(Line) /\ file.tree \in Seq(Node)
  BY InputsAssumption
<1>2. cfg.chunk \in Nat /\ cfg.pct \in Nat /\ cfg.doc \in Nat
  BY ConstantsAssumption
<1>3. CodeWindow \in Nat /\ CodeOverlap \in Nat /\ DocOverlap \in Nat
      /\ HeaderLines \in Nat
  BY ConstantsAssumption
<1>4. NodeSize \in Nat \ {0}
  BY <1>2 DEF NodeSize, Larger
<1>5. SlidingSize \in Nat \ {0} /\ SlidingPct \in Nat
  BY <1>2, <1>3 DEF SlidingSize, SlidingPct, Larger
<1> QED
  BY <1>1, <1>2, <1>3, <1>4, <1>5

LEMMA NodeFacts ==
    ASSUME file \in Inputs, NEW n \in 1..Len(file.tree)
    PROVE  /\ file.tree[n] \in Node
           /\ file.tree[n].parent \in 0..Len(file.tree)
           /\ file.tree[n].parent < n /\ n \in Nat
           /\ file.tree[n].first \in Nat /\ file.tree[n].last \in Nat
           /\ 1 <= file.tree[n].first
           /\ file.tree[n].first <= file.tree[n].last
           /\ file.tree[n].last <= Len(file.lines)
           /\ file.tree[n].kind \in {"plain", "item", "container"}
           /\ file.tree[n].parent # 0 =>
                 /\ file.tree[file.tree[n].parent].first <= file.tree[n].first
                 /\ file.tree[n].last <= file.tree[file.tree[n].parent].last
<1>1. file.tree \in Seq(Node)
  BY InputsAssumption
<1>2. file.tree[n] \in Node
  BY <1>1, ElementOfSeq
<1>3. /\ file.tree[n].parent < n
      /\ 1 <= file.tree[n].first /\ file.tree[n].first <= file.tree[n].last
      /\ file.tree[n].last <= Len(file.lines)
      /\ file.tree[n].parent # 0 =>
            /\ file.tree[file.tree[n].parent].first <= file.tree[n].first
            /\ file.tree[n].last <= file.tree[file.tree[n].parent].last
  BY InputsAssumption
<1>4. /\ file.tree[n].parent \in Nat
      /\ file.tree[n].first \in Nat /\ file.tree[n].last \in Nat
      /\ file.tree[n].kind \in {"plain", "item", "container"}
  BY <1>2 DEF Node
<1>5. Len(file.tree) \in Nat
  BY <1>1
<1> QED
  BY <1>2, <1>3, <1>4, <1>5

LEMMA SubSeqFacts ==
    ASSUME NEW S, NEW s \in Seq(S), NEW a \in Nat, NEW b \in Nat,
           1 <= a, a <= b + 1, b <= Len(s)
    PROVE  /\ SubSeq(s, a, b) \in Seq(S)
           /\ Len(SubSeq(s, a, b)) = b - a + 1
           /\ \A i \in 1..(b - a + 1) : SubSeq(s, a, b)[i] = s[a + i - 1]
<1>1. \A i \in a..b : s[i] \in S
  BY ElementOfSeq
<1>2. a \in Int /\ b \in Int
  OBVIOUS
<1>3. /\ SubSeq(s, a, b) \in Seq(S)
      /\ Len(SubSeq(s, a, b)) = IF a <= b THEN b - a + 1 ELSE 0
      /\ \A i \in 1..(b - a + 1) : SubSeq(s, a, b)[i] = s[a + i - 1]
  BY <1>1, <1>2, SubSeqProperties
<1> QED
  BY <1>3

LEMMA NodeLinesFacts ==
    ASSUME file \in Inputs, NEW n \in 1..Len(file.tree)
    PROVE  /\ NodeLines(n) \in Seq(Line)
           /\ Len(NodeLines(n)) = file.tree[n].last - file.tree[n].first + 1
           /\ \A i \in 1..Len(NodeLines(n)) :
                 NodeLines(n)[i] = file.lines[file.tree[n].first + i - 1]
<1> DEFINE first == file.tree[n].first
           last  == file.tree[n].last
<1>1. file.lines \in Seq(Line)
  BY InputsAssumption
<1>2. first \in Nat \ {0} /\ last \in Nat /\ first <= last + 1
      /\ last <= Len(file.lines)
  BY NodeFacts
<1> HIDE DEF first, last
<1>3. /\ SubSeq(file.lines, first, last) \in Seq(Line)
      /\ Len(SubSeq(file.lines, first, last)) = last - first + 1
      /\ \A i \in 1..(last - first + 1) :
            SubSeq(file.lines, first, last)[i] = file.lines[first + i - 1]
  BY <1>1, <1>2, SubSeqFacts
<1>4. NodeLines(n) = SubSeq(file.lines, first, last)
  BY DEF NodeLines, first, last
<1> QED
  BY <1>3, <1>4 DEF first, last

-----------------------------------------------------------------------------
(* Windows.                                                                *)

(* Whatever overlap is configured, the next window starts later and not    *)
(* behind the end of this one.                                             *)
LEMMA StepBounds ==
    ASSUME NEW size \in Nat \ {0}, NEW pct \in Nat
    PROVE  /\ Step(size, Overlap(size, pct)) \in 1..size
<1>1. size * pct \in Nat
  OBVIOUS
<1>2. (size * pct) \div 100 \in Nat
  BY <1>1
<1>3. Overlap(size, pct) \in 0..(size - 1)
  BY <1>2 DEF Overlap, Smaller
<1> QED
  BY <1>3 DEF Step, Larger

(* The window loop over a node, and over a whole file.                     *)
LEMMA EmitNodeFacts ==
    ASSUME file \in Inputs, cfg \in Configs, NEW n \in 1..Len(file.tree),
           EmitNode(n)
    PROVE  /\ pc' = "window" /\ win' \in Window
           /\ win'.size > 0 /\ win'.step > 0 /\ win'.step <= win'.size
           /\ win'.node = n /\ win'.at = 0 /\ win'.size <= NodeSize
           /\ win'.base = file.tree[n].first /\ win'.lines = NodeLines(n)
           /\ Len(win'.header) <= HeaderLines /\ FromFile(win'.header)
<1> DEFINE lines == NodeLines(n)
           head == SubSeq(lines, 1, Smaller(HeaderLines, Len(lines)))
           len == Smaller(HeaderLines, Len(lines))
           base == file.tree[n].first
<1>1. /\ lines \in Seq(Line) /\ Len(lines) \in Nat \ {0}
      /\ \A i \in 1..Len(lines) : base + i - 1 \in 1..Len(file.lines)
      /\ \A i \in 1..Len(lines) : lines[i] = file.lines[base + i - 1]
  <2>1. /\ base \in Nat /\ file.tree[n].last \in Nat /\ 1 <= base
        /\ base <= file.tree[n].last /\ file.tree[n].last <= Len(file.lines)
        /\ Len(file.lines) \in Nat
    BY NodeFacts, InputFacts
  <2>2. /\ lines \in Seq(Line) /\ Len(lines) = file.tree[n].last - base + 1
        /\ \A i \in 1..Len(lines) : lines[i] = file.lines[base + i - 1]
    BY NodeLinesFacts
  <2> HIDE DEF lines, base
  <2>3. Len(lines) \in Nat \ {0}
    BY <2>1, <2>2
  <2>4. \A i \in 1..Len(lines) : base + i - 1 \in 1..Len(file.lines)
    BY SMTT(60), <2>1, <2>2
  <2> QED
    BY <2>2, <2>3, <2>4
<1>2. NodeSize \in Nat \ {0} /\ cfg.pct \in Nat /\ HeaderLines \in Nat
      /\ base \in Nat /\ n \in Nat
  BY InputFacts, NodeFacts
<1>3. len \in Nat /\ len <= HeaderLines /\ len <= Len(lines)
  BY <1>1, <1>2 DEF Smaller
<1>4. /\ head \in Seq(Line) /\ Len(head) = len
      /\ \A i \in 1..len : head[i] = lines[i]
  <2>1. /\ SubSeq(lines, 1, len) \in Seq(Line)
        /\ Len(SubSeq(lines, 1, len)) = len - 1 + 1
        /\ \A i \in 1..(len - 1 + 1) :
              SubSeq(lines, 1, len)[i] = lines[1 + i - 1]
    BY <1>1, <1>3, SubSeqFacts
  <2>2. len - 1 + 1 = len /\ \A i \in 1..len : 1 + i - 1 = i
    BY <1>3
  <2> QED
    BY <2>1, <2>2
<1>5. FromFile(head)
  <2>1. ASSUME NEW j \in 1..Len(head)
        PROVE  \E k \in 1..Len(file.lines) : head[j] = file.lines[k]
    <3>1. j \in 1..len /\ j \in 1..Len(lines)
      BY <1>1, <1>3, <1>4
    <3>2. head[j] = file.lines[base + j - 1]
          /\ base + j - 1 \in 1..Len(file.lines)
      BY <1>1, <1>4, <3>1
    <3> QED
      BY <3>2
  <2> QED
    BY <2>1 DEF FromFile
<1>6. <<>> \in Seq(Line) /\ Len(<<>>) = 0 /\ FromFile(<<>>)
  BY DEF FromFile
<1>7. pc' = "window" /\ win' = IF Len(lines) <= NodeSize
                  THEN Windows(n, base, lines, Len(lines), 0, <<>>)
                  ELSE Windows(n, base, lines, NodeSize, cfg.pct, head)
  BY DEF EmitNode, Goto
<1> HIDE DEF lines, head, base, len
<1>8. CASE Len(lines) <= NodeSize
  <2> DEFINE w == Windows(n, base, lines, Len(lines), 0, <<>>)
  <2>1. win' = w
    BY <1>7, <1>8
  <2>2. /\ w \in Window /\ w.size > 0 /\ w.step > 0 /\ w.step <= w.size
        /\ w.node = n /\ w.base = base /\ w.size = Len(lines) /\ w.at = 0
        /\ w.header = <<>> /\ w.lines = lines
    <3>1. PICK node \in Nat, first \in Nat, size \in Nat \ {0} :
             node = n /\ first = base /\ size = Len(lines)
      BY <1>1, <1>2
    <3> DEFINE v == Windows(node, first, lines, size, 0, <<>>)
    <3>2. /\ v \in Window /\ v.size > 0 /\ v.step > 0 /\ v.step <= v.size
          /\ v.node = node /\ v.base = first /\ v.size = size /\ v.at = 0
          /\ v.header = <<>> /\ v.lines = lines
      <4>1. Step(size, Overlap(size, 0)) \in 1..size
        BY StepBounds
      <4> QED
        BY <1>1, <1>6, <4>1 DEF Windows, Window
    <3>3. v = w
      BY <3>1
    <3> HIDE DEF v, w
    <3> QED
      BY <3>1, <3>2, <3>3
  <2> HIDE DEF w
  <2> QED
    BY <1>2, <1>6, <1>7, <1>8, <2>1, <2>2 DEF lines, base
<1>9. CASE ~(Len(lines) <= NodeSize)
  <2> DEFINE w == Windows(n, base, lines, NodeSize, cfg.pct, head)
  <2>1. win' = w
    BY <1>7, <1>9
  <2>2. /\ w \in Window /\ w.size > 0 /\ w.step > 0 /\ w.step <= w.size
        /\ w.node = n /\ w.base = base /\ w.size = NodeSize /\ w.at = 0
        /\ w.header = head /\ w.lines = lines
    <3>1. PICK node \in Nat, first \in Nat, size \in Nat \ {0}, pct \in Nat :
             node = n /\ first = base /\ size = NodeSize /\ pct = cfg.pct
      BY <1>1, <1>2
    <3> DEFINE v == Windows(node, first, lines, size, pct, head)
    <3>2. /\ v \in Window /\ v.size > 0 /\ v.step > 0 /\ v.step <= v.size
          /\ v.node = node /\ v.base = first /\ v.size = size /\ v.at = 0
          /\ v.header = head /\ v.lines = lines
      <4>1. Step(size, Overlap(size, pct)) \in 1..size
        BY StepBounds
      <4> QED
        BY <1>1, <1>4, <4>1 DEF Windows, Window
    <3>3. v = w
      BY <3>1
    <3> HIDE DEF v, w
    <3> QED
      BY <3>1, <3>2, <3>3
  <2> HIDE DEF w
  <2> QED
    BY <1>2, <1>3, <1>4, <1>5, <1>7, <2>1, <2>2 DEF lines, base
<1> QED
  BY <1>8, <1>9

LEMMA SlideFacts ==
    ASSUME file \in Inputs, cfg \in Configs, SlideOver
    PROVE  /\ pc' = "window" /\ win' \in Window
           /\ win'.size > 0 /\ win'.step > 0 /\ win'.step <= win'.size
           /\ win'.node = 0 /\ win'.at = 0 /\ win'.size = SlidingSize
           /\ win'.base = 1 /\ win'.lines = file.lines /\ win'.header = <<>>
<1> DEFINE w == Windows(0, 1, file.lines, SlidingSize, SlidingPct, <<>>)
<1>1. win' = w /\ pc' = "window"
  BY DEF SlideOver, Goto
<1>2. /\ file.lines \in Seq(Line) /\ SlidingSize \in Nat \ {0}
      /\ SlidingPct \in Nat /\ <<>> \in Seq(Line) /\ 0 \in Nat /\ 1 \in Nat
  BY InputFacts
<1>3. /\ w \in Window /\ w.size > 0 /\ w.step > 0 /\ w.step <= w.size
      /\ w.node = 0 /\ w.base = 1 /\ w.size = SlidingSize
      /\ w.at = 0 /\ w.header = <<>> /\ w.lines = file.lines
  <2>1. PICK size \in Nat \ {0}, pct \in Nat :
           size = SlidingSize /\ pct = SlidingPct
    BY <1>2
  <2> DEFINE v == Windows(0, 1, file.lines, size, pct, <<>>)
  <2>2. /\ v \in Window /\ v.size > 0 /\ v.step > 0 /\ v.step <= v.size
        /\ v.node = 0 /\ v.base = 1 /\ v.size = size
        /\ v.at = 0 /\ v.header = <<>> /\ v.lines = file.lines
    <3>1. Step(size, Overlap(size, pct)) \in 1..size
      BY StepBounds
    <3> QED
      BY <1>2, <3>1 DEF Windows, Window
  <2>3. v = w
    BY <2>1
  <2> HIDE DEF v, w
  <2> QED
    BY <2>1, <2>2, <2>3
<1> HIDE DEF w
<1> QED
  BY <1>1, <1>3

-----------------------------------------------------------------------------
(* A chunk is made of the next window.                                     *)

(* The file and its configuration stay, and so does all that is said of    *)
(* given chunks by their means.                                            *)
LEMMA InputStays ==
    ASSUME UNCHANGED input, NEW s
    PROVE  /\ file' = file /\ cfg' = cfg
           /\ AllOK(s)' <=> AllOK(s)
           /\ NodeSize' = NodeSize /\ SlidingSize' = SlidingSize
           /\ Symbols' = Symbols /\ Owed' = Owed
           /\ Parsed' <=> Parsed
<1>1. file' = file /\ cfg' = cfg
  BY DEF input
<1>2. NodeSize' = NodeSize /\ SlidingSize' = SlidingSize
  BY <1>1 DEF NodeSize, SlidingSize
<1>3. Symbols' = Symbols /\ (Parsed' <=> Parsed)
  BY <1>1 DEF Symbols, Parsed
<1>4. AllOK(s)' <=> AllOK(s)
  BY <1>1, <1>2 DEF AllOK, ChunkOK, LimitOf, FromFile
<1>5. Owed' = Owed
  BY <1>1, <1>3 DEF Owed, Bare, Within
<1> QED
  BY <1>1, <1>2, <1>3, <1>4, <1>5

LEMMA WindowFields ==
    ASSUME TypeInv
    PROVE  /\ win.node \in Nat /\ win.base \in Nat /\ win.at \in Nat
           /\ win.size \in Nat \ {0} /\ win.step \in Nat \ {0}
           /\ win.header \in Seq(Line) /\ win.lines \in Seq(Line)
           /\ Len(win.header) \in Nat /\ Len(win.lines) \in Nat
BY DEF TypeInv, Window

(* body are the lines first to last of all; content is the text head       *)
(* followed by these lines.                                                *)
Cut(body, all, first, last) ==
    /\ Len(body) = last - first + 1
    /\ \A i \in 1..Len(body) : body[i] = all[first + i - 1]
Heads(content, head, all, first, last) ==
    /\ content \in Seq(Line)
    /\ Len(content) - (last - first + 1) = Len(head)
    /\ SubSeq(content, Len(head) + 1, Len(content)) = SubSeq(all, first, last)
    /\ \A j \in 1..Len(content) :
          \/ \E i \in 1..Len(head) : content[j] = head[i]
          \/ \E i \in first..last : content[j] = all[i]

(* The content of a window ends with the lines of the file it names.       *)
LEMMA ContentEnds ==
    ASSUME NEW header \in Seq(Line), NEW body \in Seq(Line),
           NEW all \in Seq(Line), NEW first \in Nat, NEW last \in Nat,
           1 <= first, first <= last, last <= Len(all),
           Cut(body, all, first, last)
    PROVE  Heads(header \o body, header, all, first, last)
<1> USE DEF Cut
<1> DEFINE content == header \o body
<1>1. PICK h \in Nat, m \in Nat : h = Len(header) /\ m = Len(body)
  <2>1. Len(header) \in Nat /\ Len(body) \in Nat
    BY LenProperties
  <2> QED
    BY <2>1
<1>2. /\ content \in Seq(Line) /\ Len(content) = h + m
      /\ \A i \in 1..(h + m) :
            content[i] = IF i <= h THEN header[i] ELSE body[i - h]
  BY ZenonT(60), <1>1, ConcatProperties
<1> HIDE DEF content
<1> DEFINE t == SubSeq(content, h + 1, h + m)
           u == SubSeq(all, first, last)
<1>3. /\ t \in Seq(Line) /\ Len(t) = m
      /\ \A i \in 1..m : t[i] = content[h + i]
  <2>1. /\ SubSeq(content, h + 1, h + m) \in Seq(Line)
        /\ Len(SubSeq(content, h + 1, h + m)) = h + m - (h + 1) + 1
        /\ \A i \in 1..(h + m - (h + 1) + 1) :
              SubSeq(content, h + 1, h + m)[i] = content[h + 1 + i - 1]
    BY <1>2, SubSeqFacts
  <2>2. h + m - (h + 1) + 1 = m /\ \A i \in 1..m : h + 1 + i - 1 = h + i
    OBVIOUS
  <2> QED
    BY <2>1, <2>2
<1>4. /\ u \in Seq(Line) /\ Len(u) = last - first + 1
      /\ \A i \in 1..(last - first + 1) : u[i] = all[first + i - 1]
  BY SubSeqFacts
<1> HIDE DEF t, u
<1>5. \A i \in 1..m : content[h + i] = body[i]
  <2>1. ASSUME NEW i \in 1..m
        PROVE  content[h + i] = body[i]
    <3>1. h + i \in 1..(h + m) /\ ~(h + i <= h) /\ h + i - h = i
      OBVIOUS
    <3>2. content[h + i] = IF h + i <= h THEN header[h + i] ELSE body[h + i - h]
      BY <1>2, <3>1
    <3> QED
      BY <3>1, <3>2
  <2> QED
    BY <2>1
<1>6. t = u
  <2>1. \A i \in 1..Len(t) : t[i] = u[i]
    BY <1>1, <1>3, <1>4, <1>5
  <2> QED
    BY <1>1, <1>3, <1>4, <2>1, SeqEqual
<1>7. ASSUME NEW j \in 1..(h + m)
      PROVE  \/ \E i \in 1..h : content[j] = header[i]
             \/ \E i \in first..last : content[j] = all[i]
  <2>1. CASE j <= h
    <3>1. content[j] = header[j] /\ j \in 1..h
      BY <1>2, <2>1
    <3> QED
      BY <3>1
  <2>2. CASE ~(j <= h)
    <3>1. PICK i \in 1..m : i = j - h
      BY <2>2
    <3>2. first + i - 1 \in first..last
      BY <1>1
    <3>3. content[j] = body[i] /\ body[i] = all[first + i - 1]
      BY <1>1, <1>2, <2>2, <3>1
    <3> QED
      BY <3>2, <3>3
  <2> QED
    BY <2>1, <2>2
<1>8. Len(content) - (last - first + 1) = h
  BY <1>1, <1>2
<1> QED
  BY <1>1, <1>2, <1>6, <1>7, <1>8 DEF Heads, content, t, u

LEMMA EmittedChunk ==
    ASSUME TypeInv, WindowInv, EmitWindow
    PROVE  \E c \in ChunkRecord :
              /\ chunks' = Append(chunks, c)
              /\ ChunkOK(c) /\ FromFile(c.content)
              /\ c.node = win.node /\ c.first = win.base + win.at
              /\ \/ /\ pc' = "windowed" /\ win' = win
                    /\ c.last = win.base + Len(win.lines) - 1
                    /\ c.last < c.first + win.size
                 \/ /\ pc' = pc /\ win' = [win EXCEPT !.at = win.at + win.step]
                    /\ c.last = c.first + win.size - 1
                    /\ c.last < win.base + Len(win.lines) - 1
<1>1. PICK at \in Nat, len \in Nat, size \in Nat, base \in Nat,
           n \in Nat, max \in Nat :
         /\ at = win.at /\ len = Len(win.lines) /\ size = win.size
         /\ base = win.base /\ n = Len(file.lines) /\ max = HeaderLines
         /\ 1 <= size /\ 1 <= base
  <2>1. /\ win.at \in Nat /\ Len(win.lines) \in Nat /\ win.size \in Nat
        /\ win.base \in Nat /\ Len(file.lines) \in Nat /\ HeaderLines \in Nat
        /\ 1 <= win.size /\ 1 <= win.base
    BY WindowFields, InputFacts DEF TypeInv, WindowInv
  <2> QED
    BY <2>1
<1>2. /\ win.lines \in Seq(Line) /\ win.header \in Seq(Line)
      /\ win.node \in Nat /\ file.lines \in Seq(Line)
  BY WindowFields, InputFacts DEF TypeInv
<1>3. /\ base + len <= n + 1 /\ at < len
      /\ win.lines = SubSeq(file.lines, base, base + len - 1)
  BY <1>1 DEF WindowInv, EmitWindow
<1>4. PICK end \in Nat : end = WindowEnd(at, size, len)
  BY DEF WindowEnd, Smaller
<1>5. /\ at < end /\ end <= len /\ end <= at + size
      /\ end # len => end = at + size /\ end < len
  <2>1. at < len /\ 1 <= size
    BY <1>1, <1>3
  <2>2. end = IF at + size < len THEN at + size ELSE len
    BY <1>4 DEF WindowEnd, Smaller
  <2> QED
    BY ONLY <2>1, <2>2, at \in Nat, len \in Nat, size \in Nat, end \in Nat
<1> DEFINE body == SubSeq(win.lines, at + 1, end)
           content == IF at > 0 THEN win.header \o body ELSE body
           c == Chunk(win.node, content, base + at, base + end - 1)
<1>6. /\ chunks' = Append(chunks, c)
      /\ \/ end = len /\ pc' = "windowed" /\ win' = win
         \/ /\ end # len /\ pc' = pc
            /\ win' = [win EXCEPT !.at = win.at + win.step]
  BY <1>1, <1>4 DEF EmitWindow, Goto
<1>7. PICK first \in Nat, last \in Nat :
         first = base + at /\ last = base + end - 1 /\ 1 <= first
  BY <1>1, <1>5
<1>8. /\ first <= last /\ last <= n /\ last - first + 1 = end - at
      /\ last - first < size /\ last < first + size
      /\ end # len => last = first + size - 1
  BY <1>3, <1>5, <1>7
<1>9. /\ body \in Seq(Line) /\ Len(body) = end - at
      /\ \A i \in 1..(end - at) : body[i] = file.lines[first + i - 1]
  <2>1. /\ SubSeq(win.lines, at + 1, end) \in Seq(Line)
        /\ Len(SubSeq(win.lines, at + 1, end)) = end - (at + 1) + 1
        /\ \A i \in 1..(end - (at + 1) + 1) :
              SubSeq(win.lines, at + 1, end)[i] = win.lines[at + 1 + i - 1]
    <3>1. 1 <= at + 1 /\ at + 1 <= end + 1 /\ end <= Len(win.lines)
      BY <1>1, <1>5
    <3> QED
      BY <1>2, <3>1, SubSeqFacts
  <2>2. \A i \in 1..len : win.lines[i] = file.lines[base + i - 1]
    <3>1. PICK b \in Nat : b = base + len - 1
      BY <1>1
    <3>2. base <= b + 1 /\ b <= Len(file.lines) /\ b - base + 1 = len
      <4>1. base + len <= n + 1
        BY <1>3
      <4>2. base <= b + 1 /\ b <= n /\ b - base + 1 = len
        BY ONLY <3>1, <4>1, base \in Nat, len \in Nat, n \in Nat, b \in Nat
      <4> QED
        BY <1>1, <4>2
    <3>3. \A i \in 1..(b - base + 1) :
             SubSeq(file.lines, base, b)[i] = file.lines[base + i - 1]
      BY <1>2, <3>2, SubSeqFacts
    <3> QED
      BY <1>3, <3>1, <3>2, <3>3
  <2>3. end - (at + 1) + 1 = end - at
    OBVIOUS
  <2>4. ASSUME NEW i \in 1..(end - at)
        PROVE  body[i] = file.lines[first + i - 1]
    <3>1. /\ at + i \in 1..len /\ at + 1 + i - 1 = at + i
          /\ base + (at + i) - 1 = first + i - 1
      BY <1>5, <1>7
    <3>2. win.lines[at + i] = file.lines[base + (at + i) - 1]
      BY <2>2, <3>1
    <3>3. body[i] = win.lines[at + i]
      BY <2>1, <2>3, <3>1
    <3> QED
      BY <3>1, <3>2, <3>3
  <2> HIDE DEF body
  <2> QED
    BY <2>1, <2>3, <2>4 DEF body
<1> HIDE DEF body
<1>10. PICK head \in Seq(Line) :
         /\ content = head \o body
         /\ Len(head) <= max /\ FromFile(head)
         /\ Len(head) > 0 => win.node # 0
  <2>1. CASE at > 0
    <3>1. content = win.header \o body
      BY <2>1
    <3>2. /\ win.node = 0 => Len(win.header) = 0
          /\ Len(win.header) <= max /\ FromFile(win.header)
      BY <1>1 DEF WindowInv
    <3>3. Len(win.header) > 0 => win.node # 0
      BY <1>2, <3>2
    <3> QED
      BY <1>2, <3>1, <3>2, <3>3
  <2>2. CASE ~(at > 0)
    <3>1. content = body
      BY <2>2
    <3>2. \E none \in Seq(Line) : none = <<>>
      BY EmptySeq
    <3>3. PICK none \in Seq(Line) : none = <<>>
      BY <3>2
    <3>4. body = none \o body
      BY <1>9, <3>3, ConcatEmptySeq
    <3>5. Len(none) = 0 /\ FromFile(none)
      BY <3>3 DEF FromFile
    <3> HIDE DEF content
    <3>6. /\ content = none \o body /\ Len(none) <= max
          /\ Len(none) > 0 => win.node # 0
      BY <3>1, <3>4, <3>5
    <3> QED
      BY <3>5, <3>6
  <2> QED
    BY <2>1, <2>2
<1> HIDE DEF content
<1>11. /\ content \in Seq(Line)
       /\ Len(content) - (last - first + 1) = Len(head)
       /\ SubSeq(content, Len(head) + 1, Len(content))
             = SubSeq(file.lines, first, last)
       /\ \A j \in 1..Len(content) :
             \/ \E i \in 1..Len(head) : content[j] = head[i]
             \/ \E i \in first..last : content[j] = file.lines[i]
  <2>1. last <= Len(file.lines) /\ Cut(body, file.lines, first, last)
    BY <1>1, <1>8, <1>9 DEF Cut
  <2>2. 1 <= first /\ first <= last
    BY <1>7, <1>8
  <2>3. body \in Seq(Line) /\ file.lines \in Seq(Line)
    BY <1>2, <1>9
  <2>4. Heads(head \o body, head, file.lines, first, last)
    BY <2>1, <2>2, <2>3, ContentEnds
  <2> QED
    BY <1>10, <2>4 DEF Heads
<1>12. /\ c \in ChunkRecord /\ c.node = win.node /\ c.first = first
       /\ c.last = last /\ c.content = content
  BY <1>2, <1>7, <1>11 DEF Chunk, ChunkRecord, Ids
<1> HIDE DEF c
<1>13. FromFile(c.content)
  <2>1. ASSUME NEW j \in 1..Len(content)
        PROVE  \E k \in 1..Len(file.lines) : content[j] = file.lines[k]
    <3>1. CASE \E i \in 1..Len(head) : content[j] = head[i]
      BY <1>10, <3>1 DEF FromFile
    <3>2. CASE \E i \in first..last : content[j] = file.lines[i]
      <4>1. \A i \in first..last : i \in 1..n
        BY <1>7, <1>8
      <4> QED
        BY <1>1, <3>2, <4>1
    <3> QED
      BY <1>11, <3>1, <3>2
  <2> QED
    BY <1>12, <2>1 DEF FromFile
<1>14. ChunkOK(c)
  <2>1. win.size <= LimitOf(c)
    BY <1>12 DEF WindowInv, LimitOf
  <2>2. PICK limit \in Nat : limit = LimitOf(c)
    BY InputFacts DEF LimitOf, TypeInv
  <2>3. last - first < limit
    BY <1>1, <1>8, <2>1, <2>2
  <2>4. Len(head) \in 0..HeaderLines
    BY <1>1, <1>10
  <2>5. Len(content) - (last - first + 1) = Len(head)
    BY <1>11
  <2>6. /\ 1 <= c.first /\ c.first <= c.last /\ c.last <= Len(file.lines)
        /\ c.last - c.first < LimitOf(c)
        /\ Len(c.content) - (c.last - c.first + 1) = Len(head)
        /\ SubSeq(c.content, Len(head) + 1, Len(c.content))
              = SubSeq(file.lines, c.first, c.last)
        /\ Len(head) > 0 => c.node # 0
    BY <1>1, <1>7, <1>8, <1>10, <1>11, <1>12, <2>2, <2>3
  <2> QED
    BY <2>4, <2>6 DEF ChunkOK
<1>15. \/ /\ pc' = "windowed" /\ win' = win
          /\ c.last = win.base + Len(win.lines) - 1
          /\ c.last < c.first + win.size
       \/ /\ pc' = pc /\ win' = [win EXCEPT !.at = win.at + win.step]
          /\ c.last = c.first + win.size - 1
          /\ c.last < win.base + Len(win.lines) - 1
  <2>1. CASE end = len
    BY <1>1, <1>6, <1>7, <1>8, <1>12, <2>1
  <2>2. CASE end # len
    <3>1. last = first + size - 1 /\ last < base + len - 1
      BY <1>5, <1>7, <1>8, <2>2
    <3> QED
      BY <1>1, <1>6, <1>12, <2>2, <3>1
  <2> QED
    BY <2>1, <2>2
<1> QED
  BY <1>1, <1>6, <1>7, <1>12, <1>13, <1>14, <1>15

-----------------------------------------------------------------------------
(* Types.                                                                  *)
LEMMA StackFields ==
    ASSUME TypeInv
    PROVE  /\ stack \in Seq(FrameRecord) /\ Len(stack) \in Nat
           /\ stack # <<>> <=> Len(stack) > 0
           /\ \A i \in 1..Len(stack) :
                 /\ stack[i] \in FrameRecord
                 /\ stack[i].node \in 0..Len(file.tree)
                 /\ stack[i].before \in Nat
                 /\ stack[i].todo \subseteq 1..Len(file.tree)
<1>1. stack \in Seq(FrameRecord)
  BY DEF TypeInv, FrameRecord
<1>2. \A i \in 1..Len(stack) : stack[i] \in FrameRecord
  BY <1>1, ElementOfSeq
<1>3. \A i \in 1..Len(stack) : /\ stack[i].node \in 0..Len(file.tree)
                               /\ stack[i].before \in Nat
                               /\ stack[i].todo \subseteq 1..Len(file.tree)
  BY <1>2 DEF FrameRecord
<1>4. Len(stack) \in Nat /\ (stack # <<>> <=> Len(stack) > 0)
  BY <1>1, EmptySeq, LenProperties
<1> QED
  BY <1>1, <1>2, <1>3, <1>4

LEMMA ChunksFields ==
    ASSUME TypeInv
    PROVE  /\ chunks \in Seq(ChunkRecord) /\ Len(chunks) \in Nat
           /\ chunks # <<>> <=> Len(chunks) > 0
           /\ \A k \in 1..Len(chunks) :
                 /\ chunks[k] \in ChunkRecord /\ chunks[k].node \in Nat
                 /\ chunks[k].first \in Nat /\ chunks[k].last \in Nat
<1>1. chunks \in Seq(ChunkRecord)
  BY DEF TypeInv, ChunkRecord
<1>2. Len(chunks) \in Nat /\ (chunks # <<>> <=> Len(chunks) > 0)
  BY <1>1, EmptySeq, LenProperties
<1> QED
  BY <1>1, <1>2, ChunkFields

(* The frames under the top, and the top itself.                           *)
LEMMA PoppedFacts ==
    ASSUME TypeInv, stack # <<>>
    PROVE  /\ Popped \in Seq(FrameRecord) /\ Len(Popped) = Len(stack) - 1
           /\ \A i \in 1..(Len(stack) - 1) : Popped[i] = stack[i]
           /\ Top \in FrameRecord /\ Top = stack[Len(stack)]
           /\ Top.node \in 0..Len(file.tree)
           /\ Top.todo \in SUBSET (1..Len(file.tree)) /\ Top.before \in Nat
<1>1. PICK n \in Nat : n = Len(stack) /\ n >= 1
  BY StackFields
<1>2. /\ SubSeq(stack, 1, n - 1) \in Seq(FrameRecord)
      /\ Len(SubSeq(stack, 1, n - 1)) = n - 1
      /\ \A i \in 1..(n - 1) : SubSeq(stack, 1, n - 1)[i] = stack[i]
  <2>1. PICK m \in Nat : m = n - 1
    BY <1>1
  <2>2. /\ 1 <= m + 1 /\ m <= Len(stack) /\ stack \in Seq(FrameRecord)
        /\ m - 1 + 1 = m /\ \A i \in 1..m : 1 + i - 1 = i
    BY <1>1, <2>1, StackFields
  <2>3. /\ SubSeq(stack, 1, m) \in Seq(FrameRecord)
        /\ Len(SubSeq(stack, 1, m)) = m - 1 + 1
        /\ \A i \in 1..(m - 1 + 1) : SubSeq(stack, 1, m)[i] = stack[1 + i - 1]
    BY <2>2, SubSeqFacts
  <2> QED
    BY <2>1, <2>2, <2>3
<1>3. Top \in FrameRecord /\ Top = stack[Len(stack)]
  BY <1>1, StackFields DEF Top
<1> QED
  BY <1>1, <1>2, <1>3 DEF Popped, FrameRecord

LEMMA FrameTyped ==
    ASSUME TypeInv, NEW n \in 0..Len(file.tree)
    PROVE  Frame(n) \in FrameRecord
BY ChunksFields DEF Frame, FrameRecord, Children

LEMMA NoWindowTyped ==
    NoWindow \in Window /\ NoWindow.size > 0 /\ NoWindow.step > 0
BY DEF NoWindow, Window

(* A step that writes only pc.                                             *)
LEMMA QuietTyped ==
    ASSUME TypeInv, pc' \in Steps,
           UNCHANGED <<input, stack, win, chunks, safe, next>>
    PROVE  TypeInv'
BY DEF TypeInv, input

LEMMA WalkTyped ==
    ASSUME TypeInv, ParseTree \/ Slide \/ Descend \/ Ascend \/ EndTree
    PROVE  TypeInv'
<1> USE DEF At, Goto
<1>1. /\ file \in Inputs /\ cfg \in Configs /\ file' = file /\ cfg' = cfg
      /\ safe' = safe /\ next' = next
  BY DEF TypeInv, input, ParseTree, Slide, Descend, Ascend, EndTree
<1>2. SUFFICES /\ pc' \in Steps
               /\ win' \in Window /\ win'.size > 0 /\ win'.step > 0
               /\ chunks' \in Seq(ChunkRecord) /\ stack' \in Seq(FrameRecord)
  <2>1. FrameRecord' = FrameRecord
    BY <1>1 DEF FrameRecord
  <2>2. next' \in Nat \ {0} /\ safe' \subseteq 1..(next' - 1)
    BY <1>1 DEF TypeInv
  <2> QED
    BY <1>1, <1>2, <2>1, <2>2 DEF TypeInv, FrameRecord, ChunkRecord
<1>3. /\ win \in Window /\ win.size > 0 /\ win.step > 0
      /\ pc \in Steps /\ chunks \in Seq(ChunkRecord)
      /\ Len(file.tree) \in Nat
  BY ChunksFields, InputFacts DEF TypeInv
<1>4. CASE ParseTree
  <2>1. pc' = "tree" /\ win' = win /\ chunks' = chunks /\ stack' = <<Frame(0)>>
    BY <1>4 DEF ParseTree
  <2>2. Frame(0) \in FrameRecord
    BY <1>3, FrameTyped
  <2>3. <<Frame(0)>> \in Seq(FrameRecord)
    BY <2>2
  <2> QED
    BY <1>3, <2>1, <2>3 DEF Steps
<1>5. CASE Slide
  <2>1. SlideOver /\ chunks' = chunks /\ stack' = stack
    BY <1>5 DEF Slide
  <2> QED
    BY <1>1, <1>3, <2>1, SlideFacts, StackFields DEF Steps
<1>6. CASE Descend
  <2>1. stack # <<>> /\ Top.todo # {} /\ chunks' = chunks
    BY <1>6 DEF Descend
  <2> DEFINE child == LeastOf(Top.todo)
             rest  == Append(Popped, [Top EXCEPT !.todo = @ \ {child}])
  <2>2. child \in 1..Len(file.tree)
    <3>1. Top.todo \in SUBSET (1..Len(file.tree))
      BY <2>1, PoppedFacts
    <3>2. Top.todo \in SUBSET Nat
      BY <3>1
    <3> QED
      BY <2>1, <3>1, <3>2, LeastIsIn
  <2>3. rest \in Seq(FrameRecord)
    <3>1. [Top EXCEPT !.todo = @ \ {child}] \in FrameRecord
      BY <2>1, PoppedFacts DEF FrameRecord
    <3> QED
      BY <2>1, <3>1, PoppedFacts
  <2>4. \/ stack' = rest /\ EmitNode(child)
        \/ stack' = Append(rest, Frame(child)) /\ UNCHANGED <<win, pc>>
    BY <1>6 DEF Descend
  <2> HIDE DEF rest, child
  <2>5. Frame(child) \in FrameRecord
    BY <1>3, <2>2, FrameTyped
  <2>6. Append(rest, Frame(child)) \in Seq(FrameRecord)
    BY <2>3, <2>5
  <2> QED
    BY <1>1, <1>3, <2>1, <2>2, <2>3, <2>4, <2>6, EmitNodeFacts DEF Steps
<1>7. CASE Ascend
  <2>1. stack # <<>> /\ stack' = Popped /\ chunks' = chunks
    BY <1>7 DEF Ascend
  <2>2. CASE EmptyContainer(Top) /\ EmitNode(Top.node)
    <3>1. Top.node \in 1..Len(file.tree)
      BY <1>3, <2>1, <2>2, PoppedFacts DEF EmptyContainer
    <3> QED
      BY <1>1, <1>3, <2>1, <2>2, <3>1, PoppedFacts, EmitNodeFacts DEF Steps
  <2>3. CASE UNCHANGED <<win, pc>>
    BY <1>3, <2>1, <2>3, PoppedFacts
  <2> QED
    BY <1>7, <2>2, <2>3 DEF Ascend
<1>8. CASE EndTree
  <2>1. stack' = <<>>
    BY <1>8 DEF EndTree
  <2>2. <<>> \in Seq(FrameRecord)
    BY EmptySeq
  <2>3. CASE SlideOver /\ UNCHANGED chunks
    BY <1>1, <1>3, <2>1, <2>2, <2>3, SlideFacts DEF Steps
  <2>4. CASE chunks' = Sorted(chunks) /\ Goto("ids") /\ UNCHANGED win
    BY <1>3, <2>1, <2>2, <2>4, SortedKeeps DEF Steps
  <2> QED
    BY <1>8, <2>3, <2>4 DEF EndTree
<1> QED
  BY <1>4, <1>5, <1>6, <1>7, <1>8

LEMMA WindowTyped ==
    ASSUME TypeInv, \/ pc = "window" /\ WindowInv /\ EmitWindow
                    \/ WindowsOver \/ EndWindows
    PROVE  TypeInv'
<1> USE DEF At, Goto
<1>1. CASE WindowsOver
  BY <1>1, QuietTyped DEF WindowsOver, Steps
<1>2. CASE EndWindows
  <2>1. NoWindow \in Window /\ NoWindow.size > 0 /\ NoWindow.step > 0
    BY NoWindowTyped
  <2> QED
    BY <1>2, <2>1 DEF EndWindows, TypeInv, Steps, input
<1>3. CASE WindowInv /\ EmitWindow
  <2>1. PICK c \in ChunkRecord :
           /\ chunks' = Append(chunks, c)
           /\ \/ pc' = "windowed" /\ win' = win
              \/ pc' = pc /\ win' = [win EXCEPT !.at = win.at + win.step]
    BY <1>3, EmittedChunk
  <2>2. chunks' \in Seq(ChunkRecord)
    BY <2>1, ChunksFields
  <2>3. win' \in Window /\ win'.size > 0 /\ win'.step > 0
    <3>1. win \in Window /\ win.size > 0 /\ win.step > 0
      BY DEF TypeInv
    <3>2. win.at + win.step \in Nat
      BY WindowFields
    <3>3. [win EXCEPT !.at = win.at + win.step] \in Window
      BY <3>1, <3>2 DEF Window
    <3> QED
      BY <2>1, <3>1, <3>3 DEF Window
  <2>4. pc' \in Steps
    BY <2>1 DEF TypeInv, Steps
  <2>5. UNCHANGED <<file, cfg, stack, safe, next>>
    BY <1>3 DEF EmitWindow, input
  <2> QED
    BY <2>2, <2>3, <2>4, <2>5 DEF TypeInv, ChunkRecord
<1> QED
  BY <1>1, <1>2, <1>3

(* The ids are the only thing that changes.                                *)
LEMMA IdsAssigned ==
    ASSUME TypeInv, AllOK(chunks), AssignIds
    PROVE  /\ chunks' \in Seq(ChunkRecord) /\ Len(chunks') = Len(chunks)
           /\ \A k \in 1..Len(chunks) :
                 /\ chunks'[k].node = chunks[k].node
                 /\ chunks'[k].first = chunks[k].first
                 /\ chunks'[k].last = chunks[k].last
                 /\ chunks'[k].content = chunks[k].content
<1>1. chunks' = [k \in 1..Len(chunks) |-> [chunks[k] EXCEPT !.id = Id(k)]]
  BY DEF AssignIds
<1>2. Len(chunks) \in Nat /\ \A k \in 1..Len(chunks) : chunks[k] \in ChunkRecord
  BY ChunksFields
<1>3. ASSUME NEW k \in 1..Len(chunks)
      PROVE  Id(k) \in Ids
  <2>1. chunks[k].content \in Seq(Line) /\ chunks[k].node \in Nat
    BY <1>2 DEF ChunkRecord
  <2>2. CASE NameOf(chunks[k].node) # None
    <3>1. PICK n \in Nat : n = NameOf(chunks[k].node)
      <4>1. CASE chunks[k].node \in 1..Len(file.tree)
        <5>1. file.tree[chunks[k].node] \in Node
          BY <4>1, NodeFacts DEF TypeInv
        <5> QED
          BY <5>1 DEF Node, NameOf, None
      <4>2. CASE chunks[k].node = 0
        BY <4>2 DEF NameOf, None
      <4>3. chunks[k].node \in 0..Len(file.tree)
        BY DEF AllOK
      <4>4. Len(file.tree) \in Nat
        BY InputFacts DEF TypeInv
      <4> QED
        BY <4>1, <4>2, <4>3, <4>4
    <3> QED
      BY <2>1, <2>2, <3>1 DEF Id, Ids
  <2>3. CASE NameOf(chunks[k].node) = None
    <3>1. k - 1 \in Nat
      BY <1>2
    <3> QED
      BY <2>1, <2>3, <3>1 DEF Id, Ids
  <2> QED
    BY <2>2, <2>3
<1>4. \A k \in 1..Len(chunks) : [chunks[k] EXCEPT !.id = Id(k)] \in ChunkRecord
  BY <1>2, <1>3 DEF ChunkRecord
<1> QED
  BY <1>1, <1>2, <1>4 DEF ChunkRecord

LEMMA TypeStep ==
    ASSUME TypeInv, AllOK(chunks), pc = "window" => WindowInv,
           next <= Len(chunks) + 1, [Next]_vars
    PROVE  TypeInv'
<1> USE DEF At, Goto
<1>1. CASE Discover \/ WalkFails \/ Filter \/ Read
  BY <1>1, QuietTyped DEF Discover, WalkFails, Filter, Read, Steps
<1>2. CASE ParseTree \/ Slide \/ Descend \/ Ascend \/ EndTree
  BY <1>2, WalkTyped
<1>3. CASE EmitWindow
  BY <1>3, WindowTyped DEF EmitWindow
<1>4. CASE WindowsOver \/ EndWindows
  BY <1>4, WindowTyped
<1>5. CASE AssignIds
  <2>1. chunks' \in Seq(ChunkRecord)
    BY <1>5, IdsAssigned
  <2> QED
    BY <1>5, <2>1 DEF AssignIds, TypeInv, ChunkRecord, Steps, input
<1>6. CASE GateChunk
  <2>1. next' = next + 1 /\ safe' \subseteq safe \cup {next}
    BY <1>6 DEF GateChunk
  <2>2. next' \in Nat \ {0} /\ safe' \subseteq 1..(next' - 1)
    BY <2>1 DEF TypeInv
  <2> QED
    BY <1>6, <2>2 DEF GateChunk, TypeInv, input
<1>7. CASE EndGate
  BY <1>7, QuietTyped DEF EndGate, Steps
<1>8. CASE UNCHANGED vars
  BY <1>8 DEF vars, TypeInv
<1> QED
  BY <1>1, <1>2, <1>3, <1>4, <1>5, <1>6, <1>7, <1>8 DEF Next

-----------------------------------------------------------------------------
(* The windows of a node.                                                  *)

(* What a new chunk adds to a sequence that is otherwise fine.             *)
LEMMA AppendKeeps ==
    ASSUME NEW s \in Seq(ChunkRecord), NEW c \in ChunkRecord,
           NEW t, t = Append(s, c)
    PROVE  /\ t \in Seq(ChunkRecord) /\ Len(t) = Len(s) + 1 /\ t[Len(t)] = c
           /\ \A k \in 1..Len(s) : t[k] = s[k]
           /\ \A first, last : Covers(s, first, last) => Covers(t, first, last)
           /\ \A k : Held(s, k) \/ k \in c.first..c.last => Held(t, k)
<1>1. /\ t \in Seq(ChunkRecord) /\ Len(t) = Len(s) + 1 /\ t[Len(t)] = c
      /\ \A k \in 1..Len(s) : t[k] = s[k]
      /\ Len(s) \in Nat
  OBVIOUS
<1>2. ASSUME NEW k, Held(s, k) \/ k \in c.first..c.last
      PROVE  Held(t, k)
  <2>1. CASE Held(s, k)
    <3>1. \A i \in 1..Len(s) : i \in 1..Len(t)
      BY <1>1
    <3> QED
      BY <1>1, <2>1, <3>1 DEF Held
  <2>2. CASE k \in c.first..c.last
    <3>1. Len(t) \in 1..Len(t)
      BY <1>1
    <3> QED
      BY <1>1, <2>2, <3>1 DEF Held
  <2> QED
    BY <1>2, <2>1, <2>2
<1> QED
  BY <1>1, <1>2 DEF Covers

(* The window after the last one of a run continues it.                    *)
LEMMA AppendAdvances ==
    ASSUME NEW s \in Seq(ChunkRecord), Advance(s), NEW c \in ChunkRecord,
           NEW t, t = Append(s, c),
           \/ \A k \in 1..Len(s) : s[k].node # c.node
           \/ /\ Len(s) > 0 /\ s[Len(s)].node = c.node
              /\ s[Len(s)].first < c.first /\ s[Len(s)].last < c.last
              /\ c.first <= s[Len(s)].last + 1
    PROVE  Advance(t)
<1>1. PICK n \in Nat : n = Len(s) /\ Len(t) = n + 1
  BY AppendKeeps, LenProperties
<1>2. t[n + 1] = c /\ \A k \in 1..n : t[k] = s[k]
  BY <1>1, AppendKeeps
<1>3. /\ \A k \in 1..n : s[k].first \in Nat /\ s[k].last \in Nat
      /\ c.first \in Nat /\ c.last \in Nat
  BY <1>1, ChunkFields DEF ChunkRecord
<1>4. ASSUME NEW j \in 1..n, NEW k \in 1..n, j < k, t[j].node = t[k].node
      PROVE  /\ t[j].first < t[k].first /\ t[j].last < t[k].last
             /\ \E i \in (j + 1)..(n + 1) : /\ t[i].node = t[j].node
                                            /\ t[i].first <= t[j].last + 1
  <2>1. /\ s[j].first < s[k].first /\ s[j].last < s[k].last
        /\ \E i \in (j + 1)..n : /\ s[i].node = s[j].node
                                 /\ s[i].first <= s[j].last + 1
    BY <1>1, <1>2, <1>4 DEF Advance
  <2>2. PICK i \in (j + 1)..n : /\ s[i].node = s[j].node
                                /\ s[i].first <= s[j].last + 1
    BY <2>1
  <2>3. i \in 1..n /\ i \in (j + 1)..(n + 1)
    OBVIOUS
  <2>4. t[i].node = t[j].node /\ t[i].first <= t[j].last + 1
    BY <1>2, <2>2, <2>3
  <2> QED
    BY <1>2, <2>1, <2>3, <2>4
<1>5. ASSUME NEW j \in 1..n, t[j].node = c.node
      PROVE  /\ t[j].first < c.first /\ t[j].last < c.last
             /\ \E i \in (j + 1)..(n + 1) : /\ t[i].node = t[j].node
                                            /\ t[i].first <= t[j].last + 1
  <2>1. /\ s[n].node = c.node /\ s[n].first < c.first
        /\ s[n].last < c.last /\ c.first <= s[n].last + 1
    BY <1>1, <1>2, <1>5
  <2>2. CASE j = n
    <3>1. n + 1 \in (j + 1)..(n + 1)
      BY <2>2
    <3> QED
      BY <1>2, <1>5, <2>1, <2>2, <3>1
  <2>3. CASE j # n
    <3>1. n \in 1..n /\ j < n /\ t[n].node = t[j].node
      <4>1. n \in 1..n /\ j < n
        BY <2>3
      <4>2. t[n] = s[n]
        BY <1>2, <4>1
      <4> QED
        BY <1>5, <2>1, <4>1, <4>2
    <3>2. /\ t[j].first < t[n].first /\ t[j].last < t[n].last
          /\ \E i \in (j + 1)..(n + 1) : /\ t[i].node = t[j].node
                                         /\ t[i].first <= t[j].last + 1
      BY <1>4, <3>1
    <3>3. t[j] = s[j] /\ t[n] = s[n]
      BY <1>2, <3>1
    <3>4. t[j].first < c.first /\ t[j].last < c.last
      <4>1. /\ s[j].first \in Nat /\ s[j].last \in Nat
            /\ s[n].first \in Nat /\ s[n].last \in Nat
            /\ c.first \in Nat /\ c.last \in Nat
        BY <1>3, <3>1
      <4>2. /\ s[j].first < s[n].first /\ s[j].last < s[n].last
            /\ s[n].first < c.first /\ s[n].last < c.last
        BY <2>1, <3>2, <3>3
      <4>3. s[j].first < c.first /\ s[j].last < c.last
        BY <4>1, <4>2
      <4> QED
        BY <3>3, <4>3
    <3> QED
      BY <3>2, <3>4
  <2> QED
    BY <2>2, <2>3
<1>6. ASSUME NEW j \in 1..(n + 1), NEW k \in 1..(n + 1), j < k,
             t[j].node = t[k].node
      PROVE  /\ t[j].first < t[k].first /\ t[j].last < t[k].last
             /\ \E i \in (j + 1)..(n + 1) : /\ t[i].node = t[j].node
                                            /\ t[i].first <= t[j].last + 1
  <2>1. j \in 1..n
    BY <1>6
  <2>2. CASE k = n + 1
    BY <1>2, <1>5, <1>6, <2>1, <2>2
  <2>3. CASE k # n + 1
    <3>1. k \in 1..n
      BY <2>3
    <3> QED
      BY <1>4, <1>6, <2>1, <3>1
  <2> QED
    BY <2>2, <2>3
<1> QED
  BY <1>1, <1>6 DEF Advance

LEMMA WindowStep ==
    ASSUME TypeInv, AllOK(chunks), Advance(chunks), pc = "window", WindowInv,
           EmitWindow
    PROVE  /\ AllOK(chunks)' /\ Advance(chunks)'
           /\ pc' = "window" => WindowInv'
           /\ pc' \in {"window", "windowed"}
           /\ pc' = "windowed" =>
                 Covers(chunks', win.base, win.base + Len(win.lines) - 1)
           /\ Len(chunks') = Len(chunks) + 1
           /\ chunks'[Len(chunks')].node = win.node
           /\ \A k \in 1..Len(chunks) : chunks'[k] = chunks[k]
           /\ \A first, last :
                 Covers(chunks, first, last) => Covers(chunks', first, last)
           /\ win'.node = win.node
           /\ UNCHANGED <<input, stack, safe, next>>
<1>1. PICK c \in ChunkRecord :
         /\ chunks' = Append(chunks, c)
         /\ ChunkOK(c) /\ FromFile(c.content)
         /\ c.node = win.node /\ c.first = win.base + win.at
         /\ \/ /\ pc' = "windowed" /\ win' = win
               /\ c.last = win.base + Len(win.lines) - 1
               /\ c.last < c.first + win.size
            \/ /\ pc' = pc /\ win' = [win EXCEPT !.at = win.at + win.step]
               /\ c.last = c.first + win.size - 1
               /\ c.last < win.base + Len(win.lines) - 1
  BY EmittedChunk
<1>2. UNCHANGED <<input, stack, safe, next>> /\ win.at < Len(win.lines)
  BY DEF EmitWindow
<1>3. PICK at \in Nat, len \in Nat, size \in Nat, step \in Nat, base \in Nat,
           first \in Nat, last \in Nat :
         /\ at = win.at /\ len = Len(win.lines) /\ size = win.size
         /\ step = win.step /\ base = win.base
         /\ first = c.first /\ last = c.last
         /\ 1 <= size /\ 1 <= step /\ step <= size /\ 1 <= base
  <2>1. /\ win.at \in Nat /\ Len(win.lines) \in Nat /\ win.size \in Nat
        /\ win.base \in Nat /\ win.step \in Nat
        /\ 1 <= win.size /\ 1 <= win.base /\ 1 <= win.step
        /\ win.step <= win.size
    <3>1. 1 <= win.base /\ win.step <= win.size
      BY WindowFields DEF WindowInv
    <3> QED
      BY <3>1, WindowFields
  <2>2. c.first \in Nat /\ c.last \in Nat
    BY DEF ChunkRecord
  <2> QED
    BY <2>1, <2>2
<1>4. /\ first = base + at /\ at < len
      /\ \/ /\ pc' = "windowed" /\ win' = win
            /\ last = base + len - 1 /\ last < first + size
         \/ /\ pc' = pc /\ win' = [win EXCEPT !.at = win.at + win.step]
            /\ last = first + size - 1 /\ last < base + len - 1
  BY <1>1, <1>2, <1>3
<1>5. PICK s \in Seq(ChunkRecord), t \in Seq(ChunkRecord) :
         s = chunks /\ t = chunks' /\ t = Append(s, c)
  <2>1. chunks \in Seq(ChunkRecord) /\ Append(chunks, c) \in Seq(ChunkRecord)
    BY ChunksFields
  <2> QED
    BY <1>1, <2>1
<1>6. /\ Len(t) = Len(s) + 1 /\ t[Len(t)] = c
      /\ \A k \in 1..Len(s) : t[k] = s[k]
      /\ \A a, b : Covers(s, a, b) => Covers(t, a, b)
      /\ \A k : Held(s, k) \/ k \in c.first..c.last => Held(t, k)
  <2>1. /\ Len(t) = Len(s) + 1 /\ t[Len(t)] = c
        /\ \A k \in 1..Len(s) : t[k] = s[k]
    BY <1>5, AppendKeeps
  <2>2. \A a, b : Covers(s, a, b) => Covers(t, a, b)
    BY <1>5, AppendKeeps
  <2>3. \A k : Held(s, k) \/ k \in c.first..c.last => Held(t, k)
    BY <1>5, AppendKeeps
  <2> QED
    BY <2>1, <2>2, <2>3
<1>7. AllOK(t)
  <2>1. c.node \in 0..Len(file.tree)
    <3>1. win.node = 0 \/ win.node \in 1..Len(file.tree)
      BY DEF WindowInv, Symbols
    <3>2. Len(file.tree) \in Nat
      BY InputFacts DEF TypeInv
    <3> QED
      BY <1>1, <3>1, <3>2
  <2>2. ASSUME NEW k \in 1..Len(t)
        PROVE  /\ ChunkOK(t[k]) /\ FromFile(t[k].content)
               /\ t[k].node \in 0..Len(file.tree)
    <3>1. k \in 1..Len(s) \/ k = Len(t)
      BY <1>5, <1>6, LenProperties
    <3>2. CASE k \in 1..Len(s)
      BY <1>5, <1>6, <3>2 DEF AllOK
    <3>3. CASE k = Len(t)
      BY <1>1, <1>6, <2>1, <3>3
    <3> QED
      BY <3>1, <3>2, <3>3
  <2> QED
    BY <2>2 DEF AllOK
(* The chunk in front, when the run has one.                               *)
<1>8. at > 0 =>
         /\ Len(s) > 0 /\ s[Len(s)].node = c.node
         /\ s[Len(s)].first = base + at - step
         /\ s[Len(s)].last = base + at - step + size - 1
         /\ s[Len(s)].last < base + len - 1
         /\ Covers(s, base, base + at - step + size - 1)
  <2>1. ASSUME at > 0
        PROVE  /\ s # <<>> /\ s[Len(s)].node = c.node
               /\ s[Len(s)].first = base + at - step
               /\ s[Len(s)].last = s[Len(s)].first + size - 1
               /\ s[Len(s)].last < base + len - 1
               /\ Covers(s, base, s[Len(s)].last)
    BY <1>1, <1>3, <1>5, <2>1 DEF WindowInv
  <2>2. s # <<>> => Len(s) > 0
    BY <1>5, ChunksFields
  <2> QED
    BY <2>1, <2>2
<1>9. Advance(t)
  <2>1. CASE at = 0
    <3>1. \A k \in 1..Len(s) : s[k].node # c.node
      BY <1>1, <1>3, <1>5, <2>1 DEF WindowInv
    <3> QED
      BY <1>5, <3>1, AppendAdvances
  <2>2. CASE at # 0
    <3>1. PICK f \in Nat, l \in Nat : f = s[Len(s)].first /\ l = s[Len(s)].last
      <4>1. Len(s) \in 1..Len(s)
        BY <1>8, <2>2, LenProperties
      <4> QED
        BY <4>1, ChunkFields
    <3>2. f < first /\ l < last /\ first <= l + 1
      <4>1. /\ first = base + at /\ at > 0
            /\ last = base + len - 1 \/ last = first + size - 1
            /\ 1 <= step /\ step <= size
        BY <1>3, <1>4, <2>2
      <4>2. /\ f = base + at - step /\ l = base + at - step + size - 1
            /\ l < base + len - 1
        BY <1>8, <3>1, <4>1
      <4> QED
        BY <4>1, <4>2
    <3>3. /\ Len(s) > 0 /\ s[Len(s)].node = c.node
          /\ s[Len(s)].first < c.first /\ s[Len(s)].last < c.last
          /\ c.first <= s[Len(s)].last + 1
      BY <1>3, <1>8, <2>2, <3>1, <3>2
    <3> QED
      BY <1>5, <3>3, AppendAdvances
  <2> QED
    BY <2>1, <2>2
<1>10. Covers(t, base, last)
  <2>1. CASE at = 0
    <3>1. \A k \in base..last : k \in first..last
      BY <1>4, <2>1
    <3> QED
      BY <1>3, <1>6, <3>1 DEF Covers
  <2>2. CASE at # 0
    <3>1. /\ at > 0 /\ first = base + at /\ step <= size
      BY <1>3, <1>4, <2>2
    <3>2. PICK prev \in Int : prev = base + at - step + size - 1
      OBVIOUS
    <3>3. \A k \in base..last : k \in base..prev \/ k \in first..last
      BY <3>1, <3>2
    <3>4. Covers(s, base, prev)
      BY <1>8, <3>1, <3>2
    <3>5. \A k \in base..last : Held(s, k) \/ k \in c.first..c.last
      BY <1>3, <3>3, <3>4 DEF Covers
    <3> QED
      BY <1>6, <3>5 DEF Covers
  <2> QED
    BY <2>1, <2>2
<1>11. ASSUME pc' = "window"
       PROVE  WindowInv'
  <2>1. /\ win' = [win EXCEPT !.at = win.at + win.step]
        /\ last = first + size - 1 /\ last < base + len - 1
    BY <1>4, <1>11
  <2>2. /\ win'.node = win.node /\ win'.base = win.base
        /\ win'.lines = win.lines /\ win'.size = win.size
        /\ win'.step = win.step /\ win'.header = win.header
        /\ win'.at = win.at + win.step
    <3>1. win \in Window
      BY DEF TypeInv
    <3> QED
      BY <2>1, <3>1 DEF Window
  <2>3. file' = file /\ stack' = stack /\ Symbols' = Symbols
        /\ NodeSize' = NodeSize /\ SlidingSize' = SlidingSize
    BY <1>2, InputStays
  <2>4. /\ at + step > 0 /\ at + step < len /\ t # <<>>
        /\ first = base + (at + step) - step
    <3>1. Len(t) > 0
      BY <1>6, LenProperties
    <3>2. t # <<>>
      BY <3>1
    <3>3. at + step > 0 /\ first = base + (at + step) - step
      BY <1>3, <1>4
    <3>4. at + step < len
      <4>1. first = base + at /\ step <= size
        BY <1>3, <1>4
      <4>2. last = first + size - 1 /\ last < base + len - 1
        BY <2>1
      <4> QED
        BY <4>1, <4>2
    <3> QED
      BY <3>2, <3>3, <3>4
  <2>5. LET d == chunks'[Len(chunks')]
        IN  /\ d.node = win'.node
            /\ d.first = win'.base + win'.at - win'.step
            /\ d.last = d.first + win'.size - 1
            /\ d.last < win'.base + Len(win'.lines) - 1
            /\ Covers(chunks', win'.base, d.last)
    BY <1>1, <1>3, <1>5, <1>6, <1>10, <2>1, <2>2, <2>4
  <2>6. win'.at > 0 /\ win'.at < Len(win'.lines) /\ chunks' # <<>>
    BY <1>3, <1>5, <2>2, <2>4
  <2>7. LimitOf(win)' = LimitOf(win)
    BY <2>2, <2>3 DEF LimitOf
  <2>8. FromFile(win.header)' <=> FromFile(win.header)
    BY <2>2, <2>3 DEF FromFile
  <2> QED
    BY <2>2, <2>3, <2>5, <2>6, <2>7, <2>8 DEF WindowInv
<1>12. AllOK(chunks)'
  <2>1. AllOK(t)' <=> AllOK(t)
    BY <1>2, InputStays
  <2> QED
    BY <1>5, <1>7, <2>1
<1>13. Advance(chunks)'
  BY <1>5, <1>9 DEF Advance
<1>14. win'.node = win.node
  BY <1>1, WindowFields DEF TypeInv, Window
<1> QED
  BY <1>1, <1>2, <1>3, <1>4, <1>5, <1>6, <1>10, <1>11, <1>12, <1>13, <1>14

-----------------------------------------------------------------------------
(* The windows a walk opens.                                               *)
LEMMA NodeWindow ==
    ASSUME TypeInv, UNCHANGED <<input, chunks>>, NEW n \in 1..Len(file.tree),
           n \in Symbols, EmitNode(n), stack' # <<>>,
           \A k \in 1..Len(chunks) : chunks[k].node # n
    PROVE  WindowInv'
<1>1. /\ win' \in Window /\ win'.step <= win'.size
      /\ win'.node = n /\ win'.at = 0 /\ win'.size <= NodeSize
      /\ win'.base = file.tree[n].first /\ win'.lines = NodeLines(n)
      /\ Len(win'.header) <= HeaderLines /\ FromFile(win'.header)
  BY EmitNodeFacts DEF TypeInv
<1>2. PICK first \in Nat, last \in Nat, len \in Nat :
         /\ first = file.tree[n].first /\ last = file.tree[n].last
         /\ len = Len(file.lines)
         /\ 1 <= first /\ first <= last /\ last <= len
  BY NodeFacts, InputFacts DEF TypeInv
<1>3. PICK size \in Nat : size = Len(NodeLines(n)) /\ size = last - first + 1
  BY <1>2, NodeLinesFacts DEF TypeInv
<1>4. first + size <= len + 1 /\ first + size - 1 = last
  <2>1. size = last - first + 1 /\ last <= len
    BY <1>2, <1>3
  <2> QED
    BY ONLY <2>1, first \in Nat, last \in Nat, len \in Nat, size \in Nat
<1>5. file' = file /\ Symbols' = Symbols /\ NodeSize' = NodeSize
      /\ chunks' = chunks
  BY InputStays
<1>6. win'.node # 0
  BY <1>1
<1>7. LimitOf(win)' = NodeSize
  BY <1>5, <1>6 DEF LimitOf
<1>8. FromFile(win.header)'
  BY <1>1, <1>5 DEF FromFile
<1>9. /\ win'.base >= 1 /\ win'.base + Len(win'.lines) <= Len(file.lines) + 1
      /\ win'.base + Len(win'.lines) - 1 = file.tree[n].last
  BY <1>1, <1>2, <1>3, <1>4
<1>10. win'.lines = SubSeq(file.lines, win'.base, win'.base + Len(win'.lines) - 1)
  BY <1>1, <1>9 DEF NodeLines
<1>11. ~(win'.at > 0)
  BY <1>1
<1> QED
  BY <1>1, <1>5, <1>6, <1>7, <1>8, <1>9, <1>10, <1>11 DEF WindowInv

LEMMA SlideWindow ==
    ASSUME TypeInv, UNCHANGED <<input, chunks>>, chunks = <<>>, SlideOver,
           stack' = <<>>
    PROVE  WindowInv'
<1>1. /\ win' \in Window /\ win'.step <= win'.size
      /\ win'.node = 0 /\ win'.at = 0 /\ win'.size = SlidingSize
      /\ win'.base = 1 /\ win'.lines = file.lines /\ win'.header = <<>>
  BY SlideFacts DEF TypeInv
<1>2. file' = file /\ SlidingSize' = SlidingSize /\ chunks' = chunks
  BY InputStays
<1>3. LimitOf(win)' = SlidingSize /\ SlidingSize \in Nat
  BY <1>1, <1>2, InputFacts DEF LimitOf, TypeInv
<1>4. /\ file.lines \in Seq(Line) /\ Len(file.lines) \in Nat
      /\ HeaderLines \in Nat
  BY InputFacts DEF TypeInv
<1>5. FromFile(win.header)' /\ Len(win'.header) = 0
  BY <1>1, <1>2 DEF FromFile
<1>6. /\ win'.base >= 1 /\ win'.base + Len(win'.lines) <= Len(file.lines) + 1
      /\ win'.base + Len(win'.lines) - 1 = Len(file.lines)
  BY <1>1, <1>4
<1>7. win'.lines = SubSeq(file.lines, win'.base, win'.base + Len(win'.lines) - 1)
  BY <1>1, <1>4, <1>6, SubSeqFull
<1>8. Len(chunks') = 0 /\ ~(win'.at > 0) /\ win'.size <= SlidingSize
      /\ Len(win'.header) <= HeaderLines
  BY <1>1, <1>2, <1>3, <1>4, <1>5
<1> QED
  BY <1>1, <1>2, <1>3, <1>5, <1>6, <1>7, <1>8 DEF WindowInv

-----------------------------------------------------------------------------
(* The walk of the tree.                                                   *)

LEMMA WithinParent ==
    ASSUME file \in Inputs, NEW n \in 1..Len(file.tree),
           file.tree[n].parent # 0
    PROVE  Within(n, file.tree[n].parent)
BY NodeFacts DEF Within

LEMMA WithinTransitive ==
    ASSUME file \in Inputs, NEW a \in 1..Len(file.tree),
           NEW b \in 1..Len(file.tree), NEW c \in 1..Len(file.tree),
           Within(a, b), Within(b, c)
    PROVE  Within(a, c)
<1>1. /\ file.tree[a].first \in Nat /\ file.tree[a].last \in Nat
      /\ file.tree[b].first \in Nat /\ file.tree[b].last \in Nat
      /\ file.tree[c].first \in Nat /\ file.tree[c].last \in Nat
      /\ a \in Nat /\ b \in Nat /\ c \in Nat
  BY NodeFacts
<1> QED
  BY SMTT(60), <1>1 DEF Within

(* The frames are different nodes, each within the ones below.             *)
LEMMA FramesDiffer ==
    ASSUME TypeInv, NEW V, FrameInv(V),
           NEW i \in 1..Len(stack), NEW j \in 1..Len(stack), i < j
    PROVE  /\ stack[i].node # stack[j].node /\ stack[j].node # 0
           /\ i > 1 => Within(stack[j].node, stack[i].node)
<1>1. j \in (i + 1)..Len(stack) /\ j # 1
  BY StackFields
<1>2. stack[j].node # 0 /\ (i > 1 => Within(stack[j].node, stack[i].node))
  BY <1>1 DEF FrameInv, FrameOK
<1>3. CASE i = 1
  BY <1>2, <1>3 DEF FrameInv, FrameOK
<1>4. CASE i > 1
  <2>1. PICK a \in Nat, b \in Nat : a = stack[i].node /\ b = stack[j].node
    <3>1. stack[i].node \in 0..Len(file.tree) /\ stack[j].node \in 0..Len(file.tree)
      BY StackFields
    <3>2. Len(file.tree) \in Nat
      BY InputFacts DEF TypeInv
    <3> QED
      BY <3>1, <3>2
  <2>2. b > a
    BY <1>2, <1>4, <2>1 DEF Within
  <2> QED
    BY <1>2, <1>4, <2>1, <2>2
<1> QED
  BY <1>2, <1>3, <1>4

(* The stack after a step down: the top has one node less to do, and the   *)
(* node is the new top unless it is an item.                               *)
LEMMA DescendFacts ==
    ASSUME TypeInv, Descend
    PROVE  \E child \in 1..Len(file.tree), n \in Nat :
              /\ n = Len(stack) /\ n >= 1 /\ child \in stack[n].todo
              /\ \A i \in 1..n :
                    /\ stack'[i].node = stack[i].node
                    /\ stack'[i].before = stack[i].before
                    /\ stack'[i].todo = IF i = n THEN stack[i].todo \ {child}
                                        ELSE stack[i].todo
              /\ \/ /\ file.tree[child].kind = "item"
                    /\ Len(stack') = n /\ EmitNode(child)
                 \/ /\ file.tree[child].kind # "item"
                    /\ Len(stack') = n + 1 /\ stack'[n + 1] = Frame(child)
                    /\ win' = win /\ pc' = pc
<1>1. stack # <<>> /\ Top.todo # {}
  BY DEF Descend
<1>2. PICK n \in Nat : n = Len(stack) /\ n >= 1
  BY <1>1, StackFields
<1>3. /\ Popped \in Seq(FrameRecord) /\ Len(Popped) = n - 1
      /\ \A i \in 1..(n - 1) : Popped[i] = stack[i]
      /\ Top = stack[n] /\ Top \in FrameRecord
      /\ Top.todo \in SUBSET (1..Len(file.tree))
  BY <1>1, <1>2, PoppedFacts
<1>4. PICK child \in 1..Len(file.tree) :
         child = LeastOf(Top.todo) /\ child \in Top.todo
  <2>1. Top.todo \in SUBSET Nat
    BY <1>3
  <2> QED
    BY <1>1, <1>3, <2>1, LeastIsIn
<1> DEFINE top  == [Top EXCEPT !.todo = @ \ {child}]
           rest == Append(Popped, top)
<1>5. /\ top \in FrameRecord /\ top.node = Top.node
      /\ top.before = Top.before /\ top.todo = Top.todo \ {child}
  BY <1>3 DEF FrameRecord
<1>6. IF file.tree[child].kind = "item"
      THEN stack' = rest /\ EmitNode(child)
      ELSE stack' = Append(rest, Frame(child)) /\ UNCHANGED <<win, pc>>
  BY <1>4 DEF Descend
<1> HIDE DEF top
<1>7. /\ rest \in Seq(FrameRecord) /\ Len(rest) = n /\ rest[n] = top
      /\ \A i \in 1..(n - 1) : rest[i] = stack[i]
  <2>1. Len(rest) = Len(Popped) + 1 /\ rest[Len(Popped) + 1] = top
        /\ rest \in Seq(FrameRecord)
        /\ \A i \in 1..Len(Popped) : rest[i] = Popped[i]
    BY <1>3, <1>5
  <2>2. Len(Popped) + 1 = n
    BY <1>2, <1>3
  <2> HIDE DEF rest
  <2> QED
    BY <1>3, <2>1, <2>2
<1> HIDE DEF rest
<1>8. \A i \in 1..n :
         /\ rest[i].node = stack[i].node /\ rest[i].before = stack[i].before
         /\ rest[i].todo = IF i = n THEN stack[i].todo \ {child}
                           ELSE stack[i].todo
  <2>1. \A i \in 1..n : i = n \/ i \in 1..(n - 1)
    OBVIOUS
  <2> QED
    BY <1>3, <1>5, <1>7, <2>1
<1>9. CASE file.tree[child].kind = "item"
  <2>1. stack' = rest /\ EmitNode(child)
    BY <1>6, <1>9
  <2> QED
    BY <1>2, <1>3, <1>4, <1>7, <1>8, <1>9, <2>1
<1>10. CASE file.tree[child].kind # "item"
  <2>1. stack' = Append(rest, Frame(child)) /\ win' = win /\ pc' = pc
    BY <1>6, <1>10
  <2>2. Frame(child) \in FrameRecord
    BY FrameTyped, InputFacts DEF TypeInv
  <2>3. /\ Len(stack') = n + 1 /\ stack'[n + 1] = Frame(child)
        /\ \A i \in 1..n : stack'[i] = rest[i]
    BY <1>7, <2>1, <2>2
  <2>4. \A i \in 1..n :
           /\ stack'[i].node = stack[i].node
           /\ stack'[i].before = stack[i].before
           /\ stack'[i].todo = IF i = n THEN stack[i].todo \ {child}
                               ELSE stack[i].todo
    BY <1>8, <2>3
  <2>5. child \in stack[n].todo
    BY <1>3, <1>4
  <2> QED
    BY <1>2, <1>10, <2>1, <2>3, <2>4, <2>5
<1> QED
  BY <1>9, <1>10

LEMMA TreeStays ==
    ASSUME UNCHANGED input, NEW n, NEW m
    PROVE  /\ Within(m, n)' <=> Within(m, n)
           /\ Bare(n)' <=> Bare(n)
           /\ Children(n)' = Children(n)
           /\ UNCHANGED chunks => (NodeCovered(n)' <=> NodeCovered(n))
<1>1. file' = file
  BY DEF input
<1> QED
  BY <1>1 DEF Within, Bare, Symbols, Children, NodeCovered, Covers, Held

(* The next node and where it is in the tree.                              *)
LEMMA NextNode ==
    ASSUME TypeInv, NEW V \in SUBSET (0..Len(file.tree)), Reached(V),
           stack # <<>>, NEW child \in stack[Len(stack)].todo
    PROVE  /\ child \in 1..Len(file.tree) /\ child \notin V /\ child # 0
           /\ file.tree[child].parent = stack[Len(stack)].node
           /\ stack[Len(stack)].node \in V
           /\ \A i \in 1..Len(stack) :
                 /\ child # stack[i].node
                 /\ i > 1 => Within(child, stack[i].node)
                 /\ i < Len(stack) => child \notin stack[i].todo
           /\ \A k \in 1..Len(chunks) : chunks[k].node # child
           /\ Children(child) \cap (V \cup {child}) = {}
<1>1. PICK n \in Nat : n = Len(stack) /\ n >= 1 /\ n \in 1..Len(stack)
  BY StackFields
<1>2. FrameInv(V) /\ LeftInv(V) /\ file \in Inputs
  BY DEF Reached, TypeInv
<1>3. child \in 1..Len(file.tree)
  BY <1>1, StackFields
<1>4. child \notin V /\ file.tree[child].parent = stack[n].node
      /\ stack[n].node \in V
  BY <1>1, <1>2 DEF FrameInv, FrameOK
<1>5. \A i \in 1..n : stack[i].node \in V /\ child # stack[i].node
  BY <1>1, <1>2, <1>4 DEF FrameInv, FrameOK
<1>6. ASSUME NEW i \in 1..n, i > 1
      PROVE  Within(child, stack[i].node)
  <2>1. stack[i].node # 0 /\ stack[n].node # 0
    BY <1>1, <1>2, <1>6 DEF FrameInv, FrameOK
  <2>2. Within(child, stack[n].node)
    BY <1>2, <1>3, <1>4, <2>1, WithinParent
  <2>3. CASE i = n
    BY <2>2, <2>3
  <2>4. CASE i # n
    <3>1. i < n
      BY <2>4
    <3>2. Within(stack[n].node, stack[i].node)
      BY <1>1, <1>2, <1>6, <3>1, FramesDiffer
    <3>3. stack[n].node \in 1..Len(file.tree) /\ stack[i].node \in 1..Len(file.tree)
      <4>1. /\ stack[n].node \in 0..Len(file.tree)
            /\ stack[i].node \in 0..Len(file.tree)
        BY <1>1, StackFields
      <4>2. Len(file.tree) \in Nat
        BY <1>2, InputFacts DEF TypeInv
      <4> QED
        BY <2>1, <4>1, <4>2
    <3> QED
      BY <1>2, <1>3, <2>2, <3>2, <3>3, WithinTransitive
  <2> QED
    BY <2>3, <2>4
<1>7. ASSUME NEW i \in 1..n, i < n
      PROVE  child \notin stack[i].todo
  <2>1. stack[i].node # stack[n].node
    BY <1>1, <1>2, <1>7, FramesDiffer
  <2>2. \A m \in stack[i].todo : file.tree[m].parent = stack[i].node
    BY <1>1, <1>2 DEF FrameInv, FrameOK
  <2> QED
    BY <1>4, <2>1, <2>2
<1>8. \A k \in 1..Len(chunks) : chunks[k].node # child
  BY <1>4 DEF Reached
<1>9. ASSUME NEW m \in Children(child)
      PROVE  m \notin V \cup {child}
  <2>1. m \in 1..Len(file.tree) /\ file.tree[m].parent = child
    BY DEF Children
  <2>2. child < m /\ child \in Nat
    BY <1>2, <1>3, <2>1, NodeFacts
  <2>3. m # child /\ m # 0
    BY <2>1, <2>2
  <2>4. m \in V => child \in V
    BY <1>2, <2>1, <2>3 DEF LeftInv
  <2> QED
    BY <1>4, <2>3, <2>4
<1>10. child # 0
  BY <1>3
<1> QED
  BY <1>1, <1>3, <1>4, <1>5, <1>6, <1>7, <1>8, <1>9, <1>10

(* A step down reaches the next node.                                      *)
LEMMA DescendReaches ==
    ASSUME TypeInv, NEW V \in SUBSET (0..Len(file.tree)), Reached(V),
           pc = "tree", Descend
    PROVE  /\ \E W \in SUBSET (0..Len(file.tree)) : Reached(W)'
           /\ pc' \in {"tree", "window"} /\ stack' # <<>>
           /\ pc' = "window" => WindowInv'
<1>1. PICK child \in 1..Len(file.tree), n \in Nat :
         /\ n = Len(stack) /\ n >= 1 /\ child \in stack[n].todo
         /\ \A i \in 1..n :
               /\ stack'[i].node = stack[i].node
               /\ stack'[i].before = stack[i].before
               /\ stack'[i].todo = IF i = n THEN stack[i].todo \ {child}
                                   ELSE stack[i].todo
         /\ \/ /\ file.tree[child].kind = "item"
               /\ Len(stack') = n /\ EmitNode(child)
            \/ /\ file.tree[child].kind # "item"
               /\ Len(stack') = n + 1 /\ stack'[n + 1] = Frame(child)
               /\ win' = win /\ pc' = pc
  BY DescendFacts
<1>2. UNCHANGED input /\ chunks' = chunks /\ stack # <<>>
  BY DEF Descend
<1>3. file' = file /\ Symbols' = Symbols /\ file \in Inputs
  BY <1>2, InputStays DEF TypeInv
<1>4. /\ child \notin V /\ child # 0
      /\ file.tree[child].parent = stack[n].node /\ stack[n].node \in V
      /\ \A i \in 1..n : /\ child # stack[i].node
                         /\ i > 1 => Within(child, stack[i].node)
                         /\ i < n => child \notin stack[i].todo
      /\ \A k \in 1..Len(chunks) : chunks[k].node # child
      /\ Children(child) \cap (V \cup {child}) = {}
  BY <1>1, <1>2, NextNode
<1>5. /\ file.tree[child].kind = "item" =>
            pc' = "window" /\ win'.node = child /\ Len(stack') = n
      /\ file.tree[child].kind # "item" =>
            /\ pc' = "tree" /\ Len(stack') = n + 1
            /\ stack'[n + 1] = Frame(child)
      /\ pc' = "window" => win'.node = child
  BY <1>1, EmitNodeFacts DEF TypeInv
<1> DEFINE W == V \cup {child}
<1>6. ASSUME NEW i \in 1..n
      PROVE  FrameOK(W, i)'
  <2>1. FrameOK(V, i) /\ stack'[i].node = stack[i].node
        /\ stack'[i].before = stack[i].before
    BY <1>1 DEF Reached, FrameInv
  <2>2. stack'[i].todo = stack[i].todo \ {child}
    <3>1. CASE i = n
      BY <1>1, <3>1
    <3>2. CASE i # n
      <4>1. i < n
        BY <3>2
      <4>2. stack'[i].todo = stack[i].todo /\ child \notin stack[i].todo
        BY <1>1, <1>4, <4>1
      <4> QED
        BY <4>2
    <3> QED
      BY <3>1, <3>2
  <2>3. Children(stack[i].node) \subseteq W \cup stack'[i].todo
    BY <2>1, <2>2 DEF FrameOK
  <2>4. stack'[i].todo \cap W = {}
    BY <2>1, <2>2 DEF FrameOK
  <2>6. \A j \in (i + 1)..Len(stack') :
           i > 1 => Within(stack'[j].node, stack[i].node)
    <3>1. ASSUME NEW j \in (i + 1)..Len(stack'), i > 1
          PROVE  Within(stack'[j].node, stack[i].node)
      <4>1. j \in (i + 1)..n \/ (j = n + 1 /\ stack'[j] = Frame(child))
        BY <1>1, <1>5
      <4>2. CASE j \in (i + 1)..n
        <5>1. j \in 1..n
          BY <4>2
        <5> QED
          BY <1>1, <2>1, <3>1, <4>2, <5>1 DEF FrameOK
      <4>3. CASE j = n + 1 /\ stack'[j] = Frame(child)
        <5>1. stack'[j].node = child
          BY <4>3 DEF Frame
        <5> QED
          BY <1>4, <3>1, <5>1
      <4> QED
        BY <4>1, <4>2, <4>3
    <3> QED
      BY <3>1
  <2>7. pc' = "window" => /\ win'.node # stack[i].node
                          /\ i > 1 => Within(win'.node, stack[i].node)
    BY <1>4, <1>5
  <2>9. Children(stack[i].node)' = Children(stack[i].node)
    BY <1>2, <2>1, <1>3 DEF Children
  <2> HIDE DEF W
  <2>10. stack[i].node \in W
    BY <2>1 DEF FrameOK, W
  <2> QED
    BY <1>2, <1>3, <2>1, <2>2, <2>3, <2>4, <2>6, <2>7, <2>9, <2>10
    DEF FrameOK, Within, Children
<1>7. ASSUME file.tree[child].kind # "item"
      PROVE  FrameOK(W, n + 1)'
  <2>1. /\ pc' = "tree" /\ Len(stack') = n + 1
        /\ stack'[n + 1] = Frame(child)
    BY <1>5, <1>7
  <2>2. /\ stack'[n + 1].node = child /\ stack'[n + 1].before = Len(chunks)
        /\ stack'[n + 1].todo = Children(child)
    BY <2>1 DEF Frame
  <2>3. Len(chunks) \in Nat
    BY ChunksFields
  <2>4. child \in W /\ n + 1 # 1 /\ Children(child) \cap W = {}
    BY <1>1, <1>4
  <2>5. \A m \in Children(child) : file.tree[m].parent = child
    BY DEF Children
  <2>6. \A j \in (n + 2)..(n + 1) : FALSE
    OBVIOUS
  <2>7. ~(Len(chunks) < Len(chunks)) /\ Len(chunks) <= Len(chunks)
    BY <2>3
  <2>8. Children(child)' = Children(child)
    BY <1>3 DEF Children
  <2>9. n + 1 + 1 = n + 2
    OBVIOUS
  <2> HIDE DEF W
  <2> QED
    BY <1>2, <1>3, <1>4, <1>7, <2>1, <2>2, <2>4, <2>5, <2>6, <2>7, <2>8, <2>9
    DEF FrameOK
<1>8. FrameInv(W)'
  <2>1. ASSUME NEW i \in 1..Len(stack')
        PROVE  FrameOK(W, i)'
    <3>1. i \in 1..n \/ (i = n + 1 /\ file.tree[child].kind # "item")
      BY <1>1, <1>5
    <3> QED
      BY <1>6, <1>7, <3>1
  <2> QED
    BY <2>1 DEF FrameInv
<1>9. LeftInv(W)'
  <2>1. ASSUME NEW m \in W \ {0}
        PROVE  /\ file.tree[m].parent \in W
               /\ file.tree[m].kind = "item" =>
                     InWork(m)' \/ NodeCovered(m)'
               /\ file.tree[m].kind # "item" /\ ~Open(m)' =>
                     /\ Children(m) \subseteq W
                     /\ m \in Symbols /\ Bare(m) =>
                           InWork(m)' \/ NodeCovered(m)'
    <3>1. CASE m = child
      <4>1. file.tree[child].kind = "item" => InWork(child)'
        BY <1>5 DEF InWork
      <4>2. file.tree[child].kind # "item" => Open(child)'
        <5>1. ASSUME file.tree[child].kind # "item"
              PROVE  Open(child)'
          <6>1. n + 1 \in 1..Len(stack') /\ stack'[n + 1].node = child
            BY <1>5, <5>1 DEF Frame
          <6> QED
            BY <6>1 DEF Open
        <5> QED
          BY <5>1
      <4> QED
        BY <1>4, <3>1, <4>1, <4>2
    <3>2. CASE m \in V \ {0}
      <4>1. /\ file.tree[m].parent \in V
            /\ file.tree[m].kind = "item" => NodeCovered(m)
            /\ file.tree[m].kind # "item" /\ ~Open(m) =>
                  /\ Children(m) \subseteq V
                  /\ m \in Symbols /\ Bare(m) => NodeCovered(m)
        BY <3>2 DEF Reached, LeftInv, InWork
      <4>2. NodeCovered(m)' <=> NodeCovered(m)
        BY <1>2, TreeStays
      <4>3. Open(m) => Open(m)'
        <5>1. ASSUME NEW i \in 1..n, stack[i].node = m
              PROVE  Open(m)'
          <6>1. stack'[i].node = m
            BY <1>1, <5>1
          <6>2. Len(stack') = n \/ Len(stack') = n + 1
            BY <1>5
          <6>3. i \in 1..Len(stack')
            BY <6>2
          <6> QED
            BY <6>1, <6>3 DEF Open
        <5> QED
          BY <1>1, <5>1 DEF Open
      <4> QED
        BY <4>1, <4>2, <4>3
    <3> QED
      BY <3>1, <3>2
  <2>2. \A m : (Bare(m)' <=> Bare(m)) /\ Children(m)' = Children(m)
    BY <1>2, TreeStays
  <2> HIDE DEF W
  <2> QED
    BY <1>3, <2>1, <2>2 DEF LeftInv
<1>10. Reached(W)' /\ W \in SUBSET (0..Len(file.tree))
  <2>1. 0 \in W /\ \A k \in 1..Len(chunks) : chunks[k].node \in W \cap Symbols
    BY DEF Reached
  <2>2. pc' = "window" => win'.node \in W
    BY <1>5
  <2>3. W \in SUBSET (0..Len(file.tree))
    BY InputFacts DEF TypeInv
  <2> HIDE DEF W
  <2> QED
    BY <1>2, <1>3, <1>8, <1>9, <2>1, <2>2, <2>3 DEF Reached
<1>11. stack' # <<>>
  <2>1. Len(stack') > 0
    BY <1>1
  <2> QED
    BY <2>1
<1>12. ASSUME pc' = "window"
       PROVE  WindowInv'
  <2>1. EmitNode(child) /\ file.tree[child].kind = "item"
    BY <1>1, <1>12
  <2>2. child \in Symbols
    BY <2>1 DEF Symbols
  <2> QED
    BY <1>2, <1>4, <1>11, <2>1, <2>2, NodeWindow
<1>13. pc' \in {"tree", "window"}
  BY <1>5
<1> HIDE DEF W
<1> QED
  BY <1>10, <1>11, <1>12, <1>13

(* A step up leaves a node of which everything inside has been reached.    *)
LEMMA AscendReaches ==
    ASSUME TypeInv, NEW V \in SUBSET (0..Len(file.tree)), Reached(V),
           pc = "tree", Ascend
    PROVE  /\ Reached(V)'
           /\ pc' \in {"tree", "window"} /\ stack' # <<>>
           /\ pc' = "window" => WindowInv'
<1>1. /\ stack # <<>> /\ Top.todo = {} /\ Len(stack) > 1 /\ stack' = Popped
      /\ UNCHANGED input /\ chunks' = chunks
      /\ IF EmptyContainer(Top) THEN EmitNode(Top.node) ELSE UNCHANGED <<win, pc>>
  BY DEF Ascend
<1>2. PICK n \in Nat : n = Len(stack) /\ n >= 2 /\ n \in 1..Len(stack)
  BY <1>1, StackFields
<1>3. /\ Len(stack') = n - 1 /\ \A i \in 1..(n - 1) : stack'[i] = stack[i]
      /\ Top = stack[n]
  BY <1>1, <1>2, PoppedFacts
<1>4. file' = file /\ Symbols' = Symbols /\ file \in Inputs
  BY <1>1, InputStays DEF TypeInv
<1>5. FrameOK(V, n) /\ FrameInv(V) /\ LeftInv(V)
  BY <1>2 DEF Reached, FrameInv
<1>6. PICK t : t = stack[n].node
  OBVIOUS
<1>7. /\ t \in V /\ t # 0 /\ file.tree[t].kind # "item"
      /\ Children(t) \subseteq V
      /\ stack[n].before < Len(chunks) => \E m \in Symbols : Within(m, t)
      /\ \A k \in 1..Len(chunks) : chunks[k].node # t
      /\ stack[n].before <= Len(chunks)
  BY <1>1, <1>2, <1>3, <1>5, <1>6 DEF FrameOK
<1>8. t \in 1..Len(file.tree)
  <2>1. t \in 0..Len(file.tree)
    BY <1>2, <1>6, StackFields
  <2>2. Len(file.tree) \in Nat
    BY <1>4, InputFacts DEF TypeInv
  <2> QED
    BY <1>7, <2>1, <2>2
<1>9. \/ /\ EmptyContainer(Top) /\ EmitNode(t)
         /\ pc' = "window" /\ win'.node = t /\ t \in Symbols
      \/ ~EmptyContainer(Top) /\ pc' = "tree"
  <2>1. CASE EmptyContainer(Top)
    <3>1. EmitNode(t)
      BY <1>1, <1>3, <1>6, <2>1
    <3>2. pc' = "window" /\ win'.node = t
      BY <1>8, <3>1, EmitNodeFacts DEF TypeInv
    <3>3. t \in Symbols
      BY <1>3, <1>6, <1>8, <2>1 DEF EmptyContainer, Symbols
    <3> QED
      BY <2>1, <3>1, <3>2, <3>3
  <2> QED
    BY <1>1, <2>1
<1>10. ASSUME NEW i \in 1..(n - 1)
       PROVE  FrameOK(V, i)'
  <2>1. FrameOK(V, i) /\ stack'[i] = stack[i]
    BY <1>2, <1>3, <1>5 DEF FrameInv
  <2>2. t # stack[i].node /\ (i > 1 => Within(t, stack[i].node))
    <3>1. i \in 1..Len(stack) /\ i < n
      BY <1>2
    <3> QED
      BY <1>2, <1>5, <1>6, <3>1, FramesDiffer
  <2>3. \A j \in (i + 1)..Len(stack') :
           i > 1 => Within(stack'[j].node, stack[i].node)
    <3>1. ASSUME NEW j \in (i + 1)..(n - 1)
          PROVE  stack'[j] = stack[j] /\ j \in (i + 1)..Len(stack)
      BY <1>2, <1>3
    <3> QED
      BY <1>3, <2>1, <3>1 DEF FrameOK
  <2>4. pc' = "window" => /\ win'.node # stack[i].node
                          /\ i > 1 => Within(win'.node, stack[i].node)
    BY <1>9, <2>2
  <2>5. Children(stack[i].node)' = Children(stack[i].node)
    BY <1>4, <2>1 DEF Children
  <2> QED
    BY <1>1, <1>4, <2>1, <2>3, <2>4, <2>5 DEF FrameOK, Within, Children
<1>11. FrameInv(V)'
  BY <1>3, <1>10 DEF FrameInv
<1>12. LeftInv(V)'
  <2>1. ASSUME NEW m \in V \ {0}
        PROVE  /\ file.tree[m].parent \in V
               /\ file.tree[m].kind = "item" =>
                     InWork(m)' \/ NodeCovered(m)'
               /\ file.tree[m].kind # "item" /\ ~Open(m)' =>
                     /\ Children(m) \subseteq V
                     /\ m \in Symbols /\ Bare(m) =>
                           InWork(m)' \/ NodeCovered(m)'
    <3>1. /\ file.tree[m].parent \in V
          /\ file.tree[m].kind = "item" => NodeCovered(m)
          /\ file.tree[m].kind # "item" /\ ~Open(m) =>
                /\ Children(m) \subseteq V
                /\ m \in Symbols /\ Bare(m) => NodeCovered(m)
      BY <1>5 DEF LeftInv, InWork
    <3>2. NodeCovered(m)' <=> NodeCovered(m)
      BY <1>1, TreeStays
    <3>3. CASE m = t
      <4>1. ASSUME m \in Symbols, Bare(m)
            PROVE  InWork(m)'
        <5>1. ~\E k \in Symbols : Within(k, t)
          BY <1>7, <3>3, <4>1 DEF Bare
        <5>2. stack[n].before \in Nat /\ Len(chunks) \in Nat
          BY <1>2, StackFields, ChunksFields
        <5>3. stack[n].before = Len(chunks)
          BY <1>7, <5>1, <5>2
        <5>4. file.tree[t].kind = "container"
          BY <1>7, <1>8, <1>4, <3>3, <4>1, NodeFacts DEF Symbols
        <5>5. EmptyContainer(Top)
          BY <1>3, <1>6, <1>7, <5>3, <5>4 DEF EmptyContainer
        <5> QED
          BY <1>9, <3>3, <5>5 DEF InWork
      <4> QED
        BY <1>7, <3>1, <3>3, <4>1
    <3>4. CASE m # t
      <4>1. Open(m) => Open(m)'
        <5>1. ASSUME NEW i \in 1..n, stack[i].node = m
              PROVE  Open(m)'
          <6>1. i # n
            BY <1>6, <3>4, <5>1
          <6>2. i \in 1..(n - 1)
            BY <6>1
          <6> QED
            BY <1>3, <5>1, <6>2 DEF Open
        <5> QED
          BY <1>2, <5>1 DEF Open
      <4> QED
        BY <3>1, <3>2, <4>1
    <3> QED
      BY <3>3, <3>4
  <2>2. \A m : (Bare(m)' <=> Bare(m)) /\ Children(m)' = Children(m)
    BY <1>1, TreeStays
  <2> QED
    BY <1>4, <2>1, <2>2 DEF LeftInv
<1>13. Reached(V)'
  BY <1>1, <1>4, <1>7, <1>9, <1>11, <1>12 DEF Reached
<1>14. stack' # <<>>
  <2>1. Len(stack') > 0
    BY <1>2, <1>3
  <2> QED
    BY <2>1
<1>15. pc' = "window" => WindowInv'
  BY <1>1, <1>7, <1>8, <1>9, <1>14, NodeWindow
<1> QED
  BY <1>9, <1>13, <1>14, <1>15

(* A window adds a chunk of the node in work; the last one covers it.      *)
LEMMA EmitReaches ==
    ASSUME TypeInv, NEW V \in SUBSET (0..Len(file.tree)), Reached(V),
           AllOK(chunks), Advance(chunks), pc = "window", WindowInv,
           EmitWindow, stack # <<>>
    PROVE  Reached(V)'
<1>1. /\ pc' \in {"window", "windowed"}
      /\ pc' = "windowed" =>
            Covers(chunks', win.base, win.base + Len(win.lines) - 1)
      /\ Len(chunks') = Len(chunks) + 1
      /\ chunks'[Len(chunks')].node = win.node
      /\ \A k \in 1..Len(chunks) : chunks'[k] = chunks[k]
      /\ \A first, last :
            Covers(chunks, first, last) => Covers(chunks', first, last)
      /\ win'.node = win.node
      /\ UNCHANGED <<input, stack, safe, next>>
  BY WindowStep
<1>2. file' = file /\ Symbols' = Symbols /\ file \in Inputs /\ stack' = stack
  BY <1>1, InputStays DEF TypeInv
<1>3. PICK w : w = win.node
  OBVIOUS
<1>4. /\ w \in V /\ w \in Symbols /\ w # 0
      /\ win.base = file.tree[w].first
      /\ win.base + Len(win.lines) - 1 = file.tree[w].last
  BY <1>3 DEF Reached, WindowInv
<1>5. PICK n \in Nat : n = Len(chunks)
  BY ChunksFields
<1>6. \A k \in 1..Len(chunks') :
         \/ k \in 1..Len(chunks) /\ chunks'[k] = chunks[k]
         \/ chunks'[k].node = w
  <2>1. \A k \in 1..(n + 1) : k \in 1..n \/ k = n + 1
    OBVIOUS
  <2> QED
    BY <1>1, <1>3, <1>5, <2>1
<1>7. ASSUME NEW i \in 1..Len(stack)
      PROVE  FrameOK(V, i)'
  <2>1. FrameOK(V, i) /\ stack'[i] = stack[i]
    BY <1>2 DEF Reached, FrameInv
  <2>2. w # stack[i].node /\ (i > 1 => Within(w, stack[i].node))
    BY <1>3, <2>1 DEF FrameOK
  <2>3. \A k \in 1..Len(chunks') : chunks'[k].node # stack[i].node
    BY <1>6, <2>1, <2>2 DEF FrameOK
  <2>4. i > 1 => \E m \in Symbols : Within(m, stack[i].node)
    BY <1>4, <2>2
  <2>5. stack[i].before <= Len(chunks')
    <3>1. stack[i].before \in Nat /\ stack[i].before <= n
      BY <1>5, <2>1, StackFields DEF FrameOK
    <3> QED
      BY <1>1, <1>5, <3>1
  <2>6. Children(stack[i].node)' = Children(stack[i].node)
    BY <1>2, <2>1 DEF Children
  <2> QED
    BY <1>1, <1>2, <1>3, <2>1, <2>2, <2>3, <2>4, <2>5, <2>6
    DEF FrameOK, Within, Children
<1>8. FrameInv(V)'
  BY <1>2, <1>7 DEF FrameInv
<1>9. \A m : /\ NodeCovered(m) => NodeCovered(m)'
             /\ InWork(m) => InWork(m)' \/ NodeCovered(m)'
  <2>1. \A m : NodeCovered(m) => NodeCovered(m)'
    BY <1>1, <1>2 DEF NodeCovered
  <2>2. ASSUME NEW m, InWork(m)
        PROVE  InWork(m)' \/ NodeCovered(m)'
    <3>1. m = w
      BY <1>3, <2>2 DEF InWork
    <3>2. CASE pc' = "window"
      BY <1>1, <1>3, <3>1, <3>2 DEF InWork
    <3>3. CASE pc' = "windowed"
      <4>1. Covers(chunks', file.tree[m].first, file.tree[m].last)
        BY <1>1, <1>4, <3>1, <3>3
      <4> QED
        BY <1>2, <4>1 DEF NodeCovered
    <3> QED
      BY <1>1, <3>2, <3>3
  <2> QED
    BY <2>1, <2>2
<1>10. LeftInv(V)'
  <2>1. \A m : /\ Bare(m)' <=> Bare(m)
               /\ Children(m)' = Children(m)
    BY <1>1, TreeStays
  <2>2. \A m : Open(m)' <=> Open(m)
    BY <1>2 DEF Open
  <2>3. LeftInv(V)
    BY DEF Reached
  <2> QED
    BY <1>2, <1>9, <2>1, <2>2, <2>3 DEF LeftInv
<1>11. \A k \in 1..Len(chunks') : chunks'[k].node \in V \cap Symbols
  BY <1>4, <1>6 DEF Reached
<1>12. 0 \in V
  BY DEF Reached
<1> QED
  BY <1>1, <1>2, <1>3, <1>4, <1>8, <1>10, <1>11, <1>12 DEF Reached

-----------------------------------------------------------------------------
(* What the end of a walk leaves behind.                                   *)

(* A node the walk did not reach is inside an item it did reach.           *)
LEMMA EveryNodeReached ==
    ASSUME TypeInv, NEW V \in SUBSET (0..Len(file.tree)), LeftInv(V),
           Children(0) \subseteq V,
           \A n \in V \ {0} : ~Open(n)
    PROVE  \A n \in 1..Len(file.tree) :
              \/ n \in V
              \/ \E a \in 1..Len(file.tree) :
                    /\ a \in V /\ file.tree[a].kind = "item" /\ Within(n, a)
<1> DEFINE Inside(n) == \E a \in 1..Len(file.tree) :
                           /\ a \in V /\ file.tree[a].kind = "item"
                           /\ Within(n, a)
           Lost == {n \in 1..Len(file.tree) : n \notin V /\ ~Inside(n)}
<1>1. SUFFICES ASSUME Lost # {} PROVE FALSE
  OBVIOUS
<1>2. file \in Inputs /\ Len(file.tree) \in Nat
  BY InputFacts DEF TypeInv
<1>3. PICK n \in Lost : \A m \in Lost : n <= m
  <2>1. Lost \in SUBSET Nat
    BY <1>2
  <2> HIDE DEF Lost
  <2> QED
    BY <1>1, <2>1, LeastExists
<1>4. n \in 1..Len(file.tree) /\ n \notin V /\ ~Inside(n)
  BY <1>3
<1>5. PICK p : p = file.tree[n].parent
  OBVIOUS
<1>6. /\ p \in 0..Len(file.tree) /\ p < n /\ p \in Nat
      /\ n \in Children(p)
  BY <1>2, <1>4, <1>5, NodeFacts DEF Children
<1>7. p # 0
  BY <1>4, <1>6
<1>8. p \in 1..Len(file.tree) /\ Within(n, p)
  BY <1>2, <1>4, <1>5, <1>6, <1>7, WithinParent
<1>9. CASE p \in V
  <2>1. file.tree[p].kind = "item"
    BY <1>4, <1>6, <1>7, <1>9 DEF LeftInv
  <2> QED
    BY <1>4, <1>8, <1>9, <2>1
<1>10. CASE p \notin V
  <2>1. p \notin Lost
    BY <1>2, <1>3, <1>4, <1>6
  <2>2. Inside(p)
    BY <1>8, <1>10, <2>1
  <2>3. PICK a \in 1..Len(file.tree) :
           /\ a \in V /\ file.tree[a].kind = "item" /\ Within(p, a)
    BY <2>2
  <2>4. Within(n, a)
    BY <1>2, <1>4, <1>8, <2>3, WithinTransitive
  <2> QED
    BY <1>4, <2>3, <2>4
<1> QED
  BY <1>9, <1>10

(* What a file owes are lines of it.                                       *)
LEMMA OwedLines ==
    ASSUME TypeInv
    PROVE  Owed \subseteq 1..Len(file.lines)
<1>1. Len(file.lines) \in Nat
  BY InputFacts DEF TypeInv
<1>2. ASSUME NEW n \in Symbols, NEW k \in file.tree[n].first..file.tree[n].last
      PROVE  k \in 1..Len(file.lines)
  <2>1. /\ file.tree[n].first \in Nat /\ file.tree[n].last \in Nat
        /\ 1 <= file.tree[n].first /\ file.tree[n].last <= Len(file.lines)
    BY NodeFacts DEF TypeInv, Symbols
  <2> QED
    BY <1>1, <2>1
<1> QED
  BY <1>2 DEF Owed

(* When the root is left, every line the file owes is in a chunk.          *)
LEMMA WalkCovers ==
    ASSUME TypeInv, NEW V \in SUBSET (0..Len(file.tree)), Reached(V),
           pc = "tree", Len(stack) = 1, Top.todo = {}, Parsed, chunks # <<>>
    PROVE  \A k \in Owed : Held(chunks, k)
<1>1. FrameOK(V, 1) /\ LeftInv(V) /\ file \in Inputs
  BY DEF Reached, FrameInv, TypeInv
<1>2. /\ stack[1].node = 0 /\ Children(0) \subseteq V
      /\ \A n \in V \ {0} : ~Open(n)
  <2>1. stack[1].node = 0 /\ Top = stack[1]
    BY <1>1 DEF FrameOK, Top
  <2>2. \A n : Open(n) => n = 0
    BY <2>1 DEF Open
  <2> QED
    BY <1>1, <2>1, <2>2 DEF FrameOK
<1>3. \A n \in 1..Len(file.tree) :
         \/ n \in V
         \/ \E a \in 1..Len(file.tree) :
               /\ a \in V /\ file.tree[a].kind = "item" /\ Within(n, a)
  BY <1>1, <1>2, EveryNodeReached
<1>4. Symbols # {}
  <2>1. 1 \in 1..Len(chunks)
    BY ChunksFields
  <2> QED
    BY <2>1 DEF Reached
<1>5. ASSUME NEW n \in Symbols, Bare(n),
             NEW k \in file.tree[n].first..file.tree[n].last
      PROVE  Held(chunks, k)
  <2>1. n \in 1..Len(file.tree) /\ n # 0
    BY DEF Symbols
  <2>2. CASE n \in V
    <3>1. NodeCovered(n)
      BY <1>1, <1>2, <1>5, <2>1, <2>2 DEF LeftInv, InWork
    <3> QED
      BY <1>5, <3>1 DEF NodeCovered, Covers
  <2>3. CASE n \notin V
    <3>1. PICK a \in 1..Len(file.tree) :
             /\ a \in V /\ file.tree[a].kind = "item" /\ Within(n, a)
      BY <1>3, <2>1, <2>3
    <3>2. NodeCovered(a)
      BY <1>1, <3>1 DEF LeftInv, InWork
    <3>3. k \in file.tree[a].first..file.tree[a].last
      <4>1. /\ file.tree[a].first \in Nat /\ file.tree[a].last \in Nat
            /\ file.tree[n].first \in Nat /\ file.tree[n].last \in Nat
        BY <1>1, <2>1, NodeFacts
      <4>2. /\ file.tree[a].first <= file.tree[n].first
            /\ file.tree[n].last <= file.tree[a].last
        BY <3>1, <4>1 DEF Within
      <4> QED
        BY <1>5, <4>1, <4>2
    <3> QED
      BY <3>2, <3>3 DEF NodeCovered, Covers
  <2> QED
    BY <2>2, <2>3
<1> QED
  BY <1>4, <1>5 DEF Owed

-----------------------------------------------------------------------------
(* The invariant is inductive.  Rest is what TypeStep leaves to show.      *)
Rest == AllOK(chunks) /\ Advance(chunks) /\ PhaseInv /\ GateInv

LEMMA QuietStep ==
    ASSUME ChunkingInv, Discover \/ WalkFails \/ Filter \/ Read
    PROVE  Rest'
<1>1. /\ UNCHANGED <<input, stack, win, chunks, safe, next>>
      /\ pc \in {"walk", "filter", "read"}
      /\ pc' \in {"filter", "read", "chunk", "done"}
  BY DEF Discover, WalkFails, Filter, Read, At, Goto
<1>2. /\ stack = <<>> /\ chunks = <<>> /\ next = 1
      /\ AllOK(chunks) /\ Advance(chunks) /\ GateInv
  BY <1>1 DEF ChunkingInv, PhaseInv
<1>3. AllOK(chunks)'
  BY <1>1, <1>2, InputStays
<1>4. PhaseInv'
  BY <1>1, <1>2 DEF PhaseInv
<1> QED
  BY <1>1, <1>2, <1>3, <1>4 DEF Rest, Advance, GateInv

LEMMA BeginStep ==
    ASSUME ChunkingInv, Slide \/ ParseTree
    PROVE  Rest'
<1>1. /\ UNCHANGED <<input, chunks, safe, next>> /\ pc = "chunk"
  BY DEF Slide, ParseTree, At
<1>2. /\ stack = <<>> /\ chunks = <<>> /\ next = 1 /\ TypeInv
      /\ AllOK(chunks) /\ Advance(chunks) /\ GateInv
  BY <1>1 DEF ChunkingInv, PhaseInv
<1>3. AllOK(chunks)' /\ Advance(chunks)' /\ GateInv'
  BY <1>1, <1>2, InputStays DEF Advance, GateInv
<1>4. CASE Slide
  <2>1. stack' = <<>> /\ SlideOver /\ pc' = "window"
    BY <1>2, <1>4 DEF Slide, SlideOver, Goto
  <2>2. WindowInv'
    BY <1>1, <1>2, <2>1, SlideWindow
  <2>3. PhaseInv'
    BY <1>1, <1>2, <2>1, <2>2 DEF PhaseInv
  <2> QED
    BY <1>3, <2>3 DEF Rest
<1>5. CASE ParseTree
  <2>1. stack' = <<Frame(0)>> /\ pc' = "tree" /\ Parsed
    BY <1>5 DEF ParseTree, Goto
  <2>2. file' = file /\ Parsed' /\ Len(chunks) = 0 /\ chunks' = chunks
    BY <1>1, <1>2, <2>1, InputStays
  <2>3. /\ Len(stack') = 1 /\ stack'[1].node = 0 /\ stack'[1].before = 0
        /\ stack'[1].todo = Children(0)
    BY <2>1, <2>2 DEF Frame
  <2>4. Children(0)' = Children(0) /\ 0 \notin Children(0)
        /\ \A m \in Children(0) : file.tree[m].parent = 0
    BY <2>2 DEF Children
  <2>5. FrameOK({0}, 1)'
    BY <2>1, <2>2, <2>3, <2>4 DEF FrameOK
  <2>6. FrameInv({0})'
    BY <2>3, <2>5 DEF FrameInv
  <2>7. LeftInv({0})'
    BY DEF LeftInv
  <2>8. Reached({0})'
    BY <2>1, <2>2, <2>6, <2>7 DEF Reached
  <2>9. {0} \in SUBSET (0..Len(file.tree))
    BY <1>2, InputFacts DEF TypeInv
  <2>10. WalkInv'
    BY <2>2, <2>8, <2>9 DEF WalkInv
  <2>11. stack' # <<>>
    BY <2>3
  <2>12. PhaseInv'
    BY <1>1, <1>2, <2>1, <2>2, <2>10, <2>11 DEF PhaseInv
  <2> QED
    BY <1>3, <2>12 DEF Rest
<1> QED
  BY <1>4, <1>5

LEMMA TreeStep ==
    ASSUME ChunkingInv, Descend \/ Ascend \/ EndTree
    PROVE  Rest'
<1>1. /\ UNCHANGED <<input, safe, next>> /\ pc = "tree" /\ stack # <<>>
  BY DEF Descend, Ascend, EndTree, At, ChunkingInv, PhaseInv
<1>2. /\ next = 1 /\ TypeInv /\ Parsed
      /\ AllOK(chunks) /\ Advance(chunks) /\ GateInv
  BY <1>1 DEF ChunkingInv, PhaseInv
<1>3. PICK V \in SUBSET (0..Len(file.tree)) : Reached(V)
  BY <1>1 DEF ChunkingInv, PhaseInv, WalkInv
<1>4. file' = file /\ Parsed' /\ Owed' = Owed
  BY <1>1, <1>2, InputStays
<1>5. CASE Descend \/ Ascend
  <2>1. /\ \E W \in SUBSET (0..Len(file.tree)) : Reached(W)'
        /\ pc' \in {"tree", "window"} /\ stack' # <<>>
        /\ pc' = "window" => WindowInv'
    <3>1. CASE Descend
      BY <1>1, <1>2, <1>3, <3>1, DescendReaches
    <3>2. CASE Ascend
      BY <1>1, <1>2, <1>3, <3>2, AscendReaches
    <3> QED
      BY <1>5, <3>1, <3>2
  <2>2. chunks' = chunks
    BY <1>5 DEF Descend, Ascend
  <2>3. WalkInv'
    BY <1>4, <2>1 DEF WalkInv
  <2>4. AllOK(chunks)' /\ Advance(chunks)' /\ GateInv'
    BY <1>1, <1>2, <2>2, InputStays DEF Advance, GateInv
  <2>5. PhaseInv'
    BY <1>1, <1>2, <1>4, <2>1, <2>3 DEF PhaseInv
  <2> QED
    BY <2>4, <2>5 DEF Rest
<1>6. CASE EndTree /\ chunks = <<>>
  <2>1. chunks' = chunks /\ SlideOver /\ pc' = "window" /\ stack' = <<>>
    BY <1>6 DEF EndTree, SlideOver, Goto
  <2>2. WindowInv'
    BY <1>1, <1>2, <1>6, <2>1, SlideWindow
  <2>3. AllOK(chunks)' /\ Advance(chunks)' /\ GateInv'
    BY <1>1, <1>2, <2>1, InputStays DEF Advance, GateInv
  <2>4. PhaseInv'
    BY <1>1, <1>2, <2>1, <2>2 DEF PhaseInv
  <2> QED
    BY <2>3, <2>4 DEF Rest
<1>7. CASE EndTree /\ chunks # <<>>
  <2>1. /\ chunks' = Sorted(chunks) /\ pc' = "ids" /\ stack' = <<>>
        /\ Len(stack) = 1 /\ Top.todo = {}
    BY <1>7 DEF EndTree, Goto
  <2>2. chunks \in Seq(ChunkRecord)
    BY <1>2, ChunksFields
  <2>3. \A k \in Owed : Held(chunks, k)
    BY <1>1, <1>2, <1>3, <1>7, <2>1, WalkCovers
  <2>4. /\ Len(chunks') = Len(chunks) /\ AllOK(Sorted(chunks))
        /\ \A k : Held(chunks, k) => Held(chunks', k)
        /\ Advance(Sorted(chunks))
    BY <1>2, <2>1, <2>2, SortedKeeps
  <2>5. AllOK(chunks)' /\ Advance(chunks)'
    <3>1. AllOK(chunks)' <=> AllOK(Sorted(chunks))
      <4>1. NodeSize' = NodeSize /\ SlidingSize' = SlidingSize
        BY <1>1, InputStays
      <4> QED
        BY <1>4, <2>1, <4>1 DEF AllOK, ChunkOK, LimitOf, FromFile
    <3> QED
      BY <2>1, <2>4, <3>1 DEF Advance
  <2>6. GateInv'
    BY <1>1, <1>2, <2>4 DEF GateInv
  <2>7. PhaseInv'
    BY <1>1, <1>2, <1>4, <2>1, <2>3, <2>4 DEF PhaseInv
  <2> QED
    BY <2>5, <2>6, <2>7 DEF Rest
<1> QED
  BY <1>5, <1>6, <1>7

LEMMA WindowsStep ==
    ASSUME ChunkingInv, EmitWindow \/ WindowsOver \/ EndWindows
    PROVE  Rest'
<1>1. /\ UNCHANGED <<input, stack, safe, next>> /\ pc \in {"window", "windowed"}
  BY DEF EmitWindow, WindowsOver, EndWindows, At
<1>2. /\ next = 1 /\ TypeInv /\ (stack # <<>> => Parsed)
      /\ AllOK(chunks) /\ Advance(chunks) /\ GateInv
      /\ pc = "window" => WindowInv
  BY <1>1 DEF ChunkingInv, PhaseInv
<1>3. file' = file /\ (Parsed' <=> Parsed) /\ Owed' = Owed
  BY <1>1, <1>2, InputStays
<1>4. ASSUME stack # <<>>
      PROVE  \E V \in SUBSET (0..Len(file.tree)) : Reached(V)
  BY <1>1, <1>4 DEF ChunkingInv, PhaseInv, WalkInv
<1>5. CASE EmitWindow
  <2>1. pc = "window" /\ WindowInv
    BY <1>2, <1>5 DEF EmitWindow, At
  <2>2. /\ AllOK(chunks)' /\ Advance(chunks)'
        /\ pc' = "window" => WindowInv'
        /\ pc' \in {"window", "windowed"}
        /\ pc' = "windowed" =>
              Covers(chunks', win.base, win.base + Len(win.lines) - 1)
        /\ Len(chunks') = Len(chunks) + 1
    BY <1>2, <1>5, <2>1, WindowStep
  <2>3. stack # <<>> => WalkInv'
    <3>1. ASSUME stack # <<>> PROVE WalkInv'
      <4>1. PICK V \in SUBSET (0..Len(file.tree)) : Reached(V)
        BY <1>4, <3>1
      <4>2. Reached(V)'
        BY <1>2, <1>5, <2>1, <3>1, <4>1, EmitReaches
      <4> QED
        BY <1>3, <4>1, <4>2 DEF WalkInv
    <3> QED
      BY <3>1
  <2>4. pc' = "windowed" /\ stack = <<>> => Covers(chunks', 1, Len(file.lines))
    <3>1. ASSUME stack = <<>>
          PROVE  win.base = 1 /\ win.base + Len(win.lines) - 1 = Len(file.lines)
      <4>1. win.base = 1 /\ Len(win.lines) = Len(file.lines)
        BY <2>1, <3>1 DEF WindowInv
      <4>2. Len(file.lines) \in Nat
        BY <1>2, InputFacts DEF TypeInv
      <4> QED
        BY <4>1, <4>2
    <3> QED
      BY <2>2, <3>1
  <2>5. GateInv'
    <3>1. Len(chunks) \in Nat
      BY <1>2, ChunksFields
    <3> QED
      BY <1>1, <1>2, <2>2, <3>1 DEF GateInv
  <2>6. PhaseInv'
    BY <1>1, <1>2, <1>3, <2>2, <2>3, <2>4 DEF PhaseInv
  <2> QED
    BY <2>2, <2>5, <2>6 DEF Rest
<1>6. CASE WindowsOver
  <2>1. /\ pc = "window" /\ WindowInv /\ win.at >= Len(win.lines)
        /\ pc' = "windowed" /\ win' = win /\ chunks' = chunks
    BY <1>2, <1>6 DEF WindowsOver, At, Goto
  <2>2. win.at = 0 /\ Len(win.lines) = 0
    <3>1. PICK at \in Nat, len \in Nat : at = win.at /\ len = Len(win.lines)
      BY <1>2, WindowFields
    <3>2. ~(at > 0 /\ at >= len)
      BY <2>1, <3>1 DEF WindowInv
    <3> QED
      BY <2>1, <3>1, <3>2
  <2>3. win.node = 0
    <3>1. ASSUME win.node # 0 PROVE FALSE
      <4>1. win.node \in 1..Len(file.tree)
        BY <2>1, <3>1 DEF WindowInv, Symbols
      <4>2. PICK first \in Nat, last \in Nat :
               /\ first = file.tree[win.node].first
               /\ last = file.tree[win.node].last /\ first <= last
        BY <1>2, <4>1, NodeFacts DEF TypeInv
      <4>3. first + 0 - 1 = last
        BY <2>1, <2>2, <3>1, <4>2 DEF WindowInv
      <4> QED
        BY <4>2, <4>3
    <3> QED
      BY <3>1
  <2>4. stack = <<>> /\ Len(file.lines) = 0
    BY <2>1, <2>2, <2>3 DEF WindowInv
  <2>5. Covers(chunks', 1, Len(file.lines))
    BY <2>4 DEF Covers
  <2>6. AllOK(chunks)' /\ Advance(chunks)' /\ GateInv'
    BY <1>1, <1>2, <2>1, InputStays DEF Advance, GateInv
  <2>7. PhaseInv'
    BY <1>1, <1>2, <1>3, <2>1, <2>4, <2>5 DEF PhaseInv
  <2> QED
    BY <2>6, <2>7 DEF Rest
<1>7. CASE EndWindows
  <2>1. /\ pc = "windowed" /\ chunks' = chunks
        /\ pc' = IF stack # <<>> THEN "tree" ELSE "ids"
    BY <1>7 DEF EndWindows, At, Goto
  <2>2. AllOK(chunks)' /\ Advance(chunks)' /\ GateInv'
    BY <1>1, <1>2, <2>1, InputStays DEF Advance, GateInv
  <2>3. CASE stack # <<>>
    <3>1. PICK V \in SUBSET (0..Len(file.tree)) : Reached(V)
      BY <1>4, <2>3
    <3>2. FrameInv(V)'
      <4>1. ASSUME NEW i \in 1..Len(stack)
            PROVE  FrameOK(V, i)'
        <5>1. FrameOK(V, i)
          BY <3>1 DEF Reached, FrameInv
        <5> QED
          BY <1>1, <1>3, <2>1, <2>3, <5>1 DEF FrameOK, Children, Within, Symbols
      <4> QED
        BY <1>1, <4>1 DEF FrameInv
    <3>3. LeftInv(V)'
      <4>1. \A m : /\ Bare(m)' <=> Bare(m)
                   /\ Children(m)' = Children(m)
                   /\ NodeCovered(m)' <=> NodeCovered(m)
        BY <1>1, <2>1, TreeStays
      <4>2. \A m : (Open(m)' <=> Open(m)) /\ ~InWork(m)
        BY <1>1, <2>1 DEF Open, InWork
      <4>3. Symbols' = Symbols
        BY <1>3 DEF Symbols
      <4>4. LeftInv(V)
        BY <3>1 DEF Reached
      <4> QED
        BY <1>3, <4>1, <4>2, <4>3, <4>4 DEF LeftInv
    <3>4. Reached(V)'
      BY <1>3, <2>1, <2>3, <3>1, <3>2, <3>3 DEF Reached, Symbols
    <3>5. WalkInv'
      BY <1>3, <3>4 DEF WalkInv
    <3>6. PhaseInv'
      BY <1>1, <1>2, <1>3, <2>1, <2>3, <3>5 DEF PhaseInv
    <3> QED
      BY <2>2, <3>6 DEF Rest
  <2>4. CASE stack = <<>>
    <3>1. Covers(chunks, 1, Len(file.lines))
      BY <2>1, <2>4 DEF ChunkingInv, PhaseInv
    <3>2. \A k \in Owed : Held(chunks, k)
      BY <1>2, <3>1, OwedLines DEF Covers
    <3>3. PhaseInv'
      BY <1>1, <1>2, <1>3, <2>1, <2>4, <3>2 DEF PhaseInv
    <3> QED
      BY <2>2, <3>3 DEF Rest
  <2> QED
    BY <2>3, <2>4
<1> QED
  BY <1>5, <1>6, <1>7

LEMMA GateStep ==
    ASSUME ChunkingInv, AssignIds \/ GateChunk \/ EndGate
    PROVE  Rest'
<1>1. UNCHANGED <<input, stack, win>> /\ pc \in {"ids", "gate"} /\ TypeInv
      /\ (stack # <<>> => Parsed)
  BY DEF AssignIds, GateChunk, EndGate, At, ChunkingInv, PhaseInv
<1>2. /\ \A k \in Owed : Held(chunks, k)
      /\ AllOK(chunks) /\ Advance(chunks) /\ GateInv
      /\ pc = "ids" => next = 1
  BY <1>1 DEF ChunkingInv, PhaseInv
<1>3. file' = file /\ (Parsed' <=> Parsed) /\ Owed' = Owed
  BY <1>1, InputStays
<1>4. CASE AssignIds
  <2>1. pc' = "gate" /\ UNCHANGED <<safe, next>> /\ next = 1
    BY <1>2, <1>4 DEF AssignIds, At, Goto
  <2>2. /\ Len(chunks') = Len(chunks)
        /\ \A k \in 1..Len(chunks) :
              /\ chunks'[k].node = chunks[k].node
              /\ chunks'[k].first = chunks[k].first
              /\ chunks'[k].last = chunks[k].last
              /\ chunks'[k].content = chunks[k].content
    BY <1>1, <1>2, <1>4, IdsAssigned
  <2>3. AllOK(chunks)'
    <3>1. NodeSize' = NodeSize /\ SlidingSize' = SlidingSize
      BY <1>1, InputStays
    <3>2. ASSUME NEW k \in 1..Len(chunks)
          PROVE  /\ ChunkOK(chunks[k])' /\ FromFile(chunks[k].content)'
                 /\ chunks'[k].node \in 0..Len(file.tree)
      <4>1. /\ ChunkOK(chunks[k]) /\ FromFile(chunks[k].content)
            /\ chunks[k].node \in 0..Len(file.tree)
        BY <1>2 DEF AllOK
      <4>2. ChunkOK(chunks[k])'
        BY <1>3, <2>2, <3>1, <4>1 DEF ChunkOK, LimitOf
      <4>3. FromFile(chunks[k].content)'
        BY <1>3, <2>2, <4>1 DEF FromFile
      <4> QED
        BY <2>2, <4>1, <4>2, <4>3
    <3> QED
      BY <1>3, <2>2, <3>2 DEF AllOK
  <2>4. Advance(chunks)'
    <3>1. \A j \in 1..Len(chunks) : \A i \in (j + 1)..Len(chunks) :
             i \in 1..Len(chunks)
      OBVIOUS
    <3> QED
      BY <1>2, <2>2, <3>1 DEF Advance
  <2>5. \A k : Held(chunks, k) => Held(chunks', k)
    BY <2>2 DEF Held
  <2>6. GateInv'
    BY <1>2, <2>1, <2>2 DEF GateInv
  <2>7. PhaseInv'
    BY <1>1, <1>2, <1>3, <2>1, <2>5 DEF PhaseInv
  <2> QED
    BY <2>3, <2>4, <2>6, <2>7 DEF Rest
<1>5. CASE GateChunk
  <2>1. /\ pc = "gate" /\ pc' = pc /\ chunks' = chunks /\ next <= Len(chunks)
        /\ next' = next + 1
        /\ safe' = IF ContainsSecret(chunks[next].content) THEN safe
                   ELSE safe \cup {next}
    BY <1>5 DEF GateChunk, At
  <2>2. AllOK(chunks)' /\ Advance(chunks)'
    BY <1>1, <1>2, <2>1, InputStays DEF Advance
  <2>3. PICK n \in Nat, m \in Nat : n = next /\ m = Len(chunks) /\ n >= 1
    <3>1. next \in Nat /\ next # 0
      BY <1>1 DEF TypeInv
    <3>2. next >= 1
      BY ONLY <3>1
    <3>3. Len(chunks) \in Nat
      BY <1>1, ChunksFields
    <3> QED
      BY <3>1, <3>2, <3>3
  <2>4. /\ n <= m /\ safe \subseteq 1..(n - 1)
        /\ \A i \in 1..(n - 1) :
              i \in safe <=> ~ContainsSecret(chunks[i].content)
    BY <1>1, <1>2, <2>1, <2>3 DEF TypeInv, GateInv
  <2>5. \A i \in 1..n : i \in 1..(n - 1) \/ i = n
    OBVIOUS
  <2>6. \A i \in 1..n : i \in safe' <=> ~ContainsSecret(chunks[i].content)
    <3>1. n \notin safe
      BY <2>3, <2>4
    <3> QED
      BY <2>1, <2>3, <2>4, <2>5, <3>1
  <2>7. GateInv'
    <3>1. next' <= Len(chunks) + 1 /\ next' - 1 = n
      BY <2>1, <2>3, <2>4
    <3> QED
      BY <2>1, <2>6, <3>1 DEF GateInv, ContainsSecret
  <2>8. PhaseInv'
    BY <1>1, <1>2, <1>3, <2>1 DEF PhaseInv
  <2> QED
    BY <2>2, <2>7, <2>8 DEF Rest
<1>6. CASE EndGate
  <2>1. /\ pc' = "chunked" /\ UNCHANGED <<chunks, safe, next>>
        /\ next > Len(chunks)
    BY <1>6 DEF EndGate, At, Goto
  <2>2. AllOK(chunks)' /\ Advance(chunks)' /\ GateInv'
    BY <1>1, <1>2, <2>1, InputStays DEF Advance, GateInv
  <2>3. PhaseInv'
    BY <1>1, <1>2, <1>3, <2>1 DEF PhaseInv
  <2> QED
    BY <2>2, <2>3 DEF Rest
<1> QED
  BY <1>4, <1>5, <1>6

LEMMA ChunkingStep ==
    ASSUME ChunkingInv, [Next]_vars
    PROVE  ChunkingInv'
<1>1. TypeInv'
  BY TypeStep DEF ChunkingInv, PhaseInv, GateInv
<1>2. Rest'
  <2>1. CASE Discover \/ WalkFails \/ Filter \/ Read
    BY <2>1, QuietStep
  <2>2. CASE Slide \/ ParseTree
    BY <2>2, BeginStep
  <2>3. CASE Descend \/ Ascend \/ EndTree
    BY <2>3, TreeStep
  <2>4. CASE EmitWindow \/ WindowsOver \/ EndWindows
    BY <2>4, WindowsStep
  <2>5. CASE AssignIds \/ GateChunk \/ EndGate
    BY <2>5, GateStep
  <2>6. CASE UNCHANGED vars
    <3>1. /\ UNCHANGED input
          /\ UNCHANGED <<pc, stack, win, chunks, safe, next>>
      BY <2>6 DEF vars, input
    <3>2. file' = file
      BY <3>1 DEF input
    <3>3. AllOK(chunks)'
      BY <3>1, InputStays DEF ChunkingInv
    <3>4. WindowInv' <=> WindowInv
      BY <2>6 DEF vars, WindowInv, LimitOf, SlidingSize, NodeSize, FromFile,
                  Symbols
    <3>5. WalkInv' <=> WalkInv
      BY <2>6 DEF vars, WalkInv, Reached, FrameInv, FrameOK, LeftInv, InWork,
                  NodeCovered, Open, Bare, Within, Symbols, Children
    <3>6. Owed' = Owed /\ (Parsed' <=> Parsed)
      BY <3>1, InputStays
    <3>7. PhaseInv'
      BY <3>1, <3>2, <3>4, <3>5, <3>6 DEF ChunkingInv, PhaseInv
    <3> QED
      BY <3>1, <3>3, <3>7 DEF ChunkingInv, Rest, Advance, GateInv
  <2> QED
    BY <2>1, <2>2, <2>3, <2>4, <2>5, <2>6 DEF Next
<1> QED
  BY <1>1, <1>2 DEF ChunkingInv, Rest

LEMMA ChunkingInit ==
    ASSUME Init
    PROVE  ChunkingInv
<1>1. /\ file \in Inputs /\ cfg \in Configs /\ pc = "walk" /\ stack = <<>>
      /\ win = NoWindow /\ chunks = <<>> /\ safe = {} /\ next = 1
  BY DEF Init
<1>2. /\ <<>> \in Seq([node : Nat, content : Seq(Line), first : Nat,
                       last : Nat, id : Ids])
      /\ <<>> \in Seq([node : 0..Len(file.tree), before : Nat,
                       todo : SUBSET (1..Len(file.tree))])
  BY EmptySeq
<1>3. TypeInv
  BY <1>1, <1>2, NoWindowTyped DEF TypeInv, Steps
<1>4. AllOK(chunks) /\ Advance(chunks) /\ PhaseInv /\ GateInv
  BY <1>1 DEF AllOK, Advance, PhaseInv, GateInv
<1> QED
  BY <1>3, <1>4 DEF ChunkingInv

(* Chunking keeps its invariant: what is known of windows, frames, chunks  *)
(* and the gate in every state.                                            *)
THEOREM ChunkingIsInvariant == Spec => []ChunkingInv
<1>1. Init => ChunkingInv
  BY ChunkingInit
<1>2. ChunkingInv /\ [Next]_vars => ChunkingInv'
  BY ChunkingStep
<1> QED
  BY <1>1, <1>2, PTL DEF Spec

-----------------------------------------------------------------------------
(* What a run of the chunker promises.                                     *)

(* Every chunk names lines of its file, no more than its window may hold,  *)
(* and its content is these lines, behind at most the repeated head of     *)
(* its symbol - whatever the file, the overlap and the limits.             *)
THEOREM ChunkingTyped == Spec => []ChunkingTypeOK
<1>1. ChunkingInv => ChunkingTypeOK
  <2>1. SUFFICES ASSUME ChunkingInv PROVE ChunkingTypeOK
    OBVIOUS
  <2>2. /\ file.lines \in Seq(Line) /\ file.tree \in Seq(Node)
        /\ Len(chunks) \in Nat
    BY <2>1, InputFacts, ChunksFields DEF ChunkingInv, TypeInv
  <2>3. next \in Nat /\ next # 0 /\ next <= Len(chunks) + 1
        /\ safe \subseteq 1..(next - 1)
    BY <2>1 DEF ChunkingInv, TypeInv, GateInv
  <2>4. next \in 1..(Len(chunks) + 1) /\ safe \subseteq 1..Len(chunks)
    BY ONLY <2>2, <2>3
  <2> QED
    BY <2>1, <2>2, <2>4 DEF ChunkingInv, TypeInv, AllOK, ChunkingTypeOK
<1> QED
  BY <1>1, ChunkingIsInvariant, PTL

(* The windows of a run of lines follow each other without a gap and each  *)
(* one ends later than the one before, after sorting too: sliding_window   *)
(* makes progress and loses no line for every size and overlap.            *)
THEOREM WindowsOfARunAdvance == Spec => []WindowsAdvance
<1>1. ChunkingInv => WindowsAdvance
  <2>1. SUFFICES ASSUME ChunkingInv, NEW k \in 1..(Len(chunks) - 1),
                        chunks[k].node = chunks[k + 1].node
                 PROVE  /\ chunks[k].first < chunks[k + 1].first
                        /\ chunks[k + 1].first <= chunks[k].last + 1
                        /\ chunks[k].last < chunks[k + 1].last
    BY DEF WindowsAdvance
  <2>2. Len(chunks) \in Nat /\ k \in 1..Len(chunks) /\ k + 1 \in 1..Len(chunks)
        /\ k < k + 1
    BY <2>1, ChunksFields DEF ChunkingInv
  <2>3. /\ chunks[k].first < chunks[k + 1].first
        /\ chunks[k].last < chunks[k + 1].last
        /\ \E i \in (k + 1)..Len(chunks) :
              /\ chunks[i].node = chunks[k].node
              /\ chunks[i].first <= chunks[k].last + 1
    BY <2>1, <2>2 DEF ChunkingInv, Advance
  <2>4. PICK i \in (k + 1)..Len(chunks) :
           /\ chunks[i].node = chunks[k].node
           /\ chunks[i].first <= chunks[k].last + 1
    BY <2>3
  <2>5. i \in 1..Len(chunks) /\ (i = k + 1 \/ k + 1 < i)
    BY <2>2
  <2>6. /\ chunks[k + 1].first \in Nat /\ chunks[i].first \in Nat
        /\ chunks[k].last \in Nat
    BY <2>1, <2>2, <2>5, ChunksFields DEF ChunkingInv
  <2>7. chunks[k + 1].first <= chunks[i].first
    <3>1. CASE i = k + 1
      BY <2>6, <3>1
    <3>2. CASE k + 1 < i
      <4>1. chunks[k + 1].first < chunks[i].first
        BY <2>1, <2>2, <2>4, <2>5, <3>2 DEF ChunkingInv, Advance
      <4> QED
        BY <2>6, <4>1
    <3> QED
      BY <2>5, <3>1, <3>2
  <2> QED
    BY <2>3, <2>4, <2>6, <2>7
<1> QED
  BY <1>1, ChunkingIsInvariant, PTL

(* The lines a chunk names are the last ones of its content, each at the   *)
(* same distance.                                                          *)
Place(c, k) == Len(c.content) - c.last + k
LEMMA ContentHasLines ==
    ASSUME file \in Inputs, cfg \in Configs, NEW c \in ChunkRecord, ChunkOK(c),
           NEW k \in c.first..c.last
    PROVE  /\ Place(c, k) \in 1..Len(c.content)
           /\ c.content[Place(c, k)] = file.lines[k]
<1>1. PICK first \in Nat, last \in Nat, len \in Nat, lines \in Nat :
         /\ first = c.first /\ last = c.last /\ len = Len(c.content)
         /\ lines = Len(file.lines)
  BY InputFacts DEF ChunkRecord
<1>2. c.content \in Seq(Line) /\ file.lines \in Seq(Line)
  BY InputFacts DEF ChunkRecord
<1>3. /\ 1 <= first /\ first <= last /\ last <= lines
      /\ len - (last - first + 1) \in 0..HeaderLines
      /\ SubSeq(c.content, len - (last - first + 1) + 1, len)
            = SubSeq(file.lines, first, last)
  BY <1>1 DEF ChunkOK
<1>4. PICK a \in Nat : a = len - (last - first + 1) + 1 /\ a >= 1
  BY <1>1, <1>3, InputFacts
<1>5. k \in Nat /\ first <= k /\ k <= last
  BY <1>1
<1>6. a <= len + 1 /\ 1 <= a /\ len = a + last - first
  <2>1. first <= last
    BY <1>3
  <2>2. a = len - (last - first + 1) + 1 /\ a >= 1
    BY <1>4
  <2> QED
    BY ONLY <2>1, <2>2, a \in Nat, first \in Nat, last \in Nat, len \in Nat
<1>7. SubSeq(c.content, a, len)[k - first + 1] = c.content[a + (k - first + 1) - 1]
  <2>1. a <= len + 1 /\ len <= Len(c.content) /\ 1 <= a
    BY <1>1, <1>6
  <2>2. \A i \in 1..(len - a + 1) : SubSeq(c.content, a, len)[i] = c.content[a + i - 1]
    BY <1>2, <2>1, SubSeqFacts
  <2>3. k - first + 1 \in 1..(len - a + 1)
    BY <1>3, <1>4, <1>5
  <2> QED
    BY <2>2, <2>3
<1>8. SubSeq(file.lines, first, last)[k - first + 1]
         = file.lines[first + (k - first + 1) - 1]
  <2>1. first <= last + 1 /\ last <= Len(file.lines)
    BY <1>1, <1>3
  <2>2. \A i \in 1..(last - first + 1) :
           SubSeq(file.lines, first, last)[i] = file.lines[first + i - 1]
    BY <1>2, <1>3, <2>1, SubSeqFacts
  <2>3. k - first + 1 \in 1..(last - first + 1)
    BY <1>3, <1>5
  <2> QED
    BY <2>2, <2>3
<1>9. /\ a + (k - first + 1) - 1 = Place(c, k)
      /\ first + (k - first + 1) - 1 = k
      /\ Place(c, k) \in 1..Len(c.content)
  <2>1. Place(c, k) = len - last + k
    BY <1>1 DEF Place
  <2>2. a + (k - first + 1) - 1 = len - last + k /\ first + (k - first + 1) - 1 = k
        /\ len - last + k \in 1..len
    BY ONLY <1>3, <1>5, <1>6, a \in Nat
  <2> QED
    BY <1>1, <2>1, <2>2
<1>10. SubSeq(c.content, a, len) = SubSeq(file.lines, first, last)
  BY <1>3, <1>4
<1> QED
  BY <1>7, <1>8, <1>9, <1>10

(* A secret in the lines of a chunk is one of its content.                 *)
LEMMA LinesShowSecret ==
    ASSUME file \in Inputs, cfg \in Configs, NEW c \in ChunkRecord, ChunkOK(c),
           NEW j \in Nat, NEW k \in Nat, SecretAt(file.lines, j, k),
           c.first <= j, k <= c.last
    PROVE  ContainsSecret(c.content)
<1>1. c.first \in Nat /\ c.last \in Nat /\ Len(c.content) \in Nat
  BY DEF ChunkRecord
<1>2. j <= k
  BY DEF SecretAt
<1>3. \A i \in j..k : /\ Place(c, i) \in 1..Len(c.content)
                      /\ c.content[Place(c, i)] = file.lines[i]
  <2>1. \A i \in j..k : i \in c.first..c.last
    BY <1>1
  <2> QED
    BY <2>1, ContentHasLines
<1>4. j \in j..k /\ k \in j..k
  BY <1>2
<1>5. SecretAt(c.content, Place(c, j), Place(c, k))
  <2>1. CASE j = k /\ IsSecret(file.lines[j])
    BY <2>1, <1>3, <1>4 DEF SecretAt
  <2>2. CASE /\ j < k /\ file.lines[j].names
             /\ \A i \in (j + 1)..(k - 1) : file.lines[i].blank
             /\ file.lines[k].value /\ HighEntropy(file.lines[k])
    <3>1. Place(c, j) < Place(c, k)
      BY <1>1, <2>2 DEF Place
    <3>2. ASSUME NEW n \in (Place(c, j) + 1)..(Place(c, k) - 1)
          PROVE  c.content[n].blank
      <4>1. PICK d \in Int : d = Len(c.content) - c.last
        BY <1>1
      <4>2. \A i \in Nat : Place(c, i) = d + i
        BY <4>1 DEF Place
      <4>3. Place(c, j) = d + j /\ Place(c, k) = d + k
        BY <4>2
      <4>4. n \in Int /\ d + j + 1 <= n /\ n <= d + k - 1
        BY <3>2, <4>1, <4>3
      <4>5. PICK i \in Int : i = n - d
        BY <4>1, <4>4
      <4>6. i \in (j + 1)..(k - 1) /\ i \in Nat /\ i \in j..k /\ d + i = n
        BY <4>1, <4>4, <4>5
      <4>7. c.content[n] = file.lines[i]
        BY <1>3, <4>2, <4>6
      <4> QED
        BY <2>2, <4>6, <4>7
    <3> QED
      BY <1>3, <1>4, <2>2, <3>1, <3>2 DEF SecretAt
  <2> QED
    BY <2>1, <2>2 DEF SecretAt
<1> QED
  BY <1>3, <1>4, <1>5 DEF ContainsSecret

(* No symbol is lost between a file and the embedder: every line of every  *)
(* symbol, or of a file without symbols, is in a chunk that passed the     *)
(* gate unless its content shows a secret.  No passed chunk shows a line   *)
(* with a whole secret or all lines of one that is spread over several;    *)
(* a part of a spread secret may pass, and nothing is said of the lines    *)
(* outside symbols, which collect_chunks drops.                            *)
THEOREM SymbolsReachTheGate == Spec => []SymbolsAreChunked
<1>1. ChunkingInv => SymbolsAreChunked
  <2>1. SUFFICES ASSUME ChunkingInv, pc = "chunked" PROVE SymbolsAreChunked
    BY DEF SymbolsAreChunked
  <2>2. /\ Len(chunks) \in Nat /\ next \in Nat
        /\ next > Len(chunks) /\ next <= Len(chunks) + 1
    BY <2>1, ChunksFields DEF ChunkingInv, TypeInv, PhaseInv, GateInv
  <2>3. next - 1 = Len(chunks)
    BY ONLY <2>2
  <2>4. /\ \A i \in 1..Len(chunks) :
              i \in safe <=> ~ContainsSecret(chunks[i].content)
        /\ safe \subseteq 1..Len(chunks)
    BY <2>1, <2>3 DEF ChunkingInv, GateInv, TypeInv
  <2>5. \A k \in Owed : \E i \in 1..Len(chunks) :
           k \in chunks[i].first..chunks[i].last
    BY <2>1 DEF ChunkingInv, PhaseInv, Held
  <2>6. \A k \in 1..Len(file.lines), i \in safe :
           IsSecret(file.lines[k]) => ~Shows(i, file.lines[k])
    BY <2>4 DEF Shows, ContainsSecret, SecretAt
  <2>7. ASSUME NEW j \in 1..Len(file.lines), NEW k \in 1..Len(file.lines),
               NEW i \in safe, SecretAt(file.lines, j, k),
               chunks[i].first <= j, k <= chunks[i].last
        PROVE  FALSE
    <3>1. i \in 1..Len(chunks) /\ ~ContainsSecret(chunks[i].content)
      BY <2>4
    <3>2. chunks \in Seq(ChunkRecord) /\ file \in Inputs /\ cfg \in Configs
      BY <2>1 DEF ChunkingInv, TypeInv, ChunkRecord
    <3>3. chunks[i] \in ChunkRecord /\ ChunkOK(chunks[i])
      BY <2>1, <3>1, <3>2, ChunkFields DEF ChunkingInv, AllOK
    <3>4. j \in Nat /\ k \in Nat
      BY <3>2, InputFacts
    <3> QED
      BY <2>7, <3>1, <3>2, <3>3, <3>4, LinesShowSecret
  <2> QED
    BY <2>4, <2>5, <2>6, <2>7 DEF SymbolsAreChunked
<1> QED
  BY <1>1, ChunkingIsInvariant, PTL

=============================================================================
