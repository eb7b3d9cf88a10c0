-------------------------- MODULE EmbeddingProofs --------------------------
(***************************************************************************)
(* Proofs about Embedding, for every list of texts, batch size, sequence   *)
(* limit and answer of an endpoint.  The invariant says, of the texts of   *)
(* the current call, how many of the sorted ones have their vector, and of *)
(* the current attempt, how many answers came before it.                   *)
(***************************************************************************)
EXTENDS Embedding, FiniteSetTheorems, SequenceTheorems,
        TLAPS

Building == {"build", "artifacts", "warm one", "warm full", "warm"}

(* Where the task is tells what the embedder, the texts and the answers    *)
(* are.                                                                    *)
PhaseInv ==
    /\ pc \in Building => texts = <<>> /\ result = <<>> /\ answers = <<>>
    /\ pc \in {"ready", "batch", "send", "waiting"} =>
          embedder.kind \in {"onnx", "openai"}
    /\ pc = "batch" => embedder.kind = "onnx" /\ answers = <<>>
    /\ pc \in {"send", "waiting"} =>
          /\ embedder.kind = "openai"
          /\ attempt = Len(answers)
          /\ \A i \in DOMAIN answers : answers[i] \in Transient

(* How far the ONNX backend is.                                            *)
BatchInv ==
    pc = "batch" =>
        /\ order \in [DOMAIN texts -> DOMAIN texts]
        /\ \A i, j \in DOMAIN texts : i # j => order[i] # order[j]
        /\ Len(sortedOut) <= Len(texts)
        /\ \A j \in DOMAIN sortedOut :
              /\ sortedOut[j].dim = embedder.dim
              /\ ~config.pooled =>
                    sortedOut[j].of = OwnVector(texts[order[j]])

EmbeddingInv == /\ EmbeddingTypeOK /\ PhaseInv /\ BatchInv
                /\ VectorsInOrder /\ VectorsFit /\ RetryDiscipline

-----------------------------------------------------------------------------
(* Arithmetic of the padded rows.                                          *)

(* A batch is at least as wide as each of its rows.  Were there no width   *)
(* that fits exactly, the bounds below MaxSeqLen would be closed under     *)
(* predecessors, a one-to-one map of a finite set into itself that misses  *)
(* MaxSeqLen.                                                              *)
LEMMA WidthBounds ==
    ASSUME NEW xs \in Seq(Text)
    PROVE  /\ Width(xs) \in Nat \ {0}
           /\ \A i \in DOMAIN xs : Tokens(xs[i]) <= Width(xs)
<1> DEFINE Bound(n) == \A i \in DOMAIN xs : Tokens(xs[i]) <= n
           S == {n \in 1..MaxSeqLen : Bound(n)}
           f == [n \in S |-> n - 1]
<1>1. \A i \in DOMAIN xs : Tokens(xs[i]) \in Nat /\ Tokens(xs[i]) <= MaxSeqLen
  BY SizesAssumption, TextAssumption DEF Tokens, Smaller
<1>2. MaxSeqLen \in S
  BY <1>1, SizesAssumption
<1>3. ASSUME \A n \in S : n # 1 /\ \A i \in DOMAIN xs : Tokens(xs[i]) # n
      PROVE  FALSE
  <2>1. ASSUME NEW n \in S
        PROVE  n - 1 \in S
    BY <1>1, <1>3, SizesAssumption
  <2>2. f \in [S -> S]
    BY <2>1
  <2>3. \A m, n \in S : f[m] = f[n] => m = n
    BY SizesAssumption
  <2>4. f \in Injection(S, S)
    BY <2>2, <2>3 DEF Injection, IsInjective
  <2>5. IsFiniteSet(S)
    <3>1. IsFiniteSet(1..MaxSeqLen)
      BY SizesAssumption, FS_Interval
    <3> QED
      BY <3>1, FS_Subset
  <2>6. f \in Surjection(S, S)
    BY <2>4, <2>5, FS_Injection
  <2>7. PICK n \in S : f[n] = MaxSeqLen
    BY <2>6, <1>2 DEF Surjection
  <2> QED
    BY <2>7, SizesAssumption
<1>4. \E k \in 1..MaxSeqLen :
         /\ \A i \in DOMAIN xs : Tokens(xs[i]) <= k
         /\ k = 1 \/ \E i \in DOMAIN xs : Tokens(xs[i]) = k
  BY <1>3
<1>5. /\ Width(xs) \in 1..MaxSeqLen
      /\ \A i \in DOMAIN xs : Tokens(xs[i]) <= Width(xs)
  BY <1>4 DEF Width
<1> QED
  BY <1>5, SizesAssumption

(* Rows that start at multiples of a width are disjoint.                   *)
LEMMA RowsApart ==
    ASSUME NEW w \in Nat, NEW a \in Nat, NEW b \in Nat, a < b
    PROVE  a * w + w <= b * w
<1>1. PICK k \in Nat : b = a + 1 + k
  <2>1. b - a - 1 \in Nat /\ b = a + 1 + (b - a - 1)
    OBVIOUS
  <2> QED
    BY <2>1
<1>2. b * w = a * w + w + k * w
  BY <1>1
<1>3. k * w \in Nat /\ a * w \in Nat
  OBVIOUS
<1> QED
  BY <1>2, <1>3

(* mean_pool reads the tokens of its own row and of no other.              *)
LEMMA PoolsOwnRow ==
    ASSUME NEW xs \in Seq(Text), NEW i \in DOMAIN xs, ~config.pooled
    PROVE  MeanPool(xs, i - 1) = IF Tokens(xs[i]) = 0 THEN {} ELSE {xs[i]}
<1> DEFINE r == i - 1
           w == Width(xs)
<1>1. r \in 0..(Len(xs) - 1) /\ r \in Nat /\ xs[r + 1] = xs[i]
  OBVIOUS
<1>2. w \in Nat \ {0} /\ Tokens(xs[i]) <= w
  BY WidthBounds
<1>3. Tokens(xs[i]) \in Nat
  BY SizesAssumption, TextAssumption DEF Tokens, Smaller
<1> HIDE DEF w
<1>4. ASSUME NEW t \in 0..(Tokens(xs[i]) - 1)
      PROVE  CellOwners(xs, r * w + t) = {r}
  <2>1. t \in Nat /\ t < w /\ r * w \in Nat
    BY <1>1, <1>2, <1>3
  <2>2. ASSUME NEW s \in 0..(Len(xs) - 1), s # r,
               s * w <= r * w + t, r * w + t < s * w + w
        PROVE  FALSE
    <3>1. s \in Nat /\ s * w \in Nat
      BY <1>2
    <3>2. CASE s < r
      <4>1. s * w + w <= r * w
        BY <3>1, <3>2, <1>1, <1>2, RowsApart
      <4> QED
        BY <4>1, <2>1, <2>2, <3>1, <1>2
    <3>3. CASE r < s
      <4>1. r * w + w <= s * w
        BY <3>1, <3>3, <1>1, <1>2, RowsApart
      <4> QED
        BY <4>1, <2>1, <2>2, <3>1, <1>2
    <3> QED
      BY <3>1, <3>2, <3>3, <2>2, <1>1
  <2>3. r * w <= r * w + t /\ r * w + t < r * w + w
    BY <2>1, <1>2
  <2>4. CellOwners(xs, r * w + t) =
           {s \in 0..(Len(xs) - 1) : /\ s * w <= r * w + t
                                     /\ r * w + t < s * w + w}
    BY DEF CellOwners, w
  <2> QED
    BY <2>2, <2>3, <2>4, <1>1
<1>5. CellsOf(xs, r) = {r * w + t : t \in 0..(Tokens(xs[i]) - 1)}
  BY <1>1 DEF CellsOf, w
<1>6. UNION {CellOwners(xs, c) : c \in CellsOf(xs, r)} =
         IF Tokens(xs[i]) = 0 THEN {} ELSE {r}
  <2>1. CASE Tokens(xs[i]) = 0
    BY <2>1, <1>5
  <2>2. CASE Tokens(xs[i]) # 0
    <3>1. 0 \in 0..(Tokens(xs[i]) - 1)
      BY <2>2, <1>3
    <3>2. r * w + 0 \in CellsOf(xs, r)
      BY <3>1, <1>5
    <3>3. \A c \in CellsOf(xs, r) : CellOwners(xs, c) = {r}
      BY <1>4, <1>5
    <3> QED
      BY <3>2, <3>3, <2>2
  <2> QED
    BY <2>1, <2>2
<1> QED
  BY <1>1, <1>6 DEF MeanPool

-----------------------------------------------------------------------------
(* Type correctness.                                                       *)

(* A list of positions as long as a list is a sequence.                    *)
LEMMA Positions ==
    ASSUME NEW S, NEW xs \in Seq(S), NEW T, NEW o \in [DOMAIN xs -> T]
    PROVE  o \in Seq(T) /\ Len(o) = Len(xs)
<1>1. DOMAIN xs = 1..Len(xs) /\ Len(xs) \in Nat
  OBVIOUS
<1>2. o \in [1..Len(xs) -> T]
  BY <1>1
<1> QED
  BY <1>1, <1>2

(* The initial states.                                                     *)
LEMMA InitTyped == Init => EmbeddingTypeOK /\ PhaseInv
<1> SUFFICES ASSUME Init PROVE EmbeddingTypeOK /\ PhaseInv
  OBVIOUS
<1>1. <<>> \in Seq(Text) /\ <<>> \in Seq(Vector) /\ <<>> \in Seq(Bodies)
      /\ <<>> \in Seq(DOMAIN texts)
      /\ <<>> \in Seq({"success"} \cup Transient \cup Permanent)
  BY EmptySeq
<1>2. NoCall \in Call
  BY <1>1 DEF NoCall, Call
<1> QED
  BY <1>1, <1>2, ConfigsAssumption, CallsAssumption
     DEF Init, EmbeddingTypeOK, PhaseInv, Building, NoEmbedder, NoDim, Errors,
         MaxRetries

(* The prefixed texts of a call are texts.                                 *)
LEMMA PrefixedTexts ==
    ASSUME NEW c \in Call
    PROVE  Prefixed(c) \in Seq(Text) /\ Len(Prefixed(c)) = Len(c.bodies)
<1>1. c.bodies \in Seq(Bodies)
  BY DEF Call
<1>2. \A k : PrefixFor(k) \in Prefixes
  BY DEF PrefixFor, Prefixes
<1>3. Prefixed(c) \in [DOMAIN c.bodies -> Text]
  BY <1>1, <1>2 DEF Prefixed, Text
<1> QED
  BY <1>1, <1>3, Positions

(* The start of a call.                                                    *)
LEMMA BeginTyped ==
    ASSUME EmbeddingTypeOK, Begin
    PROVE  /\ call' \in Call /\ calls' \in Seq(Call)
           /\ texts' \in Seq(Text)
           /\ sortedOut' = <<>> /\ sortedOut' \in Seq(Vector)
           /\ result' = <<>> /\ result' \in Seq(Vector)
           /\ answers' = <<>>
           /\ answers' \in Seq({"success"} \cup Transient \cup Permanent)
           /\ attempt' = 0 /\ lastErr' = "none"
           /\ UNCHANGED <<config, embedder, error>>
<1>1. calls \in Seq(Call) /\ calls # <<>>
  BY DEF EmbeddingTypeOK, Begin
<1>2. Head(calls) \in Call /\ Tail(calls) \in Seq(Call)
  BY <1>1, HeadTailProperties
<1>3. texts' \in Seq(Text)
  BY <1>2, PrefixedTexts DEF Begin
<1> QED
  BY <1>2, <1>3, EmptySeq DEF Begin

(* Each vector of a batch is one.                                          *)
LEMMA BatchTyped ==
    ASSUME NEW xs \in Seq(Text), NEW d \in Dims
    PROVE  /\ BatchVectors(xs, d) \in Seq(Vector)
           /\ Len(BatchVectors(xs, d)) = Len(xs)
           /\ \A i \in DOMAIN xs :
                 BatchVectors(xs, d)[i] = [of |-> MeanPool(xs, i - 1), dim |-> d]
<1>1. ASSUME NEW i \in DOMAIN xs
      PROVE  MeanPool(xs, i - 1) \in SUBSET Text
  <2>1. \A c : CellOwners(xs, c) \subseteq 0..(Len(xs) - 1)
    BY DEF CellOwners
  <2>2. \A k \in 0..(Len(xs) - 1) : xs[k + 1] \in Text
    OBVIOUS
  <2> QED
    BY <2>1, <2>2 DEF MeanPool
<1>2. BatchVectors(xs, d) \in [DOMAIN xs -> Vector]
  BY <1>1 DEF BatchVectors, Vector
<1> QED
  BY <1>2, Positions DEF BatchVectors

(* The texts in the order of their lengths, and the next batch of them.    *)
LEMMA BatchOf ==
    ASSUME EmbeddingTypeOK, order \in [DOMAIN texts -> DOMAIN texts],
           Len(sortedOut) < Len(texts)
    PROVE  /\ NextBatch \in Seq(Text)
           /\ Len(NextBatch) = Smaller(Len(sortedOut) + MaxBatchSize,
                                       Len(texts)) - Len(sortedOut)
           /\ \A i \in DOMAIN NextBatch :
                 /\ Len(sortedOut) + i \in DOMAIN texts
                 /\ NextBatch[i] = texts[order[Len(sortedOut) + i]]
<1>1. texts \in Seq(Text) /\ sortedOut \in Seq(Vector)
  BY DEF EmbeddingTypeOK
<1>2. SortedTexts \in Seq(Text) /\ Len(SortedTexts) = Len(texts)
  <2>1. DOMAIN order = DOMAIN texts
    OBVIOUS
  <2>2. SortedTexts \in [DOMAIN texts -> Text]
    BY <1>1, <2>1 DEF SortedTexts
  <2> QED
    BY <2>2, <1>1, Positions
<1> DEFINE m == Len(sortedOut) + 1
           n == Smaller(Len(sortedOut) + MaxBatchSize, Len(texts))
<1>3. m \in 1..(Len(texts) + 1) /\ n \in (m - 1)..Len(texts) /\ n \in Nat
  BY <1>1, SizesAssumption DEF Smaller
<1>4. NextBatch = SubSeq(SortedTexts, m, n)
  BY DEF NextBatch
<1> HIDE DEF m, n
<1>5. /\ NextBatch \in Seq(Text)
      /\ Len(NextBatch) = n - m + 1
      /\ \A i \in 1..(n - m + 1) : NextBatch[i] = SortedTexts[m + i - 1]
  BY <1>2, <1>3, <1>4, SubSeqProperties
<1>6. ASSUME NEW i \in DOMAIN NextBatch
      PROVE  /\ Len(sortedOut) + i \in DOMAIN texts
             /\ NextBatch[i] = texts[order[Len(sortedOut) + i]]
  <2>1. i \in 1..(n - m + 1) /\ m + i - 1 = Len(sortedOut) + i
    <3>1. DOMAIN NextBatch = 1..(n - m + 1)
      BY <1>5
    <3>2. Len(sortedOut) \in Nat /\ m = Len(sortedOut) + 1
      BY <1>1 DEF m
    <3>3. i \in Int
      BY <3>1, <3>2, <1>3
    <3> QED
      BY <3>1, <3>2, <3>3
  <2>2. Len(sortedOut) + i \in DOMAIN texts
    BY <2>1, <1>3, <1>1
  <2> QED
    BY <2>1, <2>2, <1>5 DEF SortedTexts
<1> QED
  BY <1>5, <1>6, <1>1, <1>3 DEF m, n

(* The types of what only a call changes.                                  *)
CallTyped ==
    /\ calls \in Seq(Call) /\ call \in Call
    /\ texts \in Seq(Text) /\ sortedOut \in Seq(Vector)
    /\ result \in Seq(Vector) /\ order \in Seq(DOMAIN texts)
    /\ attempt \in 0..MaxRetries /\ lastErr \in Errors
    /\ answers \in Seq({"success"} \cup Transient \cup Permanent)

(* Building the embedder keeps the types.                                  *)
LEMMA BuildTyped ==
    ASSUME EmbeddingTypeOK, PhaseInv, Build \/ LoadFails
    PROVE  EmbeddingTypeOK' /\ PhaseInv'
<1> USE DEF EmbeddingTypeOK, PhaseInv, Building, Fail, Errors, NoDim,
            serving, onnx, http, outcome
<1>1. CASE UseOnnx
  BY <1>1 DEF UseOnnx
<1>2. CASE UseOpenAi
  BY <1>2 DEF UseOpenAi
<1>3. CASE NoBackend
  BY <1>3 DEF NoBackend
<1>4. CASE ArtifactsMissing
  BY <1>4 DEF ArtifactsMissing
<1>5. CASE LoadModel
  BY ZenonT(60), <1>5 DEF LoadModel
<1>6. CASE LoadFails
  BY <1>6 DEF LoadFails
<1>7. CASE WarmUp
  BY ZenonT(60), <1>7 DEF WarmUp
<1>8. CASE OnnxReady
  BY <1>8 DEF OnnxReady, KnownDim, Config
<1>9. CASE NoDimension
  BY <1>9 DEF NoDimension
<1> QED
  BY <1>1, <1>2, <1>3, <1>4, <1>5, <1>6, <1>7, <1>8, <1>9 DEF Build

(* So does the start of a call.                                            *)
LEMMA StartTyped ==
    ASSUME EmbeddingTypeOK, PhaseInv,
           NothingToEmbed \/ StartOnnx \/ StartOpenAi
    PROVE  EmbeddingTypeOK' /\ PhaseInv'
<1>1. Begin
  BY DEF NothingToEmbed, StartOnnx, StartOpenAi
<1>2. /\ pc' \in {"ready", "batch", "send"}
      /\ order' \in Seq(DOMAIN texts')
      /\ pc' = "batch" => embedder.kind = "onnx"
      /\ pc' = "send" => embedder.kind = "openai"
  <2>1. CASE order' = <<>>
    BY <2>1, EmptySeq DEF NothingToEmbed, StartOnnx, StartOpenAi
  <2>2. CASE StartOnnx
    BY <2>2, <1>1, BeginTyped, Positions DEF StartOnnx
  <2> QED
    BY <2>1, <2>2 DEF NothingToEmbed, StartOpenAi
<1>3. 0 \in 0..MaxRetries /\ "none" \in Errors
  BY DEF MaxRetries, Errors
<1>4. embedder.kind \in {"onnx", "openai"}
  BY <1>1 DEF Begin, PhaseInv, NothingToEmbed, StartOnnx, StartOpenAi
<1>5. Len(answers') = 0 /\ DOMAIN answers' = {}
  BY <1>1, BeginTyped, EmptySeq
<1>6. EmbeddingTypeOK'
  BY <1>1, <1>2, <1>3, BeginTyped DEF EmbeddingTypeOK
<1>7. PhaseInv'
  BY <1>1, <1>2, <1>4, <1>5, BeginTyped DEF PhaseInv, Building
<1> QED
  BY <1>6, <1>7

(* restore_input_order puts each vector somewhere, and something           *)
(* everywhere.                                                             *)
LEMMA Scatter ==
    ASSUME EmbeddingTypeOK, NEW vs,
           order \in [DOMAIN texts -> DOMAIN texts],
           \A i, j \in DOMAIN texts : i # j => order[i] # order[j]
    PROVE  /\ DOMAIN Restored(vs) = DOMAIN texts
           /\ Restored(vs) = [i \in DOMAIN texts |-> Restored(vs)[i]]
           /\ \A i \in DOMAIN texts : \E j \in DOMAIN texts :
                 order[j] = i /\ Restored(vs)[i] = vs[j]
<1>1. order \in Injection(DOMAIN texts, DOMAIN texts)
  BY DEF Injection, IsInjective
<1>2. IsFiniteSet(DOMAIN texts)
  <2>1. texts \in Seq(Text)
    BY DEF EmbeddingTypeOK
  <2>2. DOMAIN texts = 1..Len(texts) /\ Len(texts) \in Nat
    BY <2>1
  <2> QED
    BY <2>2, FS_Interval
<1>3. order \in Surjection(DOMAIN texts, DOMAIN texts)
  BY <1>1, <1>2, FS_Injection
<1>4. \A i \in DOMAIN texts : \E j \in DOMAIN texts : order[j] = i
  BY <1>3 DEF Surjection
<1>5. DOMAIN order = DOMAIN texts
  OBVIOUS
<1> QED
  BY <1>4, <1>5 DEF Restored

(* So does a batch, and the end of the batches.                            *)
LEMMA BatchStepTyped ==
    ASSUME EmbeddingTypeOK, PhaseInv, BatchInv,
           RunBatch \/ BatchFails \/ EndBatches
    PROVE  EmbeddingTypeOK' /\ PhaseInv'
<1>1. CASE RunBatch
  <2>1. pc = "batch" /\ Len(sortedOut) < Len(texts)
        /\ order \in [DOMAIN texts -> DOMAIN texts]
    BY <1>1 DEF RunBatch, BatchInv
  <2>2. PICK d \in Dims : sortedOut' = sortedOut \o BatchVectors(NextBatch, d)
    BY <1>1 DEF RunBatch
  <2>3. sortedOut' \in Seq(Vector)
    BY <2>1, <2>2, BatchOf, BatchTyped, ConcatProperties DEF EmbeddingTypeOK
  <2> QED
    BY <1>1, <2>3
       DEF RunBatch, EmbeddingTypeOK, PhaseInv, Building, serving, http, outcome
<1>2. CASE BatchFails
  BY <1>2 DEF BatchFails, Fail, EmbeddingTypeOK, PhaseInv, Building, Errors,
              serving, onnx, http, outcome
<1>3. CASE EndBatches
  <2>1. /\ order \in [DOMAIN texts -> DOMAIN texts]
        /\ \A i, j \in DOMAIN texts : i # j => order[i] # order[j]
        /\ Len(sortedOut) >= Len(texts)
    BY <1>3 DEF EndBatches, BatchInv
  <2>2. \A j \in DOMAIN texts : sortedOut[j] \in Vector
    <3>1. texts \in Seq(Text) /\ sortedOut \in Seq(Vector)
      BY DEF EmbeddingTypeOK
    <3>2. DOMAIN texts \subseteq DOMAIN sortedOut
      BY <2>1, <3>1
    <3> QED
      BY <3>1, <3>2
  <2>3. Restored(sortedOut) \in [DOMAIN texts -> Vector]
    BY <2>1, <2>2, Scatter
  <2>4. Restored(sortedOut) \in Seq(Vector)
    BY <2>3, Positions DEF EmbeddingTypeOK
  <2> QED
    BY <1>3, <2>4
       DEF EndBatches, Finish, EmbeddingTypeOK, PhaseInv, Building, serving,
           onnx, http
<1> QED
  BY <1>1, <1>2, <1>3

(* The answers so far, one more.                                           *)
LEMMA AnswerAppended ==
    ASSUME EmbeddingTypeOK,
           NEW kind \in {"success"} \cup Transient \cup Permanent,
           Answered(kind)
    PROVE  /\ answers' \in Seq({"success"} \cup Transient \cup Permanent)
           /\ Len(answers') = Len(answers) + 1 /\ Len(answers) \in Nat
           /\ answers'[Len(answers')] = kind
           /\ \A i \in 1..Len(answers) : answers'[i] = answers[i]
           /\ DOMAIN answers' = 1..(Len(answers) + 1)
           /\ DOMAIN answers = 1..Len(answers)
           /\ answers' # <<>>
<1> DEFINE A == {"success"} \cup Transient \cup Permanent
<1>1. answers \in Seq(A)
  BY DEF EmbeddingTypeOK
<1>2. answers' = Append(answers, kind)
  BY DEF Answered
<1> HIDE DEF A
<1> SUFFICES ASSUME kind \in A
             PROVE  /\ answers' \in Seq(A)
                    /\ Len(answers') = Len(answers) + 1 /\ Len(answers) \in Nat
                    /\ answers'[Len(answers')] = kind
                    /\ \A i \in 1..Len(answers) : answers'[i] = answers[i]
                    /\ DOMAIN answers' = 1..(Len(answers) + 1)
                    /\ DOMAIN answers = 1..Len(answers)
                    /\ answers' # <<>>
  BY DEF A
<1> QED
  BY <1>1, <1>2, AppendProperties

(* Complete records in order are one vector per text, each of its own.     *)
LEMMA OrderedRecords ==
    ASSUME EmbeddingTypeOK, NEW indexes \in Seq(Nat), NEW d \in Dims,
           NEW p \in [DOMAIN Records(indexes, d) -> DOMAIN Records(indexes, d)],
           Complete(Records(indexes, d), p), NEW vs,
           vs = [i \in DOMAIN Records(indexes, d) |->
                    Records(indexes, d)[p[i]].vector]
    PROVE  /\ vs \in Seq(Vector) /\ Len(vs) = Len(texts)
           /\ \A i \in DOMAIN texts : vs[i].of = {texts[i]}
<1> DEFINE rs == Records(indexes, d)
<1>1. texts \in Seq(Text)
  BY DEF EmbeddingTypeOK
<1>2. DOMAIN rs = DOMAIN indexes
  BY DEF Records
<1>3. \A k \in DOMAIN rs :
         /\ rs[k].index = indexes[k]
         /\ rs[k].vector.of = {texts[i] : i \in DOMAIN texts
                                                \cap {indexes[k] + 1}}
         /\ rs[k].vector \in Vector
  BY <1>1 DEF Records, Vector
<1>4. Len(rs) = Len(texts) /\ \A i \in DOMAIN rs : rs[p[i]].index = i - 1
  BY DEF Complete
<1>5. Len(rs) = Len(indexes)
  <2>1. rs \in [DOMAIN indexes -> {rs[k] : k \in DOMAIN indexes}]
    BY DEF Records
  <2> QED
    BY <2>1, Positions
<1>6. DOMAIN rs = DOMAIN texts /\ DOMAIN texts = 1..Len(texts)
  <2>1. DOMAIN indexes = 1..Len(indexes) /\ DOMAIN texts = 1..Len(texts)
    BY <1>1
  <2> HIDE DEF rs
  <2> QED
    BY <2>1, <1>2, <1>4, <1>5
<1> HIDE DEF rs
<1>7. vs \in Seq(Vector) /\ Len(vs) = Len(texts)
  <2>1. vs \in [DOMAIN texts -> Vector]
    BY <1>3, <1>6 DEF rs
  <2> QED
    BY <2>1, <1>1, Positions
<1>8. ASSUME NEW i \in DOMAIN texts
      PROVE  vs[i].of = {texts[i]}
  <2>1. p[i] \in DOMAIN rs /\ rs[p[i]].index = i - 1
    BY <1>4, <1>6 DEF rs
  <2>2. indexes[p[i]] + 1 = i
    BY <2>1, <1>3, <1>6
  <2>3. vs[i] = rs[p[i]].vector
    BY <1>6 DEF rs
  <2>4. vs[i].of = {texts[j] : j \in DOMAIN texts \cap {indexes[p[i]] + 1}}
    BY <2>1, <2>3, <1>3
  <2> QED
    BY <2>2, <2>4
<1> QED
  BY <1>7, <1>8 DEF rs

(* What post_with_retry returns for an answer it accepts.                  *)
LEMMA SuccessVectors ==
    ASSUME EmbeddingTypeOK, Success
    PROVE  /\ result' \in Seq(Vector) /\ Len(result') = Len(texts)
           /\ \A i \in DOMAIN texts : result'[i].of = {texts[i]}
<1>1. PICK indexes \in IndexLists, d \in Dims :
         \E p \in [DOMAIN Records(indexes, d) -> DOMAIN Records(indexes, d)] :
            /\ Complete(Records(indexes, d), p)
            /\ result' = [i \in DOMAIN Records(indexes, d) |->
                             Records(indexes, d)[p[i]].vector]
  BY DEF Success
<1>2. indexes \in Seq(Nat)
  BY SizesAssumption
<1>3. PICK p \in [DOMAIN Records(indexes, d) -> DOMAIN Records(indexes, d)] :
         /\ Complete(Records(indexes, d), p)
         /\ result' = [i \in DOMAIN Records(indexes, d) |->
                          Records(indexes, d)[p[i]].vector]
  BY <1>1
<1> QED
  BY <1>2, <1>3, OrderedRecords

(* Every answer keeps the types.                                           *)
LEMMA AnswerTyped ==
    ASSUME EmbeddingTypeOK, PhaseInv, Answer \/ Send
    PROVE  EmbeddingTypeOK' /\ PhaseInv'
<1> DEFINE A == {"success"} \cup Transient \cup Permanent
<1>1. CASE Send
  BY <1>1 DEF Send, EmbeddingTypeOK, PhaseInv, Building, serving, onnx, http,
              outcome
<1>2. ASSUME NEW kind \in Transient, RetryLater(kind)
      PROVE  EmbeddingTypeOK' /\ PhaseInv'
  <2>1. kind \in A /\ kind \in Errors
    BY DEF Transient, Errors
  <2>2. attempt \in 0..MaxRetries /\ attempt # MaxRetries
        /\ attempt = Len(answers)
    BY <1>2 DEF RetryLater, EmbeddingTypeOK, PhaseInv, LastAttempt
  <2>3. attempt' \in 0..MaxRetries /\ attempt' = Len(answers')
    BY <1>2, <2>1, <2>2, AnswerAppended DEF RetryLater, MaxRetries
  <2>4. \A i \in DOMAIN answers' : answers'[i] \in Transient
    <3>1. Answered(kind) /\ \A i \in DOMAIN answers : answers[i] \in Transient
      BY <1>2 DEF RetryLater, PhaseInv
    <3>2. ASSUME NEW i \in DOMAIN answers', i \notin DOMAIN answers
          PROVE  i = Len(answers')
      BY <3>1, <3>2, <2>1, AnswerAppended
    <3> QED
      BY <3>1, <3>2, <2>1, AnswerAppended
  <2>5. answers' \in Seq(A)
    BY <1>2, <2>1, AnswerAppended DEF RetryLater
  <2>6. EmbeddingTypeOK'
    BY <1>2, <2>1, <2>3, <2>5 DEF RetryLater, EmbeddingTypeOK, serving, onnx,
                                  outcome
  <2>7. PhaseInv'
    BY <1>2, <2>3, <2>4 DEF RetryLater, PhaseInv, Building, serving, outcome
  <2> QED
    BY <2>6, <2>7
<1>3. ASSUME NEW kind \in Transient \cup Permanent,
             (GiveUp(kind) /\ kind \in Transient) \/ Refused(kind)
      PROVE  EmbeddingTypeOK' /\ PhaseInv'
  <2>1. kind \in Errors
    BY DEF Transient, Permanent, Errors
  <2>2. answers' \in Seq(A)
    BY <1>3, AnswerAppended DEF GiveUp, Refused
  <2> QED
    BY <1>3, <2>1, <2>2 DEF GiveUp, Refused, Fail, UnchangedHttp,
        EmbeddingTypeOK, PhaseInv, Building, serving, onnx
<1>4. CASE Incomplete
  <2>1. answers' \in Seq(A)
    BY <1>4, AnswerAppended DEF Incomplete
  <2> QED
    BY <1>4, <2>1 DEF Incomplete, Fail, UnchangedHttp, Errors,
        EmbeddingTypeOK, PhaseInv, Building, serving, onnx
<1>5. CASE Success
  <2>1. answers' \in Seq(A)
    BY <1>5, AnswerAppended DEF Success
  <2>2. result' \in Seq(Vector)
    BY <1>5, SuccessVectors
  <2> QED
    BY <1>5, <2>1, <2>2 DEF Success, UnchangedHttp,
        EmbeddingTypeOK, PhaseInv, Building, serving, onnx
<1> QED
  BY <1>1, <1>2, <1>3, <1>4, <1>5 DEF Answer

-----------------------------------------------------------------------------
(* The invariant, step by step.                                            *)
Promises == BatchInv /\ VectorsInOrder /\ VectorsFit /\ RetryDiscipline

LEMMA InitPromises == Init => Promises
BY DEF Init, Promises, BatchInv, VectorsInOrder, Served, VectorsFit,
       RetryDiscipline, MaxRetries

(* While the embedder is built nothing is promised yet.                    *)
LEMMA BuildPromises ==
    ASSUME EmbeddingTypeOK, PhaseInv, Promises, Build \/ LoadFails
    PROVE  Promises'
<1>1. /\ texts = <<>> /\ result = <<>> /\ answers = <<>>
      /\ UNCHANGED <<texts, result, answers>>
      /\ pc' # "batch"
  BY DEF PhaseInv, Building, Build, UseOnnx, UseOpenAi, NoBackend,
         ArtifactsMissing, LoadModel, LoadFails, WarmUp, OnnxReady,
         NoDimension, Fail, serving, onnx, http, outcome
<1> QED
  BY <1>1 DEF Promises, BatchInv, VectorsInOrder, Served, VectorsFit,
              RetryDiscipline, MaxRetries

(* When a call starts nothing has been answered and no vector is there.    *)
LEMMA StartPromises ==
    ASSUME EmbeddingTypeOK, PhaseInv, Promises,
           NothingToEmbed \/ StartOnnx \/ StartOpenAi
    PROVE  Promises'
<1>1. Begin
  BY DEF NothingToEmbed, StartOnnx, StartOpenAi
<1>2. /\ texts' \in Seq(Text) /\ sortedOut' = <<>> /\ result' = <<>>
      /\ answers' = <<>>
  BY <1>1, BeginTyped
<1>3. RetryDiscipline'
  BY <1>2, EmptySeq DEF RetryDiscipline, MaxRetries
<1>4. CASE NothingToEmbed \/ StartOpenAi
  <2>1. (pc' = "ready" /\ texts' = <<>>) \/ pc' = "send"
    BY <1>4 DEF NothingToEmbed, StartOpenAi
  <2> QED
    BY <1>2, <1>3, <2>1
       DEF Promises, BatchInv, VectorsInOrder, Served, VectorsFit
<1>5. CASE StartOnnx
  <2>1. /\ pc' = "batch"
        /\ order' \in [DOMAIN texts' -> DOMAIN texts']
        /\ StableOrder(texts', order')
    BY <1>5 DEF StartOnnx
  <2>2. \A i, j \in DOMAIN texts' : i < j => order'[i] # order'[j]
    <3>1. ASSUME NEW i \in DOMAIN texts', NEW j \in DOMAIN texts', i < j,
                 order'[i] = order'[j]
          PROVE  FALSE
      <4>1. \/ ByteLen(texts'[order'[i]]) < ByteLen(texts'[order'[j]])
            \/ order'[i] < order'[j]
        BY <2>1, <3>1 DEF StableOrder
      <4>2. ByteLen(texts'[order'[i]]) \in Nat /\ order'[i] \in Nat
        BY <1>2, <2>1, TextAssumption
      <4> QED
        BY <3>1, <4>1, <4>2
    <3> QED
      BY <3>1
  <2>3. \A i, j \in DOMAIN texts' : i # j => order'[i] # order'[j]
    <3>1. \A i, j \in DOMAIN texts' : i # j => i < j \/ j < i
      BY <1>2
    <3> QED
      BY <2>2, <3>1
  <2>4. Len(sortedOut') <= Len(texts') /\ DOMAIN sortedOut' = {}
    BY <1>2, EmptySeq
  <2> QED
    BY <2>1, <2>3, <2>4, <1>3
       DEF Promises, BatchInv, VectorsInOrder, Served, VectorsFit
<1> QED
  BY <1>4, <1>5

(* A batch adds the vectors of the next texts by length.                   *)
LEMMA RunBatchPromises ==
    ASSUME EmbeddingTypeOK, PhaseInv, Promises, RunBatch
    PROVE  Promises'
<1>1. /\ pc = "batch" /\ pc' = "batch" /\ Len(sortedOut) < Len(texts)
      /\ UNCHANGED <<config, embedder, texts, order, answers, error>>
      /\ embedder.kind = "onnx"
  BY DEF RunBatch, PhaseInv, serving, http, outcome
<1>2. /\ order \in [DOMAIN texts -> DOMAIN texts]
      /\ \A i, j \in DOMAIN texts : i # j => order[i] # order[j]
      /\ \A j \in DOMAIN sortedOut :
            /\ sortedOut[j].dim = embedder.dim
            /\ ~config.pooled =>
                  sortedOut[j].of = OwnVector(texts[order[j]])
  BY <1>1 DEF Promises, BatchInv
<1>3. PICK d \in Dims : /\ d = embedder.dim
                        /\ sortedOut' = sortedOut \o BatchVectors(NextBatch, d)
  BY DEF RunBatch, DimFits
<1> DEFINE n == Len(sortedOut)
           bs == BatchVectors(NextBatch, d)
<1>4. /\ texts \in Seq(Text) /\ sortedOut \in Seq(Vector)
      /\ n \in Nat /\ Len(texts) \in Nat
  <2>1. texts \in Seq(Text) /\ sortedOut \in Seq(Vector)
    BY DEF EmbeddingTypeOK
  <2> QED
    BY <2>1
<1>5. /\ NextBatch \in Seq(Text)
      /\ Len(NextBatch) = Smaller(n + MaxBatchSize, Len(texts)) - n
      /\ \A i \in DOMAIN NextBatch :
            /\ n + i \in DOMAIN texts
            /\ NextBatch[i] = texts[order[n + i]]
  BY <1>1, <1>2, BatchOf
<1>6. /\ bs \in Seq(Vector) /\ Len(bs) = Len(NextBatch)
      /\ \A i \in DOMAIN NextBatch :
            bs[i] = [of |-> MeanPool(NextBatch, i - 1), dim |-> d]
  BY <1>5, BatchTyped
<1> HIDE DEF bs
<1>7. ASSUME NEW i \in DOMAIN bs
      PROVE  /\ bs[i].dim = embedder.dim
             /\ ~config.pooled => bs[i].of = OwnVector(texts[order[n + i]])
  <2>1. i \in DOMAIN NextBatch
    BY <1>5, <1>6
  <2>2. bs[i] = [of |-> MeanPool(NextBatch, i - 1), dim |-> d]
    BY <1>6, <2>1
  <2>3. ASSUME ~config.pooled
        PROVE  bs[i].of = OwnVector(texts[order[n + i]])
    <3>1. MeanPool(NextBatch, i - 1) =
             IF Tokens(NextBatch[i]) = 0 THEN {} ELSE {NextBatch[i]}
      BY <1>5, <2>1, <2>3, PoolsOwnRow
    <3>2. bs[i].of = IF Tokens(NextBatch[i]) = 0 THEN {} ELSE {NextBatch[i]}
      BY <2>2, <3>1
    <3>3. NextBatch[i] = texts[order[n + i]]
      BY <1>5, <2>1
    <3> HIDE DEF n
    <3> QED
      BY <3>2, <3>3, <1>1 DEF OwnVector
  <2> QED
    BY <1>3, <2>2, <2>3
<1>8. /\ sortedOut' \in Seq(Vector) /\ Len(sortedOut') = n + Len(bs)
      /\ DOMAIN sortedOut' = 1..(n + Len(bs))
      /\ \A j \in 1..n : sortedOut'[j] = sortedOut[j]
      /\ \A j \in (n + 1)..(n + Len(bs)) : sortedOut'[j] = bs[j - n]
  <2>1. sortedOut' = sortedOut \o bs
    BY <1>3 DEF bs
  <2>2. /\ sortedOut' \in Seq(Vector) /\ Len(sortedOut') = n + Len(bs)
        /\ \A j \in 1..(n + Len(bs)) :
              sortedOut'[j] = IF j <= n THEN sortedOut[j] ELSE bs[j - n]
    <3>1. sortedOut \in Seq(Vector) /\ bs \in Seq(Vector)
      BY <1>4, <1>6
    <3> QED
      BY <3>1, <2>1, ConcatProperties
  <2>3. Len(bs) \in Nat
    BY <1>6
  <2> QED
    BY <2>2, <2>3, <1>4
<1>9. Len(sortedOut') <= Len(texts)
  BY <1>4, <1>5, <1>6, <1>8, SizesAssumption DEF Smaller
<1>10. ASSUME NEW j \in DOMAIN sortedOut'
       PROVE  /\ sortedOut'[j].dim = embedder.dim
              /\ ~config.pooled =>
                    sortedOut'[j].of = OwnVector(texts[order[j]])
  <2>1. CASE j \in 1..n
    BY <2>1, <1>2, <1>4, <1>8
  <2>2. CASE j \in (n + 1)..(n + Len(bs))
    <3>1. j - n \in DOMAIN bs /\ n + (j - n) = j
      BY <2>2, <1>4, <1>6
    <3> QED
      BY <2>2, <3>1, <1>7, <1>8
  <2>3. Len(bs) \in Nat
    BY <1>6
  <2> QED
    BY <2>1, <2>2, <2>3, <1>4, <1>8
<1>11. \A x \in Text : OwnVector(x)' = OwnVector(x)
  BY <1>1 DEF OwnVector
<1>12. \A j \in DOMAIN sortedOut' : texts[order[j]] \in Text
  BY <1>2, <1>4, <1>8, <1>9
<1>13. BatchInv'
  BY <1>1, <1>2, <1>9, <1>10, <1>11, <1>12 DEF BatchInv, OwnVector
<1> QED
  BY <1>1, <1>13 DEF Promises, VectorsInOrder, Served, VectorsFit,
                     RetryDiscipline

(* Scattering by the order gives every text its own vector back.           *)
LEMMA EndBatchesPromises ==
    ASSUME EmbeddingTypeOK, PhaseInv, Promises, EndBatches
    PROVE  Promises'
<1>1. /\ pc = "batch" /\ pc' = "ready" /\ result' = Restored(sortedOut)
      /\ UNCHANGED <<config, embedder, texts, order, sortedOut, answers>>
      /\ embedder.kind = "onnx" /\ answers = <<>>
      /\ Len(sortedOut) >= Len(texts)
  BY DEF EndBatches, Finish, PhaseInv, serving, http, onnx
<1>2. /\ order \in [DOMAIN texts -> DOMAIN texts]
      /\ \A i, j \in DOMAIN texts : i # j => order[i] # order[j]
      /\ \A j \in DOMAIN sortedOut :
            /\ sortedOut[j].dim = embedder.dim
            /\ ~config.pooled =>
                  sortedOut[j].of = OwnVector(texts[order[j]])
  BY <1>1 DEF Promises, BatchInv
<1>3. texts \in Seq(Text) /\ sortedOut \in Seq(Vector)
  BY DEF EmbeddingTypeOK
<1>4. DOMAIN texts \subseteq DOMAIN sortedOut
  BY <1>1, <1>3
<1>5. /\ DOMAIN result' = DOMAIN texts
      /\ result' = [i \in DOMAIN texts |-> result'[i]]
      /\ \A i \in DOMAIN texts : \E j \in DOMAIN texts :
            order[j] = i /\ result'[i] = sortedOut[j]
  <2>1. /\ DOMAIN Restored(sortedOut) = DOMAIN texts
        /\ Restored(sortedOut) = [i \in DOMAIN texts |-> Restored(sortedOut)[i]]
        /\ \A i \in DOMAIN texts : \E j \in DOMAIN texts :
              order[j] = i /\ Restored(sortedOut)[i] = sortedOut[j]
    BY <1>2, Scatter
  <2> QED
    BY <2>1, <1>1
<1>6. Len(result') = Len(texts)
  <2>1. result' \in [DOMAIN texts -> {result'[i] : i \in DOMAIN texts}]
    BY <1>5
  <2> QED
    BY <2>1, <1>3, Positions
<1>7. \A i \in DOMAIN texts :
         /\ result'[i].dim = embedder.dim
         /\ ~config.pooled => result'[i].of = OwnVector(texts[i])
  BY <1>2, <1>4, <1>5
<1>8. \A x : OwnVector(x)' = OwnVector(x)
  BY <1>1 DEF OwnVector
<1>9. VectorsInOrder' /\ VectorsFit'
  BY <1>1, <1>5, <1>6, <1>7, <1>8
     DEF VectorsInOrder, Served, VectorsFit, OwnVector
<1> QED
  BY <1>1, <1>9, EmptySeq DEF Promises, BatchInv, RetryDiscipline, MaxRetries

(* Failing and waiting promise nothing new about vectors.                  *)
LEMMA FailPromises ==
    ASSUME EmbeddingTypeOK, PhaseInv, Promises, BatchFails \/ Send
    PROVE  Promises'
<1>1. CASE BatchFails
  BY <1>1, EmptySeq
     DEF BatchFails, Fail, PhaseInv, Promises, BatchInv, VectorsInOrder, Served,
         VectorsFit, RetryDiscipline, MaxRetries, http
<1>2. CASE Send
  BY <1>2
     DEF Send, PhaseInv, Promises, BatchInv, VectorsInOrder, Served,
         VectorsFit, RetryDiscipline, MaxRetries, http, outcome
<1> QED
  BY <1>1, <1>2

(* The answers of the endpoint.                                            *)
LEMMA AnswerPromises ==
    ASSUME EmbeddingTypeOK, PhaseInv, Promises, Answer
    PROVE  Promises'
<1>1. pc = "waiting"
  BY DEF Answer, RetryLater, GiveUp, Refused, Success, Incomplete
<1>2. /\ embedder.kind = "openai" /\ attempt = Len(answers)
      /\ \A i \in DOMAIN answers : answers[i] \in Transient
      /\ attempt \in 0..MaxRetries
  BY <1>1 DEF PhaseInv, EmbeddingTypeOK
<1>3. ASSUME NEW kind \in {"success"} \cup Transient \cup Permanent,
             Answered(kind)
      PROVE  /\ Len(answers') = attempt + 1 /\ Len(answers') <= MaxRetries + 1
             /\ \A i \in 1..(Len(answers') - 1) : answers'[i] \in Transient
             /\ answers'[Len(answers')] = kind /\ answers' # <<>>
  <2>1. Len(answers') = attempt + 1
    BY <1>2, <1>3, AnswerAppended
  <2>2. 1..(Len(answers') - 1) = DOMAIN answers
    BY <1>2, <1>3, <2>1, AnswerAppended
  <2>3. \A i \in 1..Len(answers) : answers'[i] = answers[i]
    BY <1>3, AnswerAppended
  <2>4. \A i \in DOMAIN answers : answers'[i] \in Transient
    BY <1>2, <1>3, <2>3, AnswerAppended
  <2>5. Len(answers') <= MaxRetries + 1
    <3>1. attempt \in 0..4 /\ MaxRetries = 4
      <4>1. MaxRetries = 4
        BY DEF MaxRetries
      <4> QED
        BY <4>1, <1>2
    <3> QED
      BY <2>1, <3>1
  <2>6. answers'[Len(answers')] = kind /\ answers' # <<>>
    BY <1>3, AnswerAppended
  <2> QED
    BY <2>1, <2>2, <2>4, <2>5, <2>6
<1>4. ASSUME NEW kind \in Transient, RetryLater(kind)
      PROVE  Promises'
  <2>1. /\ pc' = "send" /\ Answered(kind)
    BY <1>4 DEF RetryLater
  <2> QED
    BY <1>3, <1>4, <2>1 DEF Promises, BatchInv, VectorsInOrder, Served,
                            VectorsFit, RetryDiscipline
<1>5. ASSUME NEW kind \in Transient, GiveUp(kind)
      PROVE  Promises'
  <2>1. /\ pc' = "failed" /\ error' = kind /\ Answered(kind)
        /\ attempt = MaxRetries
    BY <1>5 DEF GiveUp, Fail, LastAttempt
  <2>2. kind # "success"
    BY DEF Transient
  <2> QED
    BY <1>3, <2>1, <2>2 DEF Promises, BatchInv, VectorsInOrder, Served,
                            VectorsFit, RetryDiscipline
<1>6. ASSUME NEW kind \in Permanent, Refused(kind)
      PROVE  Promises'
  <2>1. /\ pc' = "failed" /\ error' = kind /\ Answered(kind)
    BY <1>6 DEF Refused, Fail
  <2>2. kind # "success" /\ kind \notin Transient
    BY DEF Transient, Permanent
  <2> QED
    BY <1>3, <2>1, <2>2 DEF Promises, BatchInv, VectorsInOrder, Served,
                            VectorsFit, RetryDiscipline
<1>7. CASE Incomplete
  <2>1. /\ pc' = "failed" /\ error' = "records" /\ Answered("success")
    BY <1>7 DEF Incomplete, Fail
  <2>2. "success" \notin Transient
    BY DEF Transient
  <2> QED
    BY <1>3, <2>1, <2>2 DEF Promises, BatchInv, VectorsInOrder, Served,
                            VectorsFit, RetryDiscipline
<1>8. CASE Success
  <2>1. /\ pc' = "ready" /\ Answered("success")
        /\ UNCHANGED <<config, embedder, texts>>
    BY <1>8 DEF Success, UnchangedHttp, serving
  <2>2. /\ Len(result') = Len(texts)
        /\ \A i \in DOMAIN texts : result'[i].of = {texts[i]}
    BY <1>8, SuccessVectors
  <2>3. VectorsInOrder'
    BY <1>2, <2>1, <2>2 DEF VectorsInOrder, Served, OwnVector
  <2>4. VectorsFit' /\ BatchInv'
    BY <1>2, <2>1 DEF VectorsFit, BatchInv
  <2>5. RetryDiscipline'
    BY <1>3, <2>1 DEF RetryDiscipline
  <2> QED
    BY <2>3, <2>4, <2>5 DEF Promises
<1> QED
  BY <1>4, <1>5, <1>6, <1>7, <1>8 DEF Answer

-----------------------------------------------------------------------------
(* The invariant of the embedders holds in every reachable state.          *)
THEOREM EmbeddingInvariant == Spec => []EmbeddingInv
<1>1. Init => EmbeddingInv
  BY InitTyped, InitPromises DEF EmbeddingInv, Promises
<1>2. EmbeddingInv /\ [Next]_vars => EmbeddingInv'
  <2> SUFFICES ASSUME EmbeddingInv, [Next]_vars
               PROVE  EmbeddingInv'
    OBVIOUS
  <2>1. EmbeddingTypeOK /\ PhaseInv /\ Promises /\ BatchInv
    BY DEF EmbeddingInv, Promises
  <2>2. CASE Build \/ LoadFails
    BY <2>1, <2>2, BuildTyped, BuildPromises DEF EmbeddingInv, Promises
  <2>3. CASE NothingToEmbed \/ StartOnnx \/ StartOpenAi
    BY <2>1, <2>3, StartTyped, StartPromises DEF EmbeddingInv, Promises
  <2>4. CASE RunBatch
    BY <2>1, <2>4, BatchStepTyped, RunBatchPromises DEF EmbeddingInv, Promises
  <2>5. CASE EndBatches
    BY <2>1, <2>5, BatchStepTyped, EndBatchesPromises
       DEF EmbeddingInv, Promises
  <2>6. CASE BatchFails
    BY <2>1, <2>6, BatchStepTyped, FailPromises DEF EmbeddingInv, Promises
  <2>7. CASE Send
    BY <2>1, <2>7, AnswerTyped, FailPromises DEF EmbeddingInv, Promises
  <2>8. CASE Answer
    BY <2>1, <2>8, AnswerTyped, AnswerPromises DEF EmbeddingInv, Promises
  <2>9. CASE UNCHANGED vars
    BY ZenonT(60), <2>1, <2>9
       DEF vars, serving, onnx, http, outcome, EmbeddingInv, EmbeddingTypeOK,
           PhaseInv, Promises, BatchInv, VectorsInOrder, Served, VectorsFit,
           RetryDiscipline, OwnVector
  <2> QED
    BY <2>2, <2>3, <2>4, <2>5, <2>6, <2>7, <2>8, <2>9 DEF Next, Embed
<1> QED
  BY <1>1, <1>2, PTL DEF Spec

(* EmbeddingTypeOK: every variable of the embedders stays in its type, the *)
(* attempt counter within 0..MAX_RETRIES.                                  *)
THEOREM EmbeddingTyped == Spec => []EmbeddingTypeOK
BY EmbeddingInvariant, PTL DEF EmbeddingInv

(* VectorsInOrder: embed returns for every list of texts one vector each,  *)
(* in the order of the texts, whatever the batch size, the lengths and the *)
(* order of the records.                                                   *)
THEOREM VectorsBelong == Spec => []VectorsInOrder
BY EmbeddingInvariant, PTL DEF EmbeddingInv

(* VectorsFit: a vector of the ONNX backend has the embedder's dimension.  *)
THEOREM DimensionKept == Spec => []VectorsFit
BY EmbeddingInvariant, PTL DEF EmbeddingInv

(* RetryDiscipline: post_with_retry sends at most five requests, none      *)
(* after a final answer, and reports the last.                             *)
THEOREM RetriesDisciplined == Spec => []RetryDiscipline
BY EmbeddingInvariant, PTL DEF EmbeddingInv
=============================================================================
