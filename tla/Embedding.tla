----------------------------- MODULE Embedding -----------------------------
(***************************************************************************)
(* build_embedder and the two backends.  The ONNX backend sorts the texts  *)
(* by length, runs them in batches through one session, pools the token    *)
(* rows and scatters the vectors back; the OpenAI-compatible one posts all *)
(* texts at once, retries and puts the records of the answer in order.     *)
(*                                                                         *)
(* A vector is the set of texts whose token rows were averaged into it and *)
(* its dimension, so that a vector that mixes texts or belongs to another  *)
(* one can be told apart.  Normalising it changes neither.  What a session *)
(* or an endpoint answers is chosen by the environment.                    *)
(***************************************************************************)
EXTENDS Integers, Sequences, FiniteSets

CONSTANTS
    Bodies,          \* the texts callers embed
    Configs,         \* configurations: see Config
    CallLists,       \* what one user of the embedder asks for: see Call
    ByteLen(_),      \* length of a prefixed text
    TokensOf(_),     \* tokens of a prefixed text, untruncated
    MaxSeqLen,       \* max_seq_len_for_model
    MaxBatchSize,    \* MAX_BATCH_SIZE
    IndexLists,      \* the lists of `index` fields an answer may have
    Dims             \* the dimensions a session or an endpoint may use

MaxRetries == 4

NoDim    == 0
Prefixes == {"document", "query", "none"}
Text     == [prefix : Prefixes, body : Bodies]
Config   == [backend : {"onnx", "openai", "ollama", "other"}, key : BOOLEAN,
             fallback : BOOLEAN, jina : BOOLEAN,
             artifacts : SUBSET {"tokenizer", "model"},
             pooled : BOOLEAN, static : Dims \cup {NoDim}]
Call     == [kind : {"documents", "query"}, bodies : Seq(Bodies)]
Errors   == {"none", "config", "artifacts", "load", "dimension", "batch",
             "client", "network", "throttled", "server", "redirect",
             "garbled", "records"}

ASSUME ConfigsAssumption == Configs \subseteq Config
ASSUME CallsAssumption ==
    /\ CallLists \subseteq Seq(Call)
    /\ \A cs \in CallLists : \A i \in DOMAIN cs :
          cs[i].kind = "query" => Len(cs[i].bodies) = 1
ASSUME SizesAssumption ==
    /\ MaxSeqLen \in Nat \ {0} /\ MaxBatchSize \in Nat \ {0}
    /\ Dims \subseteq Nat \ {0} /\ IndexLists \subseteq Seq(Nat)
ASSUME TextAssumption ==
    \A x \in Text : ByteLen(x) \in Nat /\ TokensOf(x) \in Nat

VARIABLES
    pc,         \* the step of the one task that uses the embedder
    config,     \* Config.embedding
    calls,      \* the calls still to come
    embedder,   \* what build_embedder returned
    call,       \* the call being served
    texts,      \* its prefixed texts
    order,      \* length_sorted_order
    sortedOut,  \* vectors of the batches so far
    attempt,    \* of the retry loop
    lastErr,    \* last_err
    answers,    \* history: how the requests of this call were answered
    result,     \* the vectors of the last finished call
    error       \* the error the task ended with

serving == <<call, texts>>
onnx    == <<order, sortedOut>>
http    == <<attempt, lastErr, answers>>
outcome == <<result, error>>
vars == <<pc, config, calls, embedder, serving, onnx, http, outcome>>

NoEmbedder == [kind |-> "none", dim |-> NoDim]
NoCall     == [kind |-> "documents", bodies |-> <<>>]
Smaller(a, b) == IF a < b THEN a ELSE b

Init ==
    /\ pc = "build"
    /\ config \in Configs /\ calls \in CallLists
    /\ embedder = NoEmbedder
    /\ call = NoCall /\ texts = <<>>
    /\ order = <<>> /\ sortedOut = <<>>
    /\ attempt = 0 /\ lastErr = "none" /\ answers = <<>>
    /\ result = <<>> /\ error = "none"

Fail(kind) == /\ pc' = "failed" /\ error' = kind
              /\ UNCHANGED <<config, calls, serving, result>>

-----------------------------------------------------------------------------
(* build_embedder.  The OpenAI constructor fails for a missing key only.   *)
UseOnnx ==
    /\ pc = "build"
    /\ \/ config.backend = "onnx"
       \/ config.backend = "openai" /\ ~config.key /\ config.fallback
    /\ pc' = "artifacts"
    /\ UNCHANGED <<config, calls, embedder, serving, onnx, http, outcome>>

UseOpenAi ==
    /\ pc = "build" /\ config.backend = "openai" /\ config.key
    /\ \E d \in Dims : embedder' = [kind |-> "openai", dim |-> d]
    /\ pc' = "ready"
    /\ UNCHANGED <<config, calls, serving, onnx, http, outcome>>

NoBackend ==
    /\ pc = "build"
    /\ \/ config.backend \in {"ollama", "other"}
       \/ config.backend = "openai" /\ ~config.key /\ ~config.fallback
    /\ Fail("config") /\ UNCHANGED <<embedder, onnx, http>>

(* OnnxEmbedder::new.                                                      *)
ArtifactsMissing ==
    /\ pc = "artifacts" /\ config.artifacts # {"tokenizer", "model"}
    /\ Fail("artifacts") /\ UNCHANGED <<embedder, onnx, http>>

(* The tokenizer with its truncation, then the session.                    *)
LoadModel ==
    /\ pc = "artifacts" /\ config.artifacts = {"tokenizer", "model"}
    /\ pc' = "warm one"
    /\ UNCHANGED <<config, calls, embedder, serving, onnx, http, outcome>>

LoadFails ==
    /\ \/ pc = "artifacts" /\ config.artifacts = {"tokenizer", "model"}
       \/ pc \in {"warm one", "warm full"}
    /\ Fail("load") /\ UNCHANGED <<embedder, onnx, http>>

(* warm_up: one forward pass with one text, one with a full batch; the     *)
(* first dimension that can be read off an output is kept.                 *)
WarmUp ==
    /\ pc \in {"warm one", "warm full"}
    /\ \E d \in Dims \cup {NoDim} :
          embedder' = [embedder EXCEPT !.dim = IF @ = NoDim THEN d ELSE @]
    /\ pc' = IF pc = "warm one" THEN "warm full" ELSE "warm"
    /\ UNCHANGED <<config, calls, serving, onnx, http, outcome>>

KnownDim == IF embedder.dim # NoDim THEN embedder.dim ELSE config.static
OnnxReady ==
    /\ pc = "warm" /\ KnownDim # NoDim
    /\ embedder' = [kind |-> "onnx", dim |-> KnownDim]
    /\ pc' = "ready"
    /\ UNCHANGED <<config, calls, serving, onnx, http, outcome>>

NoDimension ==
    /\ pc = "warm" /\ KnownDim = NoDim
    /\ Fail("dimension") /\ UNCHANGED <<embedder, onnx, http>>

-----------------------------------------------------------------------------
(* embed_documents and embed_query put the prefix on and call embed.       *)
PrefixFor(kind) == IF embedder.kind = "openai" \/ ~config.jina THEN "none"
                   ELSE IF kind = "query" THEN "query" ELSE "document"
Prefixed(c) == [i \in DOMAIN c.bodies |->
                   [prefix |-> PrefixFor(c.kind), body |-> c.bodies[i]]]

(* length_sorted_order: a stable sort of the positions by length.          *)
StableOrder(xs, o) ==
    /\ o \in [DOMAIN xs -> DOMAIN xs]
    /\ \A i, j \in DOMAIN xs : i < j =>
          \/ ByteLen(xs[o[i]]) < ByteLen(xs[o[j]])
          \/ ByteLen(xs[o[i]]) = ByteLen(xs[o[j]]) /\ o[i] < o[j]

Begin ==
    /\ pc = "ready" /\ calls # <<>>
    /\ call' = Head(calls) /\ calls' = Tail(calls)
    /\ texts' = Prefixed(Head(calls))
    /\ result' = <<>>
    /\ attempt' = 0 /\ lastErr' = "none" /\ answers' = <<>>
    /\ sortedOut' = <<>>
    /\ UNCHANGED <<config, embedder, error>>

(* Ok(Vec::new()) without a request or a forward pass.                     *)
NothingToEmbed == /\ Begin /\ texts' = <<>>
                  /\ pc' = "ready" /\ order' = <<>>

StartOnnx == /\ Begin /\ texts' # <<>> /\ embedder.kind = "onnx"
             /\ pc' = "batch"
             /\ order' \in [DOMAIN texts' -> DOMAIN texts']
             /\ StableOrder(texts', order')

(* The sleep of the rate limit comes once per call, before the first       *)
(* request.                                                                *)
StartOpenAi == /\ Begin /\ texts' # <<>> /\ embedder.kind = "openai"
               /\ pc' = "send" /\ order' = <<>>

Finish(vectors) ==
    /\ result' = vectors
    /\ pc' = "ready"
    /\ UNCHANGED <<config, calls, embedder, serving, http, error>>

-----------------------------------------------------------------------------
(* OnnxEmbedder::embed_batch.  The output has a cell for every token of    *)
(* every row when the model emits token embeddings, and one for every row  *)
(* when it pools itself; mean_pool reads it as the former in either case.  *)
Tokens(x) == Smaller(TokensOf(x), MaxSeqLen)
Width(xs) == CHOOSE n \in 1..MaxSeqLen :
                /\ \A i \in DOMAIN xs : Tokens(xs[i]) <= n
                /\ n = 1 \/ \E i \in DOMAIN xs : Tokens(xs[i]) = n

(* The rows a cell holds an embedding of, counting both from 0.            *)
CellOwners(xs, c) ==
    {r \in 0..(Len(xs) - 1) :
        IF config.pooled THEN c = r
        ELSE r * Width(xs) <= c /\ c < r * Width(xs) + Width(xs)}
CellsOf(xs, r) == {r * Width(xs) + t : t \in 0..(Tokens(xs[r + 1]) - 1)}
MeanPool(xs, r) == {xs[k + 1] : k \in UNION {CellOwners(xs, c) :
                                                c \in CellsOf(xs, r)}}
BatchVectors(xs, d) ==
    [i \in DOMAIN xs |-> [of |-> MeanPool(xs, i - 1), dim |-> d]]

SortedTexts == [i \in DOMAIN order |-> texts[order[i]]]
(* Mutant: the end of the last batch is off by one.                        *)
NextBatchShort == SubSeq(SortedTexts, Len(sortedOut) + 1,
                         Smaller(Len(sortedOut) + MaxBatchSize, Len(texts) - 1))
NextBatch   == SubSeq(SortedTexts, Len(sortedOut) + 1,
                      Smaller(Len(sortedOut) + MaxBatchSize, Len(texts)))

(* Mutant: the dimension of a batch is not compared.                       *)
DimFitsAlways(d) == d \in Dims
DimFits(d) == d = embedder.dim

RunBatch ==
    /\ pc = "batch" /\ Len(sortedOut) < Len(texts)
    /\ \E d \in Dims : /\ DimFits(d)
                       /\ sortedOut' = sortedOut \o BatchVectors(NextBatch, d)
    /\ UNCHANGED <<pc, config, calls, embedder, serving, order, http, outcome>>

BatchFails ==
    /\ pc = "batch" /\ Len(sortedOut) < Len(texts)
    /\ Fail("batch") /\ UNCHANGED <<embedder, onnx, http>>

(* restore_input_order: out[order[j]] = sorted[j].                         *)
(* Mutant: gathered instead of scattered.                                  *)
Gathered(vs) == [i \in DOMAIN order |-> vs[order[i]]]
Restored(vs) == [i \in DOMAIN order |->
                    vs[CHOOSE j \in DOMAIN order : order[j] = i]]

EndBatches ==
    /\ pc = "batch" /\ Len(sortedOut) >= Len(texts)
    /\ Finish(Restored(sortedOut))
    /\ UNCHANGED onnx

-----------------------------------------------------------------------------
(* OpenAiCompatEmbedder::post_with_retry.                                  *)
Send ==
    /\ pc = "send"
    /\ pc' = "waiting"
    /\ UNCHANGED <<config, calls, embedder, serving, onnx, http, outcome>>

Answered(kind) == answers' = Append(answers, kind)
UnchangedHttp  == UNCHANGED <<embedder, onnx, attempt, lastErr>>

(* A transport error, 429, 5xx and any status that is neither a success    *)
(* nor 4xx: sleep and try again, or give up with the last error.           *)
Transient  == {"network", "throttled", "server", "redirect"}
Permanent  == {"client", "garbled"}
(* Mutant: one attempt too many.                                           *)
LastAttemptLate == attempt > MaxRetries
LastAttempt     == attempt = MaxRetries

RetryLater(kind) ==
    /\ pc = "waiting" /\ ~LastAttempt
    /\ Answered(kind)
    /\ lastErr' = kind /\ attempt' = attempt + 1
    /\ pc' = "send"
    /\ UNCHANGED <<config, calls, embedder, serving, onnx, outcome>>

GiveUp(kind) ==
    /\ pc = "waiting" /\ LastAttempt
    /\ Answered(kind)
    /\ lastErr' = kind
    /\ Fail(kind) /\ UNCHANGED <<embedder, onnx, attempt>>

(* A 4xx other than 429, or a success whose body does not parse.           *)
Refused(kind) ==
    /\ pc = "waiting"
    /\ Answered(kind)
    /\ Fail(kind) /\ UnchangedHttp

(* The records of an answer: each carries the vector of the text its index *)
(* names, in whatever order the endpoint sends them.                       *)
Records(indexes, d) ==
    [k \in DOMAIN indexes |->
        [index |-> indexes[k],
         vector |-> [of |-> {texts[i] : i \in DOMAIN texts
                                              \cap {indexes[k] + 1}},
                     dim |-> d]]]

(* order_embeddings: sort_unstable_by_key(index), then the two checks.     *)
SortedBy(rs, p) == /\ p \in [DOMAIN rs -> DOMAIN rs]
                   /\ \A i, j \in DOMAIN rs :
                         i < j => /\ p[i] # p[j]
                                  /\ rs[p[i]].index <= rs[p[j]].index
Complete(rs, p) == /\ Len(rs) = Len(texts)
                   /\ \A i \in DOMAIN rs : rs[p[i]].index = i - 1

Success ==
    /\ pc = "waiting"
    /\ \E indexes \in IndexLists, d \in Dims :
          LET rs == Records(indexes, d)
          IN  \E p \in [DOMAIN rs -> DOMAIN rs] :
                 /\ SortedBy(rs, p)
                 /\ Complete(rs, p)
                 /\ result' = [i \in DOMAIN rs |-> rs[p[i]].vector]
    /\ pc' = "ready"
    /\ Answered("success")
    /\ UNCHANGED <<config, calls, serving, error>> /\ UnchangedHttp

Incomplete ==
    /\ pc = "waiting"
    /\ \E indexes \in IndexLists, d \in Dims :
          LET rs == Records(indexes, d)
          IN  \E p \in [DOMAIN rs -> DOMAIN rs] :
                 SortedBy(rs, p) /\ ~Complete(rs, p)
    /\ Answered("success")
    /\ Fail("records") /\ UnchangedHttp

-----------------------------------------------------------------------------
Answer == \/ \E kind \in Transient : RetryLater(kind) \/ GiveUp(kind)
          \/ \E kind \in Permanent : Refused(kind)
          \/ Success \/ Incomplete

Build == \/ UseOnnx \/ UseOpenAi \/ NoBackend \/ ArtifactsMissing
         \/ LoadModel \/ WarmUp \/ OnnxReady \/ NoDimension
Embed == \/ NothingToEmbed \/ StartOnnx \/ StartOpenAi
         \/ RunBatch \/ EndBatches \/ Send

Next == Build \/ LoadFails \/ Embed \/ BatchFails \/ Answer

(* The task goes on whenever it can.  Nothing is assumed of failures, and  *)
(* nothing makes an endpoint answer: the client is built without a timeout.*)
Spec == Init /\ [][Next]_vars /\ WF_vars(Build \/ Embed)

-----------------------------------------------------------------------------
(* Type correctness.                                                       *)
Vector == [of : SUBSET Text, dim : Dims]
EmbeddingTypeOK ==
    /\ pc \in {"build", "artifacts", "warm one", "warm full", "warm", "ready",
               "batch", "send", "waiting", "failed"}
    /\ config \in Config /\ calls \in Seq(Call) /\ call \in Call
    /\ embedder \in [kind : {"none", "onnx", "openai"},
                     dim : Dims \cup {NoDim}]
    /\ texts \in Seq(Text) /\ sortedOut \in Seq(Vector)
    /\ result \in Seq(Vector)
    /\ order \in Seq(DOMAIN texts)
    /\ attempt \in 0..MaxRetries /\ lastErr \in Errors /\ error \in Errors
    /\ answers \in Seq({"success"} \cup Transient \cup Permanent)

(* embed_documents and embed_query: the i-th vector is made from the i-th  *)
(* text and nothing else, however the backend sorted, batched and padded   *)
(* the texts or the endpoint ordered its records.  Stated for models that  *)
(* emit token embeddings.                                                  *)
OwnVector(x) == IF embedder.kind = "onnx" /\ Tokens(x) = 0 THEN {} ELSE {x}
Served == pc = "ready" /\ ~config.pooled
VectorsInOrder ==
    Served => /\ Len(result) = Len(texts)
              /\ \A i \in DOMAIN texts : result[i].of = OwnVector(texts[i])

(* The same of every model the constructor accepts: "Returns one embedding *)
(* vector per input text in the same order" (Embedder::embed).             *)
PooledInOrder ==
    pc = "ready" =>
        \A i \in DOMAIN texts : result[i].of = OwnVector(texts[i])

(* A local model's vectors have the dimension the store was created with.  *)
VectorsFit ==
    pc = "ready" /\ embedder.kind = "onnx" =>
        \A i \in DOMAIN result : result[i].dim = embedder.dim

(* post_with_retry: at most five requests per call, another one only after *)
(* an answer that may be different next time, and the error that ends the  *)
(* call is that of its last request.                                       *)
RetryDiscipline ==
    /\ Len(answers) <= MaxRetries + 1
    /\ \A i \in 1..(Len(answers) - 1) : answers[i] \in Transient
    /\ pc = "send" /\ answers # <<>> => answers[Len(answers)] \in Transient
    /\ pc = "failed" /\ answers # <<>> =>
          LET last == answers[Len(answers)]
          IN  /\ error = IF last = "success" THEN "records" ELSE last
              /\ last \in Transient => Len(answers) = MaxRetries + 1

(* The task is served or gets an error, unless the endpoint leaves it      *)
(* waiting for ever.                                                       *)
Ends == \/ <>[](pc = "waiting")
        \/ <>(pc = "failed" \/ (pc = "ready" /\ calls = <<>>))
=============================================================================
