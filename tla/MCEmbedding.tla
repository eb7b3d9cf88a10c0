---------------------------- MODULE MCEmbedding ----------------------------
(* Instance of Embedding: three texts of two lengths in batches of two.    *)
EXTENDS Embedding, TLC

MCByteLen(x)  == IF x.body = "long" THEN 9 ELSE 4
MCTokensOf(x) == CASE x.body = "long" -> 5 [] x.body = "blank" -> 0
                   [] OTHER -> 1
MCIndexLists  == UNION {[1..n -> 0..(n - 1)] : n \in 0..3}
                 \cup {<<0, 2>>, <<1, 2, 3>>, <<0, 1, 2, 3>>}

Docs(bodies) == [kind |-> "documents", bodies |-> bodies]
Query(body)  == [kind |-> "query", bodies |-> <<body>>]
(* Documents in every order, a query, and WarmUp::run.                     *)
MCCallLists ==
    {<<Docs(<<"long", "short", "blank">>)>>,
     <<Docs(<<"short", "long", "blank">>)>>,
     <<Docs(<<"blank", "long", "long">>)>>,
     <<Docs(<<>>)>>, <<Query("short")>>,
     <<Docs(<<"short">>), Docs(<<"short", "long">>)>>}

Setup(backend, key, fallback, jina, artifacts, static) ==
    [backend |-> backend, key |-> key, fallback |-> fallback, jina |-> jina,
     artifacts |-> artifacts, pooled |-> FALSE, static |-> static]
All == {"tokenizer", "model"}
MCConfigs ==
    {Setup("onnx", FALSE, FALSE, j, a, s) :
        j \in BOOLEAN, a \in {All, {"tokenizer"}}, s \in {NoDim, 1}}
    \cup {Setup("openai", f, ~f, TRUE, All, NoDim) : f \in BOOLEAN}
    \cup {Setup("ollama", TRUE, TRUE, FALSE, All, NoDim),
          Setup("openai", FALSE, FALSE, FALSE, All, NoDim)}
(* A model whose first output is one pooled row per text.                  *)
PooledConfigs ==
    {[Setup("onnx", FALSE, FALSE, FALSE, All, NoDim) EXCEPT !.pooled = TRUE]}
=============================================================================
