-------------------------- MODULE MCIndexPipeline --------------------------
(* Small instances of IndexPipeline: two files, versions a and b that      *)
(* share the chunk k1, and the requests each run of TLC needs.             *)
EXTENDS IndexPipeline, TLC

CONSTANTS f1, f2, a, b, k1, k2, m1, m2, r1, r2

MCChunksOf == (a :> {k1}) @@ (b :> {k1, k2})
Ask(full, scope, force, shallow, model) ==
    [full |-> full, scope |-> scope, force |-> force, shallow |-> shallow,
     model |-> model]
(* One project: a full MCP call and one filtered to f1.                    *)
PlainRequests == {Ask(TRUE, Files, FALSE, TRUE, m1),
                  Ask(FALSE, {f1}, FALSE, FALSE, m1)}
PlainEdits == {<<f1, a>>, <<f1, b>>, <<f2, a>>}

(* Calls that overlap on one file.                                         *)
OverlapRequests == {Ask(TRUE, Files, FALSE, TRUE, m1),
                    Ask(FALSE, Files, TRUE, FALSE, m1)}
OverlapEdits == {<<f1, a>>, <<f1, b>>}

LiveEdits == {<<f1, a>>, <<f1, Absent>>}
RunsAreAlike == Permutations(Runs)

(* ... and name different embedding models.                                *)
MixedRequests == {Ask(TRUE, Files, FALSE, TRUE, m1),
                  Ask(FALSE, Files, TRUE, FALSE, m2)}
=============================================================================
