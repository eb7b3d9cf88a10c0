--------------------------- MODULE MCIndexRecovery ---------------------------
(* Small instance of IndexRecovery: two files, a full call and a filtered  *)
(* one that asks for another model.                                        *)
EXTENDS IndexRecovery, TLC

CONSTANTS f1, f2, a, b, k1, k2, m1, m2, r1

MCChunksOf == (a :> {k1}) @@ (b :> {k1, k2})
Ask(full, scope, force, shallow, model) ==
    [full |-> full, scope |-> scope, force |-> force, shallow |-> shallow,
     model |-> model]
MCRequests == {Ask(TRUE, Files, FALSE, FALSE, m1),
               Ask(FALSE, {f1}, TRUE, FALSE, m1),
               Ask(TRUE, Files, FALSE, TRUE, m2)}
MCEdits == {<<f1, a>>, <<f2, b>>}
=============================================================================
