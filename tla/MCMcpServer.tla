---------------------------- MODULE MCMcpServer ----------------------------
(* Small instance of McpServer: one file that is created at some point,    *)
(* index calls over the project and over a filter, and their CLI twin.     *)
EXTENDS McpServer, TLC

CONSTANTS f1, a, k1, m1, r1, c1

MCChunksOf == a :> {k1}
Asked(full, shallow) ==
    [full |-> full, scope |-> Files, force |-> FALSE, shallow |-> shallow,
     model |-> m1]
CliRequests == {Asked(TRUE, FALSE)}
MCRequests == {Asked(TRUE, TRUE), Asked(FALSE, FALSE)} \cup CliRequests
MCEdits == {<<f1, a>>}
=============================================================================
