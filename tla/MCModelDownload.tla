-------------------------- MODULE MCModelDownload --------------------------
(* Instance of ModelDownload: a small tokenizer and a larger model.        *)
EXTENDS ModelDownload, TLC

CONSTANTS v1, v2
MCSizeOf(a, v) == IF a = 1 THEN 1 ELSE IF v = v1 THEN 3 ELSE 2
=============================================================================
