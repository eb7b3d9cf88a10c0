--------------------------- MODULE IndexContract ---------------------------
(***************************************************************************)
(* What the index core promises to the readers of one store: a per-file    *)
(* write-ahead mark.  trusted[f] is the version of f the project claims    *)
(* to hold, or Absent; rows[f] is what the store really holds.  Rows may   *)
(* be rewritten, in any number of steps and with any crash in between,     *)
(* only while the file is not trusted, and a file becomes trusted only     *)
(* when its rows are those of the version it is trusted at.                *)
(***************************************************************************)
CONSTANTS Files, Contents, Chunks, ChunksOf, Absent

VARIABLES trusted, rows

contractVars == <<trusted, rows>>

ContractInit ==
    /\ trusted = [f \in Files |-> Absent]
    /\ rows = [f \in Files |-> {}]

(* The file is about to be re-indexed.                                     *)
Distrust(f) ==
    /\ trusted' = [trusted EXCEPT ![f] = Absent]
    /\ UNCHANGED rows

(* One transaction of the store over the files F.                          *)
Rewrite(F) ==
    /\ \A f \in F : trusted[f] = Absent
    /\ \E new \in [Files -> SUBSET Chunks] :
          rows' = [f \in Files |-> IF f \in F THEN new[f] ELSE rows[f]]
    /\ UNCHANGED trusted

(* The re-index of f is complete.                                          *)
Trust(f, c) ==
    /\ rows[f] = ChunksOf[c]
    /\ trusted[f] = Absent
    /\ trusted' = [trusted EXCEPT ![f] = c]
    /\ UNCHANGED rows

ContractNext ==
    \/ \E f \in Files : Distrust(f)
    \/ \E F \in SUBSET Files : Rewrite(F)
    \/ \E f \in Files, c \in Contents : Trust(f, c)

ContractSpec == ContractInit /\ [][ContractNext]_contractVars

(* The reason a reader may use the store: a trusted file has the rows of   *)
(* the version it is trusted at.                                           *)
TrustedRowsAreRight ==
    \A f \in Files : trusted[f] # Absent => rows[f] = ChunksOf[trusted[f]]
=============================================================================
