------------------------- MODULE MCContextAssembly -------------------------
(* Instance of ContextAssembly: hits of three files that overlap in many   *)
(* ways, their related files (file 4 is named by two tiers and has more    *)
(* chunks than a file may add), and a tokenizer that counts neither        *)
(* additively nor monotonically.                                           *)
EXTENDS ContextAssembly, TLC, SequencesExt

Found(id, path, from, to, score, len, age) ==
    [id |-> id, path |-> path, from |-> from, to |-> to, score |-> score,
     len |-> len, age |-> age]

(* File 1 has overlapping windows, file 2 a single hit without content (a  *)
(* keyword hit that was not hydrated), file 3 is documentation.            *)
Catalogue == {Found("a", 1, 1, 6, 4, 3, "unknown"),
              Found("b", 1, 4, 9, 9, 2, "day"),
              Found("c", 1, 5, 6, 5, 4, "week"),
              Found("d", 1, 6, 12, 5, 1, "older"),
              Found("e", 2, 1, 4, 3, 0, "future"),
              Found("f", 3, 2, 3, 6, 3, "day")}
Orders(n) == {s \in [1..n -> Catalogue] : IsInjective(s)}
HitLists == {<<>>} \cup Orders(2) \cup Orders(3)
            \cup {s \in Orders(4) : s[1].id = "a" /\ s[2].id = "b"}

Ask(hits, budget, files, docs, store, minRel) ==
    [hits |-> hits, scope |-> IF store THEN 1..3 ELSE 1..2, docs |-> docs,
     related |-> TRUE, store |-> store, minRel |-> minRel, budget |-> budget,
     maxFiles |-> files, status |-> IF store THEN "full" ELSE "partial"]
MCRequests == {Ask(h, b, n, n = 2, st, m) :
                   h \in HitLists, b \in {1, 4, 9}, n \in {1, 2},
                   st \in BOOLEAN, m \in {0, 500}}

MCEstimate(chars) == Ceil(chars, 2)
(* Half a token per character, one for each line break, one more for a     *)
(* text cut after an odd number of characters.                             *)
MCCountExact(text) ==
    IF text = <<>> THEN 0
    ELSE LET chars == FoldLeft(LAMBDA n, p : n + p.kept, 0, text)
         IN  Ceil(chars, 2) + Len(text) - 1 + (text[Len(text)].kept % 2)

MCHighTier(p) == CASE p = 1 -> <<4, 5, 2>> [] p = 2 -> <<5, 6>>
                   [] OTHER -> <<>>
MCLowTier(p)  == CASE p = 1 -> <<7, 4>> [] p = 2 -> <<7, 8, 9>>
                   [] OTHER -> <<>>
MCRelatedHits(p) ==
    CASE p < 4 -> <<Found("s", p, 1, 2, 700, 2, "older")>>
      [] p = 4 -> <<Found("x", p, 1, 3, 900, 1, "day"),
                    Found("y", p, 4, 6, 800, 2, "older"),
                    Found("z", p, 7, 8, 700, 1, "older"),
                    Found("v", p, 9, 9, 600, 1, "older")>>
      [] OTHER -> <<Found("x", p, 1, 3, 900, 1, "day"),
                    Found("y", p, 4, 6, IF p = 5 THEN 800 ELSE 200, 2, "older")>>
MCDirOf(p) == p % 3
=============================================================================
