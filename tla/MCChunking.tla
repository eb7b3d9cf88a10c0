----------------------------- MODULE MCChunking -----------------------------
(* Instance of Chunking: files of up to six lines with at most one secret, *)
(* in one line or over several, the syntax trees that decide the walk, and *)
(* configurations from none to more than a whole window of overlap.        *)
EXTENDS Chunking, TLC

Plain(k) == [word |-> k, token |-> FALSE, assigned |-> FALSE, names |-> FALSE,
             value |-> FALSE, blank |-> FALSE, entropy |-> 0, classes |-> 1]
Assigned(k, e, c) == [Plain(k) EXCEPT !.assigned = TRUE, !.entropy = e,
                                      !.classes = c]
Special(k) == {[Plain(k) EXCEPT !.token = TRUE], Assigned(k, 4, 2),
               Assigned(k, 4, 1), Assigned(k, 3, 2)}
(* n lines with a name at line p and a value at line q, and lines between  *)
(* them that are blank or not.                                             *)
Spread(n, p, q, empty) ==
    [k \in 1..n |-> [Plain(k) EXCEPT
        !.names = (k = p), !.value = (k = q), !.blank = empty /\ k \in p+1..q-1,
        !.entropy = IF k = q THEN 4 ELSE 0, !.classes = IF k = q THEN 2 ELSE 1]]
(* n lines, all plain, or one that may hold a secret at line p, or a       *)
(* secret over the border of two windows or of a head and its window.      *)
Texts(n) == {[k \in 1..n |-> Plain(k)]} \cup
            {[k \in 1..n |-> IF k = p THEN x ELSE Plain(k)] :
                p \in {1, (n + 1) \div 2, n}, x \in Special(n + 1)} \cup
            (IF n < 6 THEN {} ELSE
             {Spread(n, 3, 4, TRUE), Spread(n, 4, 5, TRUE),
              Spread(n, 2, 4, TRUE), Spread(n, 2, 4, FALSE)})

N(parent, first, last, kind, name) ==
    [parent |-> parent, first |-> first, last |-> last, kind |-> kind,
     name |-> name]
Trees(n) ==
    {<<N(0, 1, n, "plain", None)>>,
     <<N(0, 1, n, "plain", None), N(1, 1, n, "item", 1)>>,
     <<N(0, 1, n, "plain", None), N(1, 1, n, "container", 1)>>}
    \cup (IF n < 4 THEN {} ELSE
    {\* a class with two methods behind its fields
     <<N(0, 1, n, "plain", None), N(1, 1, n, "container", None),
       N(2, 1, n, "plain", None), N(3, 2, 2, "item", 1),
       N(3, 3, n, "item", 2)>>,
     \* two equal symbols, the second with one inside; a class in a class
     <<N(0, 1, n, "plain", None), N(1, 1, 3, "item", 1),
       N(1, 4, n, "item", 1), N(3, 4, 4, "item", 3)>>,
     <<N(0, 1, n, "plain", None), N(1, 1, n, "container", 1),
       N(2, 2, n, "container", None)>>,
     \* a class of fields in front of a function
     <<N(0, 1, n, "plain", None), N(1, 1, 3, "container", 1),
       N(1, 4, n, "item", 2)>>})

File(entry, language, parses, doc, lines, tree) ==
    [entry |-> entry, language |-> language, parses |-> parses, doc |-> doc,
     lines |-> lines, tree |-> tree]
MCInputs ==
    {File(e, FALSE, TRUE, FALSE, <<>>, <<>>) : e \in Obstacles}
    \cup {File("none", TRUE, p, FALSE, <<>>, <<>>) : p \in BOOLEAN}
    \cup UNION {{File("none", FALSE, FALSE, d, x, <<>>) :
                    d \in BOOLEAN, x \in Texts(n)} : n \in 1..6}
    \cup UNION {{File("none", TRUE, TRUE, FALSE, x, t) :
                    x \in Texts(n), t \in Trees(n)} : n \in {1, 3, 6}}
    \cup {File("none", TRUE, FALSE, FALSE, x, <<>>) : x \in Texts(2)}
MCConfigs == {[chunk |-> c, pct |-> p, doc |-> d] :
                 c \in 0..3, p \in {0, 34, 255}, d \in {0, 4}}
=============================================================================
