-------------------------- MODULE MCSearchRequests --------------------------
(* Instance of SearchRequests: two requests around index calls of a file   *)
(* that changes, and single requests over all orders of four chunks.       *)
EXTENDS SearchRequests, TLC

RequestsAreAlike == Permutations(Callers)

MCFileOf == <<"a.rs", "a.rs", "b.c++", "b.c++">>
MCExtOf == "a.rs" :> "rs" @@ "b.c++" :> "c++"

Ask1(mode, top, ext, identifiers, tokens, parses) ==
    [mode |-> mode, top |-> top, ext |-> ext, identifiers |-> identifiers,
     tokens |-> tokens, parses |-> parses]
World(callers, bound, trees, start, built, near, bm25, plain, asks) ==
    [callers |-> callers, budget |-> bound,
     trees |-> trees, start |-> start, built |-> built,
     configured |-> "openai", near |-> near, bm25 |-> bm25, plain |-> plain,
     asks |-> asks]

Budget(calls, edits, deletes) ==
    [calls |-> calls, edits |-> edits, deletes |-> deletes]

(* Chunk 2 takes the place of chunk 1; the other file stays.               *)
Changes(built, bound) ==
    World(Callers, bound, {{1, 3}, {2, 3}}, {1, 3}, built, <<1, 2, 3>>,
          <<2, 1, 3>>, {1, 2},
          {Ask1("hybrid", 2, {}, 1, 2, p) : p \in {TRUE, built}})
Changing == {Changes(FALSE, Budget(1, 0, 0)), Changes(TRUE, Budget(1, 1, 0)),
             Changes(TRUE, Budget(1, 0, 1))}

Orders(n) == {s \in [1..n -> 1..n] : \A i, j \in 1..n : s[i] = s[j] => i = j}
Questions ==
    {Ask1("hybrid", t, x, q[1], q[2], TRUE) :
        t \in 1..3, x \in {{}, {"rs"}, {"c++"}, {"rs", "c++"}},
        q \in {<<0, 0>>, <<0, 2>>, <<1, 2>>, <<2, 2>>}}
    \cup {Ask1(m, t, x, 1, 2, TRUE) :
        m \in {"semantic", "keyword"}, t \in {1, 3}, x \in {{}, {"rs"}, {"c++"}}}
(* A project that does not change, as long as one request lasts.           *)
Unchanged(c, nearest, best) ==
    World({c}, Budget(0, 0, 0), {InSeq(nearest)}, InSeq(nearest), TRUE,
          nearest, best, {1, 2}, Questions)
Still ==
    {Unchanged(c, near, <<1, 2, 3, 4>>) : near \in Orders(4), c \in Callers}
    \cup {Unchanged(c, near, best) :
             near \in {<<1, 1, 2, 3>>, <<3, 4>>, <<2, 1, 1, 4, 3>>, <<1, 4, 1, 2>>},
             best \in {<<>>, <<3, 1>>, <<2, 2, 1>>, <<4, 3, 2, 1>>},
             c \in Callers}
MCWorlds == Changing \cup Still
=============================================================================
