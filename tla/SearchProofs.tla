---------------------------- MODULE SearchProofs ----------------------------
(***************************************************************************)
(* What holds of search requests for every number of requests, every world *)
(* and every bound: one embedder per configuration, query vectors of the   *)
(* rows' model, a cached index health that is current; and, from what the  *)
(* filters, the sums of scores and the order by rank compute, that every   *)
(* answer is ranked.                                                       *)
(***************************************************************************)
EXTENDS SearchRequests, FiniteSetTheorems, SequenceTheorems,
        WellFoundedInduction, TLAPS

(* The shape of the state: what the steps below need of its types.         *)
Fields == {"at", "ask", "mode", "key", "emb", "docs", "seen", "rows", "space",
           "sem", "kw", "out", "health", "count", "late"}
Shape ==
    /\ DOMAIN req = Callers
    /\ \A c \in Callers : DOMAIN req[c] = Fields
    /\ DOMAIN embedders = Backends
    /\ made \in Nat
    /\ world.configured \in Backends /\ meta \in Backends \cup {None}

(* Where a request has an embedder that it shares with the cache, and      *)
(* where it is about to store its own.                                     *)
Using(r) == r.at \in {"open", "vectors", "hydrate"} /\ r.mode # "keyword"
Shared(r) ==
    /\ r.at \in {"lookup", "build", "insert"} \/ Using(r) => r.key \in Backends
    /\ r.at = "insert" => r.emb # NoEmbedder
    /\ Using(r) => r.emb # NoEmbedder /\ embedders[r.key] = r.emb

(* A request that holds the store open knows its model; later the model it *)
(* searched is still the one of its embedder.                              *)
Matching(r) ==
    /\ r.at = "vectors" /\ r.mode # "keyword" => r.emb.model = meta
    /\ r.at = "vectors" => meta # None
    /\ r.space # None => r.emb.model = r.space /\ r.at \notin
          {"status", "backend", "lookup", "build", "insert", "open", "vectors"}

(* What a request has counted of the index is what a count would give now. *)
CountNow ==
    LET there == {f \in Files : Tree(f) # {}}
    IN  [files |-> there,
         known |-> {f \in there : mark[f] # "unknown"},
         done |-> {f \in there : mark[f] = "indexed"}]
Counted(r) ==
    settled /\ ~r.late =>
        /\ r.at = "counted" => r.count = CountNow
        /\ r.at = "put" => r.health \in {NoHealth, HealthNow}
Current ==
    /\ settled => call = "idle"
    /\ \A c \in Callers : Counted(req[c])
    /\ HealthIsCurrent

RequestInv == /\ Shape
              /\ \A c \in Callers : Shared(req[c]) /\ Matching(req[c])
              /\ Current
-----------------------------------------------------------------------------
(* The invariant holds at the start.                                       *)
LEMMA InitRequestInv == Init => RequestInv
BY WorldsAssumption DEF Init, RequestInv, Shape, Fields, Shared, Using, Matching, Current,
       Counted, HealthIsCurrent, NewRequest

(* A step of one request that changes nothing else.                        *)
LEMMA RequestMoves ==
    ASSUME RequestInv, NEW c \in Callers, NEW r, Becomes(c, r),
           UNCHANGED <<indexing, embedders, health>>, made' \in Nat,
           DOMAIN r = Fields, Shared(r), Matching(r), Counted(r)
    PROVE  RequestInv'
<1>1. /\ DOMAIN req' = Callers /\ req'[c] = r
      /\ \A d \in Callers : d # c => req'[d] = req[d]
    BY DEF RequestInv, Shape, Becomes
<1>2. Shape'
    BY <1>1 DEF RequestInv, Shape, indexing, stores
<1>3. \A d \in Callers : Shared(req[d])'
    BY <1>1 DEF RequestInv, Shared, Using
<1>4. \A d \in Callers : Matching(req[d])'
    BY <1>1 DEF RequestInv, Matching, indexing, stores
<1>5. HealthNow' = HealthNow /\ CountNow' = CountNow
    BY DEF HealthNow, CountNow, HealthOf, Coverage, Tree, indexing, stores
<1>6. \A d \in Callers : Counted(req[d])'
    BY <1>1, <1>5 DEF RequestInv, Current, Counted, indexing
<1>7. (settled => call = "idle")' /\ HealthIsCurrent'
    BY <1>5 DEF RequestInv, Current, HealthIsCurrent, indexing
<1> QED
    BY <1>2, <1>3, <1>4, <1>6, <1>7 DEF RequestInv, Current

(* A request that is over.                                                 *)
LEMMA OverIsOK ==
    ASSUME NEW r, NEW place \in {"answered", "failed"}, NEW h
    PROVE  /\ DOMAIN Over(r, place, h) = Fields
           /\ Shared(Over(r, place, h)) /\ Matching(Over(r, place, h))
           /\ Counted(Over(r, place, h))
BY DEF Over, NewRequest, Fields, Shared, Using, Matching, Counted

LEMMA FailKeeps ==
    ASSUME RequestInv, NEW c \in Callers, Fail(c), UNCHANGED <<indexing, caches>>
    PROVE  RequestInv'
BY RequestMoves, OverIsOK DEF Fail, caches, RequestInv, Shape

LEMMA AskKeeps ==
    ASSUME RequestInv, NEW c \in Callers, NEW a, Ask(c, a)
    PROVE  RequestInv'
<1> DEFINE r == [NewRequest EXCEPT !.at = "status", !.ask = a, !.mode = a.mode]
<1>1. DOMAIN r = Fields /\ Shared(r) /\ Matching(r) /\ Counted(r)
    BY DEF NewRequest, Fields, Shared, Using, Matching, Counted
<1> QED
    BY <1>1, RequestMoves DEF Ask, caches, RequestInv, Shape

LEMMA RouteKeeps ==
    ASSUME RequestInv, NEW c \in Callers, Route(c)
    PROVE  RequestInv'
<1>1. CASE phase = "building"
    BY <1>1, RequestMoves, OverIsOK DEF Route, caches, RequestInv, Shape
<1>2. CASE phase = "partial"
  <2> DEFINE r == [req[c] EXCEPT !.at = "tier", !.mode = "tier"]
  <2>1. DOMAIN r = Fields /\ Shared(r) /\ Matching(r) /\ Counted(r)
      BY DEF RequestInv, Shape, Fields, Shared, Using, Matching, Counted, Route,
             At, Current
  <2> QED
      BY <1>2, <2>1, RequestMoves DEF Route, caches, RequestInv, Shape
<1>3. CASE phase \notin {"building", "partial"}
  <2> DEFINE r == [req[c] EXCEPT !.at = "backend"]
  <2>1. DOMAIN r = Fields /\ Shared(r) /\ Matching(r) /\ Counted(r)
      BY DEF RequestInv, Shape, Fields, Shared, Using, Matching, Counted, Route,
             At, Current
  <2> QED
      BY <1>3, <2>1, RequestMoves DEF Route, caches, RequestInv, Shape
<1> QED
    BY <1>1, <1>2, <1>3

LEMMA ApplyBackendKeeps ==
    ASSUME RequestInv, NEW c \in Callers, ApplyBackend(c)
    PROVE  RequestInv'
<1> DEFINE r == [req[c] EXCEPT
                    !.key = IF meta # None THEN meta ELSE world.configured,
                    !.at = IF req[c].mode = "keyword" THEN "open"
                           ELSE "lookup"]
<1>1. CASE meta = None /\ req[c].mode # "keyword"
    BY <1>1, FailKeeps DEF ApplyBackend
<1>2. CASE ~(meta = None /\ req[c].mode # "keyword")
  <2>1. DOMAIN r = Fields /\ Shared(r) /\ Matching(r) /\ Counted(r)
      BY DEF RequestInv, Shape, Fields, Shared, Using, Matching, Counted,
             ApplyBackend, At, Current
  <2> QED
      BY <1>2, <2>1, RequestMoves DEF ApplyBackend, caches, RequestInv, Shape
<1> QED
    BY <1>1, <1>2

LEMMA LookupKeeps ==
    ASSUME RequestInv, NEW c \in Callers, Lookup(c)
    PROVE  RequestInv'
<1> DEFINE found == embedders[req[c].key]
           build == [req[c] EXCEPT !.at = "build"]
           taken == [req[c] EXCEPT !.at = "open", !.emb = found]
<1>1. DOMAIN build = Fields /\ Shared(build) /\ Matching(build) /\ Counted(build)
    BY DEF RequestInv, Shape, Fields, Shared, Using, Matching, Counted, Lookup,
           At, Current
<1>2. ASSUME found # NoEmbedder
      PROVE  DOMAIN taken = Fields /\ Shared(taken) /\ Matching(taken) /\ Counted(taken)
    BY <1>2 DEF RequestInv, Shape, Fields, Shared, Using, Matching, Counted,
                Lookup, At, Current
<1>3. CASE found = NoEmbedder
    BY <1>1, <1>3, RequestMoves DEF Lookup, caches, RequestInv, Shape
<1>4. CASE found # NoEmbedder
    BY <1>2, <1>4, RequestMoves DEF Lookup, caches, RequestInv, Shape
<1> QED
    BY <1>3, <1>4

LEMMA BuildKeeps ==
    ASSUME RequestInv, NEW c \in Callers, NEW b, Build(c, b)
    PROVE  RequestInv'
<1> DEFINE r == [req[c] EXCEPT !.at = "insert",
                               !.emb = [model |-> b, serial |-> made + 1]]
<1>1. [model |-> b, serial |-> made + 1] # NoEmbedder
    BY DEF RequestInv, Shape, NoEmbedder
<1>2. DOMAIN r = Fields /\ Shared(r) /\ Matching(r) /\ Counted(r)
    BY <1>1 DEF RequestInv, Shape, Fields, Shared, Using, Matching, Counted,
                Build, At, Current
<1>3. made' \in Nat
    BY DEF Build, RequestInv, Shape
<1> QED
    BY <1>2, <1>3, RequestMoves DEF Build

(* The insertion: the embedder of the key is set at most once.             *)
LEMMA InsertKeeps ==
    ASSUME RequestInv, NEW c \in Callers, Insert(c)
    PROVE  RequestInv'
<1> DEFINE key  == req[c].key
           kept == Kept(embedders[key], req[c].emb)
           r    == [req[c] EXCEPT !.at = "open", !.emb = kept]
<1>1. /\ DOMAIN req' = Callers /\ req'[c] = r
      /\ \A d \in Callers : d # c => req'[d] = req[d]
    BY DEF RequestInv, Shape, Insert, Becomes
<1>2. /\ key \in Backends /\ kept # NoEmbedder
      /\ embedders' = [embedders EXCEPT ![key] = kept]
      /\ embedders[key] # NoEmbedder => kept = embedders[key]
    BY DEF RequestInv, Shared, Insert, At, Kept
<1>3. embedders'[key] = kept
    BY <1>2 DEF RequestInv, Shape
<1>4. \A b \in Backends : embedders[b] # NoEmbedder => embedders'[b] = embedders[b]
    BY <1>2, <1>3 DEF RequestInv, Shape
<1>5. Shape'
    BY <1>1, <1>2 DEF RequestInv, Shape, Insert, indexing, stores, Fields
<1>6. ASSUME NEW d \in Callers, d # c
      PROVE  Shared(req[d])'
    BY <1>1, <1>4, <1>6 DEF RequestInv, Shared, Using
<1>7. Shared(req[c])'
  <2>1. r.at = "open" /\ r.key = key /\ r.emb = kept
      BY DEF RequestInv, Shape, Fields
  <2> QED
      BY <1>1, <1>2, <1>3, <2>1 DEF Shared, Using
<1>8. \A d \in Callers : Matching(req[d])'
  <2>1. Matching(r)
      BY DEF RequestInv, Shape, Fields, Matching, Insert, At
  <2> QED
      BY ZenonT(60), <1>1, <2>1 DEF RequestInv, Matching, Insert, indexing, stores
<1>9. HealthNow' = HealthNow /\ CountNow' = CountNow
    BY DEF HealthNow, CountNow, HealthOf, Coverage, Tree, Insert, indexing,
           stores
<1>10. \A d \in Callers : Counted(req[d])'
  <2>1. r.at = "open"
      BY DEF RequestInv, Shape, Fields
  <2> QED
      BY <1>1, <1>9, <2>1 DEF RequestInv, Current, Counted, Insert, indexing
<1>11. (settled => call = "idle")' /\ HealthIsCurrent'
    BY <1>9 DEF RequestInv, Current, HealthIsCurrent, Insert, indexing
<1> QED
    BY <1>5, <1>6, <1>7, <1>8, <1>10, <1>11 DEF RequestInv, Current

LEMMA OpenStoresKeeps ==
    ASSUME RequestInv, NEW c \in Callers, OpenStores(c)
    PROVE  RequestInv'
<1> DEFINE fails == ~ModelFits(req[c])
                    \/ (req[c].mode # "semantic" /\ ~searchable)
           r == [req[c] EXCEPT
                    !.docs = IF req[c].mode = "semantic" THEN {} ELSE text,
                    !.at = "vectors"]
<1>1. CASE fails
    BY <1>1, FailKeeps DEF OpenStores
<1>2. CASE ~fails
  <2>1. DOMAIN r = Fields /\ Shared(r) /\ Matching(r) /\ Counted(r)
      BY <1>2 DEF RequestInv, Shape, Fields, Shared, Using, Matching, Counted,
                  OpenStores, ModelFits, At, Current
  <2> QED
      BY <1>2, <2>1, RequestMoves DEF OpenStores, caches, RequestInv, Shape
<1> QED
    BY <1>1, <1>2

LEMMA SearchTierKeeps ==
    ASSUME RequestInv, NEW c \in Callers, SearchTier(c)
    PROVE  RequestInv'
<1> DEFINE asked == [req[c] EXCEPT !.docs = text]
           found == [asked EXCEPT
                        !.kw = First(ListLimit(asked), Documents(asked))]
           r == [found EXCEPT !.out = Filtered(found), !.at = "health"]
<1>1. CASE ~searchable \/ ~req[c].ask.parses
    BY <1>1, FailKeeps DEF SearchTier
<1>2. CASE ~(~searchable \/ ~req[c].ask.parses)
  <2>1. DOMAIN r = Fields /\ r.at = "health" /\ r.space = req[c].space
        /\ r.emb = req[c].emb
      BY DEF RequestInv, Shape, Fields
  <2>2. Shared(r) /\ Matching(r) /\ Counted(r)
      BY <2>1 DEF RequestInv, Shared, Using, Matching, Counted, SearchTier, At
  <2> HIDE DEF r
  <2>3. Becomes(c, r)
      BY <1>2 DEF SearchTier, r
  <2> QED
      BY <2>1, <2>2, <2>3, RequestMoves DEF SearchTier, caches, RequestInv, Shape
<1> QED
    BY <1>1, <1>2

(* The search itself: the rows it meets have the model the store was       *)
(* opened for.                                                             *)
LEMMA SearchVectorsKeeps ==
    ASSUME RequestInv, NEW c \in Callers, SearchVectors(c)
    PROVE  RequestInv'
<1> DEFINE r == [req[c] EXCEPT
                    !.sem = IF req[c].mode = "keyword" THEN <<>>
                            ELSE First(ListLimit(req[c]),
                                       Nearest(vec, req[c].ask)),
                    !.kw = IF req[c].mode = "semantic" THEN <<>>
                           ELSE First(ListLimit(req[c]), Documents(req[c])),
                    !.space = IF req[c].mode = "keyword" THEN None ELSE meta,
                    !.seen = IF req[c].mode = "keyword" THEN {} ELSE vec,
                    !.at = "hydrate"]
<1>1. /\ DOMAIN r = Fields /\ r.at = "hydrate" /\ r.emb = req[c].emb
      /\ r.key = req[c].key /\ r.mode = req[c].mode
      /\ r.space = IF req[c].mode = "keyword" THEN None ELSE meta
    BY DEF RequestInv, Shape, Fields
<1>2. Becomes(c, r)
    BY DEF SearchVectors
<1> HIDE DEF r
<1>3. Shared(r) /\ Matching(r) /\ Counted(r)
    BY <1>1 DEF RequestInv, Shared, Using, Matching, Counted, SearchVectors, At
<1> QED
    BY <1>1, <1>2, <1>3, RequestMoves
       DEF SearchVectors, caches, RequestInv, Shape

LEMMA HydrateKeeps ==
    ASSUME RequestInv, NEW c \in Callers, Hydrate(c)
    PROVE  RequestInv'
<1> DEFINE read == [req[c] EXCEPT !.rows = ChunksByIds(InSeq(req[c].kw))]
           r == [read EXCEPT !.out = Filtered(read), !.at = "health"]
<1>1. /\ DOMAIN r = Fields /\ r.at = "health" /\ r.emb = req[c].emb
      /\ r.space = req[c].space
    BY DEF RequestInv, Shape, Fields
<1>2. Becomes(c, r)
    BY DEF Hydrate
<1> HIDE DEF r
<1>3. Shared(r) /\ Matching(r) /\ Counted(r)
    BY <1>1 DEF RequestInv, Shared, Using, Matching, Counted, Hydrate, At
<1> QED
    BY <1>1, <1>2, <1>3, RequestMoves DEF Hydrate, caches, RequestInv, Shape

(* The health of the index: looked up, counted, and put in the cache.      *)
LEMMA AnswerKeeps ==
    ASSUME RequestInv, NEW c \in Callers, NEW h, Becomes(c, Answer(req[c], h)),
           UNCHANGED <<indexing, embedders, health, made>>
    PROVE  RequestInv'
BY RequestMoves, OverIsOK DEF Answer, RequestInv, Shape

LEMMA CountFilesKeeps ==
    ASSUME RequestInv, NEW c \in Callers, CountFiles(c)
    PROVE  RequestInv'
<1> DEFINE r == [req[c] EXCEPT !.at = "counted", !.count = CountNow]
<1>1. /\ DOMAIN r = Fields /\ r.at = "counted" /\ r.emb = req[c].emb
      /\ r.space = req[c].space /\ r.count = CountNow
    BY DEF RequestInv, Shape, Fields
<1>2. Becomes(c, r)
    BY DEF CountFiles, CountNow
<1> HIDE DEF r
<1>3. Shared(r) /\ Matching(r) /\ Counted(r)
    BY <1>1 DEF RequestInv, Shared, Using, Matching, Counted, CountFiles, At
<1> QED
    BY <1>1, <1>2, <1>3, RequestMoves DEF CountFiles, caches, RequestInv, Shape

LEMMA ReadReadyKeeps ==
    ASSUME RequestInv, NEW c \in Callers, ReadReady(c)
    PROVE  RequestInv'
<1> DEFINE h == HealthOf(req[c].count, searchable /\ ready)
           r == [req[c] EXCEPT !.at = "put", !.health = h]
<1>1. /\ DOMAIN r = Fields /\ r.at = "put" /\ r.emb = req[c].emb
      /\ r.space = req[c].space /\ r.health = h /\ r.late = req[c].late
    BY DEF RequestInv, Shape, Fields
<1>2. Becomes(c, r)
    BY DEF ReadReady
<1>3. HealthNow = HealthOf(CountNow, searchable /\ ready)
    BY DEF HealthNow, CountNow
<1>4. settled /\ ~req[c].late => h = HealthNow
    BY <1>3 DEF RequestInv, Current, Counted, ReadReady, At
<1> HIDE DEF r, h
<1>5. Shared(r) /\ Matching(r) /\ Counted(r)
    BY <1>1, <1>4
       DEF RequestInv, Shared, Using, Matching, Counted, ReadReady, At
<1> QED
    BY <1>1, <1>2, <1>5, RequestMoves DEF ReadReady, caches, RequestInv, Shape

LEMMA CountFailsKeeps ==
    ASSUME RequestInv, NEW c \in Callers, CountFails(c)
    PROVE  RequestInv'
<1> DEFINE r == [req[c] EXCEPT !.at = "put", !.health = NoHealth]
<1>1. DOMAIN r = Fields /\ Shared(r) /\ Matching(r) /\ Counted(r)
    BY DEF RequestInv, Shape, Fields, Shared, Using, Matching, Counted,
           CountFails, At, Current
<1> QED
    BY <1>1, RequestMoves DEF CountFails, caches, RequestInv, Shape

LEMMA PutHealthKeeps ==
    ASSUME RequestInv, NEW c \in Callers, PutHealth(c)
    PROVE  RequestInv'
<1> DEFINE r == Answer(req[c], req[c].health)
<1>1. /\ DOMAIN req' = Callers /\ req'[c] = r
      /\ \A d \in Callers : d # c => req'[d] = req[d]
    BY DEF RequestInv, Shape, PutHealth, Becomes
<1>2. DOMAIN r = Fields /\ Shared(r) /\ Matching(r) /\ Counted(r)
    BY OverIsOK DEF Answer
<1> HIDE DEF r
<1>3. Shape'
    BY <1>1, <1>2 DEF RequestInv, Shape, PutHealth, indexing, stores
<1>4. \A d \in Callers : Shared(req[d])' /\ Matching(req[d])'
    BY <1>1, <1>2 DEF RequestInv, Shared, Using, Matching, PutHealth, indexing,
                      stores
<1>5. HealthNow' = HealthNow /\ CountNow' = CountNow
    BY DEF HealthNow, CountNow, HealthOf, Coverage, Tree, PutHealth, indexing,
           stores
<1>6. \A d \in Callers : Counted(req[d])'
    BY <1>1, <1>2, <1>5 DEF RequestInv, Current, Counted, PutHealth, indexing
<1>7. (settled => call = "idle")'
    BY DEF RequestInv, Current, PutHealth, indexing
<1>8. HealthIsCurrent'
  <2>1. settled /\ ~req[c].late => req[c].health \in {NoHealth, HealthNow}
      BY DEF RequestInv, Current, Counted, PutHealth, At
  <2>2. health' = {[value |-> req[c].health, late |-> req[c].late]}
      BY DEF PutHealth
  <2> QED
      BY <1>5, <2>1, <2>2 DEF HealthIsCurrent, PutHealth, indexing
<1> QED
    BY <1>3, <1>4, <1>6, <1>7, <1>8 DEF RequestInv, Current

LEMMA HealthExpiresKeeps ==
    ASSUME RequestInv, HealthExpires
    PROVE  RequestInv'
<1>1. HealthNow' = HealthNow /\ CountNow' = CountNow
    BY DEF HealthNow, CountNow, HealthOf, Coverage, Tree, HealthExpires,
           indexing, stores
<1>2. Shape' /\ \A c \in Callers : Shared(req[c])' /\ Matching(req[c])'
    BY DEF RequestInv, Shape, Shared, Using, Matching, HealthExpires, indexing,
           stores
<1>3. Current'
    BY <1>1 DEF RequestInv, Current, Counted, HealthIsCurrent, HealthExpires,
                indexing
<1> QED
    BY <1>2, <1>3 DEF RequestInv

LEMMA RequestKeeps ==
    ASSUME RequestInv, NEW c \in Callers, Request(c)
    PROVE  RequestInv'
<1>1. CASE \E a \in world.asks : Ask(c, a)
    BY <1>1, AskKeeps
<1>2. CASE Route(c)
    BY <1>2, RouteKeeps
<1>3. CASE ApplyBackend(c)
    BY <1>3, ApplyBackendKeeps
<1>4. CASE Lookup(c)
    BY <1>4, LookupKeeps
<1>5. CASE \E b \in Backends : Build(c, b)
    BY <1>5, BuildKeeps
<1>6. CASE Insert(c)
    BY <1>6, InsertKeeps
<1>7. CASE OpenStores(c)
    BY <1>7, OpenStoresKeeps
<1>8. CASE SearchTier(c)
    BY <1>8, SearchTierKeeps
<1>9. CASE SearchVectors(c)
    BY <1>9, SearchVectorsKeeps
<1>10. CASE Hydrate(c)
    BY <1>10, HydrateKeeps
<1>11. CASE SearchFails(c)
    BY <1>11, FailKeeps DEF SearchFails
<1>12. CASE HealthHit(c)
    BY <1>12, AnswerKeeps DEF HealthHit, caches
<1>13. CASE CountFiles(c)
    BY <1>13, CountFilesKeeps
<1>14. CASE ReadReady(c)
    BY <1>14, ReadReadyKeeps
<1>15. CASE CountFails(c)
    BY <1>15, CountFailsKeeps
<1>16. CASE PutHealth(c)
    BY <1>16, PutHealthKeeps
<1> QED
    BY <1>1, <1>2, <1>3, <1>4, <1>5, <1>6, <1>7, <1>8, <1>9, <1>10, <1>11,
       <1>12, <1>13, <1>14, <1>15, <1>16 DEF Request

(* Steps of the index calls.  All but the last one of a call happen while  *)
(* nothing is settled, and none changes the model under an open store.     *)
LEMMA IndexMoves ==
    ASSUME RequestInv, UNCHANGED <<world, req, caches>>, ~settled',
           meta' \in Backends \cup {None},
           \/ meta' = meta \/ meta = None
           \/ \A c \in Callers : req[c].at # "vectors"
    PROVE  RequestInv'
<1>1. Shape' /\ \A c \in Callers : Shared(req[c])'
    BY DEF RequestInv, Shape, Shared, Using, caches
<1>2. \A c \in Callers : Matching(req[c])'
    BY DEF RequestInv, Matching
<1>3. Current'
    BY DEF Current, Counted, HealthIsCurrent
<1> QED
    BY <1>1, <1>2, <1>3 DEF RequestInv

LEMMA ClearHealthKeeps ==
    ASSUME RequestInv, ClearHealth
    PROVE  RequestInv'
<1> DEFINE r(c) == [req[c] EXCEPT !.late = @ \/ req[c].at \in Counting]
<1>1. req' = [c \in Callers |-> r(c)]
    BY DEF ClearHealth
<1>2. ASSUME NEW c \in Callers
      PROVE  /\ DOMAIN req'[c] = Fields
             /\ req'[c].at = req[c].at /\ req'[c].mode = req[c].mode
             /\ req'[c].key = req[c].key /\ req'[c].emb = req[c].emb
             /\ req'[c].space = req[c].space
             /\ req[c].at \in Counting => req'[c].late
    BY <1>1 DEF RequestInv, Shape, Fields
<1>3. Shape'
    BY <1>1, <1>2 DEF RequestInv, Shape, ClearHealth, stores
<1>4. \A c \in Callers : Shared(req[c])'
    BY <1>2 DEF RequestInv, Shared, Using, ClearHealth
<1>5. \A c \in Callers : Matching(req[c])'
    BY <1>2 DEF RequestInv, Matching, ClearHealth, stores
<1>6. \A c \in Callers : Counted(req[c])'
    BY <1>2 DEF Counted, Counting
<1>7. (settled => call = "idle")' /\ HealthIsCurrent'
    BY DEF ClearHealth, HealthIsCurrent
<1> QED
    BY <1>3, <1>4, <1>5, <1>6, <1>7 DEF RequestInv, Current

LEMMA IndexingKeeps ==
    ASSUME RequestInv, Indexing
    PROVE  RequestInv'
<1>1. meta \in Backends \cup {None} /\ (call # "idle" => settled # TRUE)
    BY DEF RequestInv, Shape, Current
<1>2. CASE \E t \in world.trees : Edit(t)
    BY <1>1, <1>2, IndexMoves DEF Edit
<1>3. CASE \E b \in Backends : BeginCall(b)
    BY <1>1, <1>3, IndexMoves DEF BeginCall
<1>4. CASE \E f \in Files : StoreRows(f) \/ CommitText(f) \/ MarkIndexed(f)
    BY <1>1, <1>4, IndexMoves DEF StoreRows, CommitText, MarkIndexed
<1>5. CASE EndCall
    BY <1>1, <1>5, IndexMoves DEF EndCall
<1>6. CASE CallFails
    BY <1>1, <1>6, IndexMoves DEF CallFails, stores
<1>7. CASE ClearHealth
    BY <1>7, ClearHealthKeeps
<1>8. CASE DeleteStore
    BY <1>1, <1>8, IndexMoves DEF DeleteStore, HoldsStore
<1> QED
    BY <1>2, <1>3, <1>4, <1>5, <1>6, <1>7, <1>8 DEF Indexing
-----------------------------------------------------------------------------
(* Every reachable state satisfies the invariant: a request in possession  *)
(* of an embedder shares it with the cache, an open store keeps its model, *)
(* and what was counted since the last clear is still true.                *)
THEOREM SearchInvariant == Spec => []RequestInv
<1>1. RequestInv /\ [Next]_vars => RequestInv'
  <2> SUFFICES ASSUME RequestInv, [Next]_vars
               PROVE  RequestInv'
      OBVIOUS
  <2>1. CASE Indexing
      BY <2>1, IndexingKeeps
  <2>2. CASE \E c \in Callers : Request(c)
      BY <2>2, RequestKeeps
  <2>3. CASE HealthExpires
      BY <2>3, HealthExpiresKeeps
  <2>4. CASE UNCHANGED vars
    <3>1. HealthNow' = HealthNow /\ CountNow' = CountNow
        BY <2>4 DEF HealthNow, CountNow, HealthOf, Coverage, Tree, vars,
                    indexing, stores
    <3> QED
        BY <2>4, <3>1 DEF RequestInv, Shape, Shared, Using, Matching, Current,
                          Counted, HealthIsCurrent, vars, indexing, stores,
                          caches
  <2> QED
      BY <2>1, <2>2, <2>3, <2>4 DEF Next
<1> QED
    BY InitRequestInv, <1>1, PTL DEF Spec

(* EmbedderCache::get gives all requests of one configuration the same     *)
(* embedder, however many of them build one at the same time.              *)
THEOREM EmbeddersAreShared == Spec => []OneEmbedder
<1>1. RequestInv => OneEmbedder
    BY DEF RequestInv, Shared, Using, OneEmbedder
<1> QED
    BY SearchInvariant, <1>1, PTL

(* A query vector is only ever compared with rows of its own model, for    *)
(* every number of requests, calls, edits and deletions.                   *)
THEOREM VectorsMeetTheirModel == Spec => []QueryMatchesRows
<1>1. RequestInv => QueryMatchesRows
    BY DEF RequestInv, Matching, QueryMatchesRows
<1> QED
    BY SearchInvariant, <1>1, PTL

(* The IndexHealthCache, which is filled outside its lock, is current      *)
(* after every call that succeeded, for every number of requests.          *)
THEOREM CachedHealthIsCurrent == Spec => []HealthIsCurrent
<1>1. RequestInv => HealthIsCurrent
    BY DEF RequestInv, Current
<1> QED
    BY SearchInvariant, <1>1, PTL

-----------------------------------------------------------------------------
(* What the operators of the search compute: filters, sums of scores and   *)
(* the order by rank.                                                      *)
LEMMA LeastExists ==
    ASSUME NEW S \in SUBSET Nat, S # {}
    PROVE  \E n \in S : \A m \in S : n <= m
<1>1. PICK n \in S : \A m \in S : ~(<<m, n>> \in OpToRel(<, Nat))
  BY NatLessThanWellFounded, WFMin
<1>2. \A m \in S : ~(m < n)
  BY <1>1 DEF OpToRel
<1> QED
  BY <1>2

(* A function defined by recursion over the places of a list exists.       *)
Steps(V, N) == [(1..N) \X V -> V]
Unfolds(f, V, base, N, G) ==
    /\ f \in [0..N -> V]
    /\ f[0] = base /\ \A n \in 1..N : f[n] = G[<<n, f[n - 1]>>]
LEMMA Recursion ==
    ASSUME NEW V, NEW base \in V, NEW N \in Nat, NEW G \in Steps(V, N)
    PROVE  \E f : Unfolds(f, V, base, N, G)
<1> DEFINE Good(m) == \E f : Unfolds(f, V, base, m, G)
           Bad == {m \in 0..N : ~Good(m)}
<1>1. SUFFICES Bad = {}
  <2>1. N \in 0..N
    OBVIOUS
  <2> QED
    BY <2>1
<1>2. SUFFICES ASSUME Bad # {} PROVE FALSE
  OBVIOUS
<1>3. PICK m \in Bad : \A k \in Bad : m <= k
  <2>1. Bad \in SUBSET Nat
    OBVIOUS
  <2> HIDE DEF Bad
  <2> QED
    BY <1>2, <2>1, LeastExists
<1>4. m \in 0..N /\ ~Good(m)
  OBVIOUS
<1>5. Good(0)
  <2> DEFINE f == [n \in 0..0 |-> base]
  <2>1. f \in [0..0 -> V] /\ f[0] = base /\ 1..0 = {}
    OBVIOUS
  <2> QED
    BY <2>1 DEF Unfolds
<1>6. m - 1 \in 0..N /\ m \in 1..N
  <2>1. m # 0
    <3> HIDE DEF Good
    <3> QED BY <1>4, <1>5
  <2> QED BY <1>4, <2>1
<1>7. Good(m - 1)
  <2>1. m - 1 \notin Bad
    BY <1>3, <1>6
  <2> QED BY <1>6, <2>1
<1>8. PICK f \in [0..(m - 1) -> V] :
         f[0] = base /\ \A n \in 1..(m - 1) : f[n] = G[<<n, f[n - 1]>>]
  BY <1>7 DEF Unfolds
<1> DEFINE g == [n \in 0..m |-> IF n < m THEN f[n] ELSE G[<<m, f[m - 1]>>]]
<1>9. G[<<m, f[m - 1]>>] \in V
  <2>1. m - 1 \in 0..(m - 1)
    BY <1>6
  <2> QED
    BY <1>6, <2>1 DEF Steps
<1>10. g \in [0..m -> V]
  <2>1. ASSUME NEW n \in 0..m PROVE g[n] \in V
    <3>1. CASE n < m
      <4>1. n \in 0..(m - 1)
        BY <1>6, <3>1
      <4> QED BY <3>1, <4>1
    <3>2. CASE ~(n < m)
      BY <1>9, <3>2
    <3> QED BY <3>1, <3>2
  <2> QED BY <2>1
<1>11. g[0] = base
  BY <1>6, <1>8
<1>12. ASSUME NEW n \in 1..m PROVE g[n] = G[<<n, g[n - 1]>>]
  <2>1. n - 1 \in 0..m /\ n - 1 < m /\ n \in 0..m
    BY <1>6
  <2>2. g[n - 1] = f[n - 1]
    BY <2>1
  <2>3. CASE n = m
    BY <2>1, <2>2, <2>3
  <2>4. CASE n # m
    <3>1. n \in 1..(m - 1) /\ n < m
      BY <1>6, <2>4
    <3> QED
      BY <1>8, <2>1, <2>2, <3>1
  <2> QED BY <2>3, <2>4
<1> HIDE DEF g
<1>13. Good(m)
  BY <1>10, <1>11, <1>12 DEF Unfolds
<1> QED
  BY <1>4, <1>13
(* A filter keeps the places of its elements in order and loses none of    *)
(* them.                                                                   *)
Picks(p, s, S, m, out) ==
    /\ p \in [1..Len(out) -> 1..m]
    /\ \A x, y \in 1..Len(out) : x < y => p[x] < p[y]
    /\ \A x \in 1..Len(out) : out[x] = s[p[x]] /\ out[x] \in S
    /\ \A k \in 1..m : s[k] \in S => \E x \in 1..Len(out) : p[x] = k

LEMMA PicksNext ==
    ASSUME NEW T, NEW s \in Seq(T), NEW S, NEW m \in 1..Len(s),
           NEW out \in Seq(T), NEW p, Picks(p, s, S, m - 1, out),
           NEW next, next = IF s[m] \in S THEN Append(out, s[m]) ELSE out
    PROVE  next \in Seq(T) /\ \E q : Picks(q, s, S, m, next)
<1>0. s[m] \in T /\ m \in Nat
  BY ElementOfSeq
<1>1. CASE s[m] \notin S
  <2>1. Picks(p, s, S, m, out)
    BY <1>1 DEF Picks
  <2> QED BY <1>1, <2>1
<1>2. CASE s[m] \in S
  <2> DEFINE L == Len(out)
             q == [x \in 1..(L + 1) |-> IF x = L + 1 THEN m ELSE p[x]]
  <2>1. /\ L \in Nat /\ next = Append(out, s[m]) /\ Len(next) = L + 1
        /\ next[L + 1] = s[m] /\ \A x \in 1..L : next[x] = out[x]
        /\ next \in Seq(T)
    BY <1>0, <1>2
  <2>2. \A x \in 1..L : q[x] = p[x] /\ p[x] \in 1..(m - 1)
    BY <2>1 DEF Picks
  <2>3. q[L + 1] = m
    BY <2>1
  <2> HIDE DEF L
  <2>4. q \in [1..(L + 1) -> 1..m]
    <3> HIDE DEF q
    <3>0. q = [x \in 1..(L + 1) |-> q[x]]
      BY DEF q
    <3>1. ASSUME NEW x \in 1..(L + 1) PROVE q[x] \in 1..m
      <4>1. CASE x = L + 1
        BY <2>3, <4>1
      <4>2. CASE x # L + 1
        <5>1. x \in 1..L
          BY <2>1, <4>2
        <5> QED BY <1>0, <2>2, <5>1
      <4> QED BY <4>1, <4>2
    <3> QED BY <3>0, <3>1
  <2> HIDE DEF q
  <2>5. \A x, y \in 1..(L + 1) : x < y => q[x] < q[y]
    <3> SUFFICES ASSUME NEW x \in 1..(L + 1), NEW y \in 1..(L + 1), x < y
                 PROVE  q[x] < q[y]
      OBVIOUS
    <3>1. x \in 1..L
      BY <2>1
    <3>2. CASE y = L + 1
      BY <2>2, <2>3, <3>1, <3>2
    <3>3. CASE y # L + 1
      <4>1. y \in 1..L
        BY <2>1, <3>3
      <4> QED BY <2>2, <3>1, <4>1 DEF Picks, L
    <3> QED BY <3>2, <3>3
  <2>6. \A x \in 1..(L + 1) : next[x] = s[q[x]] /\ next[x] \in S
    <3> SUFFICES ASSUME NEW x \in 1..(L + 1)
                 PROVE  next[x] = s[q[x]] /\ next[x] \in S
      OBVIOUS
    <3>1. CASE x = L + 1
      BY <1>2, <2>1, <2>3, <3>1
    <3>2. CASE x # L + 1
      <4>1. x \in 1..L
        BY <2>1, <3>2
      <4> QED BY <2>1, <2>2, <4>1 DEF Picks, L
    <3> QED BY <3>1, <3>2
  <2>7. \A k \in 1..m : s[k] \in S => \E x \in 1..(L + 1) : q[x] = k
    <3> SUFFICES ASSUME NEW k \in 1..m, s[k] \in S
                 PROVE  \E x \in 1..(L + 1) : q[x] = k
      OBVIOUS
    <3>1. CASE k = m
      <4>1. L + 1 \in 1..(L + 1)
        BY <2>1
      <4> QED BY <2>3, <3>1, <4>1
    <3>2. CASE k # m
      <4>1. k \in 1..(m - 1)
        BY <3>2
      <4>2. PICK x \in 1..L : p[x] = k
        BY <4>1 DEF Picks, L
      <4>3. x \in 1..(L + 1) /\ q[x] = k
        BY <2>1, <2>2, <4>2
      <4> QED BY <4>3
    <3> QED BY <3>1, <3>2
  <2>8. Picks(q, s, S, m, next)
    BY <2>1, <2>4, <2>5, <2>6, <2>7 DEF Picks
  <2> QED BY <2>1, <2>8
<1> QED BY <1>1, <1>2

LEMMA AmongPicks ==
    ASSUME NEW T, NEW s \in Seq(T), NEW S
    PROVE  Among(s, S) \in Seq(T) /\ \E p : Picks(p, s, S, Len(s), Among(s, S))
<1> DEFINE N == Len(s)
           kept[n \in 0..N] ==
               IF n = 0 THEN <<>>
               ELSE IF s[n] \in S THEN Append(kept[n - 1], s[n]) ELSE kept[n - 1]
           G == [a \in (1..N) \X Seq(T) |->
                    IF s[a[1]] \in S THEN Append(a[2], s[a[1]]) ELSE a[2]]
<1>1. Among(s, S) = kept[N] /\ N \in Nat
  BY DEF Among
<1>2. \A n \in 1..N : s[n] \in T
  BY ElementOfSeq
<1>3. G \in [(1..N) \X Seq(T) -> Seq(T)]
  BY <1>2
<1>4. \A n \in 1..N, v \in Seq(T) :
         G[<<n, v>>] = IF s[n] \in S THEN Append(v, s[n]) ELSE v
  OBVIOUS
<1>5. PICK f \in [0..N -> Seq(T)] :
         f[0] = <<>> /\ \A n \in 1..N : f[n] = G[<<n, f[n - 1]>>]
  <2>1. <<>> \in Seq(T)
    OBVIOUS
  <2>2. N \in Nat /\ G \in Steps(Seq(T), N)
    BY <1>3 DEF Steps
  <2> HIDE DEF G, N, kept
  <2>3. \E f : Unfolds(f, Seq(T), <<>>, N, G)
    BY <2>1, <2>2, Recursion
  <2> QED BY <2>3 DEF Unfolds
<1> HIDE DEF G
<1>6. \A n \in 1..N : f[n] = IF s[n] \in S THEN Append(f[n - 1], s[n])
                           ELSE f[n - 1]
  <2> SUFFICES ASSUME NEW n \in 1..N
               PROVE  f[n] = IF s[n] \in S THEN Append(f[n - 1], s[n]) ELSE f[n - 1]
    OBVIOUS
  <2>1. n - 1 \in 0..N
    BY <1>1
  <2> QED BY <1>4, <1>5, <2>1
<1> DEFINE Body(g) == [n \in 0..N |->
               IF n = 0 THEN <<>>
               ELSE IF s[n] \in S THEN Append(g[n - 1], s[n]) ELSE g[n - 1]]
<1>7. f = Body(f)
  <2>1. ASSUME NEW n \in 0..N PROVE f[n] = Body(f)[n]
    <3>1. CASE n = 0
      BY <1>5, <3>1
    <3>2. CASE n # 0
      <4>1. n \in 1..N
        BY <1>1, <3>2
      <4> QED BY <1>6, <3>2, <4>1
    <3> QED BY <3>1, <3>2
  <2> QED BY <1>5, <2>1
<1>8. kept = Body(kept)
  <2>1. kept = CHOOSE g : g = Body(g)
    BY DEF kept
  <2> HIDE DEF kept, Body
  <2> QED BY <1>7, <2>1
<1> HIDE DEF kept
<1>9. kept[0] = <<>> /\ \A n \in 1..N :
         kept[n] = IF s[n] \in S THEN Append(kept[n - 1], s[n]) ELSE kept[n - 1]
  <2>1. ASSUME NEW n \in 0..N PROVE kept[n] = Body(kept)[n]
    BY <1>8
  <2>2. 0 \in 0..N /\ \A n \in 1..N : n \in 0..N /\ n # 0
    BY <1>1
  <2> HIDE DEF N
  <2> QED BY <2>1, <2>2
<1> DEFINE Good(m) == kept[m] \in Seq(T) /\ \E p : Picks(p, s, S, m, kept[m])
           Bad == {m \in 0..N : ~Good(m)}
<1>10. Good(0)
  <2> DEFINE p == [x \in 1..0 |-> 0]
  <2>1. Len(kept[0]) = 0 /\ 1..0 = {} /\ kept[0] \in Seq(T)
    BY <1>9
  <2>2. Picks(p, s, S, 0, kept[0])
    BY <2>1 DEF Picks
  <2> QED BY <2>1, <2>2
<1>11. ASSUME NEW m \in 1..N, Good(m - 1) PROVE Good(m)
  <2>1. PICK p : Picks(p, s, S, m - 1, kept[m - 1])
    BY <1>11
  <2>2. kept[m] = IF s[m] \in S THEN Append(kept[m - 1], s[m]) ELSE kept[m - 1]
    BY <1>9
  <2> QED BY <1>11, <2>1, <2>2, PicksNext
<1> HIDE DEF Good
<1>12. Bad = {}
  <2> SUFFICES ASSUME Bad # {} PROVE FALSE
    OBVIOUS
  <2>1. Bad \in SUBSET Nat
    OBVIOUS
  <2>2. PICK m \in Bad : \A k \in Bad : m <= k
    <3> HIDE DEF Bad
    <3> QED BY <2>1, LeastExists
  <2>3. m # 0
    BY <1>10
  <2>4. m \in 1..N /\ m - 1 \in 0..N /\ m - 1 \notin Bad
    BY <1>1, <2>2, <2>3
  <2> QED BY <1>11, <2>2, <2>4
<1>13. Good(N)
  BY <1>1, <1>12
<1> QED BY <1>1, <1>13 DEF Good

(* Numbers of predecessors: in a strict total order of n elements they are *)
(* 0 to n - 1, each of one element.                                        *)
Preceding(S, R, i) == {j \in S : <<j, i>> \in R}
TotalOrder(S, R) ==
    /\ \A i \in S : <<i, i>> \notin R
    /\ \A i, j, k \in S : <<i, j>> \in R /\ <<j, k>> \in R => <<i, k>> \in R
    /\ \A i, j \in S : i # j => <<i, j>> \in R \/ <<j, i>> \in R

LEMMA Ranks ==
    ASSUME NEW S, IsFiniteSet(S), NEW R, TotalOrder(S, R)
    PROVE  /\ Cardinality(S) \in Nat
           /\ \A i \in S :
                 Cardinality(Preceding(S, R, i)) \in 0..(Cardinality(S) - 1)
           /\ \A i, j \in S : <<i, j>> \in R =>
                 Cardinality(Preceding(S, R, i)) < Cardinality(Preceding(S, R, j))
           /\ \A n \in 1..Cardinality(S) :
                 \E i \in S : Cardinality(Preceding(S, R, i)) = n - 1
<1> DEFINE P(i) == Preceding(S, R, i)
           c == Cardinality(S)
<1>1. c \in Nat
  BY FS_CardinalityType
<1>2. \A i \in S : IsFiniteSet(P(i)) /\ Cardinality(P(i)) \in Nat
  <2> SUFFICES ASSUME NEW i \in S
               PROVE  IsFiniteSet(P(i)) /\ Cardinality(P(i)) \in Nat
    OBVIOUS
  <2>1. P(i) \in SUBSET S
    BY DEF Preceding
  <2> HIDE DEF P
  <2>2. IsFiniteSet(P(i))
    BY <2>1, FS_Subset
  <2> QED BY <2>2, FS_CardinalityType
<1>3. ASSUME NEW i \in S, NEW j \in S, <<i, j>> \in R
      PROVE  Cardinality(P(i)) < Cardinality(P(j))
  <2>1. i \notin P(i) /\ P(i) \cup {i} \in SUBSET P(j)
    BY <1>3 DEF Preceding, TotalOrder
  <2> HIDE DEF P
  <2>2. Cardinality(P(i) \cup {i}) = Cardinality(P(i)) + 1
    BY <1>2, <2>1, FS_AddElement
  <2>3. Cardinality(P(i) \cup {i}) <= Cardinality(P(j))
    BY <1>2, <2>1, FS_Subset
  <2> QED BY <1>2, <2>2, <2>3
<1>4. ASSUME NEW i \in S PROVE Cardinality(P(i)) \in 0..(c - 1)
  <2>1. i \notin P(i) /\ P(i) \cup {i} \in SUBSET S
    BY DEF Preceding, TotalOrder
  <2> HIDE DEF P
  <2>2. Cardinality(P(i) \cup {i}) = Cardinality(P(i)) + 1
    BY <1>2, <2>1, FS_AddElement
  <2>3. Cardinality(P(i) \cup {i}) <= c
    BY <2>1, FS_Subset
  <2> QED BY <1>1, <1>2, <2>2, <2>3
<1> DEFINE f == [i \in S |-> Cardinality(P(i))]
<1>5. f \in Injection(S, 0..(c - 1))
  <2>1. f \in [S -> 0..(c - 1)]
    BY <1>4
  <2>2. ASSUME NEW i \in S, NEW j \in S, i # j PROVE f[i] # f[j]
    <3>1. Cardinality(P(i)) < Cardinality(P(j)) \/ Cardinality(P(j)) < Cardinality(P(i))
      BY <1>3, <2>2 DEF TotalOrder
    <3>2. Cardinality(P(i)) \in Nat /\ Cardinality(P(j)) \in Nat
      BY <1>2
    <3> HIDE DEF P
    <3> QED BY <3>1, <3>2
  <2> HIDE DEF f
  <2> QED BY <2>1, <2>2 DEF Injection, IsInjective
<1>6. IsFiniteSet(0..(c - 1)) /\ Cardinality(0..(c - 1)) = c
  BY <1>1, FS_Interval
<1>7. f \in Surjection(S, 0..(c - 1))
  <2> HIDE DEF f
  <2> QED BY <1>5, <1>6, FS_Injection
<1>8. ASSUME NEW n \in 1..c PROVE \E i \in S : Cardinality(P(i)) = n - 1
  <2>1. n - 1 \in 0..(c - 1)
    BY <1>1
  <2>2. \E i \in S : f[i] = n - 1
    <3> HIDE DEF f
    <3> QED BY <1>7, <2>1 DEF Surjection
  <2> QED BY <2>2
<1> QED
  BY <1>1, <1>3, <1>4, <1>8

(* The score of an id adds up over the places of a list.                   *)
Share(weight, n) == weight * (Denominator \div (RrfK + n))
SumsUp(f, s, i, weight) ==
    /\ f \in [0..Len(s) -> Nat] /\ f[0] = 0
    /\ \A n \in 1..Len(s) :
          f[n] = f[n - 1] + IF s[n] = i THEN Share(weight, n) ELSE 0
    /\ Gathered(s, i, weight) = f[Len(s)]

LEMMA ShareIsNat ==
    ASSUME NEW weight \in Nat, NEW n \in Nat, n > 0
    PROVE  Share(weight, n) \in Nat
<1>1. Denominator \in Nat /\ RrfK \in Nat
  BY SearchAssumption, ExactAssumption
<1>2. RrfK + n \in Nat /\ RrfK + n > 0
  BY <1>1
<1> DEFINE d == RrfK + n
           q == Denominator \div d
<1> HIDE DEF d
<1>3. q \in Nat
  BY <1>1, <1>2 DEF d
<1> HIDE DEF q
<1>4. weight * q \in Nat
  BY <1>3
<1> QED BY <1>4 DEF Share, q, d

LEMMA GatheredSums ==
    ASSUME NEW T, NEW s \in Seq(T), NEW i, NEW weight \in Nat
    PROVE  \E f : SumsUp(f, s, i, weight)
<1> DEFINE N == Len(s)
           v(n) == IF s[n] = i THEN Share(weight, n) ELSE 0
           sum[n \in 0..N] ==
               IF n = 0 THEN 0
               ELSE sum[n - 1] + IF s[n] = i
                                 THEN weight * (Denominator \div (RrfK + n))
                                 ELSE 0
           G == [a \in (1..N) \X Nat |-> a[2] + v(a[1])]
<1>1. Gathered(s, i, weight) = sum[N] /\ N \in Nat
  BY DEF Gathered
<1>2. ASSUME NEW n \in 1..N PROVE v(n) \in Nat
  <2>1. n \in Nat /\ n > 0
    BY <1>1
  <2>2. Share(weight, n) \in Nat
    BY <2>1, ShareIsNat
  <2> QED BY <2>2
<1> HIDE DEF v
<1>3. G \in Steps(Nat, N)
  BY <1>2 DEF Steps
<1>4. \A n \in 1..N, m \in Nat : G[<<n, m>>] = m + v(n)
  OBVIOUS
<1>5. PICK f : Unfolds(f, Nat, 0, N, G)
  <2>1. 0 \in Nat /\ N \in Nat
    OBVIOUS
  <2> HIDE DEF G, N, sum
  <2> QED BY <1>3, <2>1, Recursion
<1> HIDE DEF G
<1>6. \A n \in 1..N : f[n] = f[n - 1] + v(n)
  <2> SUFFICES ASSUME NEW n \in 1..N PROVE f[n] = f[n - 1] + v(n)
    OBVIOUS
  <2>1. n - 1 \in 0..N
    BY <1>1
  <2>2. f[n - 1] \in Nat
    BY <1>5, <2>1 DEF Unfolds
  <2>3. f[n] = G[<<n, f[n - 1]>>]
    BY <1>5 DEF Unfolds
  <2> QED BY <1>4, <2>2, <2>3
<1> DEFINE Body(g) == [n \in 0..N |->
               IF n = 0 THEN 0
               ELSE g[n - 1] + IF s[n] = i
                               THEN weight * (Denominator \div (RrfK + n))
                               ELSE 0]
<1>7. f = Body(f)
  <2>1. ASSUME NEW n \in 0..N PROVE f[n] = Body(f)[n]
    <3>1. CASE n = 0
      BY <1>5, <3>1 DEF Unfolds
    <3>2. CASE n # 0
      <4>1. n \in 1..N
        BY <1>1, <3>2
      <4> QED BY <1>6, <3>2, <4>1 DEF v, Share
    <3> QED BY <3>1, <3>2
  <2> QED BY <1>5, <2>1 DEF Unfolds
<1>8. sum = Body(sum)
  <2>1. sum = CHOOSE g : g = Body(g)
    BY DEF sum
  <2> HIDE DEF sum, Body
  <2> QED BY <1>7, <2>1
<1> HIDE DEF sum
<1> DEFINE Bad == {m \in 0..N : sum[m] # f[m]}
<1>9. Bad = {}
  <2> SUFFICES ASSUME Bad # {} PROVE FALSE
    OBVIOUS
  <2>1. Bad \in SUBSET Nat
    OBVIOUS
  <2>2. PICK m \in Bad : \A k \in Bad : m <= k
    <3> HIDE DEF Bad
    <3> QED BY <2>1, LeastExists
  <2>3. m # 0
    <3>1. sum[0] = 0 /\ f[0] = 0
      BY <1>1, <1>5, <1>8 DEF Unfolds
    <3> QED BY <3>1
  <2>4. m \in 0..N /\ m \in 1..N /\ m - 1 \in 0..N /\ sum[m - 1] = f[m - 1]
    BY <1>1, <2>2, <2>3
  <2>5. sum[m] = Body(sum)[m] /\ f[m] = Body(f)[m]
    BY <1>7, <1>8
  <2>6. Body(sum)[m] = Body(f)[m]
    BY <2>4
  <2> QED BY <2>2, <2>5, <2>6
<1>10. N \in 0..N
  BY <1>1
<1>11. sum[N] = f[N]
  BY <1>9, <1>10
<1>12. SumsUp(f, s, i, weight)
  BY <1>1, <1>5, <1>6, <1>11 DEF SumsUp, Unfolds, v
<1> QED
  BY <1>12

(* A later place counts less.                                              *)
LEMMA Products ==
    ASSUME NEW a \in Nat, NEW b \in Nat, NEW c \in Nat
    PROVE  /\ a * b \in Nat /\ a * b = b * a
           /\ (a + 1) * b = a * b + b
           /\ a <= c => a * b <= c * b
           /\ a < c /\ b > 0 => a * b < c * b
           /\ a > 0 /\ b > 0 => a * b > 0
<1>1. a * b \in Nat /\ a * b = b * a /\ (a + 1) * b = a * b + b
  OBVIOUS
<1>2. ASSUME a <= c PROVE a * b <= c * b
  <2>1. c - a \in Nat /\ (c - a) * b >= 0 /\ c * b = a * b + (c - a) * b
    BY <1>2
  <2> QED BY <2>1
<1>3. ASSUME a > 0, b > 0 PROVE a * b > 0
  BY <1>3
<1>4. ASSUME a < c, b > 0 PROVE a * b < c * b
  <2>1. c - a \in Nat /\ (c - a) * b > 0 /\ c * b = a * b + (c - a) * b
    BY <1>4
  <2> QED BY <2>1
<1> QED
  BY <1>1, <1>2, <1>3, <1>4

LEMMA ExactQuotient ==
    ASSUME NEW a \in Nat, NEW d \in Nat, d > 0, a % d = 0
    PROVE  a \div d \in Nat /\ a = d * (a \div d)
OBVIOUS

Exact(N) == \A n \in 1..N : Denominator % (RrfK + n) = 0

LEMMA SharesFall ==
    ASSUME NEW weight \in Nat, weight > 0, NEW N \in Nat, Exact(N)
    PROVE  \A n \in 1..N : /\ Share(weight, n) \in Nat /\ Share(weight, n) > 0
                           /\ n < N => Share(weight, n + 1) < Share(weight, n)
<1>1. Denominator \in Nat /\ Denominator > 0 /\ RrfK \in Nat
  BY SearchAssumption, ExactAssumption
<1> DEFINE q(n) == Denominator \div (RrfK + n)
<1>2. ASSUME NEW n \in 1..N
      PROVE  q(n) \in Nat /\ Denominator = (RrfK + n) * q(n) /\ q(n) > 0
  <2> DEFINE d == RrfK + n
             e == Denominator \div d
  <2>1. d \in Nat /\ d > 0
    BY <1>1
  <2>2. Denominator % d = 0
    BY DEF Exact
  <2> HIDE DEF d
  <2>3. e \in Nat /\ Denominator = d * e
    BY <1>1, <2>1, <2>2, ExactQuotient
  <2> HIDE DEF e
  <2>4. e > 0
    <3>1. CASE e = 0
      BY <1>1, <2>1, <2>3, <3>1
    <3> QED BY <2>3, <3>1
  <2> QED BY <2>3, <2>4 DEF d, e
<1> HIDE DEF q
<1>3. ASSUME NEW n \in 1..N, n < N
      PROVE  q(n + 1) < q(n)
  <2>1. n + 1 \in 1..N
    BY <1>3
  <2> DEFINE d == RrfK + n
             a == q(n)
             b == q(n + 1)
  <2>2. /\ d \in Nat /\ d > 0 /\ a \in Nat /\ b \in Nat /\ b > 0
        /\ d * a = (d + 1) * b
    <3>1. RrfK + (n + 1) = d + 1 /\ d \in Nat /\ d > 0
      BY <1>1
    <3> QED BY <1>2, <2>1, <3>1
  <2> HIDE DEF d, a, b
  <2>3. SUFFICES ASSUME ~(b < a) PROVE FALSE
    BY DEF a, b
  <2>4. a * d <= b * d /\ a * d = d * a /\ b * d = d * b /\ (d + 1) * b = d * b + b
    BY <2>2, <2>3, Products
  <2> QED BY <2>2, <2>4, Products
<1>4. ASSUME NEW n \in 1..N
      PROVE  Share(weight, n) \in Nat /\ Share(weight, n) > 0
  <2>1. Share(weight, n) = weight * q(n)
    BY DEF Share, q
  <2> QED BY <1>2, <2>1, Products
<1>5. ASSUME NEW n \in 1..N, n < N
      PROVE  Share(weight, n + 1) < Share(weight, n)
  <2>1. n + 1 \in 1..N
    BY <1>5
  <2>2. /\ Share(weight, n) = weight * q(n)
        /\ Share(weight, n + 1) = weight * q(n + 1)
    BY DEF Share, q
  <2>3. q(n) \in Nat /\ q(n + 1) \in Nat /\ q(n + 1) < q(n)
    BY <1>2, <1>3, <1>5, <2>1
  <2>4. q(n + 1) * weight < q(n) * weight
    BY <2>3, Products
  <2>5. q(n + 1) * weight = weight * q(n + 1) /\ q(n) * weight = weight * q(n)
    BY <2>3, Products
  <2> QED BY <2>2, <2>4, <2>5
<1> QED
  BY <1>4, <1>5

(* How often an id is in the head of a list.                               *)
Times(s, i, n) == Cardinality({k \in 1..n : s[k] = i})

LEMMA TimesNext ==
    ASSUME NEW s, NEW i
    PROVE  /\ Times(s, i, 0) = 0
           /\ \A n \in Nat : Times(s, i, n) \in Nat
           /\ \A n \in Nat : n > 0 =>
                 Times(s, i, n) = Times(s, i, n - 1) + IF s[n] = i THEN 1 ELSE 0
<1> DEFINE P(n) == {k \in 1..n : s[k] = i}
<1>1. Times(s, i, 0) = 0
  <2>1. P(0) = {}
    OBVIOUS
  <2> QED BY <2>1, FS_EmptySet DEF Times
<1>2. ASSUME NEW n \in Nat PROVE IsFiniteSet(P(n)) /\ Cardinality(P(n)) \in Nat
  <2>1. IsFiniteSet(1..n) /\ P(n) \in SUBSET (1..n)
    BY FS_Interval
  <2> HIDE DEF P
  <2>2. IsFiniteSet(P(n))
    BY <2>1, FS_Subset
  <2> QED BY <2>2, FS_CardinalityType
<1>3. ASSUME NEW n \in Nat, n > 0
      PROVE  Cardinality(P(n)) = Cardinality(P(n - 1)) + IF s[n] = i THEN 1 ELSE 0
  <2>1. n - 1 \in Nat
    BY <1>3
  <2>2. CASE s[n] = i
    <3>1. P(n) = P(n - 1) \cup {n} /\ n \notin P(n - 1)
      BY <1>3, <2>2
    <3>2. IsFiniteSet(P(n - 1))
      BY <1>2, <2>1
    <3> HIDE DEF P
    <3> QED BY <2>2, <3>1, <3>2, FS_AddElement
  <2>3. CASE s[n] # i
    <3>1. P(n) = P(n - 1)
      BY <1>3, <2>3
    <3>2. Cardinality(P(n - 1)) \in Nat
      BY <1>2, <2>1
    <3> HIDE DEF P
    <3> QED BY <2>3, <3>1, <3>2
  <2> QED BY <2>2, <2>3
<1> QED
  BY <1>1, <1>2, <1>3 DEF Times

LEMMA TimesStep ==
    ASSUME NEW s, NEW i, NEW n \in Nat, n > 0
    PROVE  Times(s, i, n) = Times(s, i, n - 1) + IF s[n] = i THEN 1 ELSE 0
BY TimesNext

(* An id that is ahead of another one in a list gathers at least as much   *)
(* in it, and more when the other one is not ahead of it as well: the      *)
(* difference is at least what the surplus of places is worth at the next. *)
LEMMA OneMore ==
    ASSUME NEW a \in Nat, NEW b \in Nat, NEW u \in Nat, NEW v \in Nat,
           NEW D \in Int, NEW E \in Int, v < u, D >= a * u, a > 0 => D > a * u,
           \/ b = a + 1 /\ E = D + u
           \/ a = b + 1 /\ E = D - u
           \/ a = b /\ E = D
    PROVE  /\ E >= b * v
           /\ D > a * u \/ b > 0 => E > b * v
<1> DEFINE x == a * u
           y == b * u
           z == b * v
<1>1. /\ x \in Nat /\ y \in Nat /\ z \in Nat /\ z <= y
      /\ b > 0 => z < y
      /\ b = a + 1 => y = x + u
      /\ a = b + 1 => x = y + u
      /\ a = b => x = y
  <2>1. v * b <= u * b /\ (b > 0 => v * b < u * b) /\ u * b = b * u /\ v * b = b * v
    BY Products
  <2> QED BY <2>1, Products
<1>2. D >= x /\ (a > 0 => D > x)
  OBVIOUS
<1> HIDE DEF x, y, z
<1>3. E >= z /\ (D > x \/ b > 0 => E > z)
  BY <1>1, <1>2
<1> QED
  BY <1>3 DEF x, z

LEMMA AheadGathers ==
    ASSUME NEW T, NEW s \in Seq(T), Exact(Len(s)), NEW weight \in Nat, weight > 0,
           NEW i, NEW j, i # j, Ahead(s, i, j)
    PROVE  /\ Gathered(s, i, weight) \in Nat /\ Gathered(s, j, weight) \in Nat
           /\ Gathered(s, i, weight) >= Gathered(s, j, weight)
           /\ ~Ahead(s, j, i) => Gathered(s, i, weight) > Gathered(s, j, weight)
<1> DEFINE N == Len(s)
<1>1. PICK A : SumsUp(A, s, i, weight)
  BY GatheredSums
<1>2. PICK B : SumsUp(B, s, j, weight)
  BY GatheredSums
<1> DEFINE D(n) == A[n] - B[n]
           d(n) == Times(s, i, n) - Times(s, j, n)
           u(n) == Share(weight, n)
           next(n) == IF n < N THEN u(n + 1) ELSE 0
           C(n) == /\ D(n) >= d(n) * next(n)
                   /\ (\E k \in 1..n : d(k) > 0) => D(n) > d(n) * next(n)
           Bad == {n \in 0..N : ~C(n)}
<1>3. N \in Nat
  OBVIOUS
<1>4. \A n \in 0..N : A[n] \in Nat /\ B[n] \in Nat /\ D(n) \in Int
  BY <1>1, <1>2 DEF SumsUp
<1>5. \A n \in 0..N : d(n) \in Nat
  <2> SUFFICES ASSUME NEW n \in 0..N PROVE d(n) \in Nat
    OBVIOUS
  <2>0. n \in Nat
    BY <1>3
  <2>1. Times(s, i, n) \in Nat /\ Times(s, j, n) \in Nat
    BY <2>0, TimesNext
  <2>2. CASE n = 0
    BY <2>2, TimesNext
  <2>3. CASE n # 0
    <3>1. n \in 1..N
      BY <1>3, <2>3
    <3>2. Times(s, j, n) <= Times(s, i, n)
      BY <3>1 DEF Ahead, Times
    <3> QED BY <2>1, <3>2
  <2> QED BY <2>2, <2>3
<1>6. D(0) = 0 /\ d(0) = 0
  <2>1. A[0] = 0 /\ B[0] = 0
    BY <1>1, <1>2 DEF SumsUp
  <2>2. Times(s, i, 0) = 0 /\ Times(s, j, 0) = 0
    BY TimesNext
  <2> QED BY <2>1, <2>2
<1>7. \A n \in 0..N : next(n) \in Nat /\ \A m \in 1..N : n = m => next(n) < u(m)
  <2>1. \A n \in 1..N : u(n) \in Nat /\ u(n) > 0 /\ (n < N => u(n + 1) < u(n))
    BY <1>3, SharesFall
  <2> HIDE DEF u
  <2> SUFFICES ASSUME NEW n \in 0..N
               PROVE  next(n) \in Nat /\ \A m \in 1..N : n = m => next(n) < u(m)
    OBVIOUS
  <2>2. CASE n < N
    <3>1. n + 1 \in 1..N
      BY <1>3, <2>2
    <3> QED BY <2>1, <2>2, <3>1
  <2>3. CASE ~(n < N)
    BY <2>1, <2>3
  <2> QED BY <2>2, <2>3
<1>8. ASSUME NEW n \in 1..N, C(n - 1) PROVE C(n)
  <2> DEFINE a == d(n - 1)
             b == d(n)
             w == u(n)
             v == next(n)
             E == D(n - 1)
             F == D(n)
  <2>1. n - 1 \in 0..N /\ n \in 0..N /\ next(n - 1) = w
    BY <1>3
  <2>2. a \in Nat /\ b \in Nat /\ v \in Nat /\ E \in Int /\ F \in Int /\ v < w
    BY <1>4, <1>5, <1>7, <2>1
  <2>3. w \in Nat
    BY <1>3, SharesFall
  <2>4. E >= a * w /\ ((\E k \in 1..(n - 1) : d(k) > 0) => E > a * w)
    BY <1>8, <2>1
  <2>5. a > 0 => \E k \in 1..(n - 1) : d(k) > 0
    <3> SUFFICES ASSUME a > 0 PROVE \E k \in 1..(n - 1) : d(k) > 0
      OBVIOUS
    <3>1. n - 1 # 0
      BY <1>6
    <3>2. n - 1 \in 1..(n - 1)
      BY <1>3, <3>1
    <3> QED BY <3>2
  <2>6. \/ b = a + 1 /\ F = E + w
        \/ a = b + 1 /\ F = E - w
        \/ a = b /\ F = E
    <3>1. /\ n \in Nat /\ n > 0 /\ n - 1 \in Nat
          /\ Times(s, i, n - 1) \in Nat /\ Times(s, j, n - 1) \in Nat
      <4>1. n \in Nat /\ n > 0 /\ n - 1 \in Nat
        BY <1>3
      <4> QED BY <4>1, TimesNext
    <3>2. /\ Times(s, i, n) = Times(s, i, n - 1) + IF s[n] = i THEN 1 ELSE 0
          /\ Times(s, j, n) = Times(s, j, n - 1) + IF s[n] = j THEN 1 ELSE 0
      <4>1. n \in Nat /\ n > 0
        BY <3>1
      <4>2. Times(s, i, n) = Times(s, i, n - 1) + IF s[n] = i THEN 1 ELSE 0
        BY <4>1, TimesStep
      <4>3. Times(s, j, n) = Times(s, j, n - 1) + IF s[n] = j THEN 1 ELSE 0
        BY <4>1, TimesStep
      <4> QED BY <4>2, <4>3
    <3>3. /\ A[n] = A[n - 1] + IF s[n] = i THEN w ELSE 0
          /\ B[n] = B[n - 1] + IF s[n] = j THEN w ELSE 0
      BY <1>1, <1>2 DEF SumsUp
    <3>4. A[n - 1] \in Nat /\ B[n - 1] \in Nat
      BY <1>4, <2>1
    <3> HIDE DEF u
    <3>5. CASE s[n] = i
      BY SMTT(60), <2>3, <3>1, <3>2, <3>3, <3>4, <3>5
    <3>6. CASE s[n] = j
      <4>1. s[n] # i
        BY <3>6
      <4>2. A[n] = A[n - 1] /\ B[n] = B[n - 1] + w
        BY <2>3, <3>3, <3>4, <3>6, <4>1
      <4>3. /\ Times(s, i, n) = Times(s, i, n - 1)
            /\ Times(s, j, n) = Times(s, j, n - 1) + 1
        BY <3>1, <3>2, <3>6, <4>1
      <4> QED BY SMTT(60), <2>3, <3>1, <3>4, <4>2, <4>3
    <3>7. CASE s[n] # i /\ s[n] # j
      BY <2>3, <3>1, <3>2, <3>3, <3>4, <3>7
    <3> QED BY <3>5, <3>6, <3>7
  <2>7. (\E k \in 1..n : d(k) > 0) => (\E k \in 1..(n - 1) : d(k) > 0) \/ b > 0
    <3> HIDE DEF d
    <3> QED BY <1>3
  <2> HIDE DEF a, b, w, v, E, F
  <2>8. F >= b * v /\ (E > a * w \/ b > 0 => F > b * v)
    BY <2>2, <2>3, <2>4, <2>5, <2>6, OneMore
  <2>9. (\E k \in 1..n : d(k) > 0) => F > b * v
    BY <2>4, <2>7, <2>8
  <2> QED BY <2>8, <2>9 DEF b, v, F
<1>9. C(0)
  <2>1. next(0) \in Nat
    BY <1>3, <1>7
  <2> HIDE DEF next, D, d
  <2> QED BY <1>6, <2>1
<1> HIDE DEF C
<1>10. Bad = {}
  <2> SUFFICES ASSUME Bad # {} PROVE FALSE
    OBVIOUS
  <2>1. Bad \in SUBSET Nat
    OBVIOUS
  <2>2. PICK m \in Bad : \A k \in Bad : m <= k
    <3> HIDE DEF Bad
    <3> QED BY <2>1, LeastExists
  <2>3. m # 0
    BY <1>9
  <2>4. m \in 1..N /\ m - 1 \in 0..N /\ m - 1 \notin Bad
    BY <1>3, <2>2, <2>3
  <2> QED BY <1>8, <2>2, <2>4
<1>11. C(N) /\ N \in 0..N
  BY <1>3, <1>10
<1>12. D(N) >= 0 /\ ((\E k \in 1..N : d(k) > 0) => D(N) > 0)
  <2>1. next(N) = 0 /\ d(N) \in Nat
    BY <1>3, <1>5, <1>11
  <2>2. d(N) * next(N) = 0
    <3> HIDE DEF next, d
    <3> QED BY <2>1
  <2>3. /\ D(N) >= d(N) * next(N)
        /\ (\E k \in 1..N : d(k) > 0) => D(N) > d(N) * next(N)
    BY <1>11 DEF C
  <2> HIDE DEF next, d, D
  <2> QED BY <2>2, <2>3
<1>13. ~Ahead(s, j, i) => \E k \in 1..N : d(k) > 0
  <2> SUFFICES ASSUME ~Ahead(s, j, i) PROVE \E k \in 1..N : d(k) > 0
    OBVIOUS
  <2>1. PICK k \in 1..N : ~(Times(s, i, k) <= Times(s, j, k))
    BY DEF Ahead, Times
  <2>2. k \in Nat
    BY <1>3
  <2>3. Times(s, i, k) \in Nat /\ Times(s, j, k) \in Nat
    BY <2>2, TimesNext
  <2> QED BY <2>1, <2>3
<1>14. /\ Gathered(s, i, weight) = A[N] /\ Gathered(s, j, weight) = B[N]
       /\ A[N] \in Nat /\ B[N] \in Nat
  BY <1>1, <1>2, <1>4, <1>11 DEF SumsUp
<1> HIDE DEF d
<1> QED
  BY <1>12, <1>13, <1>14

LEMMA InSeqFinite ==
    ASSUME NEW T, NEW s \in Seq(T)
    PROVE  InSeq(s) \subseteq T /\ IsFiniteSet(InSeq(s))
<1> DEFINE f == [k \in 1..Len(s) |-> s[k]]
<1>1. Len(s) \in Nat
  OBVIOUS
<1>2. InSeq(s) \subseteq T
  BY ElementOfSeq DEF InSeq
<1>3. f \in Surjection(1..Len(s), InSeq(s))
  BY DEF InSeq, Surjection
<1>4. IsFiniteSet(1..Len(s))
  BY <1>1, FS_Interval
<1> HIDE DEF f
<1>5. IsFiniteSet(InSeq(s))
  BY <1>3, <1>4, FS_Surjection
<1> QED
  BY <1>2, <1>5

-----------------------------------------------------------------------------
(* The fused list: every hit once, the better score first.                 *)
LEMMA WeightsPositive ==
    ASSUME NEW a
    PROVE  /\ Weights(a).semantic \in Nat /\ Weights(a).semantic > 0
           /\ Weights(a).keyword \in Nat /\ Weights(a).keyword > 0
BY DEF Weights

LEMMA GatheredIsNat ==
    ASSUME NEW T, NEW s \in Seq(T), NEW i, NEW weight \in Nat
    PROVE  Gathered(s, i, weight) \in Nat
<1>1. PICK f : SumsUp(f, s, i, weight)
  BY GatheredSums
<1>2. Len(s) \in 0..Len(s)
  OBVIOUS
<1> QED
  BY <1>1, <1>2 DEF SumsUp

LEMMA ScoreIsNat ==
    ASSUME NEW sem \in Seq(Ids), NEW kw \in Seq(Ids), NEW a, NEW i
    PROVE  Score(sem, kw, a, i) \in Nat
<1>1. /\ Gathered(sem, i, Weights(a).semantic) \in Nat
      /\ Gathered(kw, i, Weights(a).keyword) \in Nat
  BY WeightsPositive, GatheredIsNat
<1> QED
  BY <1>1 DEF Score

ByScore(list, ids, sem, kw, a) ==
    /\ Cardinality(ids) \in Nat /\ list \in [1..Cardinality(ids) -> ids]
    /\ \A i \in ids : \E x \in 1..Cardinality(ids) : list[x] = i
    /\ \A x, y \in 1..Cardinality(ids) :
          x < y => Better(sem, kw, a, list[x], list[y])

LEMMA FusedByScore ==
    ASSUME NEW sem \in Seq(Ids), NEW kw \in Seq(Ids), NEW a
    PROVE  ByScore(Fused(sem, kw, a), InSeq(sem) \cup InSeq(kw), sem, kw, a)
<1> DEFINE ids == InSeq(sem) \cup InSeq(kw)
           R == {p \in ids \X ids : Better(sem, kw, a, p[1], p[2])}
           P(i) == Preceding(ids, R, i)
           F == Fused(sem, kw, a)
           c == Cardinality(ids)
<1>1. ids \subseteq Ids /\ IsFiniteSet(ids)
  BY InSeqFinite, FS_Union
<1>2. \A i, j \in ids : <<i, j>> \in R <=> Better(sem, kw, a, i, j)
  OBVIOUS
<1>3. TotalOrder(ids, R)
  <2>1. \A i \in ids : i \in Nat /\ Score(sem, kw, a, i) \in Nat
    BY <1>1, ScoreIsNat, SearchAssumption
  <2> HIDE DEF R, ids
  <2>2. \A i \in ids : ~Better(sem, kw, a, i, i)
    BY <2>1 DEF Better
  <2>3. \A i, j, k \in ids : Better(sem, kw, a, i, j) /\ Better(sem, kw, a, j, k)
                               => Better(sem, kw, a, i, k)
    BY <2>1 DEF Better
  <2>4. \A i, j \in ids : i # j => Better(sem, kw, a, i, j) \/ Better(sem, kw, a, j, i)
    BY <2>1 DEF Better
  <2> QED BY <1>2, <2>2, <2>3, <2>4 DEF TotalOrder
<1>4. \A i \in ids : P(i) = {j \in ids : Better(sem, kw, a, j, i)}
  BY <1>2 DEF Preceding
<1>5. F = [k \in 1..c |-> CHOOSE i \in ids :
                Cardinality({j \in ids : Better(sem, kw, a, j, i)}) = k - 1]
  BY DEF Fused
<1> HIDE DEF F, R, ids
<1>6. /\ c \in Nat
      /\ \A i \in ids : Cardinality(P(i)) \in 0..(c - 1)
      /\ \A i, j \in ids : <<i, j>> \in R => Cardinality(P(i)) < Cardinality(P(j))
      /\ \A n \in 1..c : \E i \in ids : Cardinality(P(i)) = n - 1
  BY <1>1, <1>3, Ranks
<1> HIDE DEF P, c
<1>7. ASSUME NEW k \in 1..c
      PROVE  F[k] \in ids /\ Cardinality(P(F[k])) = k - 1
  <2>1. \E i \in ids : Cardinality({j \in ids : Better(sem, kw, a, j, i)}) = k - 1
    BY <1>4, <1>6
  <2>2. /\ F[k] \in ids
        /\ Cardinality({j \in ids : Better(sem, kw, a, j, F[k])}) = k - 1
    BY <1>5, <2>1
  <2> QED BY <1>4, <2>2
<1>8. F \in [1..c -> ids]
  BY <1>5, <1>7
<1>9. ASSUME NEW x \in 1..c, NEW y \in 1..c, x < y
      PROVE  Better(sem, kw, a, F[x], F[y])
  <2>1. F[x] \in ids /\ F[y] \in ids /\ F[x] # F[y]
    BY <1>6, <1>7, <1>9
  <2>2. <<F[x], F[y]>> \in R \/ <<F[y], F[x]>> \in R
    BY <1>3, <2>1 DEF TotalOrder
  <2>3. <<F[y], F[x]>> \notin R
    BY <1>6, <1>7, <1>9, <2>1
  <2> QED BY <1>2, <2>1, <2>2, <2>3
<1>10. ASSUME NEW i \in ids PROVE \E x \in 1..c : F[x] = i
  <2> DEFINE x == Cardinality(P(i)) + 1
  <2>1. x \in 1..c /\ Cardinality(P(i)) = x - 1
    BY <1>6
  <2>2. F[x] \in ids /\ Cardinality(P(F[x])) = Cardinality(P(i))
    BY <1>7, <2>1
  <2> HIDE DEF x
  <2>3. F[x] = i
    <3>1. SUFFICES ASSUME F[x] # i PROVE FALSE
      OBVIOUS
    <3>2. <<F[x], i>> \in R \/ <<i, F[x]>> \in R
      BY <1>3, <2>2, <3>1 DEF TotalOrder
    <3> QED BY <1>6, <2>2, <3>2
  <2> QED BY <2>1, <2>3
<1> QED
  BY <1>6, <1>8, <1>9, <1>10 DEF ByScore, F, c, ids

(* What dominates has the better score.                                    *)
LEMMA DominatesScores ==
    ASSUME NEW sem \in Seq(Ids), NEW kw \in Seq(Ids), NEW a,
           Exact(Len(sem)), Exact(Len(kw)), NEW i, NEW j, i # j,
           Ahead(sem, i, j), Ahead(kw, i, j),
           ~(Ahead(sem, j, i) /\ Ahead(kw, j, i))
    PROVE  ~Better(sem, kw, a, j, i)
<1> DEFINE v == Weights(a).semantic
           w == Weights(a).keyword
<1>1. v \in Nat /\ v > 0 /\ w \in Nat /\ w > 0
  BY WeightsPositive
<1> HIDE DEF v, w
<1>2. /\ Gathered(sem, i, v) \in Nat /\ Gathered(sem, j, v) \in Nat
      /\ Gathered(sem, i, v) >= Gathered(sem, j, v)
      /\ ~Ahead(sem, j, i) => Gathered(sem, i, v) > Gathered(sem, j, v)
  BY <1>1, AheadGathers
<1>3. /\ Gathered(kw, i, w) \in Nat /\ Gathered(kw, j, w) \in Nat
      /\ Gathered(kw, i, w) >= Gathered(kw, j, w)
      /\ ~Ahead(kw, j, i) => Gathered(kw, i, w) > Gathered(kw, j, w)
  BY <1>1, AheadGathers
<1>4. /\ Score(sem, kw, a, i) = Gathered(sem, i, v) + Gathered(kw, i, w)
      /\ Score(sem, kw, a, j) = Gathered(sem, j, v) + Gathered(kw, j, w)
  BY DEF Score, v, w
<1> QED
  BY <1>2, <1>3, <1>4 DEF Better

-----------------------------------------------------------------------------
(* The answer to a request whose lists are read.                           *)
HitsOf(r) == InSeq(r.sem) \cup InSeq(r.kw)
Listed(r) ==
    /\ r.mode \in ModesOfSearch \cup {"tier"}
    /\ r.sem \in Seq(Ids) /\ Exact(Len(r.sem)) /\ Len(r.sem) <= ListLimit(r)
    /\ r.kw \in Seq(Ids) /\ Exact(Len(r.kw)) /\ Len(r.kw) <= ListLimit(r)
    /\ r.mode = "semantic" => r.kw = <<>>
    /\ r.mode \in {"keyword", "tier"} => r.sem = <<>>
    /\ r.ask.top \in Nat /\ SearchLimit(r.ask) \in Nat

LEMMA FirstOf ==
    ASSUME NEW T, NEW s \in Seq(T), NEW n \in Nat
    PROVE  /\ First(n, s) \in Seq(T)
           /\ Len(First(n, s)) <= n /\ Len(First(n, s)) <= Len(s)
           /\ Len(First(n, s)) = n \/ First(n, s) = s
           /\ \A k \in 1..Len(First(n, s)) : First(n, s)[k] = s[k]
<1> DEFINE m == Least(n, Len(s))
<1>1. m \in 0..Len(s) /\ m <= n /\ (m = n \/ m = Len(s)) /\ Len(s) \in Nat
  BY DEF Least
<1>2. First(n, s) = SubSeq(s, 1, m)
  BY DEF First
<1> HIDE DEF m
<1>3. /\ SubSeq(s, 1, m) \in Seq(T) /\ Len(SubSeq(s, 1, m)) = m
      /\ \A k \in 1..m : SubSeq(s, 1, m)[k] = s[k]
  BY <1>1, SubSeqProperties
<1>4. m = Len(s) => SubSeq(s, 1, m) = s
  BY <1>1, <1>3, SeqEqual
<1> QED
  BY <1>1, <1>2, <1>3, <1>4

(* The order of the results: what comes later does not dominate, unless it *)
(* came before as well.                                                    *)
RankList(r) ==
    /\ ByRank(r) \in Seq(Ids) /\ InSeq(ByRank(r)) = HitsOf(r)
    /\ r.mode = "hybrid" =>
          \A x, y \in 1..Len(ByRank(r)) : x < y => ByRank(r)[x] # ByRank(r)[y]
    /\ r.mode # "hybrid" => Len(ByRank(r)) <= SearchLimit(r.ask)
    /\ \A x, y \in 1..Len(ByRank(r)) :
          x < y => \/ ~Dominates(r, ByRank(r)[y], ByRank(r)[x])
                   \/ \E z \in 1..x : ByRank(r)[z] = ByRank(r)[y]

LEMMA ListOrder ==
    ASSUME NEW s \in Seq(Ids), NEW y \in 1..Len(s), NEW x \in 1..Len(s), x < y,
           Ahead(s, s[y], s[x])
    PROVE  \E z \in 1..x : s[z] = s[y]
<1>1. x \in Nat /\ x > 0 /\ x - 1 \in Nat
  OBVIOUS
<1>2. Times(s, s[x], x) = Times(s, s[x], x - 1) + 1
  <2>1. Times(s, s[x], x) = Times(s, s[x], x - 1) + IF s[x] = s[x] THEN 1 ELSE 0
    BY <1>1, TimesStep
  <2> QED BY <2>1
<1>3. Times(s, s[x], x - 1) \in Nat /\ Times(s, s[y], x) \in Nat
  BY <1>1, TimesNext
<1>4. Times(s, s[x], x) <= Times(s, s[y], x)
  BY DEF Ahead, Times
<1>5. Times(s, s[y], x) # 0
  BY <1>2, <1>3, <1>4
<1>6. {k \in 1..x : s[k] = s[y]} # {}
  BY <1>5, FS_EmptySet DEF Times
<1> QED
  BY <1>6

LEMMA RankOrder ==
    ASSUME NEW r, Listed(r)
    PROVE  RankList(r)
<1> DEFINE L == ByRank(r)
<1>1. CASE r.mode = "hybrid"
  <2> DEFINE ids == InSeq(r.sem) \cup InSeq(r.kw)
             c == Cardinality(ids)
  <2>1. L = Fused(r.sem, r.kw, r.ask)
    BY <1>1 DEF ByRank
  <2>2. ByScore(L, ids, r.sem, r.kw, r.ask)
    BY <2>1, FusedByScore DEF Listed
  <2>3. ids \subseteq Ids
    BY InSeqFinite DEF Listed
  <2> HIDE DEF L, ids, c
  <2>4. /\ c \in Nat /\ L \in [1..c -> ids]
        /\ \A i \in ids : \E x \in 1..c : L[x] = i
        /\ \A x, y \in 1..c : x < y => Better(r.sem, r.kw, r.ask, L[x], L[y])
    BY <2>2 DEF ByScore, c
  <2>5. L \in Seq(Ids) /\ Len(L) = c
    <3>1. L \in [1..c -> Ids]
      BY <2>3, <2>4
    <3> QED BY <2>4, <3>1, SeqDef, LenProperties
  <2>6. \A i \in Ids : ~Better(r.sem, r.kw, r.ask, i, i)
    <3> SUFFICES ASSUME NEW i \in Ids PROVE ~Better(r.sem, r.kw, r.ask, i, i)
      OBVIOUS
    <3>1. Score(r.sem, r.kw, r.ask, i) \in Nat /\ i \in Nat
      BY ScoreIsNat, SearchAssumption DEF Listed
    <3> QED BY <3>1 DEF Better
  <2>7. ASSUME NEW x \in 1..c, NEW y \in 1..c, x < y
        PROVE  L[x] # L[y] /\ ~Dominates(r, L[y], L[x])
    <3>1. L[x] \in Ids /\ L[y] \in Ids /\ Better(r.sem, r.kw, r.ask, L[x], L[y])
      BY <2>3, <2>4, <2>7
    <3>2. L[x] # L[y]
      BY <2>6, <3>1
    <3> DEFINE i == L[y]
               j == L[x]
    <3> HIDE DEF i, j
    <3>3. SUFFICES ASSUME Dominates(r, i, j) PROVE FALSE
      BY <3>2 DEF i, j
    <3>4. /\ r.sem \in Seq(Ids) /\ r.kw \in Seq(Ids) /\ i # j
          /\ Exact(Len(r.sem)) /\ Exact(Len(r.kw))
      BY <3>2 DEF Listed, i, j
    <3>5. /\ Ahead(r.sem, i, j) /\ Ahead(r.kw, i, j)
          /\ ~(Ahead(r.sem, j, i) /\ Ahead(r.kw, j, i))
      BY <3>3 DEF Dominates
    <3>6. ~Better(r.sem, r.kw, r.ask, j, i)
      BY <3>4, <3>5, DominatesScores
    <3> QED BY <3>1, <3>6 DEF i, j
  <2>8. InSeq(L) = ids
    BY <2>4, <2>5 DEF InSeq
  <2> QED BY <1>1, <2>5, <2>7, <2>8 DEF RankList, L, HitsOf, ids
<1>2. CASE r.mode # "hybrid"
  <2>1. /\ (L = r.sem /\ r.kw = <<>>) \/ (L = r.kw /\ r.sem = <<>>)
        /\ r.sem \in Seq(Ids) /\ r.kw \in Seq(Ids)
        /\ ListLimit(r) = SearchLimit(r.ask) /\ SearchLimit(r.ask) \in Nat
        /\ Len(r.sem) <= ListLimit(r) /\ Len(r.kw) <= ListLimit(r)
    <3>1. r.mode = "semantic" \/ r.mode \in {"keyword", "tier"}
      BY <1>2 DEF Listed, ModesOfSearch
    <3>2. (L = r.sem /\ r.kw = <<>>) \/ (L = r.kw /\ r.sem = <<>>)
      <4>1. CASE r.mode = "semantic"
        <5>1. L = r.sem
          BY <4>1 DEF ByRank
        <5>2. r.kw = <<>>
          BY <4>1 DEF Listed
        <5> QED BY <5>1, <5>2
      <4>2. CASE r.mode \in {"keyword", "tier"}
        <5>1. L = r.kw
          BY <4>2 DEF ByRank
        <5> QED BY <4>2, <5>1 DEF Listed
      <4> QED BY <3>1, <4>1, <4>2
    <3>3. ListLimit(r) = SearchLimit(r.ask)
      BY <1>2 DEF ListLimit
    <3> QED BY <3>2, <3>3 DEF Listed
  <2> HIDE DEF L
  <2>2. InSeq(<<>>) = {}
    BY DEF InSeq
  <2>3. L \in Seq(Ids) /\ InSeq(L) = HitsOf(r) /\ Len(L) <= SearchLimit(r.ask)
    BY <2>1, <2>2 DEF HitsOf
  <2>4. ASSUME NEW x \in 1..Len(L), NEW y \in 1..Len(L), x < y,
               Dominates(r, L[y], L[x])
        PROVE  \E z \in 1..x : L[z] = L[y]
    <3>1. Ahead(L, L[y], L[x])
      BY <2>1, <2>4 DEF Dominates
    <3> QED BY <2>3, <2>4, <3>1, ListOrder
  <2> QED BY <1>2, <2>3, <2>4 DEF RankList, L
<1> QED
  BY <1>1, <1>2

LEMMA UpTo ==
    ASSUME NEW n \in Nat
    PROVE  IsFiniteSet(1..n) /\ Cardinality(1..n) = n
BY FS_Interval

(* The answer itself: a filter on the head of that order.                  *)
Answered(r) == Listed(r) /\ r.out = Filtered(r)

LEMMA AnswerRanked ==
    ASSUME NEW r, Answered(r)
    PROVE  /\ \A k \in 1..Len(r.out) :
                 r.out[k] \in [id : Ids, content : {"row", "document", "none"}]
           /\ Reachable(r) \subseteq HitsOf(r) => Ranked(r)
<1> DEFINE L == ByRank(r)
           limit == SearchLimit(r.ask)
           M == First(limit, L)
           Hit == [id : Ids, content : {"row", "document", "none"}]
           Q == Results(r)
           W == {hit \in InSeq(Q) : Wanted(r.ask, hit.id)}
           A == Among(Q, W)
           out == r.out
           n == Len(out)
           D(i, j) == Dominates(r, i, j)
<1>1. RankList(r) /\ limit \in Nat /\ r.ask.top \in Nat
  BY RankOrder DEF Answered, Listed
<1>2. /\ L \in Seq(Ids) /\ InSeq(L) = HitsOf(r) /\ Len(L) \in Nat
      /\ \A x, y \in 1..Len(L) :
            x < y => ~D(L[y], L[x]) \/ \E z \in 1..x : L[z] = L[y]
      /\ r.mode = "hybrid" => \A x, y \in 1..Len(L) : x < y => L[x] # L[y]
      /\ r.mode # "hybrid" => Len(L) <= limit
  BY <1>1 DEF RankList
<1>3. /\ M \in Seq(Ids) /\ Len(M) <= limit /\ Len(M) <= Len(L) /\ Len(M) \in Nat
      /\ Len(M) = limit \/ M = L
      /\ \A k \in 1..Len(M) : M[k] = L[k] /\ L[k] \in Ids
  <2> HIDE DEF L, limit
  <2>1. M \in Seq(Ids)
    BY <1>1, <1>2, FirstOf
  <2>2. /\ Len(M) <= limit /\ Len(M) <= Len(L) /\ (Len(M) = limit \/ M = L)
        /\ \A k \in 1..Len(M) : M[k] = L[k]
    BY <1>1, <1>2, FirstOf
  <2> HIDE DEF M
  <2> QED BY <1>2, <2>1, <2>2, ElementOfSeq, LenProperties
<1>4. /\ Q \in Seq(Hit) /\ Len(Q) = Len(M)
      /\ \A k \in 1..Len(Q) : Q[k].id = L[k]
  <2>1. Q = [k \in 1..Len(M) |-> [id |-> M[k], content |-> Content(r, M[k])]]
    BY DEF Results
  <2>2. \A i : Content(r, i) \in {"row", "document", "none"}
    BY DEF Content
  <2> HIDE DEF Q, M, L
  <2>3. Q \in [1..Len(M) -> Hit]
    BY <1>3, <2>1, <2>2
  <2>4. Q \in Seq(Hit) /\ Len(Q) = Len(M)
    <3> HIDE DEF Hit
    <3> QED BY <1>3, <2>3, SeqDef, LenProperties
  <2> QED BY <1>3, <2>1, <2>4
<1> HIDE DEF Q, M, L, limit, Hit, D
<1>5. A \in Seq(Hit) /\ \E p : Picks(p, Q, W, Len(Q), A)
  <2> HIDE DEF W
  <2> QED BY <1>4, AmongPicks
<1>6. PICK p : Picks(p, Q, W, Len(Q), A)
  BY <1>5
<1>7. \A k \in 1..Len(Q) : Q[k] \in W <=> Wanted(r.ask, L[k])
  BY <1>4 DEF InSeq
<1>8. out = First(r.ask.top, A)
  BY DEF Answered, Filtered, Q
<1> HIDE DEF W, A
<1>9. /\ out \in Seq(Hit) /\ n <= r.ask.top /\ n <= Len(A) /\ n \in Nat /\ Len(A) \in Nat
      /\ n = r.ask.top \/ n = Len(A)
      /\ \A k \in 1..n : out[k] = A[k]
  <2>1. First(r.ask.top, A) \in Seq(Hit)
    BY <1>1, <1>5, FirstOf
  <2>2. /\ Len(First(r.ask.top, A)) <= r.ask.top /\ Len(First(r.ask.top, A)) <= Len(A)
        /\ Len(First(r.ask.top, A)) = r.ask.top \/ First(r.ask.top, A) = A
        /\ \A k \in 1..Len(First(r.ask.top, A)) : First(r.ask.top, A)[k] = A[k]
    BY <1>1, <1>5, FirstOf
  <2> QED BY <1>5, <1>8, <2>1, <2>2, LenProperties
<1>10. \A k \in 1..n : out[k] \in Hit
  BY <1>9, ElementOfSeq
<1>11. ASSUME NEW k \in 1..n
       PROVE  /\ k \in 1..Len(A) /\ p[k] \in 1..Len(Q) /\ p[k] \in 1..Len(L)
              /\ out[k].id = L[p[k]] /\ Wanted(r.ask, L[p[k]])
  <2>1. k \in 1..Len(A)
    BY <1>9
  <2>2. p[k] \in 1..Len(Q) /\ A[k] = Q[p[k]] /\ A[k] \in W
    BY <1>6, <2>1 DEF Picks
  <2>3. p[k] \in 1..Len(L)
    BY <1>2, <1>3, <1>4, <2>2
  <2> QED BY <1>4, <1>7, <1>9, <2>1, <2>2, <2>3
<1>12. \A k, m \in 1..Len(A) : k < m => p[k] < p[m]
  BY <1>6 DEF Picks
<1>13. ASSUME NEW z \in 1..Len(Q), Wanted(r.ask, L[z])
       PROVE  \E m \in 1..Len(A) : p[m] = z
  BY <1>6, <1>7, <1>13 DEF Picks
<1> DEFINE ids == {out[k].id : k \in 1..n}
           hits == HitsOf(r)
           NotWorse(i) == {j \in hits \ {i} : ~D(i, j)}
<1>14. ids \subseteq hits /\ \A i \in ids : Wanted(r.ask, i)
  BY <1>2, <1>11 DEF InSeq
<1>15. r.mode = "hybrid" => Cardinality(ids) = n
  <2> SUFFICES ASSUME r.mode = "hybrid" PROVE Cardinality(ids) = n
    OBVIOUS
  <2> DEFINE f == [k \in 1..n |-> out[k].id]
  <2>1. \A k, m \in 1..n : k # m => f[k] # f[m]
    <3>1. ASSUME NEW k \in 1..n, NEW m \in 1..n, k < m PROVE out[k].id # out[m].id
      <4>1. p[k] < p[m] /\ p[k] \in 1..Len(L) /\ p[m] \in 1..Len(L)
        BY <1>11, <1>12, <3>1
      <4> QED BY SMTT(60), <1>2, <1>11, <4>1
    <3> SUFFICES ASSUME NEW k \in 1..n, NEW m \in 1..n, k # m PROVE f[k] # f[m]
      OBVIOUS
    <3>2. k < m \/ m < k
      BY <1>9
    <3> QED BY <3>1, <3>2
  <2>2. f \in [1..n -> ids] /\ \A i \in ids : \E k \in 1..n : f[k] = i
    OBVIOUS
  <2> HIDE DEF f, ids
  <2>3. f \in Bijection(1..n, ids)
    BY <2>1, <2>2 DEF Bijection, Injection, IsInjective, Surjection
  <2>4. IsFiniteSet(1..n) /\ Cardinality(1..n) = n
    BY <1>9, UpTo
  <2> QED BY <2>3, <2>4, FS_Bijection DEF ExistsBijection
<1>16. ASSUME NEW k \in 1..n, NEW m \in 1..n, k < m, D(out[m].id, out[k].id)
       PROVE  \E x \in 1..k : out[x].id = out[m].id
  <2>1. p[k] < p[m] /\ p[k] \in 1..Len(L) /\ p[m] \in 1..Len(L) /\ p[k] \in 1..Len(Q)
    BY <1>11, <1>12, <1>16
  <2>2. D(L[p[m]], L[p[k]])
    BY <1>11, <1>16
  <2>3. PICK z \in 1..p[k] : L[z] = L[p[m]]
    BY <1>2, <2>1, <2>2
  <2>4. z \in 1..Len(Q) /\ z <= p[k] /\ Wanted(r.ask, L[z])
    BY <1>3, <1>4, <1>11, <2>1, <2>3
  <2>5. PICK x \in 1..Len(A) : p[x] = z
    BY <1>13, <2>4
  <2>6. x <= k
    <3>1. k \in 1..Len(A)
      BY <1>11
    <3>2. ~(k < x)
      BY <1>12, <2>1, <2>4, <2>5, <3>1
    <3> QED BY <1>9, <3>1, <3>2
  <2>7. x \in 1..n /\ x \in 1..k
    BY <1>9, <2>6
  <2> QED BY <1>11, <2>3, <2>5, <2>7
<1>17. ASSUME NEW i \in hits \ ids, Wanted(r.ask, i)
       PROVE  /\ ids \subseteq NotWorse(i)
              /\ n = r.ask.top \/ Cardinality(NotWorse(i)) >= limit
  <2> DEFINE Occurrences == {z \in 1..Len(L) : L[z] = i}
  <2>1. Occurrences # {} /\ Occurrences \in SUBSET Nat
    BY <1>2 DEF InSeq
  <2>2. PICK y \in Occurrences : \A z \in Occurrences : y <= z
    <3> HIDE DEF Occurrences
    <3> QED BY <2>1, LeastExists
  <2>3. y \in 1..Len(L) /\ L[y] = i
    BY <2>2
  <2>4. ASSUME NEW x \in 1..Len(L), x < y PROVE L[x] \in NotWorse(i)
    <3>1. L[x] # i
      BY <2>2, <2>3, <2>4
    <3>2. ~\E z \in 1..x : L[z] = L[y]
      <4> SUFFICES ASSUME NEW z \in 1..x, L[z] = L[y] PROVE FALSE
        OBVIOUS
      <4>1. z \in Occurrences /\ z < y
        BY <1>2, <2>3, <2>4
      <4> QED BY <2>2, <2>3, <4>1
    <3>3. ~D(i, L[x])
      BY <1>2, <2>3, <2>4, <3>2
    <3>4. L[x] \in hits
      BY <1>2 DEF InSeq
    <3> QED BY <3>1, <3>3, <3>4
  <2>5. \A k \in 1..n : p[k] < y
    <3> SUFFICES ASSUME NEW k \in 1..n PROVE p[k] < y
      OBVIOUS
    <3>1. k \in 1..Len(A) /\ p[k] \in 1..Len(Q)
      BY <1>11
    <3>2. CASE y \in 1..Len(Q)
      <4>1. PICK m \in 1..Len(A) : p[m] = y
        BY <1>13, <1>17, <2>3, <3>2
      <4>2. m \notin 1..n
        BY <1>11, <2>3, <4>1
      <4>3. k < m
        BY <1>9, <4>2
      <4> QED BY <1>12, <3>1, <4>1, <4>3
    <3>3. CASE y \notin 1..Len(Q)
      BY <1>3, <1>4, <2>3, <3>1, <3>3
    <3> QED BY <3>2, <3>3
  <2>6. ids \subseteq NotWorse(i)
    <3> HIDE DEF NotWorse
    <3> QED BY <1>11, <2>4, <2>5
  <2>7. CASE y \in 1..Len(Q)
    <3>1. PICK m \in 1..Len(A) : p[m] = y
      BY <1>13, <1>17, <2>3, <2>7
    <3>2. m \notin 1..n
      BY <1>11, <2>3, <3>1
    <3>3. n = r.ask.top
      BY <1>9, <3>2
    <3> QED BY <2>6, <3>3
  <2>8. CASE y \notin 1..Len(Q)
    <3>1. Len(Q) < Len(L) /\ Len(Q) = limit /\ limit < y
      BY <1>2, <1>3, <1>4, <2>3, <2>8
    <3>2. r.mode = "hybrid"
      BY <1>1, <1>2, <3>1
    <3> DEFINE head == {L[x] : x \in 1..limit}
               f == [x \in 1..limit |-> L[x]]
    <3>3. \A x \in 1..limit : x \in 1..Len(L) /\ x < y
      BY <1>1, <1>2, <2>3, <3>1
    <3>4. head \subseteq NotWorse(i)
      <4> HIDE DEF NotWorse
      <4> QED BY <2>4, <3>3
    <3>5. \A x, z \in 1..limit : x # z => f[x] # f[z]
      <4> SUFFICES ASSUME NEW x \in 1..limit, NEW z \in 1..limit, x # z
                   PROVE  L[x] # L[z]
        OBVIOUS
      <4>1. x < z \/ z < x
        BY <1>1
      <4> QED BY <1>2, <3>2, <3>3, <4>1
    <3>6. f \in [1..limit -> head] /\ \A h \in head : \E x \in 1..limit : f[x] = h
      OBVIOUS
    <3> HIDE DEF f, head
    <3>7. f \in Bijection(1..limit, head)
      BY <3>5, <3>6 DEF Bijection, Injection, IsInjective, Surjection
    <3>8. IsFiniteSet(1..limit) /\ Cardinality(1..limit) = limit
      BY <1>1, UpTo
    <3>9. Cardinality(head) = limit
      BY <3>7, <3>8, FS_Bijection DEF ExistsBijection
    <3>10. IsFiniteSet(hits)
      BY InSeqFinite, FS_Union DEF HitsOf, Answered, Listed
    <3>11. IsFiniteSet(NotWorse(i))
      <4>1. NotWorse(i) \in SUBSET hits
        OBVIOUS
      <4> HIDE DEF NotWorse, hits
      <4> QED BY <3>10, <4>1, FS_Subset
    <3>12. /\ Cardinality(NotWorse(i)) \in Nat
           /\ Cardinality(head) <= Cardinality(NotWorse(i))
      <4> HIDE DEF NotWorse
      <4> QED BY <3>4, <3>11, FS_Subset, FS_CardinalityType
    <3>13. Cardinality(NotWorse(i)) >= limit
      <4> HIDE DEF NotWorse
      <4> QED BY <1>1, <3>9, <3>12
    <3> QED BY <2>6, <3>13
  <2> QED BY <2>7, <2>8
<1>18. ASSUME Reachable(r) \subseteq HitsOf(r) PROVE Ranked(r)
  <2>1. /\ n <= r.ask.top /\ ids \subseteq hits
        /\ \A i \in ids : Wanted(r.ask, i)
        /\ r.mode = "hybrid" => Cardinality(ids) = n
    BY <1>9, <1>14, <1>15
  <2>2. \A k, m \in 1..n :
           k < m => \/ ~Dominates(r, out[m].id, out[k].id)
                    \/ \E x \in 1..k : out[x].id = out[m].id
    BY <1>16 DEF D
  <2>3. \A i \in hits \ ids :
           Wanted(r.ask, i) =>
              /\ ids \subseteq NotWorse(i)
              /\ n = r.ask.top \/ Cardinality(NotWorse(i)) >= limit
    BY <1>17
  <2>4. \A i : NotWorse(i) = {j \in hits \ {i} : ~Dominates(r, i, j)}
    BY DEF D
  <2> HIDE DEF ids, NotWorse
  <2> QED BY <1>18, <2>1, <2>2, <2>3, <2>4 DEF Ranked, HitsOf, ids, limit
<1> QED
  BY <1>10, <1>18 DEF Hit

-----------------------------------------------------------------------------
(* What a request has read, and from what.  A request that has not         *)
(* searched, or is over, has nothing.                                      *)
Listing  == {"hydrate", "health", "counted", "put"}
Listing2 == Listing \ {"hydrate"}
FromStores(r) ==
    /\ r.sem = IF r.mode \in {"hybrid", "semantic"}
               THEN First(ListLimit(r), Nearest(r.seen, r.ask)) ELSE <<>>
    /\ r.kw = IF r.mode = "semantic" THEN <<>>
              ELSE First(ListLimit(r), Documents(r))
Read(r) ==
    /\ r.at = "tier" => r.mode = "tier"
    /\ r.at \notin {"tier"} \cup Listing2 => r.mode \in ModesOfSearch
    /\ IF r.at \in Listing THEN FromStores(r) ELSE r.sem = <<>> /\ r.kw = <<>>
    /\ IF r.at \in Listing2 THEN r.out = Filtered(r) ELSE r.out = <<>>
    /\ r.rows \subseteq InSeq(r.kw)

BaseOK(r, n) ==
    /\ r.at \in Places
    /\ r.at # "new" => r.ask \in world.asks
    /\ r.ask.top \in Nat
    /\ r.mode \in ModesOfSearch \cup {"tier"}
    /\ r.key \in Backends \cup {None} /\ r.space \in Backends \cup {None}
    /\ r.emb \in Embedder /\ r.emb.serial <= n
    /\ r.docs \subseteq Ids /\ r.seen \subseteq Ids
    /\ r.health \in Health /\ r.late \in BOOLEAN
    /\ \A part \in {r.count.known, r.count.done} : part \subseteq r.count.files
    /\ r.count.files \subseteq Files

LEMMA Limits ==
    ASSUME NEW r, r.ask.top \in Nat
    PROVE  SearchLimit(r.ask) \in Nat /\ ListLimit(r) \in Nat
<1> DEFINE l == SearchLimit(r.ask)
<1>1. /\ Multiplier \in Nat /\ MaxCandidates \in Nat /\ FilterFactor \in Nat
      /\ FilteredMin \in Nat /\ FilteredMax \in Nat
  BY SearchAssumption
<1>2. FilterFactor * r.ask.top \in Nat
  BY <1>1
<1>3. l \in Nat
  BY <1>1, <1>2 DEF SearchLimit, Least, Most
<1> HIDE DEF l
<1>4. Multiplier * l \in Nat
  BY <1>1, <1>3
<1>5. ListLimit(r) \in Nat
  BY <1>1, <1>3, <1>4 DEF ListLimit, CandidateLimit, Least, Most, l
<1> QED
  BY <1>3, <1>5 DEF l

LEMMA AmongShorter ==
    ASSUME NEW T, NEW s \in Seq(T), NEW S
    PROVE  Among(s, S) \in Seq(T) /\ Len(Among(s, S)) <= Len(s)
<1>1. Among(s, S) \in Seq(T)
  BY AmongPicks
<1>2. PICK p : Picks(p, s, S, Len(s), Among(s, S))
  BY AmongPicks
<1> DEFINE n == Len(Among(s, S))
           m == Len(s)
<1>3. n \in Nat /\ m \in Nat
  BY <1>1
<1>4. p \in [1..n -> 1..m] /\ \A x, y \in 1..n : x < y => p[x] < p[y]
  BY <1>2 DEF Picks
<1> HIDE DEF n, m
<1>5. \A x, y \in 1..n : x # y => p[x] # p[y]
  <2> SUFFICES ASSUME NEW x \in 1..n, NEW y \in 1..n, x # y PROVE p[x] # p[y]
    OBVIOUS
  <2>1. x < y \/ y < x
    BY <1>3
  <2>2. p[x] \in Nat /\ p[y] \in Nat
    BY <1>3, <1>4
  <2> QED BY <1>4, <2>1, <2>2
<1>6. p \in Injection(1..n, 1..m)
  BY <1>4, <1>5 DEF Injection, IsInjective
<1>7. /\ IsFiniteSet(1..m) /\ Cardinality(1..m) = m
      /\ IsFiniteSet(1..n) /\ Cardinality(1..n) = n
  BY <1>3, UpTo
<1>8. n <= m
  BY <1>6, <1>7, FS_Injection
<1> QED
  BY <1>1, <1>8 DEF n, m

LEMMA ExactLists ==
    ASSUME world \in Worlds, NEW rows, NEW a
    PROVE  /\ Nearest(rows, a) \in Seq(Ids) /\ Exact(Len(Nearest(rows, a)))
           /\ \A docs, words : /\ Found(docs, words) \in Seq(Ids)
                               /\ Exact(Len(Found(docs, words)))
<1>1. /\ world.near \in Seq(Ids) /\ world.bm25 \in Seq(Ids)
  BY WorldsAssumption
<1>2. Exact(Len(world.near)) /\ Exact(Len(world.bm25))
  <2>1. DOMAIN world.near = 1..Len(world.near) /\ DOMAIN world.bm25 = 1..Len(world.bm25)
    BY <1>1
  <2> QED BY <2>1, ExactAssumption DEF Exact
<1>3. ASSUME NEW s \in Seq(Ids), Exact(Len(s)), NEW S
      PROVE  Among(s, S) \in Seq(Ids) /\ Exact(Len(Among(s, S)))
  <2>1. /\ Among(s, S) \in Seq(Ids) /\ Len(Among(s, S)) <= Len(s)
        /\ Len(s) \in Nat
    BY AmongShorter
  <2>2. Len(Among(s, S)) \in Nat
    BY <2>1
  <2>3. \A n \in 1..Len(Among(s, S)) : n \in 1..Len(s)
    BY <2>1, <2>2
  <2> QED BY <1>3, <2>1, <2>3 DEF Exact
<1> QED
  BY <1>1, <1>2, <1>3 DEF Nearest, Found

LEMMA FirstExact ==
    ASSUME NEW s \in Seq(Ids), Exact(Len(s)), NEW n \in Nat
    PROVE  /\ First(n, s) \in Seq(Ids) /\ Exact(Len(First(n, s)))
           /\ Len(First(n, s)) <= n /\ (Len(s) <= n => First(n, s) = s)
<1>1. /\ First(n, s) \in Seq(Ids)
      /\ Len(First(n, s)) <= n /\ Len(First(n, s)) <= Len(s)
      /\ Len(First(n, s)) = n \/ First(n, s) = s
      /\ \A k \in 1..Len(First(n, s)) : First(n, s)[k] = s[k]
  BY FirstOf
<1> DEFINE F == First(n, s)
<1>2. Len(F) \in Nat /\ Len(s) \in Nat
  BY <1>1
<1>3. \A k \in 1..Len(F) : k \in 1..Len(s)
  BY <1>1, <1>2
<1>4. Exact(Len(F))
  BY <1>3 DEF Exact
<1>5. ASSUME Len(s) <= n PROVE F = s
  <2>1. CASE Len(F) = n
    <3>1. Len(F) = Len(s)
      BY <1>1, <1>2, <1>5, <2>1
    <3> QED BY <1>1, <3>1, SeqEqual
  <2> QED BY <1>1, <2>1
<1> QED
  BY <1>1, <1>4, <1>5

LEMMA DocumentsTyped ==
    ASSUME world \in Worlds, NEW r
    PROVE  Documents(r) \in Seq(Ids) /\ Exact(Len(Documents(r)))
<1>1. \A docs, words : /\ Found(docs, words) \in Seq(Ids)
                       /\ Exact(Len(Found(docs, words)))
  BY ExactLists
<1>2. <<>> \in Seq(Ids) /\ Exact(Len(<<>>))
  BY DEF Exact
<1> QED
  BY <1>1, <1>2 DEF Documents

(* Everything the type invariant says of the lists follows.                *)
LEMMA ReadListed ==
    ASSUME world \in Worlds, NEW r, NEW n, BaseOK(r, n), Read(r)
    PROVE  Listed(r)
<1>1. SearchLimit(r.ask) \in Nat /\ ListLimit(r) \in Nat /\ r.ask.top \in Nat
  BY Limits DEF BaseOK
<1>2. <<>> \in Seq(Ids) /\ Exact(Len(<<>>)) /\ Len(<<>>) = 0
  BY DEF Exact
<1>3. /\ r.sem = <<>> \/ r.sem = First(ListLimit(r), Nearest(r.seen, r.ask))
      /\ r.kw = <<>> \/ r.kw = First(ListLimit(r), Documents(r))
      /\ r.mode = "semantic" => r.kw = <<>>
      /\ r.mode \in {"keyword", "tier"} => r.sem = <<>>
  BY DEF Read, FromStores
<1>4. r.sem \in Seq(Ids) /\ Exact(Len(r.sem)) /\ Len(r.sem) <= ListLimit(r)
  <2>1. CASE r.sem = <<>>
    BY <1>1, <1>2, <2>1
  <2>2. CASE r.sem = First(ListLimit(r), Nearest(r.seen, r.ask))
    BY <1>1, <2>2, ExactLists, FirstExact
  <2> QED BY <1>3, <2>1, <2>2
<1>5. r.kw \in Seq(Ids) /\ Exact(Len(r.kw)) /\ Len(r.kw) <= ListLimit(r)
  <2>1. CASE r.kw = <<>>
    BY <1>1, <1>2, <2>1
  <2>2. CASE r.kw = First(ListLimit(r), Documents(r))
    BY <1>1, <2>2, DocumentsTyped, FirstExact
  <2> QED BY <1>3, <2>1, <2>2
<1> QED
  BY <1>1, <1>3, <1>4, <1>5 DEF Listed, BaseOK

LEMMA ReadTyped ==
    ASSUME world \in Worlds, NEW r, NEW n, n = made, BaseOK(r, n), Read(r)
    PROVE  RequestOK(r)
<1>1. Listed(r)
  BY ReadListed
<1>2. \A k \in 1..Len(r.out) :
         r.out[k] \in [id : Ids, content : {"row", "document", "none"}]
  <2>1. CASE r.out = <<>>
    BY <2>1
  <2>2. CASE r.out # <<>>
    <3>1. Answered(r)
      BY <1>1, <2>2 DEF Read, Answered
    <3> QED BY <3>1, AnswerRanked
  <2> QED BY <2>1, <2>2
<1> QED
  BY <1>1, <1>2 DEF RequestOK, BaseOK, Read, Listed

LEMMA ReadRanked ==
    ASSUME world \in Worlds, NEW r, NEW n, BaseOK(r, n), Read(r),
           r.at \in {"health", "counted", "put"}
    PROVE  Ranked(r)
<1>1. Listed(r)
  BY ReadListed
<1>2. Answered(r) /\ FromStores(r)
  BY <1>1 DEF Read, Answered, Listing, Listing2
<1>3. Reachable(r) \subseteq HitsOf(r)
  <2> DEFINE near == IF r.mode \in {"hybrid", "semantic"}
                     THEN Nearest(r.seen, r.ask) ELSE <<>>
             docs == IF r.mode = "semantic" THEN <<>> ELSE Documents(r)
             l == ListLimit(r)
  <2>1. Reachable(r) = IF Len(near) <= l /\ Len(docs) <= l
                       THEN InSeq(near) \cup InSeq(docs) ELSE {}
    BY DEF Reachable
  <2>2. l \in Nat
    BY Limits DEF BaseOK
  <2>3. Len(near) <= l => r.sem = near
    <3>1. CASE r.mode \in {"hybrid", "semantic"}
      BY <1>2, <2>2, <3>1, ExactLists, FirstExact DEF FromStores
    <3>2. CASE r.mode \notin {"hybrid", "semantic"}
      BY <1>2, <3>2 DEF FromStores
    <3> QED BY <3>1, <3>2
  <2>4. Len(docs) <= l => r.kw = docs
    <3>1. CASE r.mode = "semantic"
      BY <1>2, <3>1 DEF FromStores
    <3>2. CASE r.mode # "semantic"
      BY <1>2, <2>2, <3>2, DocumentsTyped, FirstExact DEF FromStores
    <3> QED BY <3>1, <3>2
  <2> HIDE DEF near, docs, l
  <2> QED BY <2>1, <2>3, <2>4 DEF HitsOf
<1> QED
  BY <1>2, <1>3, AnswerRanked

-----------------------------------------------------------------------------
(* The steps.  Types of the state apart from the requests:                 *)
StateOK ==
    /\ world \in Worlds
    /\ tree \subseteq Ids /\ vec \subseteq Ids /\ text \subseteq Ids
    /\ meta \in Backends \cup {None}
    /\ searchable \in BOOLEAN /\ ready \in BOOLEAN /\ settled \in BOOLEAN
    /\ mark \in [Files -> {"unknown", "pending", "indexed"}]
    /\ phase \in {"building", "partial", "full"}
    /\ call \in {"idle", "running", "ended"}
    /\ budget \in [calls : Nat, edits : Nat, deletes : Nat]
    /\ embedders \in [Backends -> Embedder]
    /\ Cardinality(health) <= 1
    /\ health \subseteq [value : Health, late : BOOLEAN]
    /\ made \in Nat

RequestsOK == \A c \in Callers : BaseOK(req[c], made) /\ Read(req[c])
SearchInv == RequestInv /\ StateOK /\ RequestsOK

LEMMA NewRequestOK ==
    ASSUME NEW n \in Nat
    PROVE  BaseOK(NewRequest, n) /\ Read(NewRequest)
BY DEF BaseOK, Read, NewRequest, Places, Embedder, NoEmbedder, Health, NoHealth,
       NoCount, ModesOfSearch, Listing, Listing2, InSeq

LEMMA InitSearchInv == Init => SearchInv
<1> SUFFICES ASSUME Init PROVE SearchInv
  OBVIOUS
<1>1. RequestInv
  BY InitRequestInv
<1>2. world \in Worlds
  BY DEF Init
<1>3. /\ world.trees \subseteq SUBSET Ids /\ world.start \in world.trees
      /\ world.built \in BOOLEAN /\ world.configured \in Backends
      /\ world.budget \in [calls : Nat, edits : Nat, deletes : Nat]
  BY <1>2, WorldsAssumption
<1>4. Cardinality({}) = 0
  BY FS_EmptySet
<1>5. NoEmbedder \in Embedder
  BY DEF NoEmbedder, Embedder
<1>6. StateOK
  <2>1. tree \subseteq Ids /\ vec \subseteq Ids /\ text \subseteq Ids
    BY <1>3 DEF Init
  <2>2. mark \in [Files -> {"unknown", "pending", "indexed"}]
    BY DEF Init
  <2>3. /\ meta \in Backends \cup {None} /\ searchable \in BOOLEAN
        /\ ready \in BOOLEAN /\ settled \in BOOLEAN
        /\ phase \in {"building", "partial", "full"}
        /\ call \in {"idle", "running", "ended"}
        /\ budget \in [calls : Nat, edits : Nat, deletes : Nat]
        /\ made \in Nat
    BY <1>3 DEF Init
  <2>4. /\ embedders \in [Backends -> Embedder] /\ Cardinality(health) <= 1
        /\ health \subseteq [value : Health, late : BOOLEAN]
    BY <1>4, <1>5 DEF Init
  <2> QED BY <1>2, <2>1, <2>2, <2>3, <2>4 DEF StateOK
<1>7. RequestsOK
  BY NewRequestOK DEF Init, RequestsOK
<1> QED
  BY <1>1, <1>6, <1>7 DEF SearchInv

(* A step of one request.                                                  *)
LEMMA OneRequest ==
    ASSUME SearchInv, NEW c \in Callers, NEW r, Becomes(c, r),
           UNCHANGED indexing, made' \in Nat, made <= made',
           BaseOK(r, made'), Read(r)
    PROVE  RequestsOK'
<1>1. /\ req'[c] = r /\ \A d \in Callers : d # c => req'[d] = req[d]
  BY DEF SearchInv, RequestInv, Shape, Becomes
<1>2. world' = world
  BY DEF indexing
<1>3. \A q : Read(q)' <=> Read(q)
  BY <1>2 DEF Read, FromStores, Nearest, Documents, Found, Filtered
<1>4. ASSUME NEW d \in Callers PROVE BaseOK(req[d], made)' /\ Read(req[d])'
  <2>1. CASE d = c
    BY <1>1, <1>2, <2>1 DEF BaseOK, Read, FromStores, Nearest, Documents, Found
  <2>2. CASE d # c
    <3>1. BaseOK(req[d], made) /\ Read(req[d]) /\ req[d].emb.serial \in Nat
      BY DEF SearchInv, RequestsOK, BaseOK, Embedder
    <3>2. req[d].emb.serial <= made'
      BY <3>1 DEF BaseOK, SearchInv, StateOK
    <3> QED BY <1>1, <1>2, <2>2, <3>1, <3>2
               DEF BaseOK, Read, FromStores, Nearest, Documents, Found
  <2> QED BY <2>1, <2>2
<1> QED
  BY <1>4 DEF RequestsOK

LEMMA OverTyped ==
    ASSUME SearchInv, NEW c \in Callers, req[c].at # "new", NEW n \in Nat,
           NEW place \in {"answered", "failed"}, NEW h \in Health
    PROVE  BaseOK(Over(req[c], place, h), n) /\ Read(Over(req[c], place, h))
<1> DEFINE r == Over(req[c], place, h)
<1>1. /\ r.at = place /\ r.ask = req[c].ask /\ r.health = h
      /\ r.mode = "hybrid" /\ r.key = None /\ r.space = None /\ r.emb = NoEmbedder
      /\ r.docs = {} /\ r.seen = {} /\ r.late = FALSE /\ r.count = NoCount
      /\ r.sem = <<>> /\ r.kw = <<>> /\ r.out = <<>> /\ r.rows = {}
  BY DEF Over, NewRequest
<1>2. req[c].ask \in world.asks /\ req[c].ask.top \in Nat
  BY DEF SearchInv, RequestsOK, BaseOK
<1> HIDE DEF r
<1>3. BaseOK(r, n)
  <2>1. r.at \in Places /\ r.mode \in ModesOfSearch
    BY <1>1 DEF Places, ModesOfSearch
  <2>2. NoEmbedder \in Embedder /\ NoEmbedder.serial <= n
    BY DEF Embedder, NoEmbedder
  <2>3. /\ \A part \in {NoCount.known, NoCount.done} : part \subseteq NoCount.files
        /\ NoCount.files \subseteq Files
    BY DEF NoCount
  <2> QED BY <1>1, <1>2, <2>1, <2>2, <2>3 DEF BaseOK
<1>4. Read(r)
  BY <1>1 DEF Read, Listing, Listing2, ModesOfSearch, InSeq
<1> QED
  BY <1>3, <1>4 DEF r

LEMMA FailTyped ==
    ASSUME SearchInv, NEW c \in Callers, req[c].at # "new", Fail(c),
           UNCHANGED <<indexing, caches>>
    PROVE  RequestsOK'
<1>1. NoHealth \in Health /\ made \in Nat /\ made' = made
  BY DEF NoHealth, Health, SearchInv, StateOK, caches
<1>2. /\ BaseOK(Over(req[c], "failed", NoHealth), made)
      /\ Read(Over(req[c], "failed", NoHealth))
  BY <1>1, OverTyped
<1>3. Becomes(c, Over(req[c], "failed", NoHealth))
  BY DEF Fail
<1>4. UNCHANGED indexing /\ made' \in Nat /\ made <= made'
  BY <1>1
<1>5. BaseOK(Over(req[c], "failed", NoHealth), made')
  BY <1>1, <1>2
<1> DEFINE r == Over(req[c], "failed", NoHealth)
<1> HIDE DEF r
<1>6. Becomes(c, r) /\ BaseOK(r, made') /\ Read(r)
  BY <1>2, <1>3, <1>5 DEF r
<1> QED
  BY <1>4, <1>6, OneRequest

LEMMA StateStays ==
    ASSUME StateOK, UNCHANGED <<indexing, embedders, health>>, made' \in Nat
    PROVE  StateOK'
BY DEF StateOK, indexing, stores

(* What a step of a request has to establish.                              *)
LEMMA Moves ==
    ASSUME SearchInv, NEW c \in Callers, NEW r, Becomes(c, r),
           UNCHANGED <<indexing, caches>>, BaseOK(r, made), Read(r)
    PROVE  StateOK' /\ RequestsOK'
<1>1. /\ UNCHANGED indexing /\ made' \in Nat /\ made <= made' /\ made' = made
      /\ UNCHANGED <<indexing, embedders, health>>
  BY DEF SearchInv, StateOK, caches
<1>2. StateOK'
  BY <1>1, StateStays DEF SearchInv
<1>3. BaseOK(r, made')
  BY <1>1
<1>4. RequestsOK'
  BY <1>1, <1>3, OneRequest
<1> QED
  BY <1>2, <1>4

LEMMA Fails ==
    ASSUME SearchInv, NEW c \in Callers, req[c].at # "new", Fail(c),
           UNCHANGED <<indexing, caches>>
    PROVE  StateOK' /\ RequestsOK'
<1>1. StateOK'
  BY StateStays DEF SearchInv, StateOK, caches
<1> QED
  BY <1>1, FailTyped

LEMMA AskTyped ==
    ASSUME SearchInv, NEW c \in Callers, NEW a \in world.asks, Ask(c, a)
    PROVE  StateOK' /\ RequestsOK'
<1> DEFINE r == [NewRequest EXCEPT !.at = "status", !.ask = a, !.mode = a.mode]
<1>1. a.top \in Nat /\ a.mode \in ModesOfSearch
  BY WorldsAssumption DEF SearchInv, StateOK
<1>2. BaseOK(NewRequest, made) /\ Read(NewRequest)
  BY NewRequestOK DEF SearchInv, StateOK
<1>3. /\ r.at = "status" /\ r.ask = a /\ r.mode = a.mode
      /\ \A f \in Fields \ {"at", "ask", "mode"} : r[f] = NewRequest[f]
  BY DEF NewRequest, Fields
<1>4. /\ r.key = NewRequest.key /\ r.space = NewRequest.space
      /\ r.emb = NewRequest.emb /\ r.docs = {} /\ r.seen = {} /\ r.rows = {}
      /\ r.sem = <<>> /\ r.kw = <<>> /\ r.out = <<>>
      /\ r.health = NewRequest.health /\ r.late = NewRequest.late
      /\ r.count = NewRequest.count
  BY DEF NewRequest
<1>5. Becomes(c, r) /\ UNCHANGED <<indexing, caches>>
  BY DEF Ask
<1> HIDE DEF r
<1>6. BaseOK(r, made)
  BY <1>1, <1>2, <1>3, <1>4 DEF BaseOK, Places
<1>7. Read(r)
  BY <1>1, <1>3, <1>4 DEF Read, Listing, Listing2, InSeq
<1> QED
  BY <1>5, <1>6, <1>7, Moves

LEMMA RouteTyped ==
    ASSUME SearchInv, NEW c \in Callers, Route(c)
    PROVE  StateOK' /\ RequestsOK'
<1>1. /\ BaseOK(req[c], made) /\ Read(req[c]) /\ DOMAIN req[c] = Fields
      /\ req[c].at = "status" /\ UNCHANGED <<indexing, caches>>
      /\ made \in Nat
  BY DEF SearchInv, RequestsOK, RequestInv, Shape, Route, At, StateOK
<1>2. CASE phase = "building"
  <2> DEFINE h == [status |-> "building", tenths |-> 0]
             r == Over(req[c], "answered", h)
  <2>1. h \in Health
    BY DEF Health
  <2>2. BaseOK(r, made) /\ Read(r)
    BY <1>1, <2>1, OverTyped
  <2>3. Becomes(c, r)
    BY <1>2 DEF Route
  <2> HIDE DEF r
  <2> QED BY <1>1, <2>2, <2>3, Moves
<1>3. CASE phase = "partial"
  <2> DEFINE r == [req[c] EXCEPT !.at = "tier", !.mode = "tier"]
  <2>1. /\ r.at = "tier" /\ r.mode = "tier" /\ r.ask = req[c].ask
        /\ r.key = req[c].key /\ r.space = req[c].space /\ r.emb = req[c].emb
        /\ r.docs = req[c].docs /\ r.seen = req[c].seen /\ r.rows = req[c].rows
        /\ r.sem = req[c].sem /\ r.kw = req[c].kw /\ r.out = req[c].out
        /\ r.health = req[c].health /\ r.late = req[c].late
        /\ r.count = req[c].count
    BY <1>1 DEF Fields
  <2>2. Becomes(c, r)
    BY <1>3 DEF Route
  <2> HIDE DEF r
  <2>3. BaseOK(r, made)
    BY <1>1, <2>1 DEF BaseOK, Places
  <2>4. Read(r)
    BY <1>1, <2>1 DEF Read, Listing, Listing2
  <2> QED BY <1>1, <2>2, <2>3, <2>4, Moves
<1>4. CASE phase \notin {"building", "partial"}
  <2> DEFINE r == [req[c] EXCEPT !.at = "backend"]
  <2>1. /\ r.at = "backend" /\ r.mode = req[c].mode /\ r.ask = req[c].ask
        /\ r.key = req[c].key /\ r.space = req[c].space /\ r.emb = req[c].emb
        /\ r.docs = req[c].docs /\ r.seen = req[c].seen /\ r.rows = req[c].rows
        /\ r.sem = req[c].sem /\ r.kw = req[c].kw /\ r.out = req[c].out
        /\ r.health = req[c].health /\ r.late = req[c].late
        /\ r.count = req[c].count
    BY <1>1 DEF Fields
  <2>2. Becomes(c, r)
    BY <1>4 DEF Route
  <2> HIDE DEF r
  <2>3. BaseOK(r, made)
    BY <1>1, <2>1 DEF BaseOK, Places
  <2>4. Read(r)
    BY <1>1, <2>1 DEF Read, Listing, Listing2
  <2> QED BY <1>1, <2>2, <2>3, <2>4, Moves
<1> QED
  BY <1>2, <1>3, <1>4

(* Before the search: the steps that choose the embedder.                  *)
Unread(r, q) ==
    /\ r.ask = q.ask /\ r.mode = q.mode /\ r.space = q.space
    /\ r.docs = q.docs /\ r.seen = q.seen /\ r.rows = q.rows
    /\ r.sem = q.sem /\ r.kw = q.kw /\ r.out = q.out
    /\ r.health = q.health /\ r.late = q.late /\ r.count = q.count
Early == {"status", "backend", "lookup", "build", "insert", "open", "vectors"}

LEMMA EarlyMoves ==
    ASSUME SearchInv, NEW c \in Callers, NEW r, NEW n \in Nat, made <= n,
           req[c].at \in Early, Unread(r, req[c]), r.at \in Early,
           r.key \in Backends \cup {None}, r.emb \in Embedder, r.emb.serial <= n
    PROVE  BaseOK(r, n) /\ Read(r)
<1>1. BaseOK(req[c], made) /\ Read(req[c])
  BY DEF SearchInv, RequestsOK
<1>2. r.at \in Places /\ req[c].at # "new"
  BY DEF Early, Places
<1>3. BaseOK(r, n)
  BY <1>1, <1>2 DEF BaseOK, Unread
<1>4. Read(r)
  <2>1. /\ r.at \notin Listing \cup {"tier"} /\ req[c].at \notin Listing \cup {"tier"}
        /\ r.at \notin Listing2 /\ req[c].at \notin Listing2
    BY DEF Early, Listing, Listing2
  <2> QED BY <1>1, <2>1 DEF Read, Unread
<1> QED
  BY <1>3, <1>4

LEMMA ApplyBackendTyped ==
    ASSUME SearchInv, NEW c \in Callers, ApplyBackend(c)
    PROVE  StateOK' /\ RequestsOK'
<1> DEFINE r == [req[c] EXCEPT
                    !.key = IF meta # None THEN meta ELSE world.configured,
                    !.at = IF req[c].mode = "keyword" THEN "open" ELSE "lookup"]
<1>1. /\ BaseOK(req[c], made) /\ DOMAIN req[c] = Fields /\ made \in Nat
      /\ req[c].at = "backend" /\ UNCHANGED <<indexing, caches>>
      /\ meta \in Backends \cup {None} /\ world.configured \in Backends
  BY DEF SearchInv, RequestsOK, RequestInv, Shape, ApplyBackend, At, StateOK
<1>2. CASE meta = None /\ req[c].mode # "keyword"
  <2>1. Fail(c) /\ req[c].at # "new"
    BY <1>1, <1>2 DEF ApplyBackend
  <2> QED BY <1>1, <2>1, Fails
<1>3. CASE ~(meta = None /\ req[c].mode # "keyword")
  <2>1. /\ r.at \in {"open", "lookup"} /\ r.emb = req[c].emb
        /\ r.key \in Backends \cup {None}
    BY <1>1 DEF Fields
  <2>2. Unread(r, req[c])
    BY <1>1 DEF Fields, Unread
  <2>3. Becomes(c, r)
    BY <1>3 DEF ApplyBackend
  <2> HIDE DEF r
  <2>4. r.at \in Early /\ req[c].at \in Early
    BY <1>1, <2>1 DEF Early
  <2>5. r.emb \in Embedder /\ r.emb.serial <= made /\ made <= made
    BY <1>1, <2>1 DEF BaseOK
  <2>6. BaseOK(r, made) /\ Read(r)
    BY <1>1, <2>1, <2>2, <2>4, <2>5, EarlyMoves
  <2> QED BY <1>1, <2>3, <2>6, Moves
<1> QED
  BY <1>2, <1>3

(* The embedders in the cache are no newer than the last one built.        *)
Numbered == \A b \in Backends : embedders[b].serial <= made

LEMMA LookupTyped ==
    ASSUME SearchInv, Numbered, NEW c \in Callers, Lookup(c)
    PROVE  StateOK' /\ RequestsOK'
<1> DEFINE found == embedders[req[c].key]
           build == [req[c] EXCEPT !.at = "build"]
           taken == [req[c] EXCEPT !.at = "open", !.emb = found]
<1>1. /\ BaseOK(req[c], made) /\ DOMAIN req[c] = Fields /\ made \in Nat
      /\ req[c].at = "lookup" /\ UNCHANGED <<indexing, caches>>
      /\ req[c].key \in Backends
  BY DEF SearchInv, RequestsOK, RequestInv, Shape, Shared, Lookup, At, StateOK
<1>2. found \in Embedder /\ found.serial <= made
  BY <1>1 DEF SearchInv, StateOK, Numbered
<1>3. CASE found = NoEmbedder
  <2>1. build.at = "build" /\ build.key = req[c].key /\ build.emb = req[c].emb
    BY <1>1 DEF Fields
  <2>2. Unread(build, req[c])
    BY <1>1 DEF Fields, Unread
  <2>3. Becomes(c, build)
    BY <1>3 DEF Lookup
  <2> HIDE DEF build, found
  <2>4. build.at \in Early /\ req[c].at \in Early
    BY <1>1, <2>1 DEF Early
  <2>5. /\ build.emb \in Embedder /\ build.emb.serial <= made /\ made <= made
        /\ build.key \in Backends \cup {None}
    BY <1>1, <2>1 DEF BaseOK
  <2>6. BaseOK(build, made) /\ Read(build)
    BY <1>1, <2>2, <2>4, <2>5, EarlyMoves
  <2> QED BY <1>1, <2>3, <2>6, Moves
<1>4. CASE found # NoEmbedder
  <2>1. taken.at = "open" /\ taken.key = req[c].key /\ taken.emb = found
    BY <1>1 DEF Fields
  <2>2. Unread(taken, req[c])
    BY <1>1 DEF Fields, Unread
  <2>3. Becomes(c, taken)
    BY <1>4 DEF Lookup
  <2> HIDE DEF taken, found
  <2>4. taken.at \in Early /\ req[c].at \in Early
    BY <1>1, <2>1 DEF Early
  <2>5. /\ taken.emb \in Embedder /\ taken.emb.serial <= made /\ made <= made
        /\ taken.key \in Backends \cup {None}
    BY <1>1, <1>2, <2>1
  <2>6. BaseOK(taken, made) /\ Read(taken)
    BY <1>1, <2>2, <2>4, <2>5, EarlyMoves
  <2> QED BY <1>1, <2>3, <2>6, Moves
<1> QED
  BY <1>3, <1>4

LEMMA BuildTyped ==
    ASSUME SearchInv, NEW c \in Callers, NEW b \in Backends, Build(c, b)
    PROVE  StateOK' /\ RequestsOK'
<1> DEFINE e == [model |-> b, serial |-> made + 1]
           r == [req[c] EXCEPT !.at = "insert", !.emb = e]
<1>1. /\ BaseOK(req[c], made) /\ DOMAIN req[c] = Fields /\ made \in Nat
      /\ req[c].at = "build" /\ UNCHANGED <<indexing, embedders, health>>
      /\ made' = made + 1
  BY DEF SearchInv, RequestsOK, RequestInv, Shape, Build, At, StateOK
<1>2. StateOK'
  BY <1>1, StateStays DEF SearchInv
<1>3. e \in Embedder /\ e.serial <= made + 1
  BY <1>1 DEF Embedder
<1>4. r.at = "insert" /\ r.key = req[c].key /\ r.emb = e
  BY <1>1 DEF Fields
<1>5. Unread(r, req[c])
  BY <1>1 DEF Fields, Unread
<1>6. Becomes(c, r)
  BY DEF Build
<1> HIDE DEF r, e
<1>7. r.at \in Early /\ req[c].at \in Early
  BY <1>1, <1>4 DEF Early
<1>8. /\ r.emb \in Embedder /\ r.emb.serial <= made + 1 /\ made <= made + 1
      /\ r.key \in Backends \cup {None} /\ made + 1 \in Nat
  BY <1>1, <1>3, <1>4 DEF BaseOK
<1>9. BaseOK(r, made + 1) /\ Read(r)
  BY <1>5, <1>7, <1>8, EarlyMoves
<1>10. UNCHANGED indexing /\ made' \in Nat /\ made <= made' /\ BaseOK(r, made')
  BY <1>1, <1>9
<1>11. RequestsOK'
  BY <1>6, <1>9, <1>10, OneRequest
<1> QED
  BY <1>2, <1>11

LEMMA InsertTyped ==
    ASSUME SearchInv, Numbered, NEW c \in Callers, Insert(c)
    PROVE  StateOK' /\ RequestsOK' /\ Numbered'
<1> DEFINE key  == req[c].key
           kept == Kept(embedders[key], req[c].emb)
           r    == [req[c] EXCEPT !.at = "open", !.emb = kept]
<1>1. /\ BaseOK(req[c], made) /\ DOMAIN req[c] = Fields /\ made \in Nat
      /\ req[c].at = "insert" /\ key \in Backends /\ made' = made
      /\ UNCHANGED <<indexing, health, made>>
      /\ embedders' = [embedders EXCEPT ![key] = kept]
  BY DEF SearchInv, RequestsOK, RequestInv, Shape, Shared, Insert, At, StateOK
<1>2. kept \in Embedder /\ kept.serial <= made
  BY <1>1 DEF SearchInv, StateOK, Numbered, Kept, BaseOK
<1>3. r.at = "open" /\ r.key = key /\ r.emb = kept
  BY <1>1 DEF Fields
<1>4. Unread(r, req[c])
  BY <1>1 DEF Fields, Unread
<1>5. Becomes(c, r)
  BY DEF Insert
<1> HIDE DEF r, kept, key
<1>6. /\ embedders' \in [Backends -> Embedder]
      /\ \A b \in Backends : embedders'[b].serial <= made
  BY <1>1, <1>2 DEF SearchInv, StateOK, Numbered
<1>7. StateOK' /\ Numbered'
  BY <1>1, <1>6 DEF SearchInv, StateOK, indexing, stores, Numbered
<1>8. r.at \in Early /\ req[c].at \in Early
  BY <1>1, <1>3 DEF Early
<1>9. /\ r.emb \in Embedder /\ r.emb.serial <= made /\ made <= made
      /\ r.key \in Backends \cup {None}
  BY <1>1, <1>2, <1>3
<1>10. BaseOK(r, made) /\ Read(r)
  BY <1>1, <1>4, <1>8, <1>9, EarlyMoves
<1>11. UNCHANGED indexing /\ made' \in Nat /\ made <= made' /\ BaseOK(r, made')
  BY <1>1, <1>10
<1>12. RequestsOK'
  BY <1>5, <1>10, <1>11, OneRequest
<1> QED
  BY <1>7, <1>12

(* The searches: the answer depends on the lists alone.                    *)
LEMMA SameAnswer ==
    ASSUME NEW r, NEW q, r.sem = q.sem, r.kw = q.kw, r.ask = q.ask,
           r.mode = q.mode, r.rows = q.rows
    PROVE  Filtered(r) = Filtered(q)
<1>1. \A i : Content(r, i) = Content(q, i)
  BY DEF Content
<1>2. ByRank(r) = ByRank(q)
  BY DEF ByRank
<1>3. Results(r) = Results(q)
  BY <1>1, <1>2 DEF Results
<1> QED
  BY <1>3 DEF Filtered

LEMMA SameLists ==
    ASSUME NEW r, NEW q, r.ask = q.ask, r.mode = q.mode
    PROVE  /\ ListLimit(r) = ListLimit(q)
           /\ r.docs = q.docs => Documents(r) = Documents(q)
BY DEF ListLimit, Documents

LEMMA OpenStoresTyped ==
    ASSUME SearchInv, NEW c \in Callers, OpenStores(c)
    PROVE  StateOK' /\ RequestsOK'
<1> DEFINE fails == ~ModelFits(req[c])
                    \/ (req[c].mode # "semantic" /\ ~searchable)
           r == [req[c] EXCEPT
                    !.docs = IF req[c].mode = "semantic" THEN {} ELSE text,
                    !.at = "vectors"]
<1>1. /\ BaseOK(req[c], made) /\ Read(req[c]) /\ DOMAIN req[c] = Fields
      /\ req[c].at = "open" /\ UNCHANGED <<indexing, caches>> /\ text \subseteq Ids
  BY DEF SearchInv, RequestsOK, RequestInv, Shape, OpenStores, At, StateOK
<1>2. CASE fails
  <2>1. Fail(c) /\ req[c].at # "new"
    BY <1>1, <1>2 DEF OpenStores
  <2> QED BY <1>1, <2>1, Fails
<1>3. CASE ~fails
  <2>1. /\ r.at = "vectors" /\ r.docs \subseteq Ids
        /\ r.mode = req[c].mode /\ r.ask = req[c].ask
        /\ r.key = req[c].key /\ r.space = req[c].space /\ r.emb = req[c].emb
        /\ r.seen = req[c].seen /\ r.rows = req[c].rows
        /\ r.sem = req[c].sem /\ r.kw = req[c].kw /\ r.out = req[c].out
        /\ r.health = req[c].health /\ r.late = req[c].late
        /\ r.count = req[c].count
    BY <1>1 DEF Fields
  <2>2. Becomes(c, r)
    BY <1>3 DEF OpenStores
  <2> HIDE DEF r
  <2>3. BaseOK(r, made)
    BY <1>1, <2>1 DEF BaseOK, Places
  <2>4. Read(r)
    BY <1>1, <2>1 DEF Read, Listing, Listing2
  <2> QED BY <1>1, <2>2, <2>3, <2>4, Moves
<1> QED
  BY <1>2, <1>3

LEMMA SearchTierTyped ==
    ASSUME SearchInv, NEW c \in Callers, SearchTier(c)
    PROVE  StateOK' /\ RequestsOK'
<1> DEFINE asked == [req[c] EXCEPT !.docs = text]
           found == [asked EXCEPT
                        !.kw = First(ListLimit(asked), Documents(asked))]
           r == [found EXCEPT !.out = Filtered(found), !.at = "health"]
<1>1. /\ BaseOK(req[c], made) /\ Read(req[c]) /\ DOMAIN req[c] = Fields
      /\ req[c].at = "tier" /\ UNCHANGED <<indexing, caches>> /\ text \subseteq Ids
  BY DEF SearchInv, RequestsOK, RequestInv, Shape, SearchTier, At, StateOK
<1>2. CASE ~searchable \/ ~req[c].ask.parses
  <2>1. Fail(c) /\ req[c].at # "new"
    BY <1>1, <1>2 DEF SearchTier
  <2> QED BY <1>1, <2>1, Fails
<1>3. CASE ~(~searchable \/ ~req[c].ask.parses)
  <2>1. /\ asked.docs = text /\ asked.mode = req[c].mode /\ asked.ask = req[c].ask
        /\ DOMAIN asked = Fields
    BY <1>1 DEF Fields
  <2>2. /\ found.kw = First(ListLimit(asked), Documents(asked))
        /\ found.docs = text /\ found.mode = req[c].mode /\ found.ask = req[c].ask
        /\ found.sem = req[c].sem /\ found.rows = req[c].rows
        /\ DOMAIN found = Fields
    BY <1>1 DEF Fields
  <2>3. /\ r.at = "health" /\ r.out = Filtered(found)
        /\ r.kw = found.kw /\ r.docs = text
        /\ r.mode = req[c].mode /\ r.ask = req[c].ask
        /\ r.key = req[c].key /\ r.space = req[c].space /\ r.emb = req[c].emb
        /\ r.seen = req[c].seen /\ r.rows = req[c].rows
        /\ r.sem = req[c].sem
        /\ r.health = req[c].health /\ r.late = req[c].late
        /\ r.count = req[c].count
    BY <1>1 DEF Fields
  <2>4. Becomes(c, r)
    BY <1>3 DEF SearchTier
  <2> HIDE DEF r, found, asked
  <2>5. BaseOK(r, made)
    BY <1>1, <2>3 DEF BaseOK, Places
  <2>6. r.out = Filtered(r)
    BY <2>2, <2>3, SameAnswer
  <2>7. r.kw = First(ListLimit(r), Documents(r))
    <3>1. ListLimit(r) = ListLimit(asked) /\ Documents(r) = Documents(asked)
      BY <2>1, <2>3, SameLists
    <3> QED BY <2>2, <2>3, <3>1
  <2>8. r.mode = "tier" /\ r.sem = <<>> /\ r.rows = {}
    BY <1>1, <2>3 DEF Read, Listing, InSeq
  <2>9. FromStores(r)
    BY <2>7, <2>8 DEF FromStores
  <2>10. Read(r)
    BY <2>3, <2>6, <2>8, <2>9 DEF Read, Listing, Listing2
  <2> QED BY <1>1, <2>4, <2>5, <2>10, Moves
<1> QED
  BY <1>2, <1>3

LEMMA SearchVectorsTyped ==
    ASSUME SearchInv, NEW c \in Callers, SearchVectors(c)
    PROVE  StateOK' /\ RequestsOK'
<1> DEFINE sem == IF req[c].mode = "keyword" THEN <<>>
                  ELSE First(ListLimit(req[c]), Nearest(vec, req[c].ask))
           kw == IF req[c].mode = "semantic" THEN <<>>
                 ELSE First(ListLimit(req[c]), Documents(req[c]))
           r == [req[c] EXCEPT
                    !.sem = sem, !.kw = kw,
                    !.space = IF req[c].mode = "keyword" THEN None ELSE meta,
                    !.seen = IF req[c].mode = "keyword" THEN {} ELSE vec,
                    !.at = "hydrate"]
<1>1. /\ BaseOK(req[c], made) /\ Read(req[c]) /\ DOMAIN req[c] = Fields
      /\ req[c].at = "vectors" /\ UNCHANGED <<indexing, caches>> /\ vec \subseteq Ids
      /\ meta \in Backends \cup {None}
  BY DEF SearchInv, RequestsOK, RequestInv, Shape, SearchVectors, At, StateOK
<1>2. Becomes(c, r)
  BY DEF SearchVectors
<1> HIDE DEF sem, kw
<1>3. /\ r.at = "hydrate" /\ r.sem = sem /\ r.kw = kw
      /\ r.space = IF req[c].mode = "keyword" THEN None ELSE meta
      /\ r.seen = IF req[c].mode = "keyword" THEN {} ELSE vec
      /\ r.mode = req[c].mode /\ r.ask = req[c].ask
      /\ r.key = req[c].key /\ r.emb = req[c].emb /\ r.docs = req[c].docs
      /\ r.rows = req[c].rows /\ r.out = req[c].out
      /\ r.health = req[c].health /\ r.late = req[c].late
      /\ r.count = req[c].count
  BY <1>1 DEF Fields
<1> HIDE DEF r
<1>4. r.seen \subseteq Ids /\ r.space \in Backends \cup {None}
  BY <1>1, <1>3
<1>5. BaseOK(r, made)
  BY <1>1, <1>3, <1>4 DEF BaseOK, Places
<1>6. r.mode \in ModesOfSearch /\ r.rows = {} /\ r.out = <<>>
  BY <1>1, <1>3 DEF Read, Listing, Listing2, InSeq
<1>7. ListLimit(r) = ListLimit(req[c]) /\ Documents(r) = Documents(req[c])
  BY <1>3, SameLists
<1>8. FromStores(r)
  <2>1. r.sem = IF r.mode \in {"hybrid", "semantic"}
                THEN First(ListLimit(r), Nearest(r.seen, r.ask)) ELSE <<>>
    BY <1>3, <1>6, <1>7 DEF sem, ModesOfSearch
  <2>2. r.kw = IF r.mode = "semantic" THEN <<>> ELSE First(ListLimit(r), Documents(r))
    BY <1>3, <1>7 DEF kw
  <2> QED BY <2>1, <2>2 DEF FromStores
<1>9. Read(r)
  BY <1>3, <1>6, <1>8 DEF Read, Listing, Listing2
<1> QED
  BY <1>1, <1>2, <1>5, <1>9, Moves

LEMMA HydrateTyped ==
    ASSUME SearchInv, NEW c \in Callers, Hydrate(c)
    PROVE  StateOK' /\ RequestsOK'
<1> DEFINE read == [req[c] EXCEPT !.rows = ChunksByIds(InSeq(req[c].kw))]
           r == [read EXCEPT !.out = Filtered(read), !.at = "health"]
<1>1. /\ BaseOK(req[c], made) /\ Read(req[c]) /\ DOMAIN req[c] = Fields
      /\ req[c].at = "hydrate" /\ UNCHANGED <<indexing, caches>>
  BY DEF SearchInv, RequestsOK, RequestInv, Shape, Hydrate, At
<1>2. Becomes(c, r)
  BY DEF Hydrate
<1>3. /\ read.rows = ChunksByIds(InSeq(req[c].kw)) /\ read.sem = req[c].sem
      /\ read.kw = req[c].kw /\ read.ask = req[c].ask /\ read.mode = req[c].mode
      /\ DOMAIN read = Fields
  BY <1>1 DEF Fields
<1>4. /\ r.at = "health" /\ r.out = Filtered(read) /\ r.rows = read.rows
      /\ r.sem = req[c].sem /\ r.kw = req[c].kw
      /\ r.mode = req[c].mode /\ r.ask = req[c].ask
      /\ r.key = req[c].key /\ r.space = req[c].space /\ r.emb = req[c].emb
      /\ r.docs = req[c].docs /\ r.seen = req[c].seen
      /\ r.health = req[c].health /\ r.late = req[c].late
      /\ r.count = req[c].count
  BY <1>1 DEF Fields
<1> HIDE DEF r, read
<1>5. BaseOK(r, made)
  BY <1>1, <1>4 DEF BaseOK, Places
<1>6. r.out = Filtered(r)
  BY <1>3, <1>4, SameAnswer
<1>7. r.rows \subseteq InSeq(r.kw)
  BY <1>3, <1>4 DEF ChunksByIds
<1>8. FromStores(r)
  <2>1. ListLimit(r) = ListLimit(req[c]) /\ Documents(r) = Documents(req[c])
    BY <1>4, SameLists
  <2>2. FromStores(req[c])
    BY <1>1 DEF Read, Listing
  <2> QED BY <1>4, <2>1, <2>2 DEF FromStores
<1>9. Read(r)
  BY <1>4, <1>6, <1>7, <1>8 DEF Read, Listing, Listing2
<1> QED
  BY <1>1, <1>2, <1>5, <1>9, Moves

LEMMA SearchFailsTyped ==
    ASSUME SearchInv, NEW c \in Callers, SearchFails(c)
    PROVE  StateOK' /\ RequestsOK'
<1>1. req[c].at # "new" /\ Fail(c) /\ UNCHANGED <<indexing, caches>>
  BY DEF SearchFails
<1> QED
  BY <1>1, Fails

(* The health: an answer is over, and a coverage is at most 100 %.         *)
LEMMA AnswerTyped ==
    ASSUME SearchInv, NEW c \in Callers, req[c].at # "new", NEW h \in Health
    PROVE  BaseOK(Answer(req[c], h), made) /\ Read(Answer(req[c], h))
<1> DEFINE g == IF req[c].mode = "tier" THEN [h EXCEPT !.status = "partial"] ELSE h
<1>1. g \in Health
  BY DEF Health
<1>2. Answer(req[c], h) = Over(req[c], "answered", g)
  BY DEF Answer
<1> HIDE DEF g
<1>3. made \in Nat
  BY DEF SearchInv, StateOK
<1> QED
  BY <1>1, <1>2, <1>3, OverTyped

LEMMA HealthHitTyped ==
    ASSUME SearchInv, NEW c \in Callers, HealthHit(c)
    PROVE  StateOK' /\ RequestsOK'
<1>1. PICK entry \in health : Becomes(c, Answer(req[c], entry.value))
  BY DEF HealthHit
<1>2. entry.value \in Health /\ req[c].at # "new" /\ UNCHANGED <<indexing, caches>>
  BY DEF SearchInv, StateOK, HealthHit, At
<1> DEFINE r == Answer(req[c], entry.value)
<1>3. BaseOK(r, made) /\ Read(r)
  BY <1>2, AnswerTyped
<1>4. Becomes(c, r)
  BY <1>1
<1> HIDE DEF r
<1> QED
  BY <1>2, <1>3, <1>4, Moves

LEMMA CountFilesTyped ==
    ASSUME SearchInv, NEW c \in Callers, CountFiles(c)
    PROVE  StateOK' /\ RequestsOK'
<1> DEFINE r == [req[c] EXCEPT !.at = "counted", !.count = CountNow]
<1>1. /\ BaseOK(req[c], made) /\ Read(req[c]) /\ DOMAIN req[c] = Fields
      /\ req[c].at = "health" /\ UNCHANGED <<indexing, caches>>
  BY DEF SearchInv, RequestsOK, RequestInv, Shape, CountFiles, At
<1>2. Becomes(c, r)
  BY DEF CountFiles, CountNow
<1>3. /\ r.at = "counted" /\ r.count = CountNow
      /\ r.mode = req[c].mode /\ r.ask = req[c].ask
      /\ r.key = req[c].key /\ r.space = req[c].space /\ r.emb = req[c].emb
      /\ r.docs = req[c].docs /\ r.seen = req[c].seen /\ r.rows = req[c].rows
      /\ r.sem = req[c].sem /\ r.kw = req[c].kw /\ r.out = req[c].out
      /\ r.health = req[c].health /\ r.late = req[c].late
  BY <1>1 DEF Fields
<1> HIDE DEF r
<1>4. /\ \A part \in {CountNow.known, CountNow.done} : part \subseteq CountNow.files
      /\ CountNow.files \subseteq Files
  BY DEF CountNow
<1>5. BaseOK(r, made)
  BY <1>1, <1>3, <1>4 DEF BaseOK, Places
<1>6. Read(r)
  <2>1. /\ ListLimit(r) = ListLimit(req[c]) /\ Documents(r) = Documents(req[c])
        /\ Filtered(r) = Filtered(req[c])
    BY <1>3, SameLists, SameAnswer
  <2>2. FromStores(r)
    BY <1>1, <1>3, <2>1 DEF Read, Listing, FromStores
  <2> QED BY <1>1, <1>3, <2>1, <2>2 DEF Read, Listing, Listing2
<1> QED
  BY <1>1, <1>2, <1>5, <1>6, Moves

(* A step that leaves the lists and the answer and goes on to "put".       *)
LEMMA PutsTyped ==
    ASSUME SearchInv, NEW c \in Callers, req[c].at \in {"health", "counted"},
           NEW h \in Health, UNCHANGED <<indexing, caches>>,
           Becomes(c, [req[c] EXCEPT !.at = "put", !.health = h])
    PROVE  StateOK' /\ RequestsOK'
<1> DEFINE r == [req[c] EXCEPT !.at = "put", !.health = h]
<1>1. BaseOK(req[c], made) /\ Read(req[c]) /\ DOMAIN req[c] = Fields
  BY DEF SearchInv, RequestsOK, RequestInv, Shape
<1>2. /\ r.at = "put" /\ r.health = h /\ r.count = req[c].count
      /\ r.mode = req[c].mode /\ r.ask = req[c].ask
      /\ r.key = req[c].key /\ r.space = req[c].space /\ r.emb = req[c].emb
      /\ r.docs = req[c].docs /\ r.seen = req[c].seen /\ r.rows = req[c].rows
      /\ r.sem = req[c].sem /\ r.kw = req[c].kw /\ r.out = req[c].out
      /\ r.late = req[c].late
  BY <1>1 DEF Fields
<1>3. Becomes(c, r)
  OBVIOUS
<1> HIDE DEF r
<1>4. BaseOK(r, made)
  BY <1>1, <1>2 DEF BaseOK, Places
<1>5. Read(r)
  <2>1. /\ ListLimit(r) = ListLimit(req[c]) /\ Documents(r) = Documents(req[c])
        /\ Filtered(r) = Filtered(req[c])
    BY <1>2, SameLists, SameAnswer
  <2>2. FromStores(r)
    BY <1>1, <1>2, <2>1 DEF Read, Listing, FromStores
  <2> QED BY <1>1, <1>2, <2>1, <2>2 DEF Read, Listing, Listing2
<1> QED
  BY <1>3, <1>4, <1>5, Moves

LEMMA TenthsBounded ==
    ASSUME NEW n \in Nat, NEW m \in Nat, m > 0, n <= m
    PROVE  Tenths(n, m) \in 0..1000
<1> DEFINE a == 2000 * n + m
           b == 2 * m
           q == a \div b
<1>1. a \in Nat /\ b \in Nat /\ b > 0 /\ a <= 2001 * m
  OBVIOUS
<1>2. q \in Int /\ b * q <= a /\ a < b * (q + 1)
  BY <1>1, Z3
<1>3. q >= 0
  <2> HIDE DEF a, b, q
  <2>1. ASSUME q <= -1 PROVE FALSE
    <3>1. b * (q + 1) <= 0
      BY <1>1, <1>2, <2>1, Z3
    <3> QED BY <1>1, <1>2, <3>1
  <2> QED BY <1>2, <2>1
<1>4. q <= 1000
  <2>1. ASSUME q >= 1001 PROVE FALSE
    <3> HIDE DEF q
    <3>1. b * 1001 <= b * q
      BY <1>1, <1>2, <2>1, Z3
    <3>2. b * 1001 = 2002 * m
      OBVIOUS
    <3> QED BY <1>1, <1>2, <3>1, <3>2
  <2> QED BY <1>2, <2>1
<1> QED
  BY <1>2, <1>3, <1>4 DEF Tenths

LEMMA HealthOfTyped ==
    ASSUME NEW count, NEW t \in BOOLEAN, count.files \subseteq Files,
           count.done \subseteq count.files
    PROVE  HealthOf(count, t) \in Health
<1> DEFINE n == Cardinality(count.done)
           m == Cardinality(count.files)
<1>1. CASE count.files = {}
  BY <1>1 DEF HealthOf, Health
<1>2. CASE count.files # {}
  <2>1. IsFiniteSet(count.files)
    BY FS_Subset, SearchAssumption
  <2>2. n \in Nat /\ m \in Nat /\ n <= m
    BY <2>1, FS_Subset, FS_CardinalityType
  <2>3. m # 0
    BY <1>2, <2>1, FS_EmptySet
  <2> HIDE DEF n, m
  <2>4. m > 0
    BY <2>2, <2>3
  <2>7. Tenths(n, m) \in 0..1000
    BY ZenonT(60), <2>2, <2>4, TenthsBounded
  <2>5. Coverage(n, m, t) \in 0..1000
    BY <2>7 DEF Coverage, Least
  <2> HIDE DEF Coverage
  <2>6. HealthOf(count, t) =
           [status |-> IF count.done = count.files /\ t THEN "full"
                       ELSE IF count.known # {} THEN "partial" ELSE "empty",
            tenths |-> Coverage(n, m, t)]
    BY <1>2 DEF HealthOf, n, m
  <2> QED BY <2>5, <2>6 DEF Health
<1> QED
  BY <1>1, <1>2

LEMMA ReadReadyTyped ==
    ASSUME SearchInv, NEW c \in Callers, ReadReady(c)
    PROVE  StateOK' /\ RequestsOK'
<1>1. /\ req[c].at = "counted" /\ UNCHANGED <<indexing, caches>>
      /\ (searchable /\ ready) \in BOOLEAN
      /\ req[c].count.files \subseteq Files
      /\ req[c].count.done \subseteq req[c].count.files
  BY DEF SearchInv, RequestsOK, BaseOK, ReadReady, At, StateOK
<1> DEFINE h == HealthOf(req[c].count, searchable /\ ready)
<1>2. h \in Health
  BY <1>1, HealthOfTyped
<1>3. Becomes(c, [req[c] EXCEPT !.at = "put", !.health = h])
  BY DEF ReadReady
<1> HIDE DEF h
<1> QED
  BY <1>1, <1>2, <1>3, PutsTyped

LEMMA CountFailsTyped ==
    ASSUME SearchInv, NEW c \in Callers, CountFails(c)
    PROVE  StateOK' /\ RequestsOK'
<1>1. NoHealth \in Health
  BY DEF NoHealth, Health
<1>2. /\ req[c].at = "health" /\ UNCHANGED <<indexing, caches>>
      /\ Becomes(c, [req[c] EXCEPT !.at = "put", !.health = NoHealth])
  BY DEF CountFails, At
<1> QED
  BY <1>1, <1>2, PutsTyped

LEMMA PutHealthTyped ==
    ASSUME SearchInv, NEW c \in Callers, PutHealth(c)
    PROVE  StateOK' /\ RequestsOK'
<1> DEFINE h == req[c].health
           r == Answer(req[c], h)
<1>1. /\ h \in Health /\ req[c].late \in BOOLEAN /\ req[c].at # "new"
      /\ UNCHANGED <<indexing, embedders, made>> /\ made \in Nat
      /\ health' = {[value |-> h, late |-> req[c].late]} /\ Becomes(c, r)
  BY DEF SearchInv, RequestsOK, BaseOK, StateOK, PutHealth, At
<1>2. BaseOK(r, made) /\ Read(r)
  BY <1>1, AnswerTyped
<1> HIDE DEF r, h
<1>3. UNCHANGED indexing /\ made' \in Nat /\ made <= made' /\ BaseOK(r, made')
  BY <1>1, <1>2
<1>4. RequestsOK'
  BY <1>1, <1>2, <1>3, OneRequest
<1>5. Cardinality(health') = 1
  BY <1>1, FS_Singleton
<1>6. health' \subseteq [value : Health, late : BOOLEAN]
  BY <1>1
<1>7. StateOK'
  BY <1>1, <1>5, <1>6 DEF SearchInv, StateOK, indexing, stores
<1> QED
  BY <1>4, <1>7

LEMMA RequestTyped ==
    ASSUME SearchInv, Numbered, NEW c \in Callers, Request(c)
    PROVE  StateOK' /\ RequestsOK' /\ Numbered'
<1> USE DEF Numbered
<1>1. CASE \E a \in world.asks : Ask(c, a)
  BY <1>1, AskTyped DEF Ask, caches
<1>2. CASE Route(c)
  BY <1>2, RouteTyped DEF Route, caches
<1>3. CASE ApplyBackend(c)
  BY <1>3, ApplyBackendTyped DEF ApplyBackend, caches
<1>4. CASE Lookup(c)
  BY <1>4, LookupTyped DEF Lookup, caches
<1>5. CASE \E b \in Backends : Build(c, b)
  <2>1. PICK b \in Backends : Build(c, b)
    BY <1>5
  <2>2. /\ embedders \in [Backends -> Embedder] /\ made \in Nat
        /\ embedders' = embedders /\ made' = made + 1
    BY <2>1 DEF SearchInv, StateOK, Build
  <2>3. ASSUME NEW e \in Backends PROVE embedders'[e].serial <= made'
    <3>1. embedders[e].serial \in Nat
      BY <2>2 DEF Embedder
    <3> QED BY <2>2, <3>1
  <2> QED BY <2>1, <2>3, BuildTyped
<1>6. CASE Insert(c)
  BY <1>6, InsertTyped
<1>7. CASE OpenStores(c)
  BY <1>7, OpenStoresTyped DEF OpenStores, caches
<1>8. CASE SearchTier(c)
  BY <1>8, SearchTierTyped DEF SearchTier, caches
<1>9. CASE SearchVectors(c)
  BY <1>9, SearchVectorsTyped DEF SearchVectors, caches
<1>10. CASE Hydrate(c)
  BY <1>10, HydrateTyped DEF Hydrate, caches
<1>11. CASE SearchFails(c)
  BY <1>11, SearchFailsTyped DEF SearchFails, caches
<1>12. CASE HealthHit(c)
  BY <1>12, HealthHitTyped DEF HealthHit, caches
<1>13. CASE CountFiles(c)
  BY <1>13, CountFilesTyped DEF CountFiles, caches
<1>14. CASE ReadReady(c)
  BY <1>14, ReadReadyTyped DEF ReadReady, caches
<1>15. CASE CountFails(c)
  BY <1>15, CountFailsTyped DEF CountFails, caches
<1>16. CASE PutHealth(c)
  BY <1>16, PutHealthTyped DEF PutHealth
<1> QED
  BY <1>1, <1>2, <1>3, <1>4, <1>5, <1>6, <1>7, <1>8, <1>9, <1>10, <1>11,
     <1>12, <1>13, <1>14, <1>15, <1>16 DEF Request

(* The index calls leave the requests alone.                               *)
LEMMA RequestsStay ==
    ASSUME RequestsOK, UNCHANGED <<world, req, made>>
    PROVE  RequestsOK'
BY ZenonT(60) DEF RequestsOK, BaseOK, Read, FromStores, Nearest, Documents, Found

LEMMA ClearHealthTyped ==
    ASSUME SearchInv, ClearHealth
    PROVE  StateOK' /\ RequestsOK'
<1> DEFINE r(c) == [req[c] EXCEPT !.late = @ \/ req[c].at \in Counting]
<1>1. /\ req' = [c \in Callers |-> r(c)] /\ world' = world /\ made' = made
      /\ health' = {} /\ UNCHANGED <<stores, phase, budget, embedders>>
      /\ call' = "idle" /\ settled' = TRUE
  BY DEF ClearHealth
<1>2. ASSUME NEW c \in Callers PROVE (BaseOK(req[c], made) /\ Read(req[c]))'
  <2> DEFINE q == req[c]
             p == req'[c]
  <2>1. BaseOK(q, made) /\ Read(q) /\ DOMAIN q = Fields
    BY DEF SearchInv, RequestsOK, RequestInv, Shape
  <2>2. p = r(c)
    BY <1>1
  <2>3. p.late = (q.late \/ q.at \in Counting)
    BY <2>1, <2>2 DEF Fields
  <2>4. /\ p.at = q.at /\ p.health = q.health /\ p.count = q.count
        /\ p.mode = q.mode /\ p.ask = q.ask /\ p.key = q.key
        /\ p.space = q.space /\ p.emb = q.emb /\ p.docs = q.docs
        /\ p.seen = q.seen /\ p.rows = q.rows /\ p.sem = q.sem /\ p.kw = q.kw
        /\ p.out = q.out
    BY <2>1, <2>2 DEF Fields
  <2>5. p.late \in BOOLEAN
    BY <2>3
  <2> HIDE DEF p, q
  <2>6. BaseOK(p, made)
    BY <2>1, <2>4, <2>5 DEF BaseOK
  <2>7. Read(p)
    <3>1. /\ ListLimit(p) = ListLimit(q) /\ Documents(p) = Documents(q)
          /\ Filtered(p) = Filtered(q)
      BY <2>4, SameLists, SameAnswer
    <3>2. FromStores(p) <=> FromStores(q)
      BY <2>4, <3>1 DEF FromStores
    <3> QED BY <2>1, <2>4, <3>1, <3>2 DEF Read
  <2> QED
    BY <1>1, <2>6, <2>7
       DEF BaseOK, Read, FromStores, Nearest, Documents, Found, p
<1>3. RequestsOK'
  BY <1>2 DEF RequestsOK
<1>4. Cardinality({}) = 0
  BY FS_EmptySet
<1>5. StateOK'
  BY <1>1, <1>4 DEF SearchInv, StateOK, stores
<1> QED
  BY <1>3, <1>5

LEMMA IndexingTyped ==
    ASSUME SearchInv, Numbered, Indexing
    PROVE  StateOK' /\ RequestsOK' /\ Numbered'
<1> USE DEF Numbered
<1>1. /\ world \in Worlds /\ world.trees \subseteq SUBSET Ids /\ StateOK /\ RequestsOK
  BY WorldsAssumption DEF SearchInv, StateOK
<1>2. \A f \in Files : Tree(f) \subseteq Ids
  BY <1>1 DEF StateOK, Tree
<1>3. CASE \E t \in world.trees : Edit(t)
  <2>1. PICK t \in world.trees : Edit(t)
    BY <1>3
  <2>2. tree' \subseteq Ids
    BY <1>1, <2>1 DEF Edit
  <2>3. mark' \in [Files -> {"unknown", "pending", "indexed"}]
    BY <1>1, <2>1 DEF Edit, StateOK
  <2>4. budget' \in [calls : Nat, edits : Nat, deletes : Nat]
    BY <1>1, <2>1 DEF Edit, StateOK, Spend
  <2> QED
    BY <1>1, <2>1, <2>2, <2>3, <2>4, RequestsStay DEF Edit, StateOK, caches
<1>4. CASE \E b \in Backends : BeginCall(b)
  <2>1. PICK b \in Backends : BeginCall(b)
    BY <1>4
  <2>2. budget' \in [calls : Nat, edits : Nat, deletes : Nat]
    BY <1>1, <2>1 DEF BeginCall, StateOK, Spend
  <2> QED BY <1>1, <2>1, <2>2, RequestsStay DEF BeginCall, StateOK, caches
<1>5. CASE \E f \in Files : StoreRows(f)
  BY <1>1, <1>2, <1>5, RequestsStay DEF StoreRows, StateOK, caches
<1>6. CASE \E f \in Files : CommitText(f)
  BY <1>1, <1>2, <1>6, RequestsStay DEF CommitText, StateOK, caches
<1>7. CASE \E f \in Files : MarkIndexed(f)
  BY <1>1, <1>7, RequestsStay DEF MarkIndexed, StateOK, caches
<1>8. CASE EndCall
  BY <1>1, <1>8, RequestsStay DEF EndCall, StateOK, caches
<1>9. CASE CallFails
  BY <1>1, <1>9, RequestsStay DEF CallFails, DiskPhases, StateOK, caches, stores
<1>10. CASE ClearHealth
  <2>1. embedders' = embedders /\ made' = made
    BY <1>10 DEF ClearHealth
  <2> QED BY <1>10, <2>1, ClearHealthTyped
<1>11. CASE DeleteStore
  <2>1. budget' \in [calls : Nat, edits : Nat, deletes : Nat]
    BY <1>1, <1>11 DEF DeleteStore, StateOK, Spend
  <2> QED BY <1>1, <1>11, <2>1, RequestsStay DEF DeleteStore, StateOK, caches
<1> QED
  BY <1>3, <1>4, <1>5, <1>6, <1>7, <1>8, <1>9, <1>10, <1>11 DEF Indexing

(* Every reachable state: the types, the embedders by number, and what     *)
(* each request holds of the lists is what it read from the stores, and    *)
(* its answer what the search makes of them.                               *)
THEOREM ListsAreRead == Spec => [](SearchInv /\ Numbered)
<1>1. Init => SearchInv /\ Numbered
  <2>1. Init => Numbered
    BY DEF Init, Numbered, NoEmbedder
  <2> QED BY <2>1, InitSearchInv
<1>2. SearchInv /\ Numbered /\ RequestInv' /\ [Next]_vars => (SearchInv /\ Numbered)'
  <2> SUFFICES ASSUME SearchInv, Numbered, RequestInv', [Next]_vars
               PROVE  StateOK' /\ RequestsOK' /\ Numbered'
    BY DEF SearchInv
  <2>1. CASE Indexing
    BY <2>1, IndexingTyped
  <2>2. CASE \E c \in Callers : Request(c)
    BY <2>2, RequestTyped
  <2>3. CASE HealthExpires
    <3>1. /\ UNCHANGED <<indexing, req, embedders, made>> /\ health' = {}
          /\ Cardinality({}) = 0
      BY <2>3, FS_EmptySet DEF HealthExpires
    <3>2. StateOK'
      BY <3>1 DEF SearchInv, StateOK, indexing, stores
    <3>3. RequestsOK'
      BY <3>1, RequestsStay DEF SearchInv, indexing
    <3> QED BY <3>1, <3>2, <3>3 DEF Numbered
  <2>4. CASE UNCHANGED vars
    <3>1. UNCHANGED <<indexing, req, embedders, health, made>>
      BY <2>4 DEF vars, caches
    <3>2. StateOK'
      BY <3>1 DEF SearchInv, StateOK, indexing, stores
    <3>3. RequestsOK'
      BY <3>1, RequestsStay DEF SearchInv, indexing
    <3> QED BY <3>1, <3>2, <3>3 DEF Numbered
  <2> QED
    BY <2>1, <2>2, <2>3, <2>4 DEF Next
<1> QED
  BY <1>1, <1>2, SearchInvariant, PTL DEF Spec

(* Every variable keeps its type, a request carries no list longer than    *)
(* the candidates of its mode, and no health it answers exceeds 100 %.     *)
THEOREM SearchIsTyped == Spec => []SearchTypeOK
<1>1. SearchInv => SearchTypeOK
  <2> SUFFICES ASSUME SearchInv PROVE SearchTypeOK
    OBVIOUS
  <2>1. \A c \in Callers : RequestOK(req[c])
    BY ReadTyped DEF SearchInv, RequestsOK, StateOK
  <2> QED BY <2>1 DEF SearchInv, StateOK, SearchTypeOK
<1> QED
  BY <1>1, ListsAreRead, PTL

(* Whatever is indexed, deleted and edited meanwhile, the answer of a      *)
(* search is made of the lists it read: in their order, without a double   *)
(* in the hybrid search, of the wanted extensions only, and with nothing   *)
(* better left out, for every constant k, weight, limit and question.      *)
THEOREM AnswersAreRanked == Spec => []RankedWell
<1>1. SearchInv => RankedWell
  <2> SUFFICES ASSUME SearchInv, NEW c \in Callers,
                      req[c].at \in {"health", "counted", "put"}
               PROVE  Ranked(req[c])
    BY DEF RankedWell
  <2> QED BY ReadRanked DEF SearchInv, RequestsOK, StateOK
<1> QED
  BY <1>1, ListsAreRead, PTL
=============================================================================
