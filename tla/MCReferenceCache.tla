--------------------------- MODULE MCReferenceCache ---------------------------
(* Small instances of ReferenceCache: two assets that one message shows,   *)
(* and two processes.  Beside them queries, on a manifest of their own,    *)
(* over three images with limits of one and two, candidates not multiplied *)
(* and a cap of two rows, so that every buffer overflows.                  *)
EXTENDS ReferenceCache, TLC, ImageQuery

CONSTANTS a1, a2, t1, p1, p2

MCAssets == {a1, a2}
MCTables == {t1}
MCProcs == {p1, p2}
MCChatTables == {<<1, t1>>}
MCMessages == {<<1, t1, 1>>}
MCPlain == {<<1, t1, 1, a1>>, <<1, t1, 1, a2>>}
MCForwarded == {}
MCSymmetry == Permutations(MCProcs) \cup Permutations(MCAssets)

MCVector(score, same, model) == [score |-> score, sameBucket |-> same, model |-> model]

MCUnknown ==
  [stale |-> FALSE, sameBytes |-> FALSE, algo |-> "new", hash |-> None, tile |-> None,
   matched |-> 0, sscd |-> {}, clip |-> {}]

MCHashed(alg, hash, tile, matched) ==
  [MCUnknown EXCEPT !.algo = alg, !.hash = hash, !.tile = tile, !.matched = matched]

MCResembling == [MCHashed("new", 4, 2, 2) EXCEPT !.clip = {MCVector(900, TRUE, 1)}]

MCImages ==
  {[MCHashed("new", 0, 0, 9) EXCEPT !.sameBytes = TRUE, !.sscd = {MCVector(1600, TRUE, 1)},
                                    !.clip = {MCVector(1600, TRUE, 1)}],
   [MCHashed("legacy", 0, None, 0) EXCEPT !.sameBytes = TRUE],
   MCResembling,
   [MCHashed("new", 8, 3, 9) EXCEPT !.sscd = {MCVector(1500, TRUE, 1), MCVector(1400, FALSE, 2)}],
   [MCHashed("legacy", 2, None, 0) EXCEPT !.sscd = {MCVector(1500, FALSE, 1)},
                           !.clip = {MCVector(800, TRUE, 1), MCVector(1000, TRUE, 2)}],
   [MCHashed("new", 1, 1, 1) EXCEPT !.stale = TRUE, !.sameBytes = TRUE,
                                    !.sscd = {MCVector(1550, TRUE, 1)}]}

MCAsked ==
  [mode : {"exact", "near", "patch", "screenshot", "strict", "recall", "copy", "semantic"},
   limit : 1 .. 2, fast : BOOLEAN, upload : BOOLEAN,
   has : {{"sscd", "hash", "tiles", "clip"}, {"hash", "tiles"}}]

NoQuery ==
  /\ images = [p \in ImagePaths |-> MCResembling]
  /\ query = [mode |-> "exact", limit |-> 1, fast |-> FALSE, upload |-> TRUE,
               has |-> {"hash", "tiles"}]

VARIABLE part  \* what is explored

cachesVars == <<cacheVars, queryVars, part>>

CachesInit ==
  /\ part \in {"cache", "query"}
  /\ part = "cache" => NoQuery
  /\ CacheInit /\ QueryInit
  /\ part = "query" => /\ grouping = "current" /\ Present(occ) = {}
                       /\ \A a \in Assets : groups[a] = a

CachesNext ==
  /\ \/ part = "cache" /\ CacheNext /\ UNCHANGED queryVars
     \/ part = "query" /\ QueryNext /\ UNCHANGED cacheVars
     \/ part = "query" /\ tier = "done" /\ UNCHANGED <<cacheVars, queryVars>>
  /\ UNCHANGED part

CachesSpec == CachesInit /\ [][CachesNext]_cachesVars
=============================================================================
