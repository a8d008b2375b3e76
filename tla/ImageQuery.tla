----------------------------- MODULE ImageQuery -----------------------------
(***************************************************************************)
(* image_index.rs: query_indexed_asset (an image of the index is asked     *)
(* for) and query_image_inner (an uploaded one).  A query goes through     *)
(* tiers, each an index over the same images: equal bytes, SSCD vectors,   *)
(* perceptual hashes, hashes of tiles, CLIP vectors.  A tier keeps its     *)
(* best candidates while rows come in an order nobody fixed, and gives     *)
(* them to one buffer of results; tiers that cannot change the buffer any  *)
(* more are passed over.                                                   *)
(*                                                                         *)
(* Paths are numbers in the order of the paths.  Vectors and hashes are    *)
(* known by their score or distance to the query; scores are integers,     *)
(* 1600 for 1.0, so that a bit of hash distance is 25, a matched tile 16.  *)
(***************************************************************************)
EXTENDS Integers, Sequences, FiniteSets, SequencesExt, FiniteSetsExt

CONSTANTS
  Images,    \* what may be known of an image
  MaxPath,   \* number of images
  Asked,     \* what may be known of the query, its mode and limit included
  Factor,    \* QUERY_CANDIDATE_MULTIPLIER
  ScanCap    \* FAST_SEMANTIC_VECTOR_SCAN_CAP

ImagePaths == 1 .. MaxPath
Algos == {"new", "legacy"}
None  == -1

\* Rows of image_embeddings; several model keys may stand for one model.
IsVector(v) == v.score \in Nat /\ v.sameBucket \in BOOLEAN /\ v.model \in Nat

ASSUME QueryAssumption ==
  /\ {MaxPath, Factor, ScanCap} \subseteq Nat \ {0}
  /\ \A i \in Images :
       /\ {i.stale, i.sameBytes} \subseteq BOOLEAN
       /\ i.algo \in Algos /\ {i.hash, i.tile} \subseteq 0 .. 64 \cup {None}
       /\ i.matched \in Nat
       /\ \A v \in i.sscd \cup i.clip : IsVector(v)
  /\ \A a \in Asked :
       /\ a.mode \in {"exact", "near", "patch", "screenshot", "strict", "recall",
                      "copy", "semantic", "all"}
       /\ a.limit \in Nat \ {0} /\ {a.fast, a.upload} \subseteq BOOLEAN
       /\ a.has \subseteq {"sscd", "hash", "tiles", "clip"}

VARIABLES
  images,   \* path -> what the manifest knows of the image
  query,    \* the query
  print,    \* fingerprint: "bytes" for the SHA only, "hit", "stored", "full"
  algo,     \* phash_algo of the fingerprint
  tier,     \* the tier at work
  open,     \* whether the rows of the tier are being read
  left,     \* those not read yet
  top,      \* the best candidates of the tier, best first
  results   \* the buffer of results, best first

queryVars == <<images, query, print, algo, tier, open, left, top, results>>

Wants(t) ==
  query.mode \in
    CASE t = "exact" -> {"exact", "strict", "recall", "all"}
      [] t = "sscd"  -> {"copy", "screenshot", "recall", "all"}
      [] t = "hash"  -> {"near", "strict", "recall", "all"}
      [] t = "tiles" -> {"near", "patch", "screenshot", "recall", "all"}
      [] t = "clip"  -> {"semantic", "screenshot", "recall", "all"}

Tiers == <<"exact", "sscd", "hash", "tiles", "clip">>
After(t) == LET n == CHOOSE n \in DOMAIN Tiers : Tiers[n] = t
            IN  IF n = Len(Tiers) THEN "done" ELSE Tiers[n + 1]

Threshold(t) == IF t = "hash" THEN 10 ELSE IF query.mode = "strict" THEN 6 ELSE 8
Expanded == query.limit * Factor

(***************************************************************************)
(* Orders.                                                                 *)
(***************************************************************************)
Result(kind, path, score) == [kind |-> kind, path |-> path, score |-> score]

Priority(kind) ==
  CASE kind = "exact" -> 4 [] kind = "sscd" -> 3 [] kind \in {"hash", "tiles"} -> 2
    [] kind = "clip" -> 1

Better(a, b) ==
  \/ Priority(a.kind) > Priority(b.kind)
  \/ /\ Priority(a.kind) = Priority(b.kind)
     /\ a.score > b.score \/ (a.score = b.score /\ a.path < b.path)

Full(s, limit) == Len(s) >= limit

InsertedSorted(s, c) ==
  LET worse == {n \in DOMAIN s : Better(c, s[n])}
  IN  InsertAt(s, IF worse = {} THEN Len(s) + 1 ELSE Min(worse), c)

Same(s, c) == {n \in DOMAIN s : s[n].path = c.path}

(***************************************************************************)
(* push_top_semantic and push_result, alike but for what they take for an  *)
(* improvement of a path that is there, where the two agree: a better      *)
(* priority, or the same and a better score.                               *)
(***************************************************************************)
\* Bug: room is made before looking whether the path is there.
PoppedFirst(s, c, limit) ==
  LET room == IF Full(s, limit) THEN Front(s) ELSE s
  IN  IF Same(room, c) = {} THEN InsertedSorted(room, c) ELSE room

Pushed(s, c, limit) ==
  IF Full(s, limit) /\ ~Better(c, Last(s)) THEN s
  ELSE IF Same(s, c) # {}
    THEN LET n == Min(Same(s, c))
         IN  IF Better(c, s[n]) THEN InsertedSorted(RemoveAt(s, n), c) ELSE s
    ELSE InsertedSorted(IF Full(s, limit) THEN Front(s) ELSE s, c)

\* result_buffer_excludes_kind.
Excluded(kind) ==
  Full(results, query.limit) /\ Priority(Last(results).kind) > Priority(kind)

Merge(candidates) ==
  FoldLeft(LAMBDA s, c : Pushed(s, c, query.limit), results, candidates)

Sorted(candidates) == SetToSortSeq(candidates, Better)
Cut(s, limit) == SubSeq(s, 1, Min({Len(s), limit}))

(***************************************************************************)
(* The tiers.                                                              *)
(***************************************************************************)
QueryInit ==
  /\ images \in [ImagePaths -> Images] /\ query \in Asked
  /\ print = IF ~query.upload THEN "stored" ELSE IF Wants("exact") THEN "bytes" ELSE "full"
  /\ algo \in IF print = "stored" THEN Algos ELSE {"new"}
  /\ tier = "exact" /\ open = FALSE /\ left = {} /\ top = <<>> /\ results = <<>>

Fresh == {p \in ImagePaths : ~images[p].stale}

Step(to) ==
  tier' = to /\ open' = FALSE /\ left' = {} /\ top' = <<>> /\ UNCHANGED <<images, query>>

PassOver ==
  /\ tier # "done" /\ ~open
  /\ ~Wants(tier) \/ (tier # "exact" /\ Excluded(tier))
  /\ Step(After(tier)) /\ UNCHANGED <<print, algo, results>>

\* Sorted and cut by the statement; a hit with a pHash lends it to an upload.
Exact ==
  /\ tier = "exact" /\ Wants("exact")
  /\ LET hits == Cut(Sorted({Result("exact", p, 1600) : p \in {q \in Fresh : images[q].sameBytes}}),
                     query.limit)
         hashed == SelectSeq(hits, LAMBDA h : images[h.path].hash # None)
     IN  /\ results' = Merge(hits)
         /\ IF print = "bytes" /\ hashed # <<>>
              THEN print' = "hit" /\ algo' = images[Head(hashed).path].algo
              ELSE UNCHANGED <<print, algo>>
  /\ Step(After(tier))

\* ensure_query_fingerprint: tiers with a model need the image itself.
Ensured(keep) ==
  IF query.upload /\ (keep \/ print = "bytes")
    THEN print' = "full" /\ algo' = "new"
    ELSE UNCHANGED <<print, algo>>

\* The model is not installed, or the asset was never embedded or hashed.
NotIndexed ==
  /\ tier \in {"sscd", "hash", "tiles", "clip"} /\ ~open
  /\ Wants(tier) /\ ~Excluded(tier)
  /\ tier \notin query.has
  /\ Step(After(tier)) /\ UNCHANGED <<print, algo, results>>

TierRows ==
  IF tier = "hash"
    THEN {[path |-> p, score |-> 1600 - 25 * images[p].hash] :
            p \in {q \in Fresh : /\ images[q].hash \in 0 .. Threshold("hash")
                                 /\ images[q].algo = algo'}}
    ELSE UNION {{[path |-> p, score |-> v.score, model |-> v.model] :
                   v \in {w \in images[p][tier] : query.fast => w.sameBucket}} : p \in ImagePaths}

Open ==
  /\ tier \in {"sscd", "hash", "clip"} /\ ~open
  /\ Wants(tier) /\ ~Excluded(tier) /\ tier \in query.has
  /\ Ensured(tier # "hash") /\ open' = TRUE
  /\ left' \in IF tier # "hash" /\ query.fast /\ Cardinality(TierRows) > ScanCap
                 THEN kSubset(ScanCap, TierRows) ELSE {TierRows}
  /\ UNCHANGED <<images, query, tier, top, results>>

ReadRow ==
  /\ \E row \in left :
       /\ left' = left \ {row}
       /\ top' = Pushed(top, Result(tier, row.path, row.score), Expanded)
  /\ UNCHANGED <<images, query, print, algo, tier, open, results>>

\* hydrate_semantic_scan: only now is it known whether the file is there.
Hydrated(c) == c.path \in Fresh

CloseTier ==
  /\ open /\ left = {}
  /\ results' = Merge(SelectSeq(top, Hydrated))
  /\ Step(After(tier)) /\ UNCHANGED <<print, algo>>

\* Candidates are cut by distance, then by matched tiles, and scored by both.
TileScore(p) == 1600 - 25 * images[p].tile + 16 * Min({images[p].matched, 8})

TileBefore(p, q) ==
  \/ images[p].tile < images[q].tile
  \/ images[p].tile = images[q].tile /\ images[p].matched > images[q].matched
  \/ images[p].tile = images[q].tile /\ images[p].matched = images[q].matched /\ p < q

TilePaths == {p \in Fresh : images[p].tile \in 0 .. Threshold("tiles")}

Tiles ==
  /\ tier = "tiles" /\ Wants("tiles") /\ ~Excluded("tiles") /\ "tiles" \in query.has
  /\ Ensured(FALSE)
  /\ LET ranked == Cut(SetToSortSeq(TilePaths, TileBefore), Expanded)
     IN  results' = IF print' = "hit" THEN results
                    ELSE Merge([n \in DOMAIN ranked |->
                                  Result("tiles", ranked[n], TileScore(ranked[n]))])
  /\ Step(After(tier))

QueryNext == PassOver \/ Exact \/ NotIndexed \/ Open \/ ReadRow \/ CloseTier \/ Tiles

QuerySpec == QueryInit /\ [][QueryNext]_queryVars

(***************************************************************************)
(* Properties.                                                             *)
(***************************************************************************)
(***************************************************************************)
(* What the code gives up: candidates that were cut behind vectors of      *)
(* stale files, or at the cap of a fast scan; tiles that score better      *)
(* than nearer ones before them; and the fingerprint of an upload that is  *)
(* in the index, which is borrowed from there without its tiles.           *)
(***************************************************************************)
StaleInTheWay == \E p \in ImagePaths \ Fresh : images[p].sscd \cup images[p].clip # {}

InBucket(vectors) == {v \in vectors : query.fast => v.sameBucket}

CapReached ==
  query.fast /\ \E t \in {"sscd", "clip"} :
    Cardinality({pv \in ImagePaths \X UNION {images[p][t] : p \in ImagePaths} :
                   pv[2] \in InBucket(images[pv[1]][t])}) > ScanCap

TilesCutWrongly ==
  \E p, q \in TilePaths : TileBefore(p, q) /\ TileScore(p) < TileScore(q)

SameBytes == {p \in Fresh : images[p].sameBytes}

Borrowed ==
  /\ query.upload /\ Wants("exact") /\ \E p \in SameBytes : images[p].hash # None
  /\ ~(Wants("sscd") /\ "sscd" \in query.has)

\* Every match there is, whichever tier finds it.
PrintAlgos == IF ~query.upload THEN {algo} ELSE IF Borrowed THEN Algos ELSE {"new"}

MatchesOf(t) ==
  CASE t = "exact" -> {Result(t, p, 1600) : p \in SameBytes}
    [] t \in {"sscd", "clip"} ->
         UNION {{Result(t, p, v.score) : v \in InBucket(images[p][t])} : p \in Fresh}
    [] t = "hash" -> {Result(t, p, 1600 - 25 * images[p].hash) :
                        p \in {q \in Fresh : /\ images[q].hash \in 0 .. Threshold(t)
                                             /\ images[q].algo \in PrintAlgos}}
    [] t = "tiles" -> {Result(t, p, TileScore(p)) : p \in TilePaths}

Matches ==
  UNION {MatchesOf(t) : t \in {u \in Range(Tiers) : Wants(u) /\ u \in query.has \cup {"exact"}}}

BestMatches == {m \in Matches : \A n \in Matches : n.path = m.path => ~Better(n, m)}

\* Every answer is a match, once, in order, and of a file that is there.
AnswerSound ==
  /\ Len(results) <= query.limit /\ Range(results) \subseteq Matches
  /\ \A m, n \in DOMAIN results :
       m < n => Better(results[m], results[n]) /\ results[m].path # results[n].path

AnswerComplete ==
  ~(StaleInTheWay \/ CapReached \/ TilesCutWrongly \/ Borrowed) =>
    results = Cut(Sorted(BestMatches), query.limit)

(***************************************************************************)
(* Whatever the order of the rows and the tiers passed over, a query is    *)
(* answered with the best of all matches, in the documented layering.      *)
(***************************************************************************)
QueryReturnsBest == tier = "done" => AnswerSound /\ AnswerComplete
=============================================================================
