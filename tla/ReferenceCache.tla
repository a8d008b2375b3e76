--------------------------- MODULE ReferenceCache ---------------------------
(***************************************************************************)
(* What the gallery reads instead of the occurrences (image_index.rs):     *)
(*   ovw      image_index_overview_cache, the row with id=1                *)
(*   acounts  image_asset_reference_counts                                 *)
(*   ecounts  image_exact_reference_counts                                 *)
(*   cstate   image_popularity_cache_state: the number of occurrences and  *)
(*            the generation the counts were computed for                  *)
(*   gen      image_occurrence_content_state.generation                    *)
(* The start of the web service, link-chat and build_index refresh them,   *)
(* each on a connection of its own and with several statements outside any *)
(* transaction.  The batches of the linker and the builder of popularity   *)
(* appear with what they do to the shared tables (ChatLinker and           *)
(* PopularityBuild have the rest).                                         *)
(***************************************************************************)
EXTENDS ManifestStore

CONSTANTS
  Procs,      \* processes and threads that work on the manifest
  MaxGen,     \* bound on the occurrence generation
  MaxIndex,   \* bound on the changes of the indexed files
  Indexing,   \* whether build_index runs "never", "alone" or at "any time"
  CrashSafe   \* steps before which an operation does not die

Ops == {"serve", "link", "build"}

ASSUME CacheAssumption ==
  /\ MaxGen \in Nat /\ MaxIndex \in Nat
  /\ Indexing \in {"never", "alone", "any time"}

VARIABLES
  gen, ovw, cstate, acounts, ecounts,
  index,     \* version of image_assets and image_embeddings
  grouping,  \* how the exact groups relate to the assets (Groupings)
  rf         \* process -> the operation it runs

caches == <<ovw, cstate, acounts, ecounts>>
files  == <<index, grouping>>
cacheVars == <<manifestVars, gen, caches, files, rf>>

\* "outdated": computed before an indexed file changed or vanished;
\* "missing": an active asset is in no group.
Groupings == {"current", "outdated", "missing"}

\* occurrence_row_count, and (static) the rest of the row
OverviewRow == [static : 0 .. MaxIndex, occurrences : Nat]
StateRow == [occurrences : Nat, gen : 0 .. MaxGen]

NoCounts == [a \in Assets |-> 0]

ASSUME CacheNullAssumption == NoRow \notin OverviewRow \cup StateRow

RefreshPcs ==
  {"idle",
   "prepare", "groups", "scan", "coverage", "store", "compare", \* prepare_web_manifest
   "generation", "reuse", "counts",                             \* refresh_popularity_cache
   "link", "payload", "provenance", "update",                   \* link-chat
   "assets", "stage", "vectors"}                                \* build_index

ASSUME CrashAssumption == CrashSafe \subseteq RefreshPcs

Refresh ==
  [pc : RefreshPcs, op : Ops,
   linked : BOOLEAN,        \* in refresh_overview_reference_cache
   static : 0 .. MaxIndex,  \* of the overview being computed or updated
   occurrences : Nat, gen : 0 .. MaxGen,
   assets : BOOLEAN,        \* can_reuse_asset_counts
   cube : BOOLEAN]          \* can_reuse_cube

Begin(op, pc) ==
  [pc |-> pc, op |-> op, linked |-> FALSE, static |-> 0, occurrences |-> 0,
   gen |-> 0, assets |-> FALSE, cube |-> FALSE]

Idle == Begin("serve", "idle")

Running(op) == \E p \in Procs : rf[p].pc # "idle" /\ rf[p].op = op

(***************************************************************************)
(* The counts.                                                             *)
(***************************************************************************)
AssetCounts == [a \in Assets |-> Cardinality({k \in Present(occ) : k[1] = a})]

\* Every message once per representative.
ExactCounts ==
  [a \in Assets |->
     Cardinality({<<k[2], k[3]>> : k \in {k \in Present(occ) : groups[k[1]] = a}})]

\* sum(reference_count) of the cube, which has no messages without a time.
CubeCounts(c) == [a \in Assets |-> Cardinality({m \in c : m[1] = a})]

(***************************************************************************)
(* prepare_web_manifest_path: the start of the service and of link-chat.   *)
(***************************************************************************)
MayStart(op) ==
  CASE Indexing = "never" -> op # "build"
    [] Indexing = "alone" -> \A other \in Ops : Running(other) => "build" \notin {op, other}
    [] OTHER -> TRUE

Start(p, op, pc) ==
  /\ rf[p].pc = "idle" /\ MayStart(op)
  /\ rf' = [rf EXCEPT ![p] = Begin(op, pc)]
  /\ UNCHANGED <<manifestVars, gen, caches, files>>

StartServe(p) == Start(p, "serve", "prepare")
StartLink(p) == Start(p, "link", "prepare")
StartIndex(p) == Start(p, "build", "assets")

LookForOverview(p) ==
  /\ rf[p].pc = "prepare"
  /\ rf' = [rf EXCEPT ![p].pc =
       IF ovw # NoRow THEN "compare" ELSE IF grouping = "missing" THEN "groups" ELSE "scan"]
  /\ UNCHANGED <<manifestVars, gen, caches, files>>

\* refresh_exact_groups, with the tables of this module.
Regroup(p) ==
  /\ rf[p].pc = "groups"
  /\ \E g \in Representatives :
       /\ grouping = "current" => g = groups
       /\ RefreshExactGroups(g)
       /\ IF g # groups
            THEN cstate' = NoRow /\ acounts' = NoCounts /\ ecounts' = NoCounts
            ELSE UNCHANGED <<cstate, acounts, ecounts>>
  /\ ovw' = NoRow /\ grouping' = "current"
  /\ rf' = [rf EXCEPT ![p].pc = IF rf[p].op = "build" THEN "stage" ELSE "scan"]
  /\ UNCHANGED <<gen, index>>

\* refresh_overview_cache: the scans, the coverage, and then the row.
ScanAssets(p) ==
  /\ rf[p].pc = "scan"
  /\ rf' = [rf EXCEPT ![p].pc = "coverage", ![p].static = index]
  /\ UNCHANGED <<manifestVars, gen, caches, files>>

ReadCoverage(p) ==
  /\ rf[p].pc \in {"coverage", "provenance"}
  /\ rf' = [rf EXCEPT ![p].pc = IF rf[p].linked THEN "generation" ELSE "store",
                      ![p].occurrences = Cardinality(Present(occ))]
  /\ UNCHANGED <<manifestVars, gen, caches, files>>

StoreOverview(p) ==
  /\ rf[p].pc = "store"
  /\ ovw' = [static |-> rf[p].static, occurrences |-> rf[p].occurrences]
  /\ rf' = [rf EXCEPT ![p] =
              IF rf[p].op = "build" THEN Idle ELSE Begin(rf[p].op, "compare")]
  /\ UNCHANGED <<manifestVars, gen, cstate, acounts, ecounts, files>>

\* What follows prepare_web_manifest_path.
Prepared(p) == IF rf[p].op = "link" THEN Begin("link", "link") ELSE Idle

\* Bug: only the number of occurrences is compared.
SameNumber ==
  IF ovw = NoRow THEN cstate = NoRow
  ELSE cstate # NoRow /\ cstate.occurrences = ovw.occurrences

NothingToRefresh ==
  IF ovw = NoRow THEN cstate = NoRow
  ELSE cstate = [occurrences |-> ovw.occurrences, gen |-> gen]

CompareState(p) ==
  /\ rf[p].pc = "compare"
  /\ rf' = [rf EXCEPT ![p] =
       IF NothingToRefresh THEN Prepared(p)
       ELSE [Begin(rf[p].op, "generation") EXCEPT
               !.occurrences = IF ovw = NoRow THEN 0 ELSE ovw.occurrences]]
  /\ UNCHANGED <<manifestVars, gen, caches, files>>

(***************************************************************************)
(* refresh_popularity_cache: the generation and what can be kept are read  *)
(* first, the transaction then replaces the counts and their state.        *)
(***************************************************************************)
ReadGeneration(p) ==
  /\ rf[p].pc = "generation"
  /\ rf' = [rf EXCEPT ![p].pc = "reuse", ![p].gen = gen]
  /\ UNCHANGED <<manifestVars, gen, caches, files>>

CanReuseAssetCounts(p) ==
  /\ cstate = [occurrences |-> rf[p].occurrences, gen |-> rf[p].gen]
  /\ rf[p].occurrences = 0 \/ acounts # NoCounts

CanReuseCube == build # NoRow /\ build.ready

CheckReuse(p) ==
  /\ rf[p].pc = "reuse"
  /\ rf' = [rf EXCEPT ![p].pc = "counts", ![p].assets = CanReuseAssetCounts(p),
                      ![p].cube = CanReuseCube]
  /\ UNCHANGED <<manifestVars, gen, caches, files>>

\* Bug: the state is marked with the generation at the time of the commit.
StateAtCommit(p) == [occurrences |-> rf[p].occurrences, gen |-> gen]

StateAsRead(p) == [occurrences |-> rf[p].occurrences, gen |-> rf[p].gen]

CommitCounts(p) ==
  /\ rf[p].pc = "counts"
  /\ acounts' = IF rf[p].assets THEN acounts ELSE AssetCounts
  /\ ecounts' = IF rf[p].cube THEN CubeCounts(cube) ELSE ExactCounts
  /\ cstate' = StateAsRead(p)
  /\ rf' = [rf EXCEPT ![p] =
       IF rf[p].linked
         THEN [@ EXCEPT !.pc = "update", !.gen = 0, !.assets = FALSE, !.cube = FALSE]
         ELSE Prepared(p)]
  /\ UNCHANGED <<manifestVars, gen, ovw, files>>

(***************************************************************************)
(* link-chat: batches, then refresh_overview_reference_cache.              *)
(***************************************************************************)

GenerationAfter(changed) == IF changed THEN gen + 1 ELSE gen

\* A transaction of link_table: it gives the message (t, r) the images S, or
\* takes them away when the table is rebuilt.
LinkMessage(p) ==
  /\ rf[p].pc = "link" /\ gen < MaxGen
  /\ \E t \in Tables, r \in Rowids, S \in SUBSET Assets :
       /\ occ' = [k \in Keys |->
            IF k[2] # t \/ k[3] # r THEN occ[k]
            ELSE IF S = {} THEN Absent
            ELSE IF k[1] \in S /\ occ[k] = Absent THEN "local" ELSE occ[k]]
       /\ build' = InvalidatedWhen(occ' # occ)
       /\ gen' = GenerationAfter(occ' # occ)
  /\ UNCHANGED <<source, groups, cube, analysis, caches, files, rf>>

\* If no overview exists, nothing is refreshed.
ReadPayload(p) ==
  /\ rf[p].pc = "link"
  /\ rf' = [rf EXCEPT ![p] =
       IF ovw = NoRow THEN Idle
       ELSE [@ EXCEPT !.pc = "provenance", !.linked = TRUE, !.static = ovw.static]]
  /\ UNCHANGED <<manifestVars, gen, caches, files>>

\* update ... where id=1
UpdateOverview(p) ==
  /\ rf[p].pc = "update"
  /\ ovw' = IF ovw = NoRow THEN NoRow
            ELSE [static |-> rf[p].static, occurrences |-> rf[p].occurrences]
  /\ rf' = [rf EXCEPT ![p] = Idle]
  /\ UNCHANGED <<manifestVars, gen, cstate, acounts, ecounts, files>>

(***************************************************************************)
(* build_index.                                                            *)
(***************************************************************************)
\* build_manifest_stage.  A run that writes no asset goes on to ask whether
\* one has no group.
IndexAssets(p) ==
  /\ rf[p].pc = "assets"
  /\ \/ /\ index < MaxIndex
        /\ index' = index + 1
        /\ grouping' \in IF grouping = "missing" THEN {"missing"} ELSE {"outdated", "missing"}
        /\ rf' = [rf EXCEPT ![p].pc = "groups"]
     \/ /\ rf' = [rf EXCEPT ![p].pc = IF grouping = "missing" THEN "groups" ELSE "stage"]
        /\ UNCHANGED files
  /\ UNCHANGED <<manifestVars, gen, caches>>

\* Bug: the embedding stage leaves the overview in place.
KeepOverview(p) ==
  /\ rf[p].pc = "stage"
  /\ \E stage \in {"vectors", "scan"} : rf' = [rf EXCEPT ![p].pc = stage]
  /\ UNCHANGED <<manifestVars, gen, caches, files>>

\* stage.wants_embeddings: the overview is deleted before the first vector.
BeginVectors(p) ==
  /\ rf[p].pc = "stage"
  /\ \/ rf' = [rf EXCEPT ![p].pc = "scan"] /\ ovw' = ovw
     \/ rf' = [rf EXCEPT ![p].pc = "vectors"] /\ ovw' = NoRow
  /\ UNCHANGED <<manifestVars, gen, cstate, acounts, ecounts, files>>

WriteVectors(p) ==
  /\ rf[p].pc = "vectors"
  /\ index' \in {index} \cup {i \in {index + 1} : i <= MaxIndex}
  /\ rf' = [rf EXCEPT ![p].pc = "scan"]
  /\ UNCHANGED <<manifestVars, gen, caches, grouping>>

(***************************************************************************)
(* The builder of popularity: facts, cube and readiness (PopularityBuild). *)
(***************************************************************************)
BuildPopularity ==
  /\ ~Completed(build)
  /\ occ' \in {o \in [Keys -> {Absent, "void", "local"}] :
       \A k \in Keys : o[k] = occ[k] \/ (occ[k] = "none" /\ o[k] # Absent)}
  /\ cube' = CubeOf(occ', groups)
  /\ build' = [schema |-> 4, ready |-> TRUE, occurrences |-> Cardinality(Present(occ')),
               facts |-> Cardinality(WithTime(occ'))]
  /\ UNCHANGED <<source, groups, analysis, gen, caches, files, rf>>

Crash(p) ==
  /\ rf[p].pc # "idle" /\ rf[p].pc \notin CrashSafe
  /\ rf' = [rf EXCEPT ![p] = Idle]
  /\ UNCHANGED <<manifestVars, gen, caches, files>>

RefreshStep(p) ==
  \/ LookForOverview(p) \/ Regroup(p) \/ ScanAssets(p) \/ ReadCoverage(p)
  \/ StoreOverview(p) \/ CompareState(p) \/ ReadGeneration(p) \/ CheckReuse(p)
  \/ CommitCounts(p) \/ ReadPayload(p) \/ UpdateOverview(p)
  \/ IndexAssets(p) \/ BeginVectors(p) \/ WriteVectors(p)

CacheNext ==
  \/ \E p \in Procs :
       \/ StartServe(p) \/ StartLink(p) \/ StartIndex(p)
       \/ RefreshStep(p) \/ LinkMessage(p) \/ Crash(p)
  \/ BuildPopularity

\* A manifest without caches, whose occurrences an earlier release linked.
CacheInit ==
  /\ source = 1
  /\ occ \in [Keys -> {Absent, "none"}]
  /\ groups \in Representatives
  /\ grouping \in {"current", "missing"}
  /\ cube = {} /\ build = NoRow /\ analysis = [t \in Tables |-> NoRow]
  /\ gen = 0 /\ index = 0
  /\ ovw = NoRow /\ cstate = NoRow /\ acounts = NoCounts /\ ecounts = NoCounts
  /\ rf = [p \in Procs |-> Idle]

CacheSpec == CacheInit /\ [][CacheNext]_cacheVars

\* An operation that was started goes on, and the service is started again
\* and again, between the runs of build_index too.
CacheService ==
  /\ CacheSpec
  /\ \A p \in Procs : WF_cacheVars(RefreshStep(p)) /\ SF_cacheVars(StartServe(p))

(***************************************************************************)
(* Properties.                                                             *)
(***************************************************************************)
CacheTypeOK ==
  /\ ManifestTypeOK
  /\ gen \in 0 .. MaxGen
  /\ ovw \in OverviewRow \cup {NoRow} /\ cstate \in StateRow \cup {NoRow}
  /\ acounts \in [Assets -> Nat] /\ ecounts \in [Assets -> Nat]
  /\ index \in 0 .. MaxIndex /\ grouping \in Groupings
  /\ rf \in [Procs -> Refresh]

CountsCurrent ==
  /\ acounts = AssetCounts
  /\ ecounts \in {ExactCounts, CubeCounts(CubeOf(occ, groups))}

(***************************************************************************)
(* When prepare_web_manifest_path finds nothing to refresh, the counts are *)
(* those of the stored occurrences and groups: whatever changed them took  *)
(* the state away or advanced the generation, and a refresh that overlaps  *)
(* a change marks its counts with the generation it read before.           *)
(***************************************************************************)
CountsOfGeneration == ovw # NoRow /\ NothingToRefresh => CountsCurrent

(***************************************************************************)
(* An overview that is served while nothing indexes the files describes    *)
(* the files as they are indexed, over crashes of the embedding stage too: *)
(* build_index deletes it before the first vector.                         *)
(***************************************************************************)
OverviewOfIndex == ovw # NoRow /\ ~Running("build") => ovw.static = index

\* What the service may serve without refreshing it: current counts, and an
\* overview of the files as they are indexed.
CachesCurrent == CacheTypeOK /\ CountsOfGeneration /\ OverviewOfIndex

(***************************************************************************)
(* refresh_overview_reference_cache "updates only the inexpensive          *)
(* provenance portion" of the overview.                                    *)
(***************************************************************************)
ProvenanceOnly ==
  [][\A p \in Procs :
       rf[p].pc = "update" /\ rf'[p].pc = "idle" /\ ovw' # ovw
       => ovw'.static = ovw.static]_cacheVars

(***************************************************************************)
(* Whatever ran before, starting the service often enough leaves counts    *)
(* that are current and marked with the current generation.                *)
(***************************************************************************)
CachesConverge == <>[](cstate # NoRow /\ cstate.gen = gen /\ CountsCurrent)
=============================================================================
