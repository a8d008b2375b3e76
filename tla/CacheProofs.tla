----------------------------- MODULE CacheProofs -----------------------------
(***************************************************************************)
(* Proofs about what the gallery reads instead of the occurrences, for any *)
(* assets, tables, messages and processes, and any number of changes: when *)
(* nothing is to be refreshed, the counts are those of the occurrences and *)
(* the overview is that of the files.                                      *)
(***************************************************************************)
EXTENDS ReferenceCache, FiniteSetTheorems, TLAPS

\* The service and link-chat do not overlap a build of the index, and a build
\* does not die between its assets and its groups: without either the caches
\* can be left behind (the README tells how).
Sheltered == Indexing # "any time" /\ "groups" \in CrashSafe

Building(p) == rf[p].pc # "idle" /\ rf[p].op = "build"

\* A build works alone.
BuildsAlone ==
  \A p \in Procs : Building(p) =>
    /\ Indexing = "alone"
    /\ \A q \in Procs \ {p} : rf[q].pc = "idle"

BuildPcs ==
  \A p \in Procs : rf[p].pc \in {"assets", "stage", "vectors"} => rf[p].op = "build"

\* A build whose next transaction brings the groups up to date.
Regrouping == \E p \in Procs : rf[p].op = "build" /\ rf[p].pc = "groups"

\* The groups are as the assets say, except between the transactions of a
\* build, and before the first scan of an older manifest.
GroupingInv ==
  /\ grouping = "outdated" => Regrouping
  /\ grouping = "missing" => ovw = NoRow \/ Regrouping
  /\ grouping # "current" =>
       \A p \in Procs : rf[p].pc \in {"idle", "prepare", "groups", "assets"}

\* A ready cube is the one of the occurrences and groups.
CubeInv == build # NoRow /\ build.ready => Completed(build) /\ cube = CubeOf(occ, groups)

\* Counts marked with the generation of the occurrences are theirs.
StateInv ==
  cstate # NoRow =>
    /\ cstate.gen <= gen
    /\ cstate.gen = gen =>
         /\ acounts = AssetCounts
         /\ ecounts = ExactCounts \/ (build # NoRow /\ build.ready /\ ecounts = CubeCounts(cube))

\* What a refresh has found it may keep, as long as the generation stands.
ReuseInv ==
  \A p \in Procs :
    /\ rf[p].gen <= gen
    /\ rf[p].pc = "counts" /\ rf[p].gen = gen =>
         /\ rf[p].assets => acounts = AssetCounts
         /\ rf[p].cube => build # NoRow /\ build.ready

\* The row of a refresh that knows how the files are indexed.
Describing(r) ==
  \/ r.pc \in {"coverage", "store", "provenance", "update"}
  \/ r.linked /\ r.pc \in {"generation", "reuse", "counts"}

\* An overview, or one being computed, describes the files as indexed.
StaticInv ==
  /\ ovw # NoRow => ovw.static = index \/ Regrouping
  /\ \A p \in Procs :
       /\ rf[p].pc = "vectors" => ovw = NoRow
       /\ Describing(rf[p]) => rf[p].static = index

CacheInv ==
  /\ CacheTypeOK /\ BuildsAlone /\ BuildPcs /\ GroupingInv
  /\ CubeInv /\ StateInv /\ ReuseInv /\ StaticInv

\* The bounds, from the assumption, which SMT cannot read for its strings.
LEMMA BoundsAreNumbers == MaxGen \in Nat /\ MaxIndex \in Nat
BY CacheAssumption, Zenon

----------------------------------------------------------------------------
(***************************************************************************)
(* Counts are numbers.                                                     *)
(***************************************************************************)

LEMMA KeysAreFinite ==
  /\ IsFiniteSet(Keys) /\ IsFiniteSet(Tables \X Rowids)
  /\ IsFiniteSet(Assets \X Tables \X Rowids \X Dated)
<1> DEFINE Pairs == Assets \X (Tables \X Rowids)
           f == [x \in Pairs |-> <<x[1], x[2][1], x[2][2]>>]
           g == [x \in Keys \X Dated |-> <<x[1][1], x[1][2], x[1][3], x[2]>>]
<1>1. IsFiniteSet(Assets) /\ IsFiniteSet(Tables) /\ IsFiniteSet(Rowids)
  <2>1. 1 \in Int /\ MaxRowid \in Int
    BY ManifestAssumption
  <2> QED BY <2>1, FS_Interval, ManifestAssumption DEF Rowids
<1>2. IsFiniteSet(Tables \X Rowids)
  BY <1>1, FS_Product
<1>3. IsFiniteSet(Pairs)
  BY <1>1, <1>2, FS_Product
<1>4. f \in Surjection(Pairs, Keys)
  <2>1. f \in [Pairs -> Keys]
    BY DEF Keys
  <2>2. ASSUME NEW k \in Keys PROVE \E x \in Pairs : f[x] = k
    <3>1. <<k[1], <<k[2], k[3]>>>> \in Pairs
      BY DEF Keys
    <3>2. f[<<k[1], <<k[2], k[3]>>>>] = k
      BY <3>1 DEF Keys
    <3> QED BY <3>1, <3>2
  <2> QED BY <2>1, <2>2 DEF Surjection
<1>5. IsFiniteSet(Keys)
  <2> HIDE DEF f, Pairs
  <2> QED BY <1>3, <1>4, FS_Surjection
<1>6. IsFiniteSet(Dated)
  <2>1. IsFiniteSet({}) /\ IsFiniteSet({} \cup {"utc"})
    BY FS_EmptySet, FS_AddElement
  <2>2. IsFiniteSet(({} \cup {"utc"}) \cup {"local"})
    BY <2>1, FS_AddElement
  <2>3. Dated = ({} \cup {"utc"}) \cup {"local"}
    BY DEF Dated
  <2> QED BY <2>2, <2>3
<1>7. IsFiniteSet(Keys \X Dated)
  BY <1>5, <1>6, FS_Product
<1>8. g \in Surjection(Keys \X Dated, Assets \X Tables \X Rowids \X Dated)
  <2>1. g \in [Keys \X Dated -> Assets \X Tables \X Rowids \X Dated]
    BY DEF Keys
  <2>2. ASSUME NEW m \in Assets \X Tables \X Rowids \X Dated
        PROVE  \E x \in Keys \X Dated : g[x] = m
    <3>1. <<<<m[1], m[2], m[3]>>, m[4]>> \in Keys \X Dated
      BY DEF Keys
    <3>2. g[<<<<m[1], m[2], m[3]>>, m[4]>>] = m
      BY <3>1
    <3> QED BY <3>1, <3>2
  <2> QED BY <2>1, <2>2 DEF Surjection
<1>9. IsFiniteSet(Assets \X Tables \X Rowids \X Dated)
  <2> HIDE DEF g
  <2> QED BY <1>7, <1>8, FS_Surjection
<1> QED BY <1>2, <1>5, <1>9

LEMMA SetsCounted ==
  \A o : Cardinality(Present(o)) \in Nat /\ Cardinality(WithTime(o)) \in Nat
<1> TAKE o
<1>1. Present(o) \subseteq Keys /\ WithTime(o) \subseteq Keys
  BY DEF Present, WithTime
<1> QED BY <1>1, KeysAreFinite, FS_Subset, FS_CardinalityType

LEMMA Counted ==
  ASSUME CacheTypeOK
  PROVE  /\ Cardinality(Present(occ)) \in Nat /\ Cardinality(WithTime(occ)) \in Nat
         /\ AssetCounts \in [Assets -> Nat] /\ ExactCounts \in [Assets -> Nat]
         /\ CubeCounts(cube) \in [Assets -> Nat]
<1>1. Present(occ) \subseteq Keys
  BY DEF Present
<1>2. ASSUME NEW S, S \subseteq Keys PROVE Cardinality(S) \in Nat
  BY <1>2, KeysAreFinite, FS_Subset, FS_CardinalityType
<1>3. ASSUME NEW a \in Assets PROVE Cardinality({k \in Present(occ) : k[1] = a}) \in Nat
  BY <1>1, <1>2
<1>4. ASSUME NEW a \in Assets
      PROVE  Cardinality({<<k[2], k[3]>> : k \in {k \in Present(occ) : groups[k[1]] = a}}) \in Nat
  BY <1>1, KeysAreFinite, FS_Subset, FS_CardinalityType DEF Keys
<1>5. ASSUME NEW a \in Assets PROVE Cardinality({m \in cube : m[1] = a}) \in Nat
  BY KeysAreFinite, FS_Subset, FS_CardinalityType DEF CacheTypeOK, ManifestTypeOK
<1>6. WithTime(occ) \subseteq Keys
  BY <1>1 DEF WithTime
<1> QED BY <1>1, <1>2, <1>3, <1>4, <1>5, <1>6 DEF AssetCounts, ExactCounts, CubeCounts

----------------------------------------------------------------------------
(***************************************************************************)
(* The row of a process.                                                   *)
(***************************************************************************)

\* The three ways to start.
Starts(p) == StartServe(p) \/ StartLink(p) \/ StartIndex(p)

\* A step of p replaces its own row.
Rewrites(p) ==
  /\ rf' \in [Procs -> Refresh]
  /\ \A q \in Procs \ {p} : rf'[q] = rf[q]

LEMMA RowWritten ==
  ASSUME CacheTypeOK, NEW p \in Procs, NEW r \in Refresh, rf' = [rf EXCEPT ![p] = r]
  PROVE  Rewrites(p) /\ rf'[p] = r
BY DEF Rewrites, CacheTypeOK

LEMMA Beginnings ==
  ASSUME NEW op \in Ops, NEW pc \in RefreshPcs
  PROVE  Begin(op, pc) \in Refresh
BY BoundsAreNumbers DEF Refresh, Begin

LEMMA PreparedRow ==
  ASSUME NEW p \in Procs
  PROVE  /\ Prepared(p) \in Refresh /\ Prepared(p).pc \in {"idle", "link"} /\ Prepared(p).gen = 0
         /\ ~Prepared(p).linked /\ (Prepared(p).pc # "idle" => Prepared(p).op = rf[p].op)
BY Beginnings DEF Ops, RefreshPcs, Prepared, Idle, Begin

\* What each step leaves in the row of its process.
LEMMA StartsRow ==
  ASSUME CacheTypeOK, NEW p \in Procs, Starts(p)
  PROVE  /\ Rewrites(p)
         /\ rf[p].pc = "idle" /\ MayStart(rf'[p].op)
         /\ rf'[p].pc \in {"prepare", "assets"} /\ (rf'[p].pc = "assets" => rf'[p].op = "build")
         /\ ~rf'[p].linked /\ rf'[p].gen = 0
<1>1. PICK op \in Ops, pc \in {"prepare", "assets"} :
        /\ rf' = [rf EXCEPT ![p] = Begin(op, pc)] /\ rf[p].pc = "idle" /\ MayStart(op)
        /\ pc = "assets" => op = "build"
  BY DEF Starts, StartServe, StartLink, StartIndex, Start, Ops
<1>2. Begin(op, pc) \in Refresh
  BY <1>1, Beginnings DEF RefreshPcs
<1>3. Rewrites(p) /\ rf'[p] = Begin(op, pc)
  BY <1>1, <1>2, RowWritten
<1>4. Begin(op, pc).op = op /\ Begin(op, pc).pc = pc /\ ~Begin(op, pc).linked /\ Begin(op, pc).gen = 0
  BY DEF Begin
<1> QED BY <1>1, <1>3, <1>4

LEMMA LookForOverviewRow ==
  ASSUME CacheTypeOK, NEW p \in Procs, LookForOverview(p)
  PROVE  /\ Rewrites(p)
         /\ rf[p].pc = "prepare"
         /\ rf'[p].pc = IF ovw # NoRow THEN "compare" ELSE IF grouping = "missing" THEN "groups" ELSE "scan"
         /\ rf'[p].op = rf[p].op
         /\ rf'[p].gen = rf[p].gen
<1>1. PICK pc \in RefreshPcs : rf' = [rf EXCEPT ![p] = [rf[p] EXCEPT !.pc = pc]]
  BY DEF LookForOverview, RefreshPcs
<1>2. [rf[p] EXCEPT !.pc = pc] \in Refresh
  BY DEF CacheTypeOK, Refresh
<1>3. Rewrites(p) /\ rf'[p] = [rf[p] EXCEPT !.pc = pc]
  BY <1>1, <1>2, RowWritten
<1> QED BY <1>1, <1>3 DEF CacheTypeOK, Refresh, LookForOverview

LEMMA RegroupRow ==
  ASSUME CacheTypeOK, NEW p \in Procs, Regroup(p)
  PROVE  /\ Rewrites(p)
         /\ rf[p].pc = "groups"
         /\ rf'[p].pc = IF rf[p].op = "build" THEN "stage" ELSE "scan"
         /\ rf'[p].op = rf[p].op
         /\ rf'[p].gen = rf[p].gen
<1>1. PICK pc \in RefreshPcs : rf' = [rf EXCEPT ![p] = [rf[p] EXCEPT !.pc = pc]]
  BY DEF Regroup, RefreshPcs
<1>2. [rf[p] EXCEPT !.pc = pc] \in Refresh
  BY DEF CacheTypeOK, Refresh
<1>3. Rewrites(p) /\ rf'[p] = [rf[p] EXCEPT !.pc = pc]
  BY <1>1, <1>2, RowWritten
<1> QED BY <1>1, <1>3 DEF CacheTypeOK, Refresh, Regroup

LEMMA ScanAssetsRow ==
  ASSUME CacheTypeOK, NEW p \in Procs, ScanAssets(p)
  PROVE  /\ Rewrites(p)
         /\ rf[p].pc = "scan" /\ rf'[p].pc = "coverage" /\ rf'[p].static = index
         /\ rf'[p].op = rf[p].op
         /\ rf'[p].gen = rf[p].gen
<1>1. rf' = [rf EXCEPT ![p] = [rf[p] EXCEPT !.pc = "coverage", !.static = index]]
  BY DEF ScanAssets, CacheTypeOK, Refresh
<1>2. [rf[p] EXCEPT !.pc = "coverage", !.static = index] \in Refresh
  BY DEF CacheTypeOK, Refresh, RefreshPcs
<1>3. Rewrites(p) /\ rf'[p] = [rf[p] EXCEPT !.pc = "coverage", !.static = index]
  BY <1>1, <1>2, RowWritten
<1> QED BY <1>1, <1>3 DEF CacheTypeOK, Refresh, ScanAssets

LEMMA ReadCoverageRow ==
  ASSUME CacheTypeOK, NEW p \in Procs, ReadCoverage(p)
  PROVE  /\ Rewrites(p)
         /\ rf[p].pc \in {"coverage", "provenance"} /\ rf'[p].pc \in {"generation", "store"}
         /\ rf'[p].pc = "generation" => rf'[p].linked
         /\ rf'[p].op = rf[p].op
         /\ rf'[p].static = rf[p].static
         /\ rf'[p].gen = rf[p].gen
<1> DEFINE Row(pc) == [rf[p] EXCEPT !.pc = pc, !.occurrences = Cardinality(Present(occ))]
<1>0. rf[p] \in Refresh
  BY DEF CacheTypeOK
<1>1. PICK pc \in {"generation", "store"} :
        rf' = [rf EXCEPT ![p] = Row(pc)] /\ (pc = "generation" => rf[p].linked)
  BY <1>0 DEF ReadCoverage, CacheTypeOK, Refresh
<1>2. Row(pc) \in Refresh
  BY <1>0, <1>1, Counted DEF Refresh, RefreshPcs
<1>3. /\ Row(pc).pc = pc /\ Row(pc).linked = rf[p].linked /\ Row(pc).op = rf[p].op
      /\ Row(pc).static = rf[p].static /\ Row(pc).gen = rf[p].gen
  BY <1>0 DEF Refresh
<1> HIDE DEF Row
<1>4. Rewrites(p) /\ rf'[p] = Row(pc)
  BY <1>1, <1>2, RowWritten
<1> QED BY <1>1, <1>3, <1>4 DEF ReadCoverage

LEMMA StoreOverviewRow ==
  ASSUME CacheTypeOK, NEW p \in Procs, StoreOverview(p)
  PROVE  /\ Rewrites(p)
         /\ rf[p].pc = "store" /\ rf'[p].pc \in {"idle", "compare"} /\ rf'[p].gen = 0
         /\ rf'[p].pc # "idle" => rf'[p].op = rf[p].op
<1>0. rf[p] \in Refresh
  BY DEF CacheTypeOK
<1>1. PICK r \in {Idle, Begin(rf[p].op, "compare")} : rf' = [rf EXCEPT ![p] = r]
  BY DEF StoreOverview
<1>2. r \in Refresh
  BY <1>0, <1>1, Beginnings DEF Idle, Ops, RefreshPcs, Refresh
<1>3. Rewrites(p) /\ rf'[p] = r
  BY <1>1, <1>2, RowWritten
<1> QED BY <1>1, <1>3 DEF StoreOverview, Idle, Begin

LEMMA CompareStateRow ==
  ASSUME CacheTypeOK, NEW p \in Procs, CompareState(p)
  PROVE  /\ Rewrites(p)
         /\ rf[p].pc = "compare" /\ rf'[p].pc \in {"idle", "link", "generation"}
         /\ rf'[p].gen = 0 /\ ~rf'[p].linked
         /\ rf'[p].pc # "idle" => rf'[p].op = rf[p].op
<1> DEFINE Counting(n) == [Begin(rf[p].op, "generation") EXCEPT !.occurrences = n]
<1>0. rf[p] \in Refresh /\ rf[p].op \in Ops
  BY DEF CacheTypeOK, Refresh
<1>1. ovw # NoRow => ovw.occurrences \in Nat
  BY DEF CacheTypeOK, OverviewRow
<1>2. PICK n \in Nat : rf' = [rf EXCEPT ![p] = Prepared(p)] \/ rf' = [rf EXCEPT ![p] = Counting(n)]
  <2>1. CASE NothingToRefresh
    BY <2>1 DEF CompareState
  <2>2. CASE ~NothingToRefresh
    BY <2>2, <1>1 DEF CompareState
  <2> QED BY <2>1, <2>2
<1>3. /\ Prepared(p) \in Refresh /\ Prepared(p).pc \in {"idle", "link"} /\ Prepared(p).gen = 0
      /\ ~Prepared(p).linked /\ (Prepared(p).pc # "idle" => Prepared(p).op = rf[p].op)
  BY PreparedRow
<1>4. /\ Counting(n) \in Refresh /\ Counting(n).pc = "generation" /\ Counting(n).gen = 0
      /\ ~Counting(n).linked /\ Counting(n).op = rf[p].op
  <2>1. Begin(rf[p].op, "generation") \in Refresh
    BY <1>0, Beginnings DEF RefreshPcs
  <2> QED BY <2>1 DEF Refresh, Begin
<1> HIDE DEF Counting
<1>5. Rewrites(p) /\ rf'[p] \in {Prepared(p), Counting(n)}
  BY <1>2, <1>3, <1>4, RowWritten
<1> QED BY <1>3, <1>4, <1>5 DEF CompareState

LEMMA ReadGenerationRow ==
  ASSUME CacheTypeOK, NEW p \in Procs, ReadGeneration(p)
  PROVE  /\ Rewrites(p)
         /\ rf[p].pc = "generation" /\ rf'[p].pc = "reuse" /\ rf'[p].gen = gen
         /\ rf'[p].op = rf[p].op
         /\ rf'[p].linked = rf[p].linked
         /\ rf'[p].static = rf[p].static
<1>1. rf' = [rf EXCEPT ![p] = [rf[p] EXCEPT !.pc = "reuse", !.gen = gen]]
  BY DEF ReadGeneration, CacheTypeOK, Refresh
<1>2. [rf[p] EXCEPT !.pc = "reuse", !.gen = gen] \in Refresh
  BY DEF CacheTypeOK, Refresh, RefreshPcs
<1>3. Rewrites(p) /\ rf'[p] = [rf[p] EXCEPT !.pc = "reuse", !.gen = gen]
  BY <1>1, <1>2, RowWritten
<1> QED BY <1>1, <1>3 DEF CacheTypeOK, Refresh, ReadGeneration

LEMMA CheckReuseRow ==
  ASSUME CacheTypeOK, NEW p \in Procs, CheckReuse(p)
  PROVE  /\ Rewrites(p)
         /\ rf[p].pc = "reuse" /\ rf'[p].pc = "counts"
         /\ rf'[p].assets = CanReuseAssetCounts(p) /\ rf'[p].cube = CanReuseCube
         /\ rf'[p].op = rf[p].op
         /\ rf'[p].linked = rf[p].linked
         /\ rf'[p].static = rf[p].static
         /\ rf'[p].gen = rf[p].gen
<1> DEFINE Row == [rf[p] EXCEPT !.pc = "counts", !.assets = CanReuseAssetCounts(p), !.cube = CanReuseCube]
<1>0. rf[p] \in Refresh
  BY DEF CacheTypeOK
<1>1. CanReuseAssetCounts(p) \in BOOLEAN /\ CanReuseCube \in BOOLEAN
  BY DEF CanReuseAssetCounts, CanReuseCube, CacheTypeOK, ManifestTypeOK, BuildRow
<1>2. rf' = [rf EXCEPT ![p] = Row]
  BY <1>0 DEF CheckReuse, CacheTypeOK, Refresh
<1>3. /\ Row \in Refresh /\ Row.pc = "counts" /\ Row.assets = CanReuseAssetCounts(p)
      /\ Row.cube = CanReuseCube /\ Row.op = rf[p].op /\ Row.linked = rf[p].linked
      /\ Row.static = rf[p].static /\ Row.gen = rf[p].gen
  <2> HIDE DEF CanReuseAssetCounts, CanReuseCube
  <2> QED BY <1>0, <1>1 DEF Refresh, RefreshPcs
<1> HIDE DEF Row
<1>4. Rewrites(p) /\ rf'[p] = Row
  BY <1>2, <1>3, RowWritten
<1> QED BY <1>3, <1>4 DEF CheckReuse

LEMMA CommitCountsRow ==
  ASSUME CacheTypeOK, NEW p \in Procs, CommitCounts(p)
  PROVE  /\ Rewrites(p)
         /\ rf[p].pc = "counts" /\ rf'[p].pc \in {"idle", "link", "update"} /\ rf'[p].gen = 0
         /\ rf'[p].pc = "update" => rf[p].linked /\ rf'[p].static = rf[p].static
         /\ rf'[p].pc # "idle" => rf'[p].op = rf[p].op
<1> DEFINE Row == [rf[p] EXCEPT !.pc = "update", !.gen = 0, !.assets = FALSE, !.cube = FALSE]
<1>0. rf[p] \in Refresh
  BY DEF CacheTypeOK
<1>1. (rf[p].linked /\ rf' = [rf EXCEPT ![p] = Row]) \/ rf' = [rf EXCEPT ![p] = Prepared(p)]
  BY DEF CommitCounts, CacheTypeOK
<1>2. /\ Row \in Refresh /\ Row.pc = "update" /\ Row.gen = 0 /\ Row.op = rf[p].op
      /\ Row.static = rf[p].static
  <2>1. 0 \in 0 .. MaxGen
    BY BoundsAreNumbers
  <2> QED BY <1>0, <2>1 DEF Refresh, RefreshPcs
<1>3. /\ Prepared(p) \in Refresh /\ Prepared(p).pc \in {"idle", "link"} /\ Prepared(p).gen = 0
      /\ (Prepared(p).pc # "idle" => Prepared(p).op = rf[p].op)
  BY PreparedRow
<1> HIDE DEF Row
<1>4. Rewrites(p) /\ ((rf[p].linked /\ rf'[p] = Row) \/ rf'[p] = Prepared(p))
  BY <1>1, <1>2, <1>3, RowWritten
<1> QED BY <1>2, <1>3, <1>4 DEF CommitCounts

LEMMA ReadPayloadRow ==
  ASSUME CacheTypeOK, NEW p \in Procs, ReadPayload(p)
  PROVE  /\ Rewrites(p)
         /\ rf[p].pc = "link" /\ rf'[p].pc \in {"idle", "provenance"}
         /\ rf'[p].pc = "provenance" => ovw # NoRow /\ rf'[p].static = ovw.static
         /\ rf'[p].pc # "idle" => rf'[p].op = rf[p].op
         /\ rf'[p].gen \in {0, rf[p].gen}
<1> DEFINE Row == [rf[p] EXCEPT !.pc = "provenance", !.linked = TRUE, !.static = ovw.static]
<1>0. rf[p] \in Refresh /\ rf[p].pc = "link"
  BY DEF CacheTypeOK, ReadPayload
<1>1. CASE ovw = NoRow
  <2>1. rf' = [rf EXCEPT ![p] = Idle]
    BY <1>1 DEF ReadPayload
  <2>2. Idle \in Refresh /\ Idle.pc = "idle" /\ Idle.gen = 0
    BY Beginnings DEF Idle, Begin, Ops, RefreshPcs
  <2>3. Rewrites(p) /\ rf'[p] = Idle
    BY <2>1, <2>2, RowWritten
  <2> QED BY <2>2, <2>3, <1>0
<1>2. CASE ovw # NoRow
  <2>1. ovw.static \in 0 .. MaxIndex
    BY <1>2 DEF CacheTypeOK, OverviewRow
  <2>2. rf' = [rf EXCEPT ![p] = Row]
    BY <1>2 DEF ReadPayload, CacheTypeOK
  <2>3. /\ Row \in Refresh /\ Row.pc = "provenance" /\ Row.static = ovw.static
        /\ Row.op = rf[p].op /\ Row.gen = rf[p].gen
    BY <2>1, <1>0 DEF Refresh, RefreshPcs
  <2> HIDE DEF Row
  <2>4. Rewrites(p) /\ rf'[p] = Row
    BY <2>2, <2>3, RowWritten
  <2> QED BY <2>3, <2>4, <1>0, <1>2
<1> QED BY <1>1, <1>2

LEMMA UpdateOverviewRow ==
  ASSUME CacheTypeOK, NEW p \in Procs, UpdateOverview(p)
  PROVE  /\ Rewrites(p)
         /\ rf[p].pc = "update" /\ rf'[p] = Idle
BY Beginnings, RowWritten DEF UpdateOverview, Idle, Ops, RefreshPcs

LEMMA IndexAssetsRow ==
  ASSUME CacheTypeOK, NEW p \in Procs, IndexAssets(p)
  PROVE  /\ Rewrites(p)
         /\ rf[p].pc = "assets" /\ rf'[p].pc \in {"groups", "stage"}
         /\ rf'[p].op = rf[p].op
         /\ rf'[p].gen = rf[p].gen
<1>1. PICK pc \in RefreshPcs : rf' = [rf EXCEPT ![p] = [rf[p] EXCEPT !.pc = pc]]
  BY DEF IndexAssets, RefreshPcs
<1>2. [rf[p] EXCEPT !.pc = pc] \in Refresh
  BY DEF CacheTypeOK, Refresh
<1>3. Rewrites(p) /\ rf'[p] = [rf[p] EXCEPT !.pc = pc]
  BY <1>1, <1>2, RowWritten
<1> QED BY <1>1, <1>3 DEF CacheTypeOK, Refresh, IndexAssets

LEMMA BeginVectorsRow ==
  ASSUME CacheTypeOK, NEW p \in Procs, BeginVectors(p)
  PROVE  /\ Rewrites(p)
         /\ rf[p].pc = "stage" /\ rf'[p].pc \in {"scan", "vectors"}
         /\ rf'[p].op = rf[p].op
         /\ rf'[p].gen = rf[p].gen
<1>1. PICK pc \in RefreshPcs : rf' = [rf EXCEPT ![p] = [rf[p] EXCEPT !.pc = pc]]
  BY DEF BeginVectors, RefreshPcs
<1>2. [rf[p] EXCEPT !.pc = pc] \in Refresh
  BY DEF CacheTypeOK, Refresh
<1>3. Rewrites(p) /\ rf'[p] = [rf[p] EXCEPT !.pc = pc]
  BY <1>1, <1>2, RowWritten
<1> QED BY <1>1, <1>3 DEF CacheTypeOK, Refresh, BeginVectors

LEMMA WriteVectorsRow ==
  ASSUME CacheTypeOK, NEW p \in Procs, WriteVectors(p)
  PROVE  /\ Rewrites(p)
         /\ rf[p].pc = "vectors" /\ rf'[p].pc = "scan"
         /\ rf'[p].op = rf[p].op
         /\ rf'[p].gen = rf[p].gen
<1>1. PICK pc \in RefreshPcs : rf' = [rf EXCEPT ![p] = [rf[p] EXCEPT !.pc = pc]]
  BY DEF WriteVectors, RefreshPcs
<1>2. [rf[p] EXCEPT !.pc = pc] \in Refresh
  BY DEF CacheTypeOK, Refresh
<1>3. Rewrites(p) /\ rf'[p] = [rf[p] EXCEPT !.pc = pc]
  BY <1>1, <1>2, RowWritten
<1> QED BY <1>1, <1>3 DEF CacheTypeOK, Refresh, WriteVectors

LEMMA CrashRow ==
  ASSUME CacheTypeOK, NEW p \in Procs, Crash(p)
  PROVE  /\ Rewrites(p)
         /\ rf[p].pc \notin CrashSafe \cup {"idle"} /\ rf'[p] = Idle
BY Beginnings, RowWritten DEF Crash, Idle, Ops, RefreshPcs


\* Every step stays within the types.
LEMMA TypesKept ==
  ASSUME CacheTypeOK, CacheNext
  PROVE  CacheTypeOK'
<1>1. ASSUME NEW p \in Procs, Starts(p) PROVE CacheTypeOK'
  <2>1. rf' \in [Procs -> Refresh]
    BY <1>1, StartsRow DEF Rewrites
  <2> QED BY <1>1, <2>1 DEF Starts, StartServe, StartLink, StartIndex, Start, CacheTypeOK, ManifestTypeOK, manifestVars, caches, files
<1>2. ASSUME NEW p \in Procs, LookForOverview(p) PROVE CacheTypeOK'
  <2>1. rf' \in [Procs -> Refresh]
    BY <1>2, LookForOverviewRow DEF Rewrites
  <2> QED BY <1>2, <2>1 DEF LookForOverview, CacheTypeOK, ManifestTypeOK, manifestVars, caches, files
<1>3. ASSUME NEW p \in Procs, Regroup(p) PROVE CacheTypeOK'
  <2>1. rf' \in [Procs -> Refresh]
    BY <1>3, RegroupRow DEF Rewrites
  <2>2. ManifestTypeOK'
    BY <1>3 DEF Regroup, RefreshExactGroups, CacheTypeOK, ManifestTypeOK
  <2>3. acounts' \in [Assets -> Nat] /\ ecounts' \in [Assets -> Nat] /\ cstate' \in StateRow \cup {NoRow}
    BY <1>3 DEF Regroup, CacheTypeOK, NoCounts
  <2> QED BY <1>3, <2>1, <2>2, <2>3 DEF Regroup, RefreshExactGroups, CacheTypeOK, Groupings
<1>4. ASSUME NEW p \in Procs, ScanAssets(p) PROVE CacheTypeOK'
  <2>1. rf' \in [Procs -> Refresh]
    BY <1>4, ScanAssetsRow DEF Rewrites
  <2> QED BY <1>4, <2>1 DEF ScanAssets, CacheTypeOK, ManifestTypeOK, manifestVars, caches, files
<1>5. ASSUME NEW p \in Procs, ReadCoverage(p) PROVE CacheTypeOK'
  <2>1. rf' \in [Procs -> Refresh]
    BY <1>5, ReadCoverageRow DEF Rewrites
  <2> QED BY <1>5, <2>1 DEF ReadCoverage, CacheTypeOK, ManifestTypeOK, manifestVars, caches, files
<1>6. ASSUME NEW p \in Procs, StoreOverview(p) PROVE CacheTypeOK'
  BY <1>6, StoreOverviewRow DEF Rewrites, StoreOverview, CacheTypeOK, Refresh,
    OverviewRow, ManifestTypeOK, manifestVars, caches, files
<1>7. ASSUME NEW p \in Procs, CompareState(p) PROVE CacheTypeOK'
  <2>1. rf' \in [Procs -> Refresh]
    BY <1>7, CompareStateRow DEF Rewrites
  <2> QED BY <1>7, <2>1 DEF CompareState, CacheTypeOK, ManifestTypeOK, manifestVars, caches, files
<1>8. ASSUME NEW p \in Procs, ReadGeneration(p) PROVE CacheTypeOK'
  <2>1. rf' \in [Procs -> Refresh]
    BY <1>8, ReadGenerationRow DEF Rewrites
  <2> QED BY <1>8, <2>1 DEF ReadGeneration, CacheTypeOK, ManifestTypeOK, manifestVars, caches, files
<1>9. ASSUME NEW p \in Procs, CheckReuse(p) PROVE CacheTypeOK'
  <2>1. rf' \in [Procs -> Refresh]
    BY <1>9, CheckReuseRow DEF Rewrites
  <2> QED BY <1>9, <2>1 DEF CheckReuse, CacheTypeOK, ManifestTypeOK, manifestVars, caches, files
<1>10. ASSUME NEW p \in Procs, CommitCounts(p) PROVE CacheTypeOK'
  BY <1>10, CommitCountsRow, Counted DEF Rewrites, CommitCounts, StateAsRead,
    CacheTypeOK, Refresh, StateRow, ManifestTypeOK, manifestVars, caches, files
<1>11. ASSUME NEW p \in Procs, ReadPayload(p) PROVE CacheTypeOK'
  <2>1. rf' \in [Procs -> Refresh]
    BY <1>11, ReadPayloadRow DEF Rewrites
  <2> QED BY <1>11, <2>1 DEF ReadPayload, CacheTypeOK, ManifestTypeOK, manifestVars, caches, files
<1>12. ASSUME NEW p \in Procs, UpdateOverview(p) PROVE CacheTypeOK'
  BY <1>12, UpdateOverviewRow DEF Rewrites, UpdateOverview, CacheTypeOK, Refresh,
    OverviewRow, ManifestTypeOK, manifestVars, caches, files
<1>13. ASSUME NEW p \in Procs, IndexAssets(p) PROVE CacheTypeOK'
  BY <1>13, IndexAssetsRow, BoundsAreNumbers DEF Rewrites, IndexAssets, CacheTypeOK,
    files, Groupings, ManifestTypeOK, manifestVars, caches
<1>14. ASSUME NEW p \in Procs, BeginVectors(p) PROVE CacheTypeOK'
  <2>1. rf' \in [Procs -> Refresh]
    BY <1>14, BeginVectorsRow DEF Rewrites
  <2> QED BY <1>14, <2>1 DEF BeginVectors, CacheTypeOK, ManifestTypeOK, manifestVars, caches, files
<1>15. ASSUME NEW p \in Procs, WriteVectors(p) PROVE CacheTypeOK'
  <2>1. rf' \in [Procs -> Refresh]
    BY <1>15, WriteVectorsRow DEF Rewrites
  <2>2. index' \in 0 .. MaxIndex
    BY <1>15, BoundsAreNumbers DEF WriteVectors, CacheTypeOK
  <2> QED BY <1>15, <2>1, <2>2 DEF WriteVectors, CacheTypeOK, ManifestTypeOK, manifestVars, caches, files
<1>16. ASSUME NEW p \in Procs, LinkMessage(p) PROVE CacheTypeOK'
  BY <1>16, BoundsAreNumbers DEF LinkMessage, GenerationAfter, CacheTypeOK,
    ManifestTypeOK, Facts, InvalidatedWhen, Invalidated, BuildRow, caches, files
<1>17. ASSUME NEW p \in Procs, Crash(p) PROVE CacheTypeOK'
  <2>1. rf' \in [Procs -> Refresh]
    BY <1>17, CrashRow DEF Rewrites
  <2> QED BY <1>17, <2>1 DEF Crash, CacheTypeOK, ManifestTypeOK, manifestVars, caches, files
<1>18. CASE BuildPopularity
  BY <1>18, SetsCounted DEF BuildPopularity, Facts, CubeOf, WithTime, Present, Keys,
    Representatives, CacheTypeOK, ManifestTypeOK, BuildRow, caches, files
<1> QED BY <1>1, <1>2, <1>3, <1>4, <1>5, <1>6, <1>7, <1>8, <1>9, <1>10, <1>11, <1>12,
   <1>13, <1>14, <1>15, <1>16, <1>17, <1>18 DEF CacheNext, RefreshStep, Starts

----------------------------------------------------------------------------
(***************************************************************************)
(* A build works alone, and the groups are current but in the middle of a  *)
(* build.                                                                  *)
(***************************************************************************)

\* What may start: nothing beside a build, and a build beside nothing.
LEMMA StartsAlone ==
  ASSUME Sheltered, CacheInv, NEW op \in Ops, MayStart(op)
  PROVE  /\ op = "build" => Indexing = "alone" /\ \A q \in Procs : rf[q].pc = "idle"
         /\ \A q \in Procs : ~Building(q)
<1>1. Indexing \in {"never", "alone"}
  BY CacheAssumption, Zenon DEF Sheltered
<1>2. ASSUME NEW q \in Procs PROVE rf[q].op \in Ops
  BY DEF CacheInv, CacheTypeOK, Refresh
<1>3. CASE Indexing = "never"
  <2>1. op # "build"
    BY <1>3 DEF MayStart
  <2> QED BY <2>1, <1>3 DEF CacheInv, BuildsAlone
<1>4. CASE Indexing = "alone"
  <2>1. \A other \in Ops : Running(other) => "build" \notin {op, other}
    BY <1>4 DEF MayStart
  <2>2. ASSUME NEW q \in Procs, rf[q].pc # "idle" PROVE Running(rf[q].op)
    BY <2>2 DEF Running
  <2>3. ASSUME op = "build", NEW q \in Procs PROVE rf[q].pc = "idle"
    BY <2>1, <2>2, <2>3, <1>2
  <2>4. ASSUME NEW q \in Procs PROVE ~Building(q)
    BY <2>1, <2>2, <1>2 DEF Building
  <2> QED BY <2>3, <2>4, <1>4
<1> QED BY <1>1, <1>3, <1>4

\* Whoever works beside a process at "groups" is not past its own.
LEMMA NotRegrouping ==
  ASSUME BuildsAlone, NEW p \in Procs, rf[p].pc \notin {"idle", "groups"}
  PROVE  ~Regrouping
BY DEF BuildsAlone, Building, Regrouping

LEMMA RegroupingStays ==
  ASSUME NEW p \in Procs, Rewrites(p), rf[p].pc # "groups", Regrouping
  PROVE  Regrouping'
BY DEF Rewrites, Regrouping

LEMMA AloneAfter ==
  ASSUME BuildsAlone, NEW p \in Procs, Rewrites(p), rf[p].pc # "idle",
         rf'[p].pc = "idle" \/ rf'[p].op = rf[p].op
  PROVE  BuildsAlone'
<1>1. ASSUME NEW q \in Procs, Building(q)' PROVE Building(q)
  BY <1>1 DEF Building, Rewrites
<1>2. ASSUME NEW q \in Procs, rf[q].pc = "idle" PROVE rf'[q].pc = "idle"
  BY <1>2 DEF Rewrites
<1> QED BY <1>1, <1>2 DEF BuildsAlone

LEMMA BuildsStayAlone ==
  ASSUME Sheltered, CacheInv, CacheNext
  PROVE  BuildsAlone'
<1>1. ASSUME NEW p \in Procs, Starts(p) PROVE BuildsAlone'
  <2>1. rf'[p].op \in Ops /\ MayStart(rf'[p].op) /\ rf[p].pc = "idle"
    BY <1>1, StartsRow DEF CacheInv, Rewrites, Refresh
  <2>2. ASSUME NEW q \in Procs, q # p PROVE ~Building(q)'
    <3>1. ~Building(q)
      BY <2>1, StartsAlone
    <3> QED BY <1>1, <3>1, <2>2, StartsRow DEF CacheInv, Rewrites, Building
  <2>3. ASSUME Building(p)'
        PROVE  Indexing = "alone" /\ \A q \in Procs \ {p} : rf'[q].pc = "idle"
    BY <1>1, <2>1, <2>3, StartsRow, StartsAlone DEF CacheInv, Rewrites, Building
  <2> QED BY <2>2, <2>3 DEF BuildsAlone
<1>2. ASSUME NEW p \in Procs, LookForOverview(p) PROVE BuildsAlone'
  BY <1>2, LookForOverviewRow, AloneAfter DEF CacheInv
<1>3. ASSUME NEW p \in Procs, Regroup(p) PROVE BuildsAlone'
  BY <1>3, RegroupRow, AloneAfter DEF CacheInv
<1>4. ASSUME NEW p \in Procs, ScanAssets(p) PROVE BuildsAlone'
  BY <1>4, ScanAssetsRow, AloneAfter DEF CacheInv
<1>5. ASSUME NEW p \in Procs, ReadCoverage(p) PROVE BuildsAlone'
  BY <1>5, ReadCoverageRow, AloneAfter DEF CacheInv
<1>6. ASSUME NEW p \in Procs, StoreOverview(p) PROVE BuildsAlone'
  BY <1>6, StoreOverviewRow, AloneAfter DEF CacheInv
<1>7. ASSUME NEW p \in Procs, CompareState(p) PROVE BuildsAlone'
  BY <1>7, CompareStateRow, AloneAfter DEF CacheInv
<1>8. ASSUME NEW p \in Procs, ReadGeneration(p) PROVE BuildsAlone'
  BY <1>8, ReadGenerationRow, AloneAfter DEF CacheInv
<1>9. ASSUME NEW p \in Procs, CheckReuse(p) PROVE BuildsAlone'
  BY <1>9, CheckReuseRow, AloneAfter DEF CacheInv
<1>10. ASSUME NEW p \in Procs, CommitCounts(p) PROVE BuildsAlone'
  BY <1>10, CommitCountsRow, AloneAfter DEF CacheInv
<1>11. ASSUME NEW p \in Procs, ReadPayload(p) PROVE BuildsAlone'
  BY <1>11, ReadPayloadRow, AloneAfter DEF CacheInv
<1>12. ASSUME NEW p \in Procs, UpdateOverview(p) PROVE BuildsAlone'
  <2>1. rf'[p].pc = "idle"
    BY <1>12, UpdateOverviewRow DEF CacheInv, Idle, Begin
  <2> QED BY <1>12, <2>1, UpdateOverviewRow, AloneAfter DEF CacheInv
<1>13. ASSUME NEW p \in Procs, IndexAssets(p) PROVE BuildsAlone'
  BY <1>13, IndexAssetsRow, AloneAfter DEF CacheInv
<1>14. ASSUME NEW p \in Procs, BeginVectors(p) PROVE BuildsAlone'
  BY <1>14, BeginVectorsRow, AloneAfter DEF CacheInv
<1>15. ASSUME NEW p \in Procs, WriteVectors(p) PROVE BuildsAlone'
  BY <1>15, WriteVectorsRow, AloneAfter DEF CacheInv
<1>16. ASSUME NEW p \in Procs, LinkMessage(p) PROVE BuildsAlone'
  BY <1>16 DEF LinkMessage, CacheInv, BuildsAlone, Building
<1>17. ASSUME NEW p \in Procs, Crash(p) PROVE BuildsAlone'
  <2>1. rf'[p].pc = "idle"
    BY <1>17, CrashRow DEF CacheInv, Idle, Begin
  <2> QED BY <1>17, <2>1, CrashRow, AloneAfter DEF CacheInv
<1>18. CASE BuildPopularity
  BY <1>18 DEF BuildPopularity, CacheInv, BuildsAlone, Building
<1> QED BY <1>1, <1>2, <1>3, <1>4, <1>5, <1>6, <1>7, <1>8, <1>9, <1>10, <1>11, <1>12,
   <1>13, <1>14, <1>15, <1>16, <1>17, <1>18 DEF CacheNext, RefreshStep, Starts

LEMMA BuildPcsKept ==
  ASSUME CacheInv, CacheNext
  PROVE  BuildPcs'
<1>1. ASSUME NEW p \in Procs, Starts(p) PROVE BuildPcs'
  BY <1>1, StartsRow DEF CacheInv, BuildPcs, Rewrites
<1>2. ASSUME NEW p \in Procs, LookForOverview(p) PROVE BuildPcs'
  BY <1>2, LookForOverviewRow DEF CacheInv, BuildPcs, Rewrites
<1>3. ASSUME NEW p \in Procs, Regroup(p) PROVE BuildPcs'
  BY <1>3, RegroupRow DEF CacheInv, BuildPcs, Rewrites
<1>4. ASSUME NEW p \in Procs, ScanAssets(p) PROVE BuildPcs'
  BY <1>4, ScanAssetsRow DEF CacheInv, BuildPcs, Rewrites
<1>5. ASSUME NEW p \in Procs, ReadCoverage(p) PROVE BuildPcs'
  BY <1>5, ReadCoverageRow DEF CacheInv, BuildPcs, Rewrites
<1>6. ASSUME NEW p \in Procs, StoreOverview(p) PROVE BuildPcs'
  BY <1>6, StoreOverviewRow DEF CacheInv, BuildPcs, Rewrites
<1>7. ASSUME NEW p \in Procs, CompareState(p) PROVE BuildPcs'
  BY <1>7, CompareStateRow DEF CacheInv, BuildPcs, Rewrites
<1>8. ASSUME NEW p \in Procs, ReadGeneration(p) PROVE BuildPcs'
  BY <1>8, ReadGenerationRow DEF CacheInv, BuildPcs, Rewrites
<1>9. ASSUME NEW p \in Procs, CheckReuse(p) PROVE BuildPcs'
  BY <1>9, CheckReuseRow DEF CacheInv, BuildPcs, Rewrites
<1>10. ASSUME NEW p \in Procs, CommitCounts(p) PROVE BuildPcs'
  BY <1>10, CommitCountsRow DEF CacheInv, BuildPcs, Rewrites
<1>11. ASSUME NEW p \in Procs, ReadPayload(p) PROVE BuildPcs'
  BY <1>11, ReadPayloadRow DEF CacheInv, BuildPcs, Rewrites
<1>12. ASSUME NEW p \in Procs, UpdateOverview(p) PROVE BuildPcs'
  BY <1>12, UpdateOverviewRow DEF CacheInv, BuildPcs, Rewrites, Idle, Begin
<1>13. ASSUME NEW p \in Procs, IndexAssets(p) PROVE BuildPcs'
  BY <1>13, IndexAssetsRow DEF CacheInv, BuildPcs, Rewrites
<1>14. ASSUME NEW p \in Procs, BeginVectors(p) PROVE BuildPcs'
  BY <1>14, BeginVectorsRow DEF CacheInv, BuildPcs, Rewrites
<1>15. ASSUME NEW p \in Procs, WriteVectors(p) PROVE BuildPcs'
  BY <1>15, WriteVectorsRow DEF CacheInv, BuildPcs, Rewrites
<1>16. ASSUME NEW p \in Procs, LinkMessage(p) PROVE BuildPcs'
  BY <1>16 DEF LinkMessage, CacheInv, BuildPcs
<1>17. ASSUME NEW p \in Procs, Crash(p) PROVE BuildPcs'
  BY <1>17, CrashRow DEF CacheInv, BuildPcs, Rewrites, Idle, Begin
<1>18. CASE BuildPopularity
  BY <1>18 DEF BuildPopularity, CacheInv, BuildPcs
<1> QED BY <1>1, <1>2, <1>3, <1>4, <1>5, <1>6, <1>7, <1>8, <1>9, <1>10, <1>11, <1>12,
   <1>13, <1>14, <1>15, <1>16, <1>17, <1>18 DEF CacheNext, RefreshStep, Starts

LEMMA GroupingKept ==
  ASSUME Sheltered, CacheInv, CacheNext
  PROVE  GroupingInv'
<1>1. ASSUME NEW p \in Procs, Starts(p) PROVE GroupingInv'
  BY <1>1, StartsRow, RegroupingStays DEF CacheInv, Starts, StartServe, StartLink,
    StartIndex, Start, files, caches, GroupingInv, Rewrites
<1>2. ASSUME NEW p \in Procs, LookForOverview(p) PROVE GroupingInv'
  BY <1>2, LookForOverviewRow, NotRegrouping DEF CacheInv, GroupingInv, LookForOverview,
    CacheTypeOK, files, caches, Rewrites, Groupings
<1>3. ASSUME NEW p \in Procs, Regroup(p) PROVE GroupingInv'
  BY <1>3 DEF Regroup, GroupingInv
<1>4. ASSUME NEW p \in Procs, ScanAssets(p) PROVE GroupingInv'
  <2>1. grouping = "current"
    BY <1>4, ScanAssetsRow DEF CacheInv, GroupingInv
  <2> QED BY <1>4, <2>1 DEF ScanAssets, GroupingInv, files
<1>5. ASSUME NEW p \in Procs, ReadCoverage(p) PROVE GroupingInv'
  <2>1. grouping = "current"
    BY <1>5, ReadCoverageRow DEF CacheInv, GroupingInv
  <2> QED BY <1>5, <2>1 DEF ReadCoverage, GroupingInv, files
<1>6. ASSUME NEW p \in Procs, StoreOverview(p) PROVE GroupingInv'
  <2>1. grouping = "current"
    BY <1>6, StoreOverviewRow DEF CacheInv, GroupingInv
  <2> QED BY <1>6, <2>1 DEF StoreOverview, GroupingInv, files
<1>7. ASSUME NEW p \in Procs, CompareState(p) PROVE GroupingInv'
  <2>1. grouping = "current"
    BY <1>7, CompareStateRow DEF CacheInv, GroupingInv
  <2> QED BY <1>7, <2>1 DEF CompareState, GroupingInv, files
<1>8. ASSUME NEW p \in Procs, ReadGeneration(p) PROVE GroupingInv'
  <2>1. grouping = "current"
    BY <1>8, ReadGenerationRow DEF CacheInv, GroupingInv
  <2> QED BY <1>8, <2>1 DEF ReadGeneration, GroupingInv, files
<1>9. ASSUME NEW p \in Procs, CheckReuse(p) PROVE GroupingInv'
  <2>1. grouping = "current"
    BY <1>9, CheckReuseRow DEF CacheInv, GroupingInv
  <2> QED BY <1>9, <2>1 DEF CheckReuse, GroupingInv, files
<1>10. ASSUME NEW p \in Procs, CommitCounts(p) PROVE GroupingInv'
  <2>1. grouping = "current"
    BY <1>10, CommitCountsRow DEF CacheInv, GroupingInv
  <2> QED BY <1>10, <2>1 DEF CommitCounts, GroupingInv, files
<1>11. ASSUME NEW p \in Procs, ReadPayload(p) PROVE GroupingInv'
  <2>1. grouping = "current"
    BY <1>11, ReadPayloadRow DEF CacheInv, GroupingInv
  <2> QED BY <1>11, <2>1 DEF ReadPayload, GroupingInv, files
<1>12. ASSUME NEW p \in Procs, UpdateOverview(p) PROVE GroupingInv'
  <2>1. grouping = "current"
    BY <1>12, UpdateOverviewRow DEF CacheInv, GroupingInv
  <2> QED BY <1>12, <2>1 DEF UpdateOverview, GroupingInv, files
<1>13. ASSUME NEW p \in Procs, IndexAssets(p) PROVE GroupingInv'
  <2>1. /\ Rewrites(p) /\ rf[p].pc = "assets" /\ rf[p].op = "build" /\ rf'[p].op = "build"
        /\ rf'[p].pc \in {"groups", "stage"}
    BY <1>13, IndexAssetsRow DEF CacheInv, BuildPcs
  <2>2. \A q \in Procs \ {p} : rf'[q].pc = "idle"
    BY <2>1 DEF CacheInv, BuildsAlone, Building, Rewrites
  <2>3. CASE rf'[p].pc = "groups"
    BY <2>1, <2>3, <2>2 DEF Regrouping, GroupingInv
  <2>4. CASE rf'[p].pc = "stage"
    <3>1. grouping # "missing" /\ grouping' = grouping
      BY <2>4, <1>13 DEF CacheInv, CacheTypeOK, Refresh, IndexAssets, files
    <3>2. grouping # "outdated"
      BY <2>1, NotRegrouping DEF CacheInv, GroupingInv
    <3> QED BY <3>1, <3>2 DEF GroupingInv, CacheInv, CacheTypeOK, Groupings
  <2> QED BY <2>1, <2>3, <2>4
<1>14. ASSUME NEW p \in Procs, BeginVectors(p) PROVE GroupingInv'
  <2>1. grouping = "current"
    BY <1>14, BeginVectorsRow DEF CacheInv, GroupingInv
  <2> QED BY <1>14, <2>1 DEF BeginVectors, GroupingInv, files
<1>15. ASSUME NEW p \in Procs, WriteVectors(p) PROVE GroupingInv'
  <2>1. grouping = "current"
    BY <1>15, WriteVectorsRow DEF CacheInv, GroupingInv
  <2> QED BY <1>15, <2>1 DEF WriteVectors, GroupingInv, files
<1>16. ASSUME NEW p \in Procs, LinkMessage(p) PROVE GroupingInv'
  BY <1>16 DEF LinkMessage, CacheInv, GroupingInv, Regrouping, files, caches
<1>17. ASSUME NEW p \in Procs, Crash(p) PROVE GroupingInv'
  <2>1. UNCHANGED <<grouping, ovw>> /\ Rewrites(p) /\ rf[p].pc # "groups" /\ rf'[p].pc = "idle"
    <3>1. "groups" \in CrashSafe
      BY Zenon DEF Sheltered
    <3>2. Rewrites(p) /\ rf[p].pc \notin CrashSafe \cup {"idle"} /\ rf'[p] = Idle
      BY <1>17, CrashRow DEF CacheInv
    <3>3. Idle.pc = "idle"
      BY DEF Idle, Begin
    <3>4. rf[p].pc # "groups"
      BY <3>1, <3>2
    <3> QED BY <1>17, <3>2, <3>3, <3>4 DEF Crash, files, caches
  <2>2. Regrouping => Regrouping'
    BY <2>1, RegroupingStays
  <2> QED BY <2>1, <2>2 DEF CacheInv, GroupingInv, Rewrites
<1>18. CASE BuildPopularity
  BY <1>18 DEF BuildPopularity, CacheInv, GroupingInv, Regrouping, files, caches
<1> QED BY <1>1, <1>2, <1>3, <1>4, <1>5, <1>6, <1>7, <1>8, <1>9, <1>10, <1>11, <1>12,
   <1>13, <1>14, <1>15, <1>16, <1>17, <1>18 DEF CacheNext, RefreshStep, Starts

----------------------------------------------------------------------------
(***************************************************************************)
(* The cube and the counts.                                                *)
(***************************************************************************)

\* What a transaction of the linker does to the occurrences and to what
\* depends on them.
LEMMA LinkedMessage ==
  ASSUME NEW p \in Procs, LinkMessage(p)
  PROVE  /\ UNCHANGED <<groups, cube, caches, files, rf>>
         /\ occ' # occ => gen' = gen + 1 /\ build' = Invalidated
         /\ occ' = occ => gen' = gen /\ build' = build
BY DEF LinkMessage, InvalidatedWhen, GenerationAfter

\* The builder of popularity leaves the occurrences where they are.
LEMMA PopularityBuilt ==
  ASSUME CacheTypeOK, BuildPopularity
  PROVE  Present(occ') = Present(occ)
<1>1. \A k \in Keys : occ'[k] = Absent <=> occ[k] = Absent
  BY NullAssumption DEF BuildPopularity, Facts
<1> QED BY <1>1 DEF Present

\* New groups come when no refresh is under way.
LEMMA Regrouped ==
  ASSUME CacheInv, NEW p \in Procs, Regroup(p)
  PROVE  /\ gen' = gen /\ index' = index /\ occ' = occ /\ ovw' = NoRow
         /\ \/ UNCHANGED <<manifestVars, cstate, acounts, ecounts>>
            \/ /\ build' = NoRow /\ cstate' = NoRow
               /\ \A q \in Procs : rf[q].pc \in {"idle", "prepare", "groups", "assets"}
<1>1. PICK g \in Representatives :
        /\ grouping = "current" => g = groups
        /\ RefreshExactGroups(g)
        /\ IF g # groups
             THEN cstate' = NoRow /\ acounts' = NoCounts /\ ecounts' = NoCounts
             ELSE UNCHANGED <<cstate, acounts, ecounts>>
  BY DEF Regroup
<1>2. CASE g = groups
  BY <1>1, <1>2 DEF Regroup, RefreshExactGroups, manifestVars
<1>3. CASE g # groups
  BY <1>1, <1>3 DEF Regroup, RefreshExactGroups, CacheInv, GroupingInv
<1> QED BY <1>2, <1>3

LEMMA CubeKept ==
  ASSUME CacheInv, CacheNext
  PROVE  CubeInv'
<1>1. ASSUME NEW p \in Procs, Starts(p) PROVE CubeInv'
  BY <1>1 DEF Starts, StartServe, StartLink, StartIndex, Start, CacheInv, CubeInv,
     manifestVars
<1>2. ASSUME NEW p \in Procs, LookForOverview(p) PROVE CubeInv'
  BY <1>2 DEF LookForOverview, CacheInv, CubeInv, manifestVars
<1>3. ASSUME NEW p \in Procs, Regroup(p) PROVE CubeInv'
  BY <1>3, Regrouped DEF CacheInv, CubeInv, manifestVars
<1>4. ASSUME NEW p \in Procs, ScanAssets(p) PROVE CubeInv'
  BY <1>4 DEF ScanAssets, CacheInv, CubeInv, manifestVars
<1>5. ASSUME NEW p \in Procs, ReadCoverage(p) PROVE CubeInv'
  BY <1>5 DEF ReadCoverage, CacheInv, CubeInv, manifestVars
<1>6. ASSUME NEW p \in Procs, StoreOverview(p) PROVE CubeInv'
  BY <1>6 DEF StoreOverview, CacheInv, CubeInv, manifestVars
<1>7. ASSUME NEW p \in Procs, CompareState(p) PROVE CubeInv'
  BY <1>7 DEF CompareState, CacheInv, CubeInv, manifestVars
<1>8. ASSUME NEW p \in Procs, ReadGeneration(p) PROVE CubeInv'
  BY <1>8 DEF ReadGeneration, CacheInv, CubeInv, manifestVars
<1>9. ASSUME NEW p \in Procs, CheckReuse(p) PROVE CubeInv'
  BY <1>9 DEF CheckReuse, CacheInv, CubeInv, manifestVars
<1>10. ASSUME NEW p \in Procs, CommitCounts(p) PROVE CubeInv'
  BY <1>10 DEF CommitCounts, CacheInv, CubeInv, manifestVars
<1>11. ASSUME NEW p \in Procs, ReadPayload(p) PROVE CubeInv'
  BY <1>11 DEF ReadPayload, CacheInv, CubeInv, manifestVars
<1>12. ASSUME NEW p \in Procs, UpdateOverview(p) PROVE CubeInv'
  BY <1>12 DEF UpdateOverview, CacheInv, CubeInv, manifestVars
<1>13. ASSUME NEW p \in Procs, IndexAssets(p) PROVE CubeInv'
  BY <1>13 DEF IndexAssets, CacheInv, CubeInv, manifestVars
<1>14. ASSUME NEW p \in Procs, BeginVectors(p) PROVE CubeInv'
  BY <1>14 DEF BeginVectors, CacheInv, CubeInv, manifestVars
<1>15. ASSUME NEW p \in Procs, WriteVectors(p) PROVE CubeInv'
  BY <1>15 DEF WriteVectors, CacheInv, CubeInv, manifestVars
<1>16. ASSUME NEW p \in Procs, LinkMessage(p) PROVE CubeInv'
  BY <1>16, LinkedMessage DEF CacheInv, CubeInv, Invalidated
<1>17. ASSUME NEW p \in Procs, Crash(p) PROVE CubeInv'
  BY <1>17 DEF Crash, CacheInv, CubeInv, manifestVars
<1>18. CASE BuildPopularity
  BY <1>18 DEF BuildPopularity, CubeInv, Completed
<1> QED BY <1>1, <1>2, <1>3, <1>4, <1>5, <1>6, <1>7, <1>8, <1>9, <1>10, <1>11, <1>12,
   <1>13, <1>14, <1>15, <1>16, <1>17, <1>18 DEF CacheNext, RefreshStep, Starts

LEMMA StateKept ==
  ASSUME CacheInv, CacheNext
  PROVE  StateInv'
<1>1. ASSUME NEW p \in Procs, Starts(p) PROVE StateInv'
  BY <1>1 DEF Starts, StartServe, StartLink, StartIndex, Start, CacheInv, StateInv,
     AssetCounts, ExactCounts, manifestVars, caches
<1>2. ASSUME NEW p \in Procs, LookForOverview(p) PROVE StateInv'
  BY <1>2 DEF LookForOverview, CacheInv, StateInv, AssetCounts, ExactCounts, manifestVars,
     caches
<1>3. ASSUME NEW p \in Procs, Regroup(p) PROVE StateInv'
  BY <1>3, Regrouped DEF CacheInv, StateInv, AssetCounts, ExactCounts, manifestVars, caches
<1>4. ASSUME NEW p \in Procs, ScanAssets(p) PROVE StateInv'
  BY <1>4 DEF ScanAssets, CacheInv, StateInv, AssetCounts, ExactCounts, manifestVars, caches
<1>5. ASSUME NEW p \in Procs, ReadCoverage(p) PROVE StateInv'
  BY <1>5 DEF ReadCoverage, CacheInv, StateInv, AssetCounts, ExactCounts, manifestVars,
     caches
<1>6. ASSUME NEW p \in Procs, StoreOverview(p) PROVE StateInv'
  BY <1>6 DEF StoreOverview, CacheInv, StateInv, AssetCounts, ExactCounts, manifestVars,
     caches
<1>7. ASSUME NEW p \in Procs, CompareState(p) PROVE StateInv'
  BY <1>7 DEF CompareState, CacheInv, StateInv, AssetCounts, ExactCounts, manifestVars,
     caches
<1>8. ASSUME NEW p \in Procs, ReadGeneration(p) PROVE StateInv'
  BY <1>8 DEF ReadGeneration, CacheInv, StateInv, AssetCounts, ExactCounts, manifestVars,
     caches
<1>9. ASSUME NEW p \in Procs, CheckReuse(p) PROVE StateInv'
  BY <1>9 DEF CheckReuse, CacheInv, StateInv, AssetCounts, ExactCounts, manifestVars, caches
<1>10. ASSUME NEW p \in Procs, CommitCounts(p) PROVE StateInv'
  <2>1. /\ cstate' = [occurrences |-> rf[p].occurrences, gen |-> rf[p].gen] /\ rf[p].pc = "counts"
        /\ acounts' = IF rf[p].assets THEN acounts ELSE AssetCounts
        /\ ecounts' = IF rf[p].cube THEN CubeCounts(cube) ELSE ExactCounts
        /\ UNCHANGED <<manifestVars, gen>>
    BY <1>10 DEF CommitCounts, StateAsRead
  <2>2. cstate'.gen = rf[p].gen /\ rf[p].gen <= gen
    BY <2>1 DEF CacheInv, ReuseInv
  <2>3. AssetCounts' = AssetCounts /\ ExactCounts' = ExactCounts /\ CubeCounts(cube)' = CubeCounts(cube)
    BY <2>1 DEF AssetCounts, ExactCounts, CubeCounts, manifestVars
  <2>4. ASSUME rf[p].gen = gen
        PROVE  /\ acounts' = AssetCounts
               /\ ecounts' = ExactCounts \/ (build # NoRow /\ build.ready /\ ecounts' = CubeCounts(cube))
    BY <2>1, <2>4 DEF CacheInv, ReuseInv
  <2> QED BY <2>1, <2>2, <2>3, <2>4 DEF StateInv, manifestVars
<1>11. ASSUME NEW p \in Procs, ReadPayload(p) PROVE StateInv'
  BY <1>11 DEF ReadPayload, CacheInv, StateInv, AssetCounts, ExactCounts, manifestVars,
     caches
<1>12. ASSUME NEW p \in Procs, UpdateOverview(p) PROVE StateInv'
  BY <1>12 DEF UpdateOverview, CacheInv, StateInv, AssetCounts, ExactCounts, manifestVars,
     caches
<1>13. ASSUME NEW p \in Procs, IndexAssets(p) PROVE StateInv'
  BY <1>13 DEF IndexAssets, CacheInv, StateInv, AssetCounts, ExactCounts, manifestVars,
     caches
<1>14. ASSUME NEW p \in Procs, BeginVectors(p) PROVE StateInv'
  BY <1>14 DEF BeginVectors, CacheInv, StateInv, AssetCounts, ExactCounts, manifestVars,
     caches
<1>15. ASSUME NEW p \in Procs, WriteVectors(p) PROVE StateInv'
  BY <1>15 DEF WriteVectors, CacheInv, StateInv, AssetCounts, ExactCounts, manifestVars,
     caches
<1>16. ASSUME NEW p \in Procs, LinkMessage(p) PROVE StateInv'
  <2>1. CASE occ' = occ
    BY <1>16, <2>1, LinkedMessage DEF CacheInv, StateInv, AssetCounts, ExactCounts, manifestVars, caches
  <2>2. CASE occ' # occ
    BY <1>16, <2>2, LinkedMessage DEF CacheInv, CacheTypeOK, caches, StateRow, StateInv
  <2> QED BY <2>1, <2>2
<1>17. ASSUME NEW p \in Procs, Crash(p) PROVE StateInv'
  BY <1>17 DEF Crash, CacheInv, StateInv, AssetCounts, ExactCounts, manifestVars, caches
<1>18. CASE BuildPopularity
  BY <1>18, PopularityBuilt DEF CacheInv, AssetCounts, ExactCounts, BuildPopularity,
    CubeInv, StateInv, caches
<1> QED BY <1>1, <1>2, <1>3, <1>4, <1>5, <1>6, <1>7, <1>8, <1>9, <1>10, <1>11, <1>12,
   <1>13, <1>14, <1>15, <1>16, <1>17, <1>18 DEF CacheNext, RefreshStep, Starts

LEMMA ReuseAfter ==
  ASSUME CacheInv, NEW p \in Procs, Rewrites(p), UNCHANGED <<manifestVars, gen, acounts>>,
         rf'[p].gen \in {0, rf[p].gen, gen},
         rf'[p].pc = "counts" /\ rf'[p].gen = gen =>
           /\ rf'[p].assets => acounts = AssetCounts
           /\ rf'[p].cube => build # NoRow /\ build.ready
  PROVE  ReuseInv'
BY DEF AssetCounts, manifestVars, CacheInv, CacheTypeOK, ReuseInv, Rewrites

LEMMA ReuseKept ==
  ASSUME CacheInv, CacheNext
  PROVE  ReuseInv'
<1>1. ASSUME NEW p \in Procs, Starts(p) PROVE ReuseInv'
  BY <1>1, StartsRow, ReuseAfter DEF CacheInv, Starts, StartServe, StartLink,
    StartIndex, Start, caches
<1>2. ASSUME NEW p \in Procs, LookForOverview(p) PROVE ReuseInv'
  <2>1. Rewrites(p) /\ rf'[p].gen = rf[p].gen /\ rf'[p].pc \in {"compare", "groups", "scan"}
    BY <1>2, LookForOverviewRow DEF CacheInv
  <2>2. UNCHANGED <<manifestVars, gen, acounts>>
    BY <1>2 DEF LookForOverview, caches
  <2> QED BY <2>1, <2>2, ReuseAfter
<1>3. ASSUME NEW p \in Procs, Regroup(p) PROVE ReuseInv'
  <2>1. /\ Rewrites(p) /\ rf'[p].gen = rf[p].gen /\ rf'[p].pc # "counts" /\ gen' = gen
    BY <1>3, RegroupRow, Regrouped DEF CacheInv
  <2>2. CASE UNCHANGED <<manifestVars, cstate, acounts, ecounts>>
    BY <2>1, <2>2, ReuseAfter
  <2>3. CASE \A q \in Procs : rf[q].pc \in {"idle", "prepare", "groups", "assets"}
    BY <2>1, <2>3 DEF CacheInv, ReuseInv, Rewrites
  <2> QED BY <1>3, <2>2, <2>3, Regrouped
<1>4. ASSUME NEW p \in Procs, ScanAssets(p) PROVE ReuseInv'
  BY <1>4, ScanAssetsRow, ReuseAfter DEF CacheInv, ScanAssets, caches
<1>5. ASSUME NEW p \in Procs, ReadCoverage(p) PROVE ReuseInv'
  BY <1>5, ReadCoverageRow, ReuseAfter DEF CacheInv, ReadCoverage, caches
<1>6. ASSUME NEW p \in Procs, StoreOverview(p) PROVE ReuseInv'
  BY <1>6, StoreOverviewRow, ReuseAfter DEF CacheInv, StoreOverview, caches
<1>7. ASSUME NEW p \in Procs, CompareState(p) PROVE ReuseInv'
  BY <1>7, CompareStateRow, ReuseAfter DEF CacheInv, CompareState, caches
<1>8. ASSUME NEW p \in Procs, ReadGeneration(p) PROVE ReuseInv'
  BY <1>8, ReadGenerationRow, ReuseAfter DEF CacheInv, ReadGeneration, caches
<1>9. ASSUME NEW p \in Procs, CheckReuse(p) PROVE ReuseInv'
  <2>1. /\ Rewrites(p) /\ rf'[p].gen = rf[p].gen /\ UNCHANGED <<manifestVars, gen, acounts>>
        /\ rf'[p].assets = CanReuseAssetCounts(p) /\ rf'[p].cube = CanReuseCube
    BY <1>9, CheckReuseRow DEF CacheInv, CheckReuse, caches
  <2>2. ASSUME CanReuseAssetCounts(p), rf[p].gen = gen PROVE acounts = AssetCounts
    BY <2>2, CacheNullAssumption DEF CanReuseAssetCounts, CacheInv, CacheTypeOK,
      Refresh, StateRow, StateInv
  <2> QED BY <2>1, <2>2, ReuseAfter DEF CanReuseCube
<1>10. ASSUME NEW p \in Procs, CommitCounts(p) PROVE ReuseInv'
  <2>1. /\ Rewrites(p) /\ rf'[p].gen = 0 /\ rf'[p].pc # "counts" /\ rf[p].pc = "counts"
        /\ acounts' = IF rf[p].assets THEN acounts ELSE AssetCounts
        /\ UNCHANGED <<manifestVars, gen>>
    BY <1>10, CommitCountsRow DEF CacheInv, CommitCounts
  <2>2. AssetCounts' = AssetCounts /\ build' = build
    BY <2>1 DEF AssetCounts, manifestVars
  <2>3. 0 <= gen
    BY DEF CacheInv, CacheTypeOK
  <2> QED BY <2>1, <2>2, <2>3 DEF CacheInv, ReuseInv, Rewrites
<1>11. ASSUME NEW p \in Procs, ReadPayload(p) PROVE ReuseInv'
  BY <1>11, ReadPayloadRow, ReuseAfter DEF CacheInv, ReadPayload, caches
<1>12. ASSUME NEW p \in Procs, UpdateOverview(p) PROVE ReuseInv'
  <2>1. Idle.gen = 0 /\ Idle.pc = "idle"
    BY DEF Idle, Begin
  <2>2. Rewrites(p) /\ rf'[p] = Idle
    BY <1>12, UpdateOverviewRow DEF CacheInv
  <2>3. UNCHANGED <<manifestVars, gen, acounts>>
    BY <1>12 DEF UpdateOverview, caches
  <2> QED BY <2>1, <2>2, <2>3, ReuseAfter
<1>13. ASSUME NEW p \in Procs, IndexAssets(p) PROVE ReuseInv'
  BY <1>13, IndexAssetsRow, ReuseAfter DEF CacheInv, IndexAssets, caches
<1>14. ASSUME NEW p \in Procs, BeginVectors(p) PROVE ReuseInv'
  BY <1>14, BeginVectorsRow, ReuseAfter DEF CacheInv, BeginVectors, caches
<1>15. ASSUME NEW p \in Procs, WriteVectors(p) PROVE ReuseInv'
  BY <1>15, WriteVectorsRow, ReuseAfter DEF CacheInv, WriteVectors, caches
<1>16. ASSUME NEW p \in Procs, LinkMessage(p) PROVE ReuseInv'
  <2>1. CASE occ' = occ
    BY <1>16, <2>1, LinkedMessage DEF CacheInv, ReuseInv, AssetCounts, caches
  <2>2. CASE occ' # occ
    <3>1. gen' = gen + 1 /\ gen \in Int /\ rf' = rf
      BY <1>16, <2>2, LinkedMessage DEF CacheInv, CacheTypeOK
    <3>2. ASSUME NEW q \in Procs PROVE rf[q].gen \in Int /\ rf[q].gen <= gen
      BY DEF CacheInv, CacheTypeOK, Refresh, ReuseInv
    <3>3. ASSUME NEW q \in Procs PROVE rf'[q].gen <= gen' /\ rf'[q].gen # gen'
      BY <3>1, <3>2
    <3> QED BY <3>3 DEF ReuseInv
  <2> QED BY <2>1, <2>2
<1>17. ASSUME NEW p \in Procs, Crash(p) PROVE ReuseInv'
  <2>1. Idle.gen = 0 /\ Idle.pc = "idle"
    BY DEF Idle, Begin
  <2>2. Rewrites(p) /\ rf'[p] = Idle
    BY <1>17, CrashRow DEF CacheInv
  <2>3. UNCHANGED <<manifestVars, gen, acounts>>
    BY <1>17 DEF Crash, caches
  <2> QED BY <2>1, <2>2, <2>3, ReuseAfter
<1>18. CASE BuildPopularity
  <2>1. Present(occ') = Present(occ)
    BY <1>18, PopularityBuilt DEF CacheInv
  <2>2. AssetCounts' = AssetCounts
    BY <1>18, <2>1 DEF AssetCounts
  <2>3. ~(build # NoRow /\ build.ready)
    BY <1>18 DEF BuildPopularity, CacheInv, CubeInv
  <2>4. build' \in BuildRow /\ build'.ready
    BY SetsCounted, <1>18 DEF BuildPopularity, BuildRow
  <2>5. build' # NoRow
    BY <2>4, NullAssumption
  <2> QED BY <1>18, <2>2, <2>4, <2>5 DEF BuildPopularity, CacheInv, ReuseInv, caches
<1> QED BY <1>1, <1>2, <1>3, <1>4, <1>5, <1>6, <1>7, <1>8, <1>9, <1>10, <1>11, <1>12,
   <1>13, <1>14, <1>15, <1>16, <1>17, <1>18 DEF CacheNext, RefreshStep, Starts

----------------------------------------------------------------------------
(***************************************************************************)
(* The overview.                                                           *)
(***************************************************************************)

LEMMA StaticAfter ==
  ASSUME CacheInv, NEW p \in Procs, Rewrites(p), index' = index, rf[p].pc # "groups",
         ovw' # NoRow => ovw'.static = index \/ Regrouping,
         ovw' # NoRow => ovw # NoRow \/ \A q \in Procs : rf[q].pc # "vectors",
         rf'[p].pc = "vectors" => ovw' = NoRow,
         Describing(rf'[p]) => rf'[p].static = index
  PROVE  StaticInv'
<1>1. Regrouping => Regrouping'
  BY RegroupingStays
<1>2. ASSUME NEW q \in Procs, q # p
      PROVE  /\ rf'[q].pc = "vectors" => ovw' = NoRow
             /\ Describing(rf'[q]) => rf'[q].static = index
  BY <1>2 DEF CacheInv, StaticInv, Rewrites
<1> QED BY <1>1, <1>2 DEF StaticInv

\* A process past its groups works on an overview of the files.
LEMMA OverviewStands ==
  ASSUME CacheInv, NEW p \in Procs, rf[p].pc \notin {"idle", "groups"}, ovw # NoRow
  PROVE  ovw.static = index
BY NotRegrouping DEF CacheInv, StaticInv

LEMMA StaticKept ==
  ASSUME Sheltered, CacheInv, CacheNext
  PROVE  StaticInv'
<1>1. ASSUME NEW p \in Procs, Starts(p) PROVE StaticInv'
  BY <1>1, StartsRow, StaticAfter DEF CacheInv, Starts, StartServe, StartLink,
    StartIndex, Start, caches, files, StaticInv, Describing
<1>2. ASSUME NEW p \in Procs, LookForOverview(p) PROVE StaticInv'
  <2>1. /\ Rewrites(p) /\ rf'[p].pc \in {"compare", "groups", "scan"} /\ rf[p].pc # "groups"
    BY <1>2, LookForOverviewRow DEF CacheInv
  <2>2. index' = index /\ ovw' = ovw /\ ~Describing(rf'[p])
    BY <1>2, <2>1 DEF LookForOverview, caches, files, Describing
  <2> QED BY <2>1, <2>2, StaticAfter DEF CacheInv, StaticInv
<1>3. ASSUME NEW p \in Procs, Regroup(p) PROVE StaticInv'
  BY <1>3, RegroupRow, Regrouped DEF CacheInv, Describing, StaticInv, Rewrites
<1>4. ASSUME NEW p \in Procs, ScanAssets(p) PROVE StaticInv'
  BY <1>4, ScanAssetsRow, StaticAfter DEF CacheInv, ScanAssets, caches, files,
    StaticInv, Describing
<1>5. ASSUME NEW p \in Procs, ReadCoverage(p) PROVE StaticInv'
  <2>1. /\ Rewrites(p) /\ rf'[p].pc \in {"generation", "store"} /\ rf[p].pc # "groups"
        /\ index' = index /\ ovw' = ovw
    BY <1>5, ReadCoverageRow DEF CacheInv, ReadCoverage, caches, files
  <2>2. rf'[p].static = index
    BY <1>5, <2>1, ReadCoverageRow DEF CacheInv, StaticInv, Describing
  <2> QED BY <2>1, <2>2, StaticAfter DEF CacheInv, StaticInv
<1>6. ASSUME NEW p \in Procs, StoreOverview(p) PROVE StaticInv'
  <2>1. /\ Rewrites(p) /\ rf[p].pc = "store" /\ rf'[p].pc \in {"idle", "compare"}
        /\ index' = index /\ ovw' = [static |-> rf[p].static, occurrences |-> rf[p].occurrences]
    BY <1>6, StoreOverviewRow DEF CacheInv, StoreOverview, files
  <2>2. ovw'.static = index /\ ~Describing(rf'[p])
    BY <2>1 DEF CacheInv, StaticInv, Describing
  <2>3. ASSUME NEW q \in Procs PROVE rf[q].pc # "vectors"
    BY <2>1 DEF CacheInv, BuildPcs, BuildsAlone, Building
  <2> QED BY <2>1, <2>2, <2>3, StaticAfter
<1>7. ASSUME NEW p \in Procs, CompareState(p) PROVE StaticInv'
  BY <1>7, CompareStateRow, StaticAfter DEF CacheInv, CompareState, caches, files,
    StaticInv, Describing
<1>8. ASSUME NEW p \in Procs, ReadGeneration(p) PROVE StaticInv'
  <2>1. /\ Rewrites(p) /\ rf'[p].pc \in {"reuse"} /\ rf[p].pc # "groups"
        /\ index' = index /\ ovw' = ovw
    BY <1>8, ReadGenerationRow DEF CacheInv, ReadGeneration, caches, files
  <2>2. Describing(rf'[p]) => rf'[p].static = index
    BY <1>8, <2>1, ReadGenerationRow DEF CacheInv, StaticInv, Describing
  <2> QED BY <2>1, <2>2, StaticAfter DEF CacheInv, StaticInv
<1>9. ASSUME NEW p \in Procs, CheckReuse(p) PROVE StaticInv'
  <2>1. /\ Rewrites(p) /\ rf'[p].pc \in {"counts"} /\ rf[p].pc # "groups"
        /\ index' = index /\ ovw' = ovw
    BY <1>9, CheckReuseRow DEF CacheInv, CheckReuse, caches, files
  <2>2. Describing(rf'[p]) => rf'[p].static = index
    BY <1>9, <2>1, CheckReuseRow DEF CacheInv, StaticInv, Describing
  <2> QED BY <2>1, <2>2, StaticAfter DEF CacheInv, StaticInv
<1>10. ASSUME NEW p \in Procs, CommitCounts(p) PROVE StaticInv'
  <2>1. /\ Rewrites(p) /\ rf'[p].pc \in {"idle", "link", "update"} /\ rf[p].pc # "groups"
        /\ index' = index /\ ovw' = ovw
    BY <1>10, CommitCountsRow DEF CacheInv, CommitCounts, caches, files
  <2>2. Describing(rf'[p]) => rf'[p].static = index
    BY <1>10, <2>1, CommitCountsRow DEF CacheInv, StaticInv, Describing
  <2> QED BY <2>1, <2>2, StaticAfter DEF CacheInv, StaticInv
<1>11. ASSUME NEW p \in Procs, ReadPayload(p) PROVE StaticInv'
  <2>1. /\ Rewrites(p) /\ rf'[p].pc \in {"idle", "provenance"} /\ rf[p].pc # "groups"
        /\ index' = index /\ ovw' = ovw
    BY <1>11, ReadPayloadRow DEF CacheInv, ReadPayload, caches, files
  <2>2. Describing(rf'[p]) => rf'[p].static = index
    BY <1>11, <2>1, ReadPayloadRow, OverviewStands DEF CacheInv, StaticInv, Describing
  <2> QED BY <2>1, <2>2, StaticAfter DEF CacheInv, StaticInv
<1>12. ASSUME NEW p \in Procs, UpdateOverview(p) PROVE StaticInv'
  BY <1>12, UpdateOverviewRow, StaticAfter DEF Idle, Begin, Describing, CacheInv,
    UpdateOverview, files, StaticInv
<1>13. ASSUME NEW p \in Procs, IndexAssets(p) PROVE StaticInv'
  <2>1. /\ Rewrites(p) /\ rf[p].pc = "assets" /\ rf[p].op = "build" /\ rf'[p].op = "build"
        /\ rf'[p].pc \in {"groups", "stage"} /\ ovw' = ovw
    BY <1>13, IndexAssetsRow DEF CacheInv, BuildPcs, IndexAssets, caches
  <2>2. \A q \in Procs \ {p} : rf'[q].pc = "idle"
    BY <2>1 DEF CacheInv, BuildsAlone, Building, Rewrites
  <2>3. CASE index' = index
    <3>1. ~Describing(rf'[p])
      BY <2>1 DEF Describing
    <3> QED BY <2>1, <2>3, <3>1, StaticAfter DEF CacheInv, StaticInv
  <2>4. CASE index' # index
    <3>1. rf[p] \in Refresh /\ rf \in [Procs -> Refresh]
      BY DEF CacheInv, CacheTypeOK
    <3>2. rf' = [rf EXCEPT ![p].pc = "groups"]
      BY <1>13, <2>4 DEF IndexAssets, files
    <3>3. rf'[p].pc = "groups"
      BY <3>1, <3>2 DEF Refresh
    <3>4. Regrouping'
      BY <2>1, <3>3 DEF Regrouping
    <3>5. \A q \in Procs : rf'[q].pc \in {"idle", "groups"}
      BY <2>2, <3>3
    <3>6. ASSUME NEW q \in Procs PROVE ~Describing(rf'[q]) /\ rf'[q].pc # "vectors"
      BY <3>5 DEF Describing
    <3> QED BY <3>4, <3>6 DEF StaticInv
  <2> QED BY <2>3, <2>4
<1>14. ASSUME NEW p \in Procs, BeginVectors(p) PROVE StaticInv'
  <2>1. Rewrites(p) /\ rf[p].pc = "stage" /\ index' = index
    BY <1>14, BeginVectorsRow DEF CacheInv, BeginVectors, files
  <2>2. \/ rf'[p].pc = "scan" /\ ovw' = ovw
        \/ rf'[p].pc = "vectors" /\ ovw' = NoRow
    <3>1. rf[p] \in Refresh /\ rf \in [Procs -> Refresh]
      BY DEF CacheInv, CacheTypeOK
    <3> QED BY <1>14, <3>1 DEF BeginVectors, Refresh
  <2>3. ~Describing(rf'[p])
    BY <2>2 DEF Describing
  <2> QED BY <2>1, <2>2, <2>3, StaticAfter DEF CacheInv, StaticInv
<1>15. ASSUME NEW p \in Procs, WriteVectors(p) PROVE StaticInv'
  <2>1. /\ Rewrites(p) /\ rf[p].pc = "vectors" /\ rf[p].op = "build" /\ rf'[p].pc = "scan"
        /\ ovw' = ovw
    BY <1>15, WriteVectorsRow DEF CacheInv, BuildPcs, WriteVectors, caches
  <2>2. \A q \in Procs \ {p} : rf'[q].pc = "idle"
    BY <2>1 DEF CacheInv, BuildsAlone, Building, Rewrites
  <2>3. ovw' = NoRow
    BY <2>1 DEF CacheInv, StaticInv
  <2>4. ASSUME NEW q \in Procs PROVE rf'[q].pc \in {"idle", "scan"}
    BY <2>1, <2>2
  <2>5. ASSUME NEW q \in Procs PROVE ~Describing(rf'[q]) /\ rf'[q].pc # "vectors"
    BY <2>4 DEF Describing
  <2> QED BY <2>3, <2>5 DEF StaticInv
<1>16. ASSUME NEW p \in Procs, LinkMessage(p) PROVE StaticInv'
  BY <1>16 DEF LinkMessage, CacheInv, StaticInv, Regrouping, caches, files
<1>17. ASSUME NEW p \in Procs, Crash(p) PROVE StaticInv'
  <2>1. Idle.pc = "idle" /\ ~Describing(Idle)
    BY DEF Idle, Begin, Describing
  <2>2. "groups" \in CrashSafe
    BY Zenon DEF Sheltered
  <2>3. Rewrites(p) /\ rf'[p] = Idle /\ rf[p].pc # "groups"
    BY <1>17, <2>2, CrashRow DEF CacheInv
  <2>4. index' = index /\ ovw' = ovw
    BY <1>17 DEF Crash, caches, files
  <2> QED BY <2>1, <2>3, <2>4, StaticAfter DEF CacheInv, StaticInv
<1>18. CASE BuildPopularity
  BY <1>18 DEF BuildPopularity, CacheInv, StaticInv, Regrouping, caches, files
<1> QED BY <1>1, <1>2, <1>3, <1>4, <1>5, <1>6, <1>7, <1>8, <1>9, <1>10, <1>11, <1>12,
   <1>13, <1>14, <1>15, <1>16, <1>17, <1>18 DEF CacheNext, RefreshStep, Starts

----------------------------------------------------------------------------
(***************************************************************************)
(* The invariant, and what it says of what is served.                      *)
(***************************************************************************)

LEMMA CacheInvInit ==
  ASSUME CacheInit
  PROVE  CacheInv
<1>1. Idle \in Refresh /\ Idle.pc = "idle" /\ Idle.gen = 0 /\ ~Describing(Idle)
  BY Beginnings DEF Idle, Begin, Ops, RefreshPcs, Describing
<1>2. \A p \in Procs : rf[p] = Idle
  BY DEF CacheInit
<1>3. CacheTypeOK
  BY ManifestAssumption, BoundsAreNumbers, <1>1 DEF CacheInit, Sources, ManifestTypeOK,
    Facts, CacheTypeOK, NoCounts, Groupings
<1>4. BuildsAlone /\ BuildPcs
  BY <1>1, <1>2 DEF BuildsAlone, BuildPcs, Building
<1>5. GroupingInv /\ CubeInv /\ StateInv
  BY <1>1, <1>2 DEF CacheInit, GroupingInv, CubeInv, StateInv
<1>6. ReuseInv /\ StaticInv
  BY <1>1, <1>2 DEF CacheInit, ReuseInv, StaticInv
<1> QED BY <1>3, <1>4, <1>5, <1>6 DEF CacheInv

LEMMA CacheInvStep ==
  ASSUME Sheltered, CacheInv, [CacheNext]_cacheVars
  PROVE  CacheInv'
<1>1. CASE CacheNext
  BY <1>1, TypesKept, BuildsStayAlone, BuildPcsKept, GroupingKept, CubeKept, StateKept, ReuseKept,
     StaticKept DEF CacheInv
<1>2. CASE UNCHANGED cacheVars
  BY <1>2 DEF cacheVars, manifestVars, caches, files, CacheInv, CacheTypeOK, ManifestTypeOK,
     BuildsAlone, Building, BuildPcs, GroupingInv, Regrouping, CubeInv, StateInv, AssetCounts,
     ExactCounts, ReuseInv, StaticInv
<1> QED BY <1>1, <1>2

LEMMA InvariantIsCurrent ==
  ASSUME CacheInv
  PROVE  CachesCurrent
<1>1. CountsOfGeneration
  <2> SUFFICES ASSUME ovw # NoRow, NothingToRefresh
               PROVE  CountsCurrent
    BY DEF CountsOfGeneration
  <2>1. cstate = [occurrences |-> ovw.occurrences, gen |-> gen]
    BY DEF NothingToRefresh
  <2>2. cstate \in StateRow /\ cstate.gen = gen
    BY <2>1 DEF CacheInv, CacheTypeOK, OverviewRow, StateRow
  <2>3. cstate # NoRow
    BY <2>2, CacheNullAssumption
  <2>4. /\ acounts = AssetCounts
        /\ ecounts = ExactCounts \/ (build # NoRow /\ build.ready /\ ecounts = CubeCounts(cube))
    BY <2>2, <2>3 DEF CacheInv, StateInv
  <2> QED BY <2>4 DEF CountsCurrent, CacheInv, CubeInv
<1>2. OverviewOfIndex
  <2> SUFFICES ASSUME ovw # NoRow, ~Running("build")
               PROVE  ovw.static = index
    BY DEF OverviewOfIndex
  <2>1. ~Regrouping
    BY DEF Regrouping, Running
  <2> QED BY <2>1 DEF CacheInv, StaticInv
<1> QED BY <1>1, <1>2 DEF CachesCurrent, CacheInv

\* Whatever links, starts, crashes and indexes, in whatever order: counts that
\* nothing tells to refresh are those of the stored occurrences, and an
\* overview that is served outside a build describes the files as indexed.
THEOREM CachesAreCurrent ==
  ASSUME Sheltered
  PROVE  CacheSpec => []CachesCurrent
<1>1. CacheInit => CacheInv
  BY CacheInvInit
<1>2. CacheInv /\ [CacheNext]_cacheVars => CacheInv'
  BY CacheInvStep
<1>3. CacheInv => CachesCurrent
  BY InvariantIsCurrent
<1> QED BY <1>1, <1>2, <1>3, PTL DEF CacheSpec

\* A refresh after linking replaces the provenance of the overview and keeps
\* what its row says of the files, when no build runs beside it (the
\* configuration MCLostOverview shows what one that does can make of it).
THEOREM OnlyProvenanceChanges ==
  ASSUME Sheltered
  PROVE  CacheSpec => ProvenanceOnly
<1> DEFINE Kept == \A p \in Procs :
             rf[p].pc = "update" /\ rf'[p].pc = "idle" /\ ovw' # ovw => ovw'.static = ovw.static
<1>1. ASSUME CacheInv, CacheNext, NEW p \in Procs, rf[p].pc = "update", rf'[p].pc = "idle", ovw' # ovw
      PROVE  ovw'.static = ovw.static
  <2>1. PICK q \in Procs : Starts(q) \/ RefreshStep(q) \/ LinkMessage(q) \/ Crash(q)
    BY <1>1 DEF CacheNext, Starts, BuildPopularity, caches
  <2>2. StoreOverview(q) \/ UpdateOverview(q) \/ Regroup(q) \/ BeginVectors(q)
    BY <1>1, <2>1 DEF Starts, StartServe, StartLink, StartIndex, Start, RefreshStep, LookForOverview,
       ScanAssets, ReadCoverage, CompareState, ReadGeneration, CheckReuse, CommitCounts,
       ReadPayload, IndexAssets, WriteVectors, LinkMessage, Crash, caches
  <2>3. q = p
    BY <1>1, <2>2, StoreOverviewRow, UpdateOverviewRow, RegroupRow, BeginVectorsRow
       DEF CacheInv, Rewrites
  <2>4. UpdateOverview(p)
    BY <1>1, <2>2, <2>3 DEF StoreOverview, Regroup, BeginVectors
  <2>5. ovw # NoRow /\ ovw'.static = rf[p].static
    BY <1>1, <2>4 DEF UpdateOverview
  <2>6. ovw.static = index
    BY <1>1, <2>5, OverviewStands DEF CacheInv
  <2> QED BY <1>1, <2>5, <2>6 DEF CacheInv, StaticInv, Describing
<1>2. CacheInv /\ [CacheNext]_cacheVars => [Kept]_cacheVars
  BY <1>1
<1>3. CacheInit => CacheInv
  BY CacheInvInit
<1>4. CacheInv /\ [CacheNext]_cacheVars => CacheInv'
  BY CacheInvStep
<1>5. CacheSpec => [][Kept]_cacheVars
  <2> HIDE DEF Kept
  <2> QED BY <1>2, <1>3, <1>4, PTL DEF CacheSpec
<1> QED BY <1>5 DEF ProvenanceOnly
=============================================================================
