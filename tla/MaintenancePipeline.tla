------------------------- MODULE MaintenancePipeline -------------------------
(***************************************************************************)
(* The maintenance of one manifest: the linker and the popularity builder  *)
(* run in threads of their own (two MaintenanceControllers of the web      *)
(* service, or a command line next to it), the indexer refreshes the exact *)
(* groups, and the chat database is replaced under all of them.  They      *)
(* meet in the tables of ManifestStore only.                               *)
(***************************************************************************)
EXTENDS ChatLinker, PopularityBuild

CONSTANT Indexing  \* when build_index may refresh the exact groups

ASSUME PipelineAssumption == Indexing \in {"never", "between builds", "any time"}

pipelineVars == <<source, occ, groups, cube, build, analysis, scan, lk, bd>>

PipelineInit == LinkerInit /\ bd = BuilderIdle

Linker == (StartLink \/ LinkerStep \/ CancelLink \/ AbortLink) /\ UNCHANGED bd

Builder ==
  (StartBuild \/ BuilderStep \/ PauseBuild \/ AbortBuild) /\ UNCHANGED <<scan, lk>>

\* build_index computes the groups from the hashes of the assets it indexed.
RefreshIndex ==
  /\ \/ Indexing = "any time"
     \/ Indexing = "between builds" /\ bd.pc = "idle"
  /\ \E g \in Representatives : RefreshExactGroups(g)
  /\ UNCHANGED <<scan, lk, bd>>

PipelineNext ==
  \/ Linker
  \/ Builder
  \/ RefreshIndex
  \/ ReplaceSource /\ UNCHANGED <<scan, lk, bd>>

PipelineSpec ==
  /\ PipelineInit /\ [][PipelineNext]_pipelineVars
  /\ WF_pipelineVars(LinkerStep /\ UNCHANGED bd)
  /\ WF_pipelineVars(BuilderStep /\ UNCHANGED <<scan, lk>>)

\* Both tasks are started again and again.
PipelineService ==
  /\ PipelineSpec
  /\ WF_pipelineVars(StartLink /\ UNCHANGED bd)
  /\ WF_pipelineVars(StartBuild /\ UNCHANGED <<scan, lk>>)

(***************************************************************************)
(* Properties.                                                             *)
(***************************************************************************)
AllLinked == \A t \in TablesOf(source) : Scanned(t) /\ scan[t].completed

(***************************************************************************)
(* When every table is linked and the build is ready, the cube counts      *)
(* exactly the messages of the current source that show an image: nothing  *)
(* missing, nothing of an earlier version.                                 *)
(***************************************************************************)
ServedCounts ==
  {<<groups[m[4]], m[2], m[3], "local">> : m \in {m \in Plain \cup Forwarded : m[1] = source}}

ReadyMeansExact ==
  Completed(build) /\ AllLinked /\ (\A t \in Tables \ TablesOf(source) : scan[t] = NoRow)
    => cube = ServedCounts

\* What a ready build serves is a cube of the stored occurrences, none of which
\* it left out because a linker brought it too late for the analysis, and over
\* tables that are linked it is the exact one.
ReadySound == ReadyCubeCurrent /\ ReadyFactsComplete /\ ReadyMeansExact

(***************************************************************************)
(* With both tasks started again and again, the popularity page ends up    *)
(* with a ready build over fully linked tables, whatever the interleaving, *)
(* once builds no longer die and the exact groups stay as they are.        *)
(***************************************************************************)
Disrupted == (AbortBuild /\ ~BuilderStep) \/ groups' # groups

PipelineConverges == <>[][~Disrupted]_pipelineVars => <>[](Completed(build) /\ AllLinked)
=============================================================================
