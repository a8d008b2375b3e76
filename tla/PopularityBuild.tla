--------------------------- MODULE PopularityBuild ---------------------------
(***************************************************************************)
(* build_popularity_analysis (image_insights.rs): completes the message    *)
(* facts of the occurrences, then rebuilds the popularity cube from them   *)
(* and marks the build ready.  The web service runs it in a maintenance    *)
(* thread that can be paused; the linker and the indexer write the same    *)
(* manifest meanwhile.                                                     *)
(*                                                                         *)
(* The manifest has no fact table of earlier releases: LegacyMigration     *)
(* models what a build does with one.                                      *)
(***************************************************************************)
EXTENDS ManifestStore

CONSTANTS
  FactBatch,  \* ANALYSIS_BATCH_SIZE
  Pauses,     \* whether a build may be cancelled
  Crashes     \* whether a build may die or fail

ASSUME BuilderAssumption ==
  /\ FactBatch \in Nat \ {0}
  /\ Pauses \in BOOLEAN /\ Crashes \in BOOLEAN

VARIABLE bd  \* the run of the builder

builderVars == <<source, occ, groups, cube, build, analysis, bd>>

BuilderPcs ==
  {"idle", "fast", "upgrade", "normalize", "lookup", "rebuild", "check", "mark",
   "tables", "states", "assert", "analyze", "update", "decide"}

BuilderRun ==
  [pc : BuilderPcs, cancel : BOOLEAN,
   upgrading : BOOLEAN,          \* inside upgrade_completed_popularity_cache
   chat : Sources,               \* the version behind the open connection
   tables : SUBSET Tables,       \* occurrence_tables, as read
   todo : SUBSET Tables,         \* those not analysed yet
   batch : SUBSET (Tables \X Rowids),  \* messages looked up for one update
   lookup : Representatives,     \* the copied exact_representative_lookup
   halted : BOOLEAN]             \* history: a pause cut an upgrade off before
                                 \* its dates were normalised

\* A field that is not in use has this value.
NoLookup == [a \in Assets |-> a]

BuilderIdle ==
  [pc |-> "idle", cancel |-> FALSE, upgrading |-> FALSE, chat |-> 1, tables |-> {},
   todo |-> {}, batch |-> {}, lookup |-> NoLookup, halted |-> FALSE]

\* A run leaves nothing behind but the history of upgrades.
Rested == [BuilderIdle EXCEPT !.halted = bd.halted]

StartBuild ==
  /\ bd.pc = "idle"
  /\ bd' = [Rested EXCEPT !.pc = "fast"]
  /\ UNCHANGED manifestVars

(***************************************************************************)
(* An analysis that is already complete, or complete but of an older       *)
(* schema.                                                                 *)
(***************************************************************************)
ReturnIfCompleted(from, next) ==
  /\ bd.pc = from
  /\ bd' = IF Completed(build) THEN Rested ELSE [bd EXCEPT !.pc = next]
  /\ UNCHANGED manifestVars

FastReturn == ReturnIfCompleted("fast", "upgrade")
CheckCompleted == ReturnIfCompleted("check", "mark")

Upgradable(b) == b # NoRow /\ b.schema \in {2, 3} /\ b.ready

BeginUpgrade ==
  /\ bd.pc = "upgrade"
  /\ bd' = IF Upgradable(build) THEN [bd EXCEPT !.pc = "normalize", !.upgrading = TRUE]
           ELSE [bd EXCEPT !.pc = "check"]
  /\ UNCHANGED manifestVars

\* Bug: the dates stay as an earlier release wrote them.
KeepDates ==
  /\ bd.pc = "normalize"
  /\ bd' = [bd EXCEPT !.pc = "lookup"]
  /\ UNCHANGED manifestVars

NormalizeDates ==
  /\ bd.pc = "normalize"
  /\ occ' = [k \in Keys |-> IF occ[k] = "utc" THEN "local" ELSE occ[k]]
  /\ bd' = [bd EXCEPT !.pc = "lookup"]
  /\ UNCHANGED <<source, groups, cube, build, analysis>>

(***************************************************************************)
(* rebuild_cube_and_summaries: the exact mapping is copied first, outside  *)
(* the transaction that rebuilds the cube from the copy.                   *)
(***************************************************************************)
CopyLookup ==
  /\ bd.pc = "lookup"
  /\ bd' = [bd EXCEPT !.pc = "rebuild", !.lookup = groups]
  /\ UNCHANGED manifestVars

RebuiltCube == CubeOf(occ, bd.lookup)

RebuildCube ==
  /\ bd.pc = "rebuild"
  /\ cube' = RebuiltCube
  /\ build' = [schema |-> 4, ready |-> TRUE,
               occurrences |-> Cardinality(Present(occ)),
               facts |-> Cardinality(WithTime(occ))]
  /\ bd' = IF bd.upgrading
             THEN [bd EXCEPT !.pc = "check", !.upgrading = FALSE, !.lookup = NoLookup]
             ELSE Rested
  /\ UNCHANGED <<source, occ, groups, analysis>>

(***************************************************************************)
(* The analysis of the occurrences without facts.                          *)
(***************************************************************************)
OpenAndMarkNotReady ==
  /\ bd.pc = "mark"
  /\ build' = NotReady(build)
  /\ bd' = [bd EXCEPT !.pc = "tables", !.chat = source]
  /\ UNCHANGED <<source, occ, groups, cube, analysis>>

TablesWithOccurrences == {t \in Tables : In(Present(occ), t) # {}}

ReadOccurrenceTables ==
  /\ bd.pc = "tables" /\ ~bd.cancel
  /\ bd' = [bd EXCEPT !.pc = "states", !.tables = TablesWithOccurrences,
                      !.todo = TablesWithOccurrences]
  /\ UNCHANGED manifestVars

AnalysedTables == {t \in Tables : analysis[t] # NoRow}

AnalysisStatesAreCurrent ==
  /\ build # NoRow /\ build.occurrences > 0
  /\ AnalysedTables # {}
  /\ \A t \in AnalysedTables : analysis[t].completed
  /\ MapThenSumSet(LAMBDA t : analysis[t].occurrences, AnalysedTables) = build.occurrences
  /\ MapThenSumSet(LAMBDA t : analysis[t].facts, AnalysedTables) = build.facts

StateOf(o, t) ==
  [occurrences |-> Cardinality(In(Present(o), t)),
   facts |-> Cardinality(In(WithTime(o), t)),
   completed |-> In(Inspected(o), t) = In(Present(o), t)]

StatesOfTables ==
  [t \in Tables |-> IF t \in TablesWithOccurrences THEN StateOf(occ, t) ELSE NoRow]

MaterializeAnalysisStates ==
  /\ bd.pc = "states"
  /\ IF AnalysisStatesAreCurrent
       THEN analysis' = analysis /\ bd' = [bd EXCEPT !.pc = "analyze"]
       ELSE /\ analysis' = StatesOfTables
            /\ bd' = [bd EXCEPT !.pc = "assert"]
  /\ UNCHANGED <<source, occ, groups, cube, build>>

\* The debug_assert_eq!(tables.len(), count(*)); release builds go on.
AssertTableCount ==
  /\ bd.pc = "assert"
  /\ bd' = [bd EXCEPT !.pc = "analyze"]
  /\ UNCHANGED manifestVars

Uninspected(t) == {k[3] : k \in {k \in In(Present(occ), t) : occ[k] = "none"}}

\* analyze_table reads the first rowids without facts and their messages; the
\* prepared database must still have the table.
SelectMessages ==
  /\ bd.pc = "analyze" /\ ~bd.cancel
  /\ \E t \in bd.todo, b \in SUBSET Rowids :
       /\ t \in TablesOf(bd.chat)
       /\ b # {} /\ b \subseteq Uninspected(t)
       /\ \A r \in b, q \in Uninspected(t) \ b : r < q
       /\ Cardinality(b) = Min({FactBatch, Cardinality(Uninspected(t))})
       /\ bd' = [bd EXCEPT !.pc = "update", !.batch = {t} \X b]
  /\ UNCHANGED manifestVars

\* One transaction: the facts of every occurrence of the selected messages, as
\* the chat database of this run has them, and the table's progress.
UpdateFacts ==
  /\ bd.pc = "update"
  /\ occ' = [k \in Keys |->
       IF occ[k] = Absent \/ <<k[2], k[3]>> \notin bd.batch THEN occ[k]
       ELSE IF <<bd.chat, k[2], k[3]>> \in Messages THEN "local"
       ELSE IF occ[k] = "none" THEN "void" ELSE occ[k]]
  /\ analysis' = [t \in Tables |->
       IF analysis[t] # NoRow /\ \E m \in bd.batch : m[1] = t
         THEN StateOf(occ', t) ELSE analysis[t]]
  /\ bd' = [bd EXCEPT !.pc = "analyze", !.batch = {}]
  /\ UNCHANGED <<source, groups, cube, build>>

\* Bug: one batch of a table is taken for all of it.
OneBatchPerTable ==
  /\ bd.pc = "analyze" /\ ~bd.cancel
  /\ \E t \in bd.todo :
       /\ t \in TablesOf(bd.chat)
       /\ bd' = [bd EXCEPT !.todo = @ \ {t}]
  /\ UNCHANGED manifestVars

TableAnalysed ==
  /\ bd.pc = "analyze" /\ ~bd.cancel
  /\ \E t \in bd.todo :
       /\ t \in TablesOf(bd.chat) /\ Uninspected(t) = {}
       /\ bd' = [bd EXCEPT !.todo = @ \ {t}]
  /\ UNCHANGED manifestVars

\* "conversation table {table} is missing from prepared chat database"
TableMissing ==
  /\ bd.pc = "analyze" /\ ~bd.cancel
  /\ \E t \in bd.todo : t \notin TablesOf(bd.chat)
  /\ bd' = Rested
  /\ UNCHANGED manifestVars

EndAnalysis ==
  /\ bd.pc = "analyze" /\ (bd.todo = {} \/ bd.cancel)
  /\ bd' = [bd EXCEPT !.pc = "decide"]
  /\ UNCHANGED manifestVars

\* Bug: the cube is rebuilt after a pause as well.
RebuildAnyway ==
  /\ bd.pc = "decide"
  /\ bd' = [bd EXCEPT !.pc = "lookup"]
  /\ UNCHANGED manifestVars

\* let mut cancelled = is_cancelled(cancel)
DecideRebuild ==
  /\ bd.pc = "decide" /\ ~bd.cancel
  /\ bd' = [bd EXCEPT !.pc = "lookup"]
  /\ UNCHANGED manifestVars

(***************************************************************************)
(* Interruptions.                                                          *)
(***************************************************************************)
PauseBuild ==
  /\ Pauses /\ bd.pc # "idle" /\ ~bd.cancel
  /\ bd' = [bd EXCEPT !.cancel = TRUE]
  /\ UNCHANGED manifestVars

\* The flag interrupts any statement of the build's connection from the
\* upgrade on (progress_handler), and the checks between the phases see it:
\* either way the build is marked not ready before the run ends.
CancelledReport ==
  /\ bd.cancel
  /\ bd.pc \in {"normalize", "lookup", "rebuild", "tables", "states", "update",
                "decide"}
  /\ build' = NotReady(build)
  /\ bd' = [Rested EXCEPT !.halted = @ \/ bd.pc = "normalize"]
  /\ UNCHANGED <<source, occ, groups, cube, analysis>>

AbortBuild ==
  /\ Crashes /\ bd.pc # "idle"
  /\ bd' = Rested
  /\ UNCHANGED manifestVars

BuilderStep ==
  \/ FastReturn \/ BeginUpgrade \/ NormalizeDates \/ CopyLookup \/ RebuildCube
  \/ CheckCompleted \/ OpenAndMarkNotReady \/ ReadOccurrenceTables
  \/ MaterializeAnalysisStates \/ AssertTableCount \/ SelectMessages \/ UpdateFacts
  \/ TableAnalysed \/ TableMissing \/ EndAnalysis \/ DecideRebuild \/ CancelledReport

BuilderNext ==
  \/ StartBuild \/ BuilderStep \/ PauseBuild \/ AbortBuild
  \/ ReplaceSource /\ UNCHANGED bd

(***************************************************************************)
(* The manifest the builder starts from: any set of occurrences of the     *)
(* first version, with facts in any state an earlier release leaves them.  *)
(***************************************************************************)
BuilderInit ==
  /\ source = 1
  /\ groups \in Representatives
  /\ occ \in [Keys -> Facts \cup {Absent}]
  /\ \A k \in Present(occ) : <<1, k[2], k[3], k[1]>> \in Plain \cup Forwarded
  /\ \A k, l \in Present(occ) : k[2] = l[2] /\ k[3] = l[3] => occ[k] = occ[l]
  /\ \/ /\ build = NoRow /\ cube = {}
        /\ \A k \in Present(occ) : occ[k] = "none"
     \/ /\ \A k \in Present(occ) : occ[k] \in {"utc", "void"}
        /\ cube = CubeOf(occ, groups)
        /\ build = [schema |-> 3, ready |-> TRUE,
                    occurrences |-> Cardinality(Present(occ)),
                    facts |-> Cardinality(WithTime(occ))]
     \/ /\ \A k \in Present(occ) : occ[k] # "utc"
        /\ build = [schema |-> 4, ready |-> FALSE, occurrences |-> 0, facts |-> 0]
        /\ cube = {}
  /\ analysis = [t \in Tables |-> NoRow]
  /\ bd = BuilderIdle

BuilderSpec == BuilderInit /\ [][BuilderNext]_builderVars /\ WF_builderVars(BuilderStep)

(***************************************************************************)
(* Properties.                                                             *)
(***************************************************************************)
BuilderTypeOK == ManifestTypeOK /\ bd \in BuilderRun

(***************************************************************************)
(* A build marked ready is what its readers take it for: the cube over the *)
(* occurrences and the exact mapping that are stored now.  Whoever changes *)
(* either must take the mark away (invalidate_popularity_build,            *)
(* refresh_exact_groups).                                                  *)
(***************************************************************************)
ReadyCubeCurrent == Completed(build) => cube = CubeOf(occ, groups)

(***************************************************************************)
(* A ready build has left no occurrence out because its message had not    *)
(* been looked up yet.                                                     *)
(***************************************************************************)
ReadyFactsComplete == Completed(build) => \A k \in Present(occ) : occ[k] # "none"

(***************************************************************************)
(* A ready build counts messages under dates of the display time zone.     *)
(***************************************************************************)
ReadyDatesLocal == Completed(build) => \A k \in Present(occ) : occ[k] # "utc"

(***************************************************************************)
(* debug_assert_eq! of materialize_analysis_states: it has one row for     *)
(* each table that occurrence_tables returned.                             *)
(***************************************************************************)
StatesMatchTables ==
  bd.pc = "assert" => Cardinality(bd.tables) = Cardinality(AnalysedTables)

(***************************************************************************)
(* What must hold of a build wherever it was paused or killed: a ready     *)
(* mark only over facts that are known, and over dates in their final      *)
(* form.  The exception is an upgrade that was paused before its dates     *)
(* were normalised: the mark that is taken away with it                    *)
(* (mark_build_not_ready) is what the next build would have upgraded on,   *)
(* so that the old dates stay.                                             *)
(***************************************************************************)
BuildSound == BuilderTypeOK /\ ReadyFactsComplete /\ (bd.halted \/ ReadyDatesLocal)
=============================================================================
