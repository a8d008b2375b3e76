--------------------------- MODULE LegacyMigration ---------------------------
(***************************************************************************)
(* The migration of message facts that earlier releases kept in a table of *)
(* their own, image_occurrence_message_facts, into the occurrence table    *)
(* (image_insights.rs).  It is the part of build_popularity_analysis that  *)
(* PopularityBuild leaves out.  The fact table is adopted as the new       *)
(* occurrence table when both have the same last rowid; otherwise its rows *)
(* are copied in batches to a staging table, which takes in the remaining  *)
(* occurrences and is then swapped for the occurrence table.               *)
(*                                                                         *)
(* The linker runs in a thread of its own and adds occurrences, or deletes *)
(* those of a table it rebuilds.                                           *)
(***************************************************************************)
EXTENDS Integers, Sequences, FiniteSets, FiniteSetsExt

CONSTANTS
  Keys,           \* primary keys of occurrences
  MaxRowid,       \* bound on rowids
  CopyBatch,      \* LEGACY_MIGRATION_BATCH_SIZE
  Concurrent,     \* whether the linker works while a build runs
  Rebuilds,       \* whether the linker deletes occurrences before the migration
  Interruptions,  \* whether a build may be cancelled, die or fail
  Missing         \* a table or a row that does not exist

ASSUME MigrationAssumption ==
  /\ IsFiniteSet(Keys) /\ MaxRowid \in Nat /\ CopyBatch \in Nat \ {0}
  /\ Cardinality(Keys) <= MaxRowid
  /\ Concurrent \in BOOLEAN /\ Rebuilds \in BOOLEAN /\ Interruptions \in BOOLEAN

\* facts: "none", as the earlier release found them, or as the linker stores
\* them now
Row == [rowid : 1 .. MaxRowid, key : Keys, facts : {"none", "old", "new"}]
StagedRow == [key : Keys, facts : {"none", "old", "new"}]

\* v4: written by this migration (scan_mode); last: last_occurrence_rowid
Progress == [v4 : BOOLEAN, last : 0 .. MaxRowid, completed : BOOLEAN]

ASSUME MissingAssumption == Missing \notin Progress

VARIABLES
  occ,         \* image_asset_occurrences
  legacy,      \* image_occurrence_message_facts
  staging,     \* image_asset_occurrences_v3_migration, in rowid order
  superseded,  \* image_asset_occurrences_v2_legacy exists
  progress,    \* image_occurrence_fact_migration_state
  ready,       \* the build row says that the analysis is complete
  mg           \* the build that migrates

tables == <<occ, legacy, staging, superseded, progress, ready>>
migrationVars == <<tables, mg>>

MigrationPcs ==
  {"idle", "redundant", "drop", "mark", "bounds", "again", "adopt", "resume", "create",
   "copy", "final", "unique", "append", "swap", "analyse"}

Migration ==
  [pc : MigrationPcs, cancel : BOOLEAN,
   last : 0 .. MaxRowid, max : 0 .. MaxRowid,  \* last_rowid, max_rowid
   grown : BOOLEAN]                            \* occurrence_last_rowid <> legacy_last_rowid

MigrationIdle == [pc |-> "idle", cancel |-> FALSE, last |-> 0, max |-> 0, grown |-> FALSE]

Goto(pc) == mg' = [mg EXCEPT !.pc = pc]

KeysOf(rows) == {row.key : row \in rows}
LastRowid(rows) == Max({row.rowid : row \in rows} \cup {0})

\* Bug: occurrences linked after the fact table was built do not count.
NoLessOccurrences == LastRowid(legacy) <= LastRowid(occ)

SameBounds == LastRowid(legacy) = LastRowid(occ)

\* The rows of a table in rowid order, without their rowids.
Position(row, rows) == Cardinality({other \in rows : other.rowid <= row.rowid})
InOrder(rows) ==
  [i \in 1 .. Cardinality(rows) |->
     LET row == CHOOSE row \in rows : Position(row, rows) = i
     IN  [key |-> row.key, facts |-> row.facts]]

(***************************************************************************)
(* cleanup_redundant_legacy_facts.                                         *)
(***************************************************************************)
StartMigration ==
  /\ mg.pc = "idle" /\ legacy # Missing
  /\ mg' = [MigrationIdle EXCEPT !.pc = IF ready THEN "redundant" ELSE "mark"]
  /\ UNCHANGED tables

MissingUsefulFacts == \E row \in occ : row.key \in KeysOf(legacy) /\ row.facts = "none"

CheckRedundant ==
  /\ mg.pc = "redundant"
  /\ Goto(IF (progress # Missing /\ ~progress.completed) \/ MissingUsefulFacts
            THEN "mark" ELSE "drop")
  /\ UNCHANGED tables

DropRedundant ==
  /\ mg.pc = "drop"
  /\ legacy' = Missing /\ progress' = Missing
  /\ mg' = MigrationIdle
  /\ UNCHANGED <<occ, staging, superseded, ready>>

MarkNotReady ==
  /\ mg.pc = "mark"
  /\ ready' = FALSE
  /\ Goto("bounds")
  /\ UNCHANGED <<occ, legacy, staging, superseded, progress>>

(***************************************************************************)
(* try_adopt_legacy_fact_table: the bounds are compared twice, both times  *)
(* outside the transaction that swaps the tables.                          *)
(***************************************************************************)
CompareBounds ==
  /\ mg.pc = "bounds"
  /\ Goto(IF SameBounds /\ ~mg.cancel THEN "again" ELSE "resume")
  /\ UNCHANGED tables

CompareBoundsAgain ==
  /\ mg.pc = "again"
  /\ Goto(IF SameBounds THEN "adopt" ELSE "resume")
  /\ UNCHANGED tables

Adopt ==
  /\ mg.pc = "adopt"
  /\ occ' = legacy /\ superseded' = TRUE
  /\ legacy' = Missing /\ progress' = Missing
  /\ Goto("analyse")
  /\ UNCHANGED <<staging, ready>>

(***************************************************************************)
(* migrate_legacy_facts.                                                   *)
(***************************************************************************)
CanResume == progress # Missing /\ progress.v4 /\ staging # Missing

ReadProgress ==
  /\ mg.pc = "resume"
  /\ LET max == LastRowid(legacy)
         last == IF CanResume THEN Min({progress.last, max}) ELSE 0
     IN  mg' = [mg EXCEPT !.pc = IF last = 0 THEN "create" ELSE "copy",
                          !.max = max, !.last = last]
  /\ UNCHANGED tables

CreateStaging ==
  /\ mg.pc = "create"
  /\ staging' = <<>>
  /\ progress' = [v4 |-> TRUE, last |-> 0, completed |-> FALSE]
  /\ Goto("copy")
  /\ UNCHANGED <<occ, legacy, superseded, ready>>

Copied(end) == InOrder({row \in legacy : row.rowid > mg.last /\ row.rowid <= end})

\* Bug: the checkpoint is left for the next batch to write.
CheckpointBehind(end) == [v4 |-> TRUE, last |-> mg.last, completed |-> FALSE]

CheckpointAt(end) == [v4 |-> TRUE, last |-> end, completed |-> end >= mg.max]

CopyRows ==
  /\ mg.pc = "copy" /\ mg.last < mg.max /\ ~mg.cancel
  /\ LET end == Min({mg.last + CopyBatch, mg.max})
     IN  /\ staging' = staging \o Copied(end)
         /\ progress' = CheckpointAt(end)
         /\ mg' = [mg EXCEPT !.last = end]
  /\ UNCHANGED <<occ, legacy, superseded, ready>>

\* Bug: the last rowid is never passed.
EndCopyBeyond ==
  /\ mg.pc = "copy" /\ mg.last > mg.max /\ ~mg.cancel
  /\ Goto("final")
  /\ UNCHANGED tables

EndCopy ==
  /\ mg.pc = "copy" /\ mg.last >= mg.max /\ ~mg.cancel
  /\ Goto("final")
  /\ UNCHANGED tables

(***************************************************************************)
(* finalize_legacy_fact_migration.                                         *)
(***************************************************************************)
ReadFinalBounds ==
  /\ mg.pc = "final"
  /\ mg' = [mg EXCEPT !.pc = "unique", !.grown = ~SameBounds]
  /\ UNCHANGED tables

StagedKeys == {staging[i].key : i \in DOMAIN staging}
StagedOnce == Cardinality(StagedKeys) = Len(staging)

\* create unique index, which fails on a key that was copied twice
UniqueIndex ==
  /\ mg.pc = "unique"
  /\ IF StagedOnce THEN Goto(IF mg.grown THEN "append" ELSE "swap")
     ELSE mg' = MigrationIdle
  /\ UNCHANGED tables

\* insert or ignore ... select ... from image_asset_occurrences
AppendOccurrences ==
  /\ mg.pc = "append"
  /\ staging' = staging \o InOrder({row \in occ : row.key \notin StagedKeys})
  /\ Goto("swap")
  /\ UNCHANGED <<occ, legacy, superseded, progress, ready>>

Swap ==
  /\ mg.pc = "swap"
  /\ occ' = {[rowid |-> i, key |-> staging[i].key, facts |-> staging[i].facts] :
               i \in DOMAIN staging}
  /\ staging' = Missing /\ legacy' = Missing /\ progress' = Missing
  /\ Goto("analyse")
  /\ UNCHANGED <<superseded, ready>>

\* The rest of the build looks up the facts that are still missing.
Analyse ==
  /\ mg.pc = "analyse"
  /\ occ' = {[row EXCEPT !.facts = IF @ = "none" THEN "new" ELSE @] : row \in occ}
  /\ ready' = TRUE
  /\ mg' = MigrationIdle
  /\ UNCHANGED <<legacy, staging, superseded, progress>>

(***************************************************************************)
(* cleanup_superseded_occurrence_tables, after a build that succeeded.     *)
(***************************************************************************)
CleanupTables ==
  /\ legacy = Missing
  /\ superseded \/ staging # Missing
  /\ superseded' = FALSE /\ staging' = Missing
  /\ UNCHANGED <<occ, legacy, progress, ready, mg>>

(***************************************************************************)
(* Interruptions and the linker.                                           *)
(***************************************************************************)
CancelMigration ==
  /\ Interruptions /\ mg.pc # "idle" /\ ~mg.cancel
  /\ mg' = [mg EXCEPT !.cancel = TRUE]
  /\ UNCHANGED tables

\* A cancelled statement is rolled back and the build ends.
EndCancelled ==
  /\ mg.cancel /\ mg.pc \notin {"idle", "redundant", "drop", "mark"}
  /\ ready' = FALSE
  /\ mg' = MigrationIdle
  /\ UNCHANGED <<occ, legacy, staging, superseded, progress>>

\* The process dies, or a statement fails.
CrashMigration ==
  /\ Interruptions /\ mg.pc # "idle"
  /\ mg' = MigrationIdle
  /\ UNCHANGED tables

LinkOccurrence ==
  /\ Concurrent \/ mg.pc = "idle"
  /\ LastRowid(occ) < MaxRowid
  /\ \E k \in Keys \ KeysOf(occ) :
       occ' = occ \cup {[rowid |-> LastRowid(occ) + 1, key |-> k, facts |-> "new"]}
  /\ ready' = FALSE
  /\ UNCHANGED <<legacy, staging, superseded, progress, mg>>

RebuildTable ==
  /\ Rebuilds \/ legacy = Missing
  /\ Concurrent \/ mg.pc = "idle"
  /\ \E rows \in SUBSET occ : rows # {} /\ occ' = occ \ rows
  /\ ready' = FALSE
  /\ UNCHANGED <<legacy, staging, superseded, progress, mg>>

MigrationStep ==
  \/ CheckRedundant \/ DropRedundant \/ MarkNotReady \/ CompareBounds
  \/ CompareBoundsAgain \/ Adopt \/ ReadProgress \/ CreateStaging \/ CopyRows
  \/ EndCopy \/ ReadFinalBounds \/ UniqueIndex \/ AppendOccurrences \/ Swap \/ Analyse
  \/ EndCancelled

MigrationNext ==
  \/ StartMigration \/ MigrationStep \/ CleanupTables
  \/ CancelMigration \/ CrashMigration
  \/ LinkOccurrence \/ RebuildTable

(***************************************************************************)
(* The manifest of an earlier release: the occurrences it linked, facts of *)
(* those whose message it found, and the progress of an earlier form of    *)
(* the migration, which wrote facts to the occurrences themselves.         *)
(***************************************************************************)
Numberings(K) == {s \in [1 .. Cardinality(K) -> K] : \A k \in K : \E i \in DOMAIN s : s[i] = k}
Table(s, facts) == {[rowid |-> i, key |-> s[i], facts |-> facts[s[i]]] : i \in DOMAIN s}

MigrationInit ==
  /\ \E K \in SUBSET Keys, merged \in SUBSET Keys, found \in SUBSET Keys :
       /\ Cardinality(K) <= MaxRowid
       /\ merged \subseteq found /\ found \subseteq K
       /\ \E s \in Numberings(K), f \in Numberings(found) :
            /\ occ = Table(s, [k \in Keys |-> IF k \in merged THEN "old" ELSE "none"])
            /\ legacy = Table(f, [k \in Keys |-> "old"])
  /\ ready \in BOOLEAN
  /\ progress \in {Missing} \cup [v4 : {FALSE}, last : {0}, completed : BOOLEAN]
  /\ staging = Missing /\ superseded = FALSE
  /\ mg = MigrationIdle

MigrationSpec ==
  MigrationInit /\ [][MigrationNext]_migrationVars /\ WF_migrationVars(MigrationStep)

\* The analysis is started again and again.
MigrationService == MigrationSpec /\ WF_migrationVars(StartMigration)

(***************************************************************************)
(* Properties.                                                             *)
(***************************************************************************)
MigrationTypeOK ==
  /\ occ \in SUBSET Row
  /\ legacy \in (SUBSET Row) \cup {Missing}
  /\ staging = Missing \/ staging \in Seq(StagedRow)
  /\ superseded \in BOOLEAN /\ ready \in BOOLEAN
  /\ progress \in Progress \cup {Missing}
  /\ progress # Missing /\ legacy # Missing => progress.last <= LastRowid(legacy)
  /\ mg \in Migration

(***************************************************************************)
(* The migration keeps every occurrence that is linked when it swaps the   *)
(* tables: "when no new occurrence row has appeared" the fact table is     *)
(* adopted, otherwise the new rows are appended to the staging table.  The *)
(* fact table is given up only when each of its facts is stored with its   *)
(* occurrence, so no message has to be read again.                         *)
(***************************************************************************)
NothingLost ==
  [][/\ mg' # mg => KeysOf(occ) \subseteq KeysOf(occ')
     /\ legacy # Missing /\ legacy' = Missing =>
          \A row \in occ' : row.key \in KeysOf(legacy) => row.facts # "none"]_migrationVars

(***************************************************************************)
(* However a migration was interrupted, a row is never copied twice: the   *)
(* unique index of the staging table could not be created any more, and no *)
(* later build would ever get past it.                                     *)
(***************************************************************************)
CopiedOnce == MigrationTypeOK /\ (staging # Missing => StagedOnce)

(***************************************************************************)
(* The inductive invariant behind them.                                    *)
(***************************************************************************)
Distinct(rows) ==
  \A x, y \in rows : x.rowid = y.rowid \/ x.key = y.key => x = y

\* What is staged of the fact table before the checkpoint is all that is
\* staged, until the last row is copied and other occurrences come in.
CopiedRows == {row \in legacy : row.rowid <= progress.last}

StagedSound ==
  /\ \A i, j \in DOMAIN staging : staging[i].key = staging[j].key => i = j
  /\ legacy # Missing =>
       /\ progress # Missing /\ progress.v4
       /\ KeysOf(CopiedRows) \subseteq StagedKeys
       /\ progress.last < LastRowid(legacy) => StagedKeys \subseteq KeysOf(CopiedRows)
       /\ \A i \in DOMAIN staging :
            staging[i].key \in KeysOf(legacy) => staging[i].facts # "none"

AfterCopy == {"final", "unique", "append", "swap"}

MigrationKnows ==
  /\ legacy = Missing => mg.pc \in {"idle", "analyse"}
  /\ mg.pc = "analyse" => legacy = Missing
  /\ mg.pc = "drop" => ~MissingUsefulFacts
  /\ mg.pc \in AfterCopy \cup {"create", "copy"} => mg.max = LastRowid(legacy)
  /\ mg.pc = "create" => mg.last = 0
  /\ mg.pc \in AfterCopy \cup {"copy"} =>
       /\ staging \in Seq(StagedRow) /\ StagedSound
       /\ progress # Missing /\ mg.last = progress.last
  /\ mg.pc \in AfterCopy => mg.last >= mg.max

MigrationInv ==
  /\ MigrationTypeOK
  /\ Distinct(occ)
  /\ legacy # Missing => Distinct(legacy) /\ \A row \in legacy : row.facts # "none"
  /\ staging # Missing => StagedSound
  /\ MigrationKnows

\* When the linker only adds, and only between the builds.
Dense(rows) == Cardinality(rows) = LastRowid(rows)

OccurrencesKnown ==
  /\ legacy # Missing => Dense(occ) /\ Dense(legacy) /\ KeysOf(legacy) \subseteq KeysOf(occ)
  /\ mg.pc = "adopt" => SameBounds
  /\ mg.pc \in {"unique", "swap"} /\ ~mg.grown => SameBounds
  /\ mg.pc = "append" => mg.grown
  /\ mg.pc = "swap" /\ mg.grown => KeysOf(occ) \subseteq StagedKeys

QuietLinker == ~Concurrent /\ ~Rebuilds
QuietInv == QuietLinker => OccurrencesKnown

(***************************************************************************)
(* Builds started again and again get rid of the fact table, whatever form *)
(* an earlier release left it in, once they are no longer paused or killed.*)
(***************************************************************************)
Interrupted == (CancelMigration \/ CrashMigration) /\ ~MigrationStep

MigrationEnds == <>[][~Interrupted]_migrationVars => <>[](legacy = Missing)
=============================================================================
