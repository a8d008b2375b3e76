----------------------------- MODULE ChatLinker -----------------------------
(***************************************************************************)
(* image-index link-chat (image_index_link.rs): one run reads the prepared *)
(* chat database table by table, in batches of messages ordered by rowid,  *)
(* resolves the images each message shows to indexed assets and commits    *)
(* the occurrences of a batch together with the table's scan checkpoint.   *)
(* A later run resumes at the checkpoints.  A run can be cancelled or die  *)
(* between any two transactions, and the chat database can be replaced     *)
(* while it runs.                                                          *)
(*                                                                         *)
(* The parser workers of a run are modelled by what a batch of results     *)
(* holds: the linker waits for all of them and sorts them by rowid.  Two   *)
(* linker runs never overlap (MaintenanceController).                      *)
(***************************************************************************)
EXTENDS ManifestStore

CONSTANTS
  NoTable,        \* no conversation table is being scanned
  Corrupt,        \* <<s, t, r>>: reading this message hits a corrupt page
  BatchSize,      \* LinkChatOptions.batch_size
  RowBudgets,     \* the values of LinkChatOptions.max_rows that are explored
  Forces,         \* the values of LinkChatOptions.force that are explored
  Interruptions,  \* whether a run may be cancelled or die
  LegacyScan      \* what a release before forwarded records left behind

LINKER_VERSION == 2

ASSUME LinkerAssumption ==
  /\ NoTable \notin Tables
  /\ Corrupt \subseteq Messages
  /\ BatchSize \in Nat \ {0}
  /\ RowBudgets \subseteq Nat \ {0}
  /\ Forces \subseteq BOOLEAN
  /\ Interruptions \in BOOLEAN
  /\ LegacyScan \in {"none", "complete", "partial"}

\* image_occurrence_scan_state.  The identity digest covers the size, the
\* modification time and samples of the database and its WAL, so equal
\* identities mean the same version and the size comparison adds nothing.
ScanState ==
  [id : Sources, last : 0 .. MaxRowid, max : 0 .. MaxRowid,
   completed : BOOLEAN, version : 1 .. LINKER_VERSION, mode : {"full", "mmp"}]

ASSUME ScanNullAssumption == NoRow \notin ScanState

VARIABLES
  scan,  \* table -> its scan state row
  lk     \* the linker run

linkerVars == <<source, occ, groups, cube, build, analysis, scan, lk>>

LinkerPcs == {"idle", "identity", "open", "materialize", "table", "batch", "commit"}

LinkerRun ==
  [pc : LinkerPcs, force : BOOLEAN, cancel : BOOLEAN,
   remaining : Nat,        \* rows the run may still scan
   id : Sources,           \* source_identity
   chat : Sources,         \* the version behind the open connection
   todo : SUBSET Tables,   \* tables not reached yet
   table : Tables \cup {NoTable},
   mmp : BOOLEAN,          \* mmp_only
   last : 0 .. MaxRowid,   \* last_rowid
   batch : SUBSET Rowids]  \* rowids of the batch being resolved

LinkerIdle ==
  [pc |-> "idle", force |-> FALSE, cancel |-> FALSE, remaining |-> 0, id |-> 1,
   chat |-> 1, todo |-> {}, table |-> NoTable, mmp |-> FALSE, last |-> 0,
   batch |-> {}]

(***************************************************************************)
(* What the worker finds in a message.                                     *)
(***************************************************************************)
\* msgcontent_maybe_contains_multi_msg
HasForwardNode(s, t, r) == \E a \in Assets : <<s, t, r, a>> \in Forwarded

References(s, t, r) == {a \in Assets : <<s, t, r, a>> \in Plain \cup Forwarded}

\* Bug: the shortcut is taken by full scans as well.
FoundForwardedOnly(s, t, r, mmp) ==
  IF ~HasForwardNode(s, t, r) THEN {} ELSE References(s, t, r)

\* worker_loop: an mmp_only job whose content cannot hold a forwarded record
\* is answered without looking for images at all.
Found(s, t, r, mmp) ==
  IF mmp /\ ~HasForwardNode(s, t, r) THEN {} ELSE References(s, t, r)

(***************************************************************************)
(* The start of a run.                                                     *)
(***************************************************************************)
StartLink ==
  /\ lk.pc = "idle"
  /\ \E f \in Forces, n \in RowBudgets :
       lk' = [LinkerIdle EXCEPT !.pc = "identity", !.force = f, !.remaining = n]
  /\ UNCHANGED <<manifestVars, scan>>

ReadIdentity ==
  /\ lk.pc = "identity"
  /\ lk' = [lk EXCEPT !.pc = "open", !.id = source]
  /\ UNCHANGED <<manifestVars, scan>>

OpenChat ==
  /\ lk.pc = "open"
  /\ lk' = [lk EXCEPT !.pc = "materialize", !.chat = source, !.todo = TablesOf(source)]
  /\ UNCHANGED <<manifestVars, scan>>

\* Every table of the source gets a scan state; a state of the same identity
\* keeps its checkpoint.
MaterializedState(t) ==
  LET max == LastRowid(lk.chat, t) IN
  IF scan[t] = NoRow
    THEN [id |-> lk.id, last |-> 0, max |-> max, completed |-> max = 0,
          version |-> LINKER_VERSION, mode |-> "full"]
  ELSE IF scan[t].id = lk.id
    THEN [scan[t] EXCEPT !.max = max, !.completed = scan[t].last >= max]
  ELSE scan[t]

MaterializeScanStates ==
  /\ lk.pc = "materialize"
  /\ LET vanished == {t \in Tables \ lk.todo : scan[t] # NoRow}
     IN  /\ occ' = [k \in Keys |-> IF k[2] \in vanished THEN Absent ELSE occ[k]]
         /\ cube' = {c \in cube : c[2] \notin vanished}
         /\ analysis' = [t \in Tables |-> IF t \in vanished THEN NoRow ELSE analysis[t]]
         /\ build' = InvalidatedWhen(occ' # occ \/ cube' # cube)
         /\ scan' = [t \in Tables |-> IF t \in lk.todo THEN MaterializedState(t) ELSE NoRow]
  /\ lk' = [lk EXCEPT !.pc = "table"]
  /\ UNCHANGED <<source, groups>>

(***************************************************************************)
(* link_table.                                                             *)
(***************************************************************************)
\* Bug: the identity of the source is not compared.
RebuildIfForced(t) ==
  lk.force \/ scan[t].last > LastRowid(lk.chat, t)

\* Bug: an upgrade rebuilds the table.
RebuildOnUpgrade(t) ==
  lk.force \/ scan[t].id # lk.id \/ scan[t].version < LINKER_VERSION

\* A checkpoint of another version of the source cannot be resumed.
MustRebuild(t) ==
  \/ lk.force
  \/ scan[t].id # lk.id
  \/ scan[t].last > LastRowid(lk.chat, t)

\* starts_linker_upgrade
Upgrade(t) == ~MustRebuild(t) /\ scan[t].version < LINKER_VERSION

\* Bug: a rebuilt table stays in the mode of its last scan.
KeepsMode(t) == Upgrade(t) \/ scan[t].mode = "mmp"

\* mmp_only: the plain messages of the table are linked already.
MmpOnly(t) == ~MustRebuild(t) /\ (Upgrade(t) \/ scan[t].mode = "mmp")

BeginTable ==
  /\ lk.pc = "table" /\ lk.remaining > 0 /\ ~lk.cancel
  /\ \E t \in lk.todo :
       LET restart == MustRebuild(t) \/ Upgrade(t)
       IN  /\ occ' = [k \in Keys |-> IF MustRebuild(t) /\ k[2] = t THEN Absent ELSE occ[k]]
           /\ build' = InvalidatedWhen(occ' # occ)
           /\ scan' = [scan EXCEPT ![t] = IF restart THEN NoRow ELSE @]
           /\ lk' = [lk EXCEPT !.pc = "batch", !.table = t, !.todo = @ \ {t},
                               !.mmp = MmpOnly(t),
                               !.last = IF restart THEN 0 ELSE scan[t].last]
  /\ UNCHANGED <<source, groups, cube, analysis>>

MoreToScan ==
  /\ lk.pc = "batch" /\ lk.remaining > 0 /\ ~lk.cancel
  /\ lk.last < LastRowid(lk.chat, lk.table)

Take == Min({BatchSize, lk.remaining})

\* select ... where rowid>last order by rowid limit take
IsNextBatch(b) ==
  LET rest == {r \in RowsOf(lk.chat, lk.table) : r > lk.last}
  IN  /\ b \subseteq rest
      /\ \A r \in b, q \in rest \ b : r < q
      /\ Cardinality(b) = Min({Take, Cardinality(rest)})

IsCorrupt(b) == \E r \in b : <<lk.chat, lk.table, r>> \in Corrupt

ReadBatch ==
  /\ MoreToScan
  /\ \E b \in SUBSET Rowids :
       /\ IsNextBatch(b) /\ ~IsCorrupt(b)
       /\ lk' = [lk EXCEPT !.pc = "commit", !.batch = b]
  /\ UNCHANGED <<manifestVars, scan>>

\* The checkpoint a batch of this run leaves.
Checkpoint(last) ==
  LET max == LastRowid(lk.chat, lk.table)
  IN  [id |-> lk.id, last |-> last, max |-> max, completed |-> last >= max,
       version |-> LINKER_VERSION, mode |-> IF lk.mmp THEN "mmp" ELSE "full"]

\* Bug: the checkpoint stays in front of the unreadable page.
SkippedToSamePlace == lk.last

\* A batch that cannot be read is skipped, as many rowids as it may have rows.
SkippedTo == Min({lk.last + Take, LastRowid(lk.chat, lk.table)})

SkipCorrupt ==
  /\ MoreToScan
  /\ \E b \in SUBSET Rowids : IsNextBatch(b) /\ IsCorrupt(b)
  /\ scan' = [scan EXCEPT ![lk.table] = Checkpoint(SkippedTo)]
  /\ lk' = [lk EXCEPT !.last = SkippedTo, !.remaining = @ - Take]
  /\ UNCHANGED manifestVars

\* Bug: a message that has an occurrence already is left alone.
LinkedOnce(k) ==
  IF k[2] # lk.table \/ k[3] \notin lk.batch
     \/ \E a \in Assets : occ[<<a, k[2], k[3]>>] # Absent
    THEN occ[k]
  ELSE IF k[1] \in Found(lk.chat, k[2], k[3], lk.mmp) THEN "local" ELSE Absent

\* insert or ignore; an mmp run first refreshes the facts of the rows that
\* the message already has.
LinkedRow(k) ==
  IF k[2] # lk.table \/ k[3] \notin lk.batch THEN occ[k]
  ELSE IF occ[k] = Absent
    THEN IF k[1] \in Found(lk.chat, k[2], k[3], lk.mmp)
           THEN "local" ELSE Absent
  ELSE IF lk.mmp THEN "local" ELSE occ[k]

RefreshesFacts ==
  lk.mmp /\ \E k \in Keys : occ[k] # Absent /\ k[2] = lk.table /\ k[3] \in lk.batch

\* batch_last
BatchLast == Max(lk.batch)

CommitBatch ==
  /\ lk.pc = "commit"
  /\ occ' = [k \in Keys |-> LinkedRow(k)]
  /\ build' = InvalidatedWhen(occ' # occ \/ RefreshesFacts)
  /\ scan' = [scan EXCEPT ![lk.table] = Checkpoint(BatchLast)]
  /\ lk' = [lk EXCEPT !.pc = "batch", !.last = BatchLast, !.batch = {},
                      !.remaining = @ - Cardinality(lk.batch)]
  /\ UNCHANGED <<source, groups, cube, analysis>>

EndTable ==
  /\ lk.pc = "batch" /\ ~MoreToScan
  /\ lk' = [lk EXCEPT !.pc = "table", !.table = NoTable, !.mmp = FALSE, !.last = 0]
  /\ UNCHANGED <<manifestVars, scan>>

\* The overview cache the run refreshes last is modelled in ReferenceCache.
FinishLink ==
  /\ lk.pc = "table"
  /\ lk.todo = {} \/ lk.remaining = 0 \/ lk.cancel
  /\ lk' = LinkerIdle
  /\ UNCHANGED <<manifestVars, scan>>

(***************************************************************************)
(* Interruptions.                                                          *)
(***************************************************************************)
\* MaintenanceController::pause sets the flag the loops look at.
CancelLink ==
  /\ Interruptions /\ lk.pc # "idle" /\ ~lk.cancel
  /\ lk' = [lk EXCEPT !.cancel = TRUE]
  /\ UNCHANGED <<manifestVars, scan>>

\* The process dies, or a statement fails and the error ends the run: what
\* was committed stays.
AbortLink ==
  /\ Interruptions /\ lk.pc # "idle"
  /\ lk' = LinkerIdle
  /\ UNCHANGED <<manifestVars, scan>>

LinkerStep ==
  \/ ReadIdentity \/ OpenChat \/ MaterializeScanStates \/ BeginTable
  \/ ReadBatch \/ SkipCorrupt \/ CommitBatch \/ EndTable \/ FinishLink

LinkerNext ==
  \/ StartLink \/ LinkerStep \/ CancelLink \/ AbortLink
  \/ ReplaceSource /\ UNCHANGED <<scan, lk>>

(***************************************************************************)
(* The manifest the linker starts from: empty, or as an earlier release    *)
(* left it, which scanned (part of) the tables of the first version for    *)
(* images in plain messages only.                                          *)
(***************************************************************************)
ScannedUpTo(legacy) ==
  {u \in [Tables -> 0 .. MaxRowid] : \A t \in Tables :
     /\ u[t] \in {0} \cup RowsOf(1, t)
     /\ legacy = "none" => u[t] = 0
     /\ legacy = "complete" => u[t] = LastRowid(1, t)}

LegacyState(t, last) ==
  LET max == LastRowid(1, t)
  IN  [id |-> 1, last |-> last, max |-> max, completed |-> last >= max,
       version |-> 1, mode |-> "full"]

\* legacy: what was left; u: how far each table was scanned; d: what the
\* occurrences know of their messages.
LinkedBefore(legacy, u, d) ==
  /\ occ = [k \in Keys |->
              IF /\ <<1, k[2], k[3], k[1]>> \in Plain /\ k[3] <= u[k[2]]
                 /\ <<1, k[2], k[3]>> \notin Corrupt
                THEN d ELSE Absent]
  /\ scan = [t \in Tables |->
               IF legacy # "none" /\ t \in TablesOf(1) THEN LegacyState(t, u[t]) ELSE NoRow]
  /\ IF d = "none" THEN build = NoRow /\ cube = {}
     ELSE /\ cube = CubeOf(occ, groups)
          /\ build = [schema |-> 3, ready |-> TRUE,
                      occurrences |-> Cardinality(Present(occ)),
                      facts |-> Cardinality(Present(occ))]

LinkerInit ==
  /\ source = 1
  /\ groups \in Representatives
  /\ \E legacy \in {"none", LegacyScan} :
       \E u \in ScannedUpTo(legacy), d \in {"none", "utc"} : LinkedBefore(legacy, u, d)
  /\ analysis = [t \in Tables |-> NoRow]
  /\ lk = LinkerIdle

\* A run that was started is scheduled; nothing forces a cancel, a crash or a
\* new version of the source.
LinkerSpec == LinkerInit /\ [][LinkerNext]_linkerVars /\ WF_linkerVars(LinkerStep)

\* The linker is started again and again.
LinkerService == LinkerSpec /\ WF_linkerVars(StartLink)

(***************************************************************************)
(* Properties.                                                             *)
(***************************************************************************)
LinkerTypeOK ==
  /\ ManifestTypeOK
  /\ scan \in [Tables -> ScanState \cup {NoRow}]
  /\ lk \in LinkerRun

\* The scan state of t was written by this release for the current source.
Scanned(t) ==
  scan[t] # NoRow /\ scan[t].id = source /\ scan[t].version = LINKER_VERSION

Readable(t) == \A r \in RowsOf(source, t) : <<source, t, r>> \notin Corrupt

Linked(t, r) == \A a \in References(source, t, r) : occ[<<a, t, r>>] # Absent

(***************************************************************************)
(* A checkpoint never runs ahead of the occurrences it accounts for, over  *)
(* cancelled and crashed runs, upgrades and replaced sources: every        *)
(* message of a readable table up to last_rowid has all its occurrences    *)
(* (link_table commits both in one transaction and resumes at last_rowid). *)
(***************************************************************************)
CheckpointSound ==
  \A t \in Tables : Scanned(t) /\ Readable(t) =>
    \A r \in RowsOf(source, t) : r <= scan[t].last => Linked(t, r)

(***************************************************************************)
(* A table shown as completed on the maintenance page has every message of *)
(* the current source linked (completed=1 in image_occurrence_scan_state). *)
(***************************************************************************)
CompletedTablesAreLinked ==
  \A t \in Tables : Scanned(t) /\ Readable(t) /\ scan[t].completed =>
    \A r \in RowsOf(source, t) : Linked(t, r)

(***************************************************************************)
(* Once a table carries the identity of the current source, no occurrence  *)
(* of an earlier version is left in it: link_table deletes a table's       *)
(* occurrences when the recorded identity differs.                         *)
(***************************************************************************)
NoStaleOccurrence ==
  \A t \in Tables : Scanned(t) =>
    \A k \in In(Present(occ), t) : k[1] \in References(source, t, k[3])

(***************************************************************************)
(* That holds throughout for a manifest that this release created.         *)
(***************************************************************************)
NeverStale ==
  (\A t \in Tables : scan[t] = NoRow) /\ Present(occ) = {} => []NoStaleOccurrence

(***************************************************************************)
(* What was linked from the current source is deleted by a forced run      *)
(* only: resuming, upgrading and registering tables keep it.               *)
(***************************************************************************)
OnlyForceDeletes ==
  [][\A k \in Keys :
       occ[k] # Absent /\ occ'[k] = Absent /\ scan[k[2]] # NoRow
       /\ scan[k[2]].id = source => lk.force]_linkerVars

(***************************************************************************)
(* However small the budget of a run, runs started again and again finish  *)
(* every table of the source, past unreadable pages and a new version,     *)
(* once they are no longer cancelled, killed or told to start over.        *)
(***************************************************************************)
\* An abort that leaves what a normal end leaves does no harm.
Disturbed ==
  ~LinkerStep /\ (CancelLink \/ AbortLink \/ (StartLink /\ lk'.force))

EventuallyLinked ==
  <>[][~Disturbed]_linkerVars
    => <>[](\A t \in TablesOf(source) : Scanned(t) /\ scan[t].completed)
=============================================================================
