----------------------------- MODULE Preprocess -----------------------------
(***************************************************************************)
(* qq_analyzer_rs preprocess (preprocess.rs, snapshot.rs, catalog.rs): runs *)
(* that copy databases of QQ, which QQ goes on writing, to prepared ones,  *)
(* strip what QQ puts before them, let QQ itself take the key off a        *)
(* working copy, and list the outcome in the catalog.  A run can be killed *)
(* anywhere.                                                               *)
(*                                                                         *)
(* A copy is known by the versions its bytes are of (two, when QQ wrote    *)
(* meanwhile) and by its form.  Temporary files are never read by a later  *)
(* run and are part of the run.  Extraction of containers is left out.     *)
(***************************************************************************)
EXTENDS Integers, FiniteSets

CONSTANTS
  Databases,   \* paths of databases of QQ
  Kinds,       \* the values of shape that are explored
  Requests,    \* options of the runs that are explored
  Versions,    \* 1 .. number of versions of a database
  Empties,     \* versions whose schema has no table
  Sizes,       \* version -> its length
  Nothing      \* no such file

\* "sqlite": a plain database; "headed": one behind QQ's header; "sealed":
\* an encrypted one behind that header; "nt": one of NTQQ; "raw": no database.
Forms == {"sqlite", "headed", "sealed", "nt", "raw"}

ASSUME PreprocessAssumption ==
  /\ Requests \subseteq [dbs : SUBSET Databases, prepare : BOOLEAN, rekey : BOOLEAN, force : BOOLEAN]
  /\ Kinds \subseteq [Databases -> Forms] /\ IsFiniteSet(Databases)
  /\ Versions = 1 .. Cardinality(Versions) /\ Empties \subseteq Versions
  /\ Sizes \in [Versions -> Nat]

VARIABLES
  shape,     \* database -> its form
  file,      \* database -> its version, 0 when it is gone
  prepared,  \* database -> what lies under prepared/
  working,   \* database -> its copy under encrypted-tmp/
  held,      \* databases whose working copy QQ has open
  catalog,   \* database -> its row in prepared_sources
  prep       \* the run

prepVars == <<shape, file, prepared, working, held, catalog, prep>>

Copy(versions, form) == [of |-> versions, form |-> form]

\* left: why a working copy outlived the step that made it.
WorkingCopy(versions, form) == [of |-> versions, form |-> form, left |-> "no"]

Copies == [of : SUBSET Nat, form : Forms]
WorkingCopies ==
  [of : SUBSET Nat, form : Forms \cup {"zeros"}, left : {"no", "held", "killed", "no runner"}]

ASSUME NothingAssumption == Nothing \notin Databases \cup Copies \cup WorkingCopies

PrepIdle ==
  [pc |-> "idle", prepare |-> FALSE, rekey |-> FALSE, force |-> FALSE, todo |-> {}, db |-> Nothing,
   tmp |-> {}, old |-> FALSE, rows |-> [d \in Databases |-> "none"], seen |-> {}]

PrepInit ==
  /\ shape \in Kinds /\ file = [d \in Databases |-> 1]
  /\ prepared = [d \in Databases |-> Nothing] /\ working = [d \in Databases |-> Nothing]
  /\ held = {} /\ catalog = [d \in Databases |-> "none"] /\ prep = PrepIdle

files == <<shape, file, held>>

(***************************************************************************)
(* A run takes the selected databases one by one.                          *)
(***************************************************************************)
\* --rekey-pcqq-dbs goes with --prepare-pcqq-dbs.
StartPrep(r) ==
  /\ prep.pc = "idle" /\ (r.rekey => r.prepare)
  /\ prep' = [PrepIdle EXCEPT !.pc = "next", !.todo = {d \in r.dbs : file[d] # 0},
                !.prepare = r.prepare, !.rekey = r.rekey, !.force = r.force]
  /\ UNCHANGED <<files, prepared, working, catalog>>

PrepGoes(pc) == prep' = [prep EXCEPT !.pc = pc]

\* The step of the database is reported.
Reported(row) ==
  prep' = [prep EXCEPT !.pc = "next", !.todo = @ \ {prep.db}, !.rows[prep.db] = row,
             !.db = Nothing, !.tmp = {}, !.old = FALSE, !.seen = {}]

Exists == prepared[prep.db] # Nothing

\* sqlite_summary: what is torn may or may not be readable.
Outcomes(copy) ==
  IF copy.form # "sqlite" \/ copy.of \subseteq Empties THEN {FALSE}
  ELSE IF Cardinality(copy.of) > 1 THEN BOOLEAN
  ELSE {TRUE}

\* The header is read first, but for NTQQ's; a file that is gone ends the
\* whole run.
HeaderKind(d) ==
  /\ prep.pc = "next" /\ d \in prep.todo
  /\ IF file[d] = 0 /\ shape[d] # "nt" THEN prep' = PrepIdle
     ELSE prep' = [prep EXCEPT !.db = d, !.seen = {file[d]},
                               !.pc = IF prep.prepare THEN "prepare" ELSE "plan"]
  /\ UNCHANGED <<files, prepared, working, catalog>>

Plan ==
  /\ prep.pc = "plan" /\ Reported("planned")
  /\ UNCHANGED <<files, prepared, working, catalog>>

(***************************************************************************)
(* Copies: copy_file, strip_ntqq_prefix, strip_pcqq_header.                *)
(***************************************************************************)
\* A length that did not change is taken for the same database.
SameLength ==
  \E v \in prepared[prep.db].of : file[prep.db] # 0 /\ Sizes[v] = Sizes[file[prep.db]]

Kept(form) ==
  Exists /\ ~prep.force /\ (form \in {"sqlite", "raw"} => SameLength)

\* What exists is validated as far as its form allows.
KeepExisting ==
  /\ prep.pc = "prepare" /\ Kept(shape[prep.db])
  /\ LET form == shape[prep.db]
     IN  \/ form \in {"raw", "nt"} /\ Reported("prepared")
         \/ form \in {"sqlite", "headed", "sealed"} /\ PrepGoes("check")
  /\ UNCHANGED <<files, prepared, working, catalog>>

\* An encrypted database has no SQLite header where one is looked for.
NoInnerHeader ==
  /\ prep.pc = "prepare" /\ ~Kept(shape[prep.db]) /\ shape[prep.db] = "sealed"
  /\ PrepGoes("rekey?")
  /\ UNCHANGED <<files, prepared, working, catalog>>

\* The bytes are read while QQ writes them.
ReadHalf ==
  /\ prep.pc = "prepare" /\ ~Kept(shape[prep.db]) /\ shape[prep.db] # "sealed" /\ file[prep.db] # 0
  /\ prep' = [prep EXCEPT !.pc = "copied", !.tmp = {file[prep.db]}]
  /\ UNCHANGED <<files, prepared, working, catalog>>

\* Whatever kept a database from being stripped is taken for a missing key.
CopyFails ==
  /\ prep.pc \in {"prepare", "copied"} /\ ~Kept(shape[prep.db]) /\ shape[prep.db] # "sealed"
  /\ IF shape[prep.db] = "headed" THEN PrepGoes("rekey?") ELSE Reported("failed")
  /\ UNCHANGED <<files, prepared, working, catalog>>

Bytes == prep.tmp \cup ({file[prep.db]} \ {0})

Stored == [sqlite |-> "sqlite", headed |-> "sqlite", sealed |-> "sqlite", nt |-> "nt", raw |-> "raw"]

\* A plain database is renamed into place before it is looked at; NTQQ's and
\* other files are not looked at.
CopyIntoPlace ==
  /\ prep.pc = "copied" /\ shape[prep.db] \in {"sqlite", "nt", "raw"}
  /\ prepared' = [prepared EXCEPT ![prep.db] = Copy(Bytes, Stored[shape[prep.db]])]
  /\ IF shape[prep.db] = "sqlite" THEN PrepGoes("check") ELSE Reported("prepared")
  /\ UNCHANGED <<files, working, catalog>>

\* Bug: a stripped copy is renamed before it is validated.
PromotedFirst(copy, ok) == prepared' = [prepared EXCEPT ![prep.db] = copy]

\* A stripped one is validated first.
Promoted(copy, ok) ==
  prepared' = IF ok THEN [prepared EXCEPT ![prep.db] = copy] ELSE prepared

StripIntoPlace ==
  /\ prep.pc = "copied" /\ shape[prep.db] = "headed"
  /\ LET copy == Copy(Bytes, "sqlite")
     IN  \E ok \in Outcomes(copy) :
           /\ Promoted(copy, ok)
           /\ IF ok THEN Reported("prepared") ELSE PrepGoes("rekey?")
  /\ UNCHANGED <<files, working, catalog>>

SqliteSummary ==
  /\ prep.pc = "check"
  /\ \E ok \in Outcomes(prepared[prep.db]) :
       IF ok THEN Reported("prepared")
       ELSE IF shape[prep.db] = "sqlite" THEN Reported("failed")
       ELSE PrepGoes("rekey?")
  /\ UNCHANGED <<files, prepared, working, catalog>>

(***************************************************************************)
(* rekey_prepared_pcqq_db.                                                 *)
(***************************************************************************)
\* Without the option, or without a key, nothing is copied.
NoRekey ==
  /\ prep.pc = "rekey?" /\ ~prep.rekey /\ Reported("failed")
  /\ UNCHANGED <<files, prepared, working, catalog>>

Rekey ==
  /\ prep.pc = "rekey?" /\ prep.rekey
  /\ PrepGoes("work")
  /\ UNCHANGED <<files, prepared, working, catalog>>

\* Bug: --force does not reach the working copy.
ReusedAlways == working[prep.db] # Nothing

\* create_working_copy: one that is there is used, unless forced.
Reused == working[prep.db] # Nothing /\ ~prep.force

ReuseWorking ==
  /\ prep.pc = "work" /\ Reused
  /\ prep' = [prep EXCEPT !.pc = "runner", !.old = TRUE]
  /\ working' = [working EXCEPT ![prep.db].left = "no"]
  /\ UNCHANGED <<files, prepared, catalog>>

\* Windows does not remove a file that QQ has open.
RemoveFails ==
  /\ prep.pc = "work" /\ working[prep.db] # Nothing /\ ~Reused /\ prep.db \in held
  /\ Reported("failed")
  /\ UNCHANGED <<files, prepared, working, catalog>>

\* block_clone_file creates a file of the right length and then clones; the
\* fallback renames a copy.
CreateWorking ==
  /\ prep.pc = "work" /\ ~Reused /\ prep.db \notin held /\ file[prep.db] # 0
  /\ \/ /\ working' = [working EXCEPT ![prep.db] = WorkingCopy({file[prep.db]}, "zeros")]
        /\ PrepGoes("clone")
     \/ /\ working' = [working EXCEPT ![prep.db] = Nothing]
        /\ prep' = [prep EXCEPT !.pc = "fallback", !.tmp = {file[prep.db]}]
  /\ UNCHANGED <<files, prepared, catalog>>

Clone ==
  /\ prep.pc = "clone" /\ file[prep.db] # 0
  /\ working' = [working EXCEPT ![prep.db] = WorkingCopy({file[prep.db]}, shape[prep.db])]
  /\ PrepGoes("runner")
  /\ UNCHANGED <<files, prepared, catalog>>

\* A clone that fails is removed; so does a source that is gone.
CloneFails ==
  /\ prep.pc = "clone"
  /\ working' = [working EXCEPT ![prep.db] = Nothing]
  /\ \/ Reported("failed")
     \/ file[prep.db] # 0 /\ prep' = [prep EXCEPT !.pc = "fallback", !.tmp = {file[prep.db]}]
  /\ UNCHANGED <<files, prepared, catalog>>

Fallback ==
  /\ prep.pc = "fallback"
  /\ working' = [working EXCEPT ![prep.db] = WorkingCopy(Bytes, shape[prep.db])]
  /\ prep' = [prep EXCEPT !.pc = "runner", !.tmp = {}]
  /\ UNCHANGED <<files, prepared, catalog>>

WorkingFails ==
  /\ prep.pc \in {"work", "fallback"} /\ ~Reused /\ prep.db \notin held
  /\ Reported("failed") /\ working' = [working EXCEPT ![prep.db] = Nothing]
  /\ UNCHANGED <<files, prepared, catalog>>

\* The working copy stays when the runner cannot be had.
NoRunner ==
  /\ prep.pc = "runner" /\ Reported("failed")
  /\ working' = [working EXCEPT ![prep.db].left = "no runner"]
  /\ UNCHANGED <<files, prepared, catalog>>

Runner ==
  /\ prep.pc = "runner" /\ PrepGoes("qq")
  /\ UNCHANGED <<files, prepared, working, catalog>>

\* QQ takes the key off a copy that has it, and that nobody else has open.
RekeyOk ==
  /\ prep.pc = "qq" /\ working[prep.db].form = "sealed" /\ prep.db \notin held
  /\ working' = [working EXCEPT ![prep.db].form = "headed"] /\ PrepGoes("strip")
  /\ UNCHANGED <<files, prepared, catalog>>

\* Bug: a copy that was refused is kept for the next run.
KeptForNextRun(d) == UNCHANGED working

\* remove_working_copy, whose failure is ignored.
RemoveWorking(d) ==
  working' = IF d \in held THEN [working EXCEPT ![d].left = "held"]
             ELSE [working EXCEPT ![d] = Nothing]

RekeyRefused ==
  /\ prep.pc = "qq" /\ Reported("failed") /\ RemoveWorking(prep.db)
  /\ UNCHANGED <<files, prepared, catalog>>

\* The runner is killed; the script goes on in QQ.
RekeyTimesOut ==
  /\ prep.pc = "qq" /\ Reported("failed")
  /\ held' = held \cup {prep.db}
  /\ working' = [working EXCEPT ![prep.db].left = "held"]
  /\ UNCHANGED <<shape, file, prepared, catalog>>

QQLetsGo(d) ==
  /\ d \in held /\ held' = held \ {d}
  /\ \/ UNCHANGED working
     \/ /\ working[d] # Nothing /\ working[d].form = "sealed"
        /\ working' = [working EXCEPT ![d].form = "headed"]
  /\ UNCHANGED <<shape, file, prepared, catalog, prep>>

\* A copy that exists and is not forced away was not readable before either.
StripWorking ==
  /\ prep.pc = "strip"
  /\ LET copy == Copy(working[prep.db].of, "sqlite")
     IN  \E ok \in IF Exists /\ ~prep.force THEN Outcomes(prepared[prep.db]) ELSE Outcomes(copy) :
           /\ IF Exists /\ ~prep.force THEN UNCHANGED prepared ELSE Promoted(copy, ok)
           /\ PrepGoes(IF ok THEN "drop" ELSE "fail")
  /\ UNCHANGED <<files, working, catalog>>

DropWorking ==
  /\ prep.pc \in {"drop", "fail"} /\ RemoveWorking(prep.db)
  /\ Reported(IF prep.pc = "drop" THEN "prepared" ELSE "failed")
  /\ UNCHANGED <<files, prepared, catalog>>

(***************************************************************************)
(* The end of a run, kills, and QQ.                                        *)
(***************************************************************************)
\* write_preprocess_report replaces all rows.
WriteCatalog ==
  /\ prep.pc = "next" /\ prep.todo = {}
  /\ catalog' = prep.rows /\ prep' = PrepIdle
  /\ UNCHANGED <<files, prepared, working>>

\* A kill while QQ is at the copy leaves QQ at it.
KillPrep ==
  /\ prep.pc # "idle" /\ prep' = PrepIdle
  /\ IF prep.db # Nothing /\ working[prep.db] # Nothing
       THEN working' = [working EXCEPT ![prep.db].left = "killed"] ELSE UNCHANGED working
  /\ held' \in IF prep.pc = "qq" THEN {held, held \cup {prep.db}} ELSE {held}
  /\ UNCHANGED <<shape, file, prepared, catalog>>

\* QQ writes its databases, and removes some.
WriteFile(d) ==
  /\ file[d] # 0
  /\ \E v \in {0, file[d] + 1} \cap (Versions \cup {0}) :
       /\ file' = [file EXCEPT ![d] = v]
       /\ prep' = IF prep.db = d THEN [prep EXCEPT !.seen = @ \cup {v}] ELSE prep
  /\ UNCHANGED <<shape, prepared, working, held, catalog>>

PrepStep ==
  \/ \E d \in Databases : HeaderKind(d)
  \/ Plan \/ KeepExisting \/ NoInnerHeader \/ ReadHalf \/ CopyFails \/ CopyIntoPlace
  \/ StripIntoPlace \/ SqliteSummary \/ NoRekey \/ Rekey
  \/ ReuseWorking \/ RemoveFails \/ CreateWorking \/ Clone \/ CloneFails \/ Fallback
  \/ WorkingFails \/ NoRunner \/ Runner \/ RekeyOk \/ RekeyRefused \/ RekeyTimesOut
  \/ StripWorking \/ DropWorking \/ WriteCatalog

PrepNext ==
  \/ \E r \in Requests : StartPrep(r)
  \/ PrepStep \/ KillPrep
  \/ \E d \in Databases : QQLetsGo(d) \/ WriteFile(d)

\* preprocess --prepare-pcqq-dbs --prepare-ntqq-dbs --rekey-pcqq-dbs
RunsOfAll == [dbs |-> Databases, prepare |-> TRUE, rekey |-> TRUE, force |-> FALSE]

PrepSpec == PrepInit /\ [][PrepNext]_prepVars

PrepFairness ==
  /\ WF_prepVars(PrepStep) /\ \A d \in Databases : WF_prepVars(QQLetsGo(d))
  /\ SF_prepVars(StartPrep(RunsOfAll))

(***************************************************************************)
(* Properties.                                                             *)
(***************************************************************************)
(***************************************************************************)
(* Whatever was killed, timed out or written meanwhile: what was stripped  *)
(* is a database with tables ("Only DBs that validate as non-empty         *)
(* standard SQLite are promoted"), the catalog lists as prepared what is   *)
(* there, and a working copy is left behind only by a kill, by QQ having   *)
(* it open, or for want of a runner.  A database that is plain from the    *)
(* start is the exception: it is promoted before it is validated.          *)
(***************************************************************************)
NoneUnvalidated(d) ==
  prepared[d] # Nothing /\ shape[d] # "nt" /\ shape[d] # "raw" =>
    prepared[d].form = "sqlite" /\ ~ prepared[d].of \subseteq Empties

PreparedSound ==
  \A d \in Databases :
    /\ shape[d] # "sqlite" => NoneUnvalidated(d)
    /\ catalog[d] = "prepared" => prepared[d] # Nothing
    /\ working[d] # Nothing /\ prep.db # d => working[d].left # "no"

\* What the README of the repository says of all databases.
OnlyValidatedPromoted == \A d \in Databases : NoneUnvalidated(d)

\* A step copies what was there while it ran, unless it reuses the working
\* copy of an earlier one; a forced run never does.
CopiesAreFresh ==
  [][\A d \in Databases : prepared'[d] # prepared[d] =>
        prepared'[d].of \subseteq prep.seen \/ (prep.old /\ ~prep.force)]_prepVars

(***************************************************************************)
(* Once nothing fails any more, runs that may rekey prepare every          *)
(* database, whatever the runs before left under encrypted-tmp.            *)
(***************************************************************************)
Refusal == RekeyRefused /\ working[prep.db].form = "sealed" /\ prep.db \notin held

Failing ==
  \/ KillPrep /\ ~WriteCatalog
  \/ CopyFails \/ CloneFails \/ WorkingFails \/ NoRunner \/ Refusal \/ RekeyTimesOut

PreparesInTheEnd ==
  <>[][~Failing]_prepVars =>
    \A d \in Databases : <>(prepared[d] # Nothing \/ file[d] \in Empties \cup {0})
=============================================================================
