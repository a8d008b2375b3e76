-------------------------- MODULE PreprocessProofs --------------------------
(***************************************************************************)
(* Proofs about what is taken from the files of QQ.  Of preprocess, for    *)
(* any databases, versions and options, and any number of runs, kills and  *)
(* writes of QQ: what is stripped has been validated, the catalog lists    *)
(* what is there, working copies are left behind for the known reasons     *)
(* only, and a copy is of versions that were there while the step ran.  Of *)
(* Info.db (InfoStreams), for any containers, threads and questions: each  *)
(* stream is written to a file of its own, and the cache of their chunks   *)
(* passes nothing for current that is not.                                 *)
(***************************************************************************)
EXTENDS Preprocess, InfoStreams, FiniteSetTheorems, FunctionTheorems, SequenceTheorems,
        WellFoundedInduction, TLAPS

PrepPcs ==
  {"idle", "next", "plan", "prepare", "copied", "check", "rekey?", "work", "clone", "fallback",
   "runner", "qq", "strip", "drop", "fail"}

Outcome == {"none", "planned", "prepared", "failed"}

PrepRow ==
  [pc : PrepPcs, prepare : BOOLEAN, rekey : BOOLEAN, force : BOOLEAN,
   todo : SUBSET Databases, db : Databases \cup {Nothing}, tmp : SUBSET Nat, old : BOOLEAN,
   rows : [Databases -> Outcome], seen : SUBSET Nat]

PrepTypeOK ==
  /\ shape \in [Databases -> Forms] /\ file \in [Databases -> Nat]
  /\ prepared \in [Databases -> Copies \cup {Nothing}]
  /\ working \in [Databases -> WorkingCopies \cup {Nothing}]
  /\ held \in SUBSET Databases /\ catalog \in [Databases -> Outcome]
  /\ prep \in PrepRow

\* A step has its database, and nothing is left over between the steps.
OwnDatabase == prep.pc \in {"idle", "next"} <=> prep.db = Nothing

\* A copy that is stripped is a database with tables.
StrippedIsValid ==
  \A d \in Databases : shape[d] \in {"headed", "sealed"} => NoneUnvalidated(d)

\* What is, or is about to be, reported as prepared is there.
ReportedIsThere ==
  /\ \A d \in Databases : catalog[d] = "prepared" \/ prep.rows[d] = "prepared"
                          => prepared[d] # Nothing
  /\ prep.pc \in {"check", "drop"} => prepared[prep.db] # Nothing

\* Until a step has a working copy of its own, one that is there has been left
\* by an earlier one; then it is there until the step drops it.
LeftForAReason ==
  /\ \A d \in Databases \ {prep.db} : working[d] # Nothing => working[d].left # "no"
  /\ prep.pc \in {"plan", "prepare", "copied", "check", "rekey?", "work"}
     /\ working[prep.db] # Nothing => working[prep.db].left # "no"
  /\ prep.pc \in {"runner", "qq", "strip", "drop", "fail"} => working[prep.db] # Nothing

\* The run knows every version its database has had during the step, and what
\* it reads of it, or has read into the working copy, is of these.
KnowsItsVersions ==
  /\ prep.db # Nothing => file[prep.db] \in prep.seen
  /\ prep.pc \in {"copied", "fallback"} => prep.tmp \subseteq prep.seen
  /\ prep.pc \in {"runner", "qq", "strip"} => working[prep.db].of \subseteq prep.seen \/ prep.old
  /\ prep.old => ~prep.force

PrepInv ==
  /\ PrepTypeOK /\ OwnDatabase /\ StrippedIsValid /\ ReportedIsThere /\ LeftForAReason
  /\ KnowsItsVersions

----------------------------------------------------------------------------
(***************************************************************************)
(* What the steps do to the run.                                           *)
(***************************************************************************)

\* A step that goes on.
LEMMA Goes ==
  ASSUME PrepTypeOK, NEW pc \in PrepPcs, PrepGoes(pc)
  PROVE  /\ prep' \in PrepRow /\ prep'.pc = pc /\ prep'.db = prep.db /\ prep'.tmp = prep.tmp
         /\ prep'.seen = prep.seen /\ prep'.old = prep.old /\ prep'.force = prep.force
         /\ prep'.rows = prep.rows
BY DEF PrepTypeOK, PrepGoes, PrepRow

\* A step that is reported.
LEMMA Ends ==
  ASSUME PrepTypeOK, prep.db \in Databases, NEW row \in Outcome, Reported(row)
  PROVE  /\ prep' \in PrepRow /\ prep'.pc = "next" /\ prep'.db = Nothing
         /\ ~prep'.old /\ prep'.rows = [prep.rows EXCEPT ![prep.db] = row]
BY DEF PrepTypeOK, Reported, PrepRow, PrepPcs

\* A run that is over.
LEMMA Idles ==
  /\ PrepIdle \in PrepRow /\ PrepIdle.pc = "idle" /\ PrepIdle.db = Nothing
  /\ ~PrepIdle.old /\ PrepIdle.rows = [d \in Databases |-> "none"]
BY DEF PrepIdle, PrepRow, PrepPcs, Outcome

----------------------------------------------------------------------------
(***************************************************************************)
(* Types.                                                                  *)
(***************************************************************************)

LEMMA HasDatabase ==
  ASSUME PrepTypeOK, OwnDatabase, prep.pc \notin {"idle", "next"}
  PROVE  /\ prep.db \in Databases /\ prep.db # Nothing
         /\ shape[prep.db] \in Forms /\ file[prep.db] \in Nat
         /\ prepared[prep.db] \in Copies \cup {Nothing}
         /\ working[prep.db] \in WorkingCopies \cup {Nothing}
BY DEF PrepTypeOK, OwnDatabase, PrepRow

LEMMA CopyTypes ==
  ASSUME NEW vs \in SUBSET Nat
  PROVE  /\ \A form \in Forms : Copy(vs, form) \in Copies
         /\ \A form \in Forms \cup {"zeros"} : WorkingCopy(vs, form) \in WorkingCopies
BY DEF Copy, WorkingCopy, Copies, WorkingCopies

LEMMA BytesAreVersions ==
  ASSUME PrepTypeOK, OwnDatabase, prep.pc \notin {"idle", "next"}
  PROVE  Bytes \in SUBSET Nat
BY HasDatabase DEF Bytes, PrepTypeOK, PrepRow

\* Every step stays within the types.
LEMMA TypesKept ==
  ASSUME PrepTypeOK, OwnDatabase, LeftForAReason, PrepNext
  PROVE  PrepTypeOK'
<1>1. ASSUME NEW r \in Requests, StartPrep(r) PROVE PrepTypeOK'
  BY <1>1, PreprocessAssumption, Idles DEF StartPrep, PrepRow, PrepPcs, files,
    PrepTypeOK
<1>2. ASSUME NEW d \in Databases, HeaderKind(d) PROVE PrepTypeOK'
  <2>1. prep' \in PrepRow
    <3>1. CASE prep' = PrepIdle
      BY <3>1, Idles
    <3>2. CASE prep' = [prep EXCEPT !.db = d, !.seen = {file[d]},
                                    !.pc = IF prep.prepare THEN "prepare" ELSE "plan"]
      <4>1. file[d] \in Nat /\ prep \in PrepRow
        BY DEF PrepTypeOK
      <4> QED BY <3>2, <4>1 DEF PrepRow, PrepPcs
    <3> QED BY <1>2, <3>1, <3>2 DEF HeaderKind
  <2> QED BY <1>2, <2>1 DEF HeaderKind, files, PrepTypeOK
<1>3. CASE Plan
  <2>0. prep.db \in Databases /\ prep.db # Nothing
    BY <1>3, HasDatabase DEF Plan
  <2>1. prep' \in PrepRow
    BY <1>3, <2>0, Goes, Ends, Idles DEF Plan, PrepPcs, Outcome
  <2> QED BY <1>3, <2>1 DEF Plan, files, PrepTypeOK
<1>4. CASE KeepExisting
  <2>0. prep.db \in Databases /\ prep.db # Nothing
    BY <1>4, HasDatabase DEF KeepExisting
  <2>1. prep' \in PrepRow
    BY <1>4, <2>0, Goes, Ends, Idles DEF KeepExisting, PrepPcs, Outcome
  <2> QED BY <1>4, <2>1 DEF KeepExisting, files, PrepTypeOK
<1>5. CASE NoInnerHeader
  <2>0. prep.db \in Databases /\ prep.db # Nothing
    BY <1>5, HasDatabase DEF NoInnerHeader
  <2>1. prep' \in PrepRow
    BY <1>5, <2>0, Goes, Ends, Idles DEF NoInnerHeader, PrepPcs, Outcome
  <2> QED BY <1>5, <2>1 DEF NoInnerHeader, files, PrepTypeOK
<1>6. CASE ReadHalf
  <2>1. prep' \in PrepRow
    BY <1>6, HasDatabase DEF ReadHalf, PrepTypeOK, PrepRow, PrepPcs
  <2> QED BY <1>6, <2>1 DEF ReadHalf, files, PrepTypeOK
<1>7. CASE CopyFails
  <2>0. prep.db \in Databases /\ prep.db # Nothing
    BY <1>7, HasDatabase DEF CopyFails
  <2>1. prep' \in PrepRow
    BY <1>7, <2>0, Goes, Ends, Idles DEF CopyFails, PrepPcs, Outcome
  <2> QED BY <1>7, <2>1 DEF CopyFails, files, PrepTypeOK
<1>8. CASE CopyIntoPlace
  <2>0. prep.db \in Databases /\ prep.db # Nothing
    BY <1>8, HasDatabase DEF CopyIntoPlace
  <2>1. prep' \in PrepRow
    BY <1>8, <2>0, Goes, Ends DEF CopyIntoPlace, PrepPcs, Outcome
  <2>2. Bytes \in SUBSET Nat /\ Stored[shape[prep.db]] \in Forms
    BY <1>8, BytesAreVersions, HasDatabase DEF CopyIntoPlace, Stored, Forms
  <2>3. Copy(Bytes, Stored[shape[prep.db]]) \in Copies
    BY <2>2, CopyTypes
  <2> QED BY <1>8, <2>1, <2>3 DEF CopyIntoPlace, files, PrepTypeOK
<1>9. CASE StripIntoPlace
  <2>0. prep.db \in Databases /\ prep.db # Nothing
    BY <1>9, HasDatabase DEF StripIntoPlace
  <2>1. prep' \in PrepRow
    BY <1>9, <2>0, Goes, Ends DEF StripIntoPlace, PrepPcs, Outcome
  <2>2. Copy(Bytes, "sqlite") \in Copies
    BY <1>9, BytesAreVersions, CopyTypes DEF StripIntoPlace, Forms
  <2> QED BY <1>9, <2>1, <2>2 DEF StripIntoPlace, Promoted, files, PrepTypeOK
<1>10. CASE SqliteSummary
  <2>0. prep.db \in Databases /\ prep.db # Nothing
    BY <1>10, HasDatabase DEF SqliteSummary
  <2>1. prep' \in PrepRow
    BY <1>10, <2>0, Goes, Ends, Idles DEF SqliteSummary, PrepPcs, Outcome
  <2> QED BY <1>10, <2>1 DEF SqliteSummary, files, PrepTypeOK
<1>11. CASE NoRekey
  <2>0. prep.db \in Databases /\ prep.db # Nothing
    BY <1>11, HasDatabase DEF NoRekey
  <2>1. prep' \in PrepRow
    BY <1>11, <2>0, Goes, Ends, Idles DEF NoRekey, PrepPcs, Outcome
  <2> QED BY <1>11, <2>1 DEF NoRekey, files, PrepTypeOK
<1>12. CASE Rekey
  <2>0. prep.db \in Databases /\ prep.db # Nothing
    BY <1>12, HasDatabase DEF Rekey
  <2>1. prep' \in PrepRow
    BY <1>12, <2>0, Goes, Ends, Idles DEF Rekey, PrepPcs, Outcome
  <2> QED BY <1>12, <2>1 DEF Rekey, files, PrepTypeOK
<1>13. CASE ReuseWorking
  <2>0. prep.db \in Databases /\ prep.db # Nothing
    BY <1>13, HasDatabase DEF ReuseWorking
  <2>1. prep' \in PrepRow
    BY <1>13 DEF ReuseWorking, PrepTypeOK, PrepRow, PrepPcs
  <2>2. working' \in [Databases -> WorkingCopies \cup {Nothing}]
    BY <1>13, <2>0, HasDatabase DEF ReuseWorking, Reused, WorkingCopies, PrepTypeOK
  <2> QED BY <1>13, <2>1, <2>2 DEF ReuseWorking, files, PrepTypeOK
<1>14. CASE RemoveFails
  <2>0. prep.db \in Databases /\ prep.db # Nothing
    BY <1>14, HasDatabase DEF RemoveFails
  <2>1. prep' \in PrepRow
    BY <1>14, <2>0, Goes, Ends, Idles DEF RemoveFails, PrepPcs, Outcome
  <2> QED BY <1>14, <2>1 DEF RemoveFails, files, PrepTypeOK
<1>15. CASE CreateWorking
  <2>0. prep.db \in Databases /\ prep.db # Nothing
    BY <1>15, HasDatabase DEF CreateWorking
  <2>1. file[prep.db] \in Nat /\ WorkingCopy({file[prep.db]}, "zeros") \in WorkingCopies
    BY <1>15, CopyTypes, HasDatabase DEF CreateWorking
  <2>2. working' \in [Databases -> WorkingCopies \cup {Nothing}]
    BY <1>15, <2>0, <2>1 DEF CreateWorking, PrepTypeOK
  <2>3. CASE PrepGoes("clone")
    <3>1. prep' \in PrepRow
      BY <2>3, Goes DEF PrepPcs
    <3> QED BY <1>15, <3>1, <2>2 DEF CreateWorking, files, PrepTypeOK
  <2>4. CASE prep' = [prep EXCEPT !.pc = "fallback", !.tmp = {file[prep.db]}]
    <3>1. prep' \in PrepRow
      BY <2>1, <2>4 DEF PrepTypeOK, PrepRow, PrepPcs
    <3> QED BY <1>15, <3>1, <2>2 DEF CreateWorking, files, PrepTypeOK
  <2> QED BY <1>15, <2>3, <2>4 DEF CreateWorking
<1>16. CASE Clone
  <2>0. prep.db \in Databases /\ prep.db # Nothing
    BY <1>16, HasDatabase DEF Clone
  <2>1. prep' \in PrepRow
    BY <1>16, <2>0, Goes, Ends, Idles DEF Clone, PrepPcs, Outcome
  <2>2. working' \in [Databases -> WorkingCopies \cup {Nothing}]
    BY <1>16, CopyTypes, HasDatabase, <2>0 DEF Clone, PrepTypeOK
  <2> QED BY <1>16, <2>1, <2>2 DEF Clone, files, PrepTypeOK
<1>17. CASE CloneFails
  <2>0. prep.db \in Databases /\ prep.db # Nothing
    BY <1>17, HasDatabase DEF CloneFails
  <2>1. prep' \in PrepRow
    <3>1. CASE Reported("failed")
      BY <2>0, <3>1, Ends DEF Outcome
    <3>2. CASE prep' = [prep EXCEPT !.pc = "fallback", !.tmp = {file[prep.db]}]
      BY <1>17, <3>2, HasDatabase DEF CloneFails, PrepTypeOK, PrepRow, PrepPcs
    <3> QED BY <1>17, <3>1, <3>2 DEF CloneFails
  <2> QED BY <1>17, <2>0, <2>1 DEF CloneFails, files, PrepTypeOK
<1>18. CASE Fallback
  <2>0. prep.db \in Databases /\ prep.db # Nothing
    BY <1>18, HasDatabase DEF Fallback
  <2>1. prep' \in PrepRow
    BY <1>18 DEF Fallback, PrepTypeOK, PrepRow, PrepPcs
  <2>2. working' \in [Databases -> WorkingCopies \cup {Nothing}]
    BY <1>18, CopyTypes, HasDatabase, BytesAreVersions, <2>0 DEF Fallback, PrepTypeOK
  <2> QED BY <1>18, <2>1, <2>2 DEF Fallback, files, PrepTypeOK
<1>19. CASE WorkingFails
  <2>0. prep.db \in Databases /\ prep.db # Nothing
    BY <1>19, HasDatabase DEF WorkingFails
  <2>1. prep' \in PrepRow
    BY <1>19, <2>0, Goes, Ends, Idles DEF WorkingFails, PrepPcs, Outcome
  <2>2. working' \in [Databases -> WorkingCopies \cup {Nothing}]
    BY <1>19, <2>0 DEF WorkingFails, PrepTypeOK
  <2> QED BY <1>19, <2>1, <2>2 DEF WorkingFails, files, PrepTypeOK
<1>20. CASE NoRunner
  <2>0. prep.db \in Databases /\ prep.db # Nothing
    BY <1>20, HasDatabase DEF NoRunner
  <2>w. working[prep.db] \in WorkingCopies
    BY <1>20, HasDatabase DEF NoRunner, LeftForAReason
  <2>1. prep' \in PrepRow
    BY <1>20, <2>0, Goes, Ends, Idles DEF NoRunner, PrepPcs, Outcome
  <2>2. working' \in [Databases -> WorkingCopies \cup {Nothing}]
    BY <1>20, <2>0, <2>w DEF NoRunner, WorkingCopies, PrepTypeOK
  <2> QED BY <1>20, <2>1, <2>2 DEF NoRunner, files, PrepTypeOK
<1>21. CASE Runner
  <2>0. prep.db \in Databases /\ prep.db # Nothing
    BY <1>21, HasDatabase DEF Runner
  <2>1. prep' \in PrepRow
    BY <1>21, <2>0, Goes, Ends, Idles DEF Runner, PrepPcs, Outcome
  <2> QED BY <1>21, <2>1 DEF Runner, files, PrepTypeOK
<1>22. CASE RekeyOk
  <2>0. prep.db \in Databases /\ prep.db # Nothing
    BY <1>22, HasDatabase DEF RekeyOk
  <2>w. working[prep.db] \in WorkingCopies
    BY <1>22, HasDatabase DEF RekeyOk, LeftForAReason
  <2>1. prep' \in PrepRow
    BY <1>22, <2>0, Goes, Ends, Idles DEF RekeyOk, PrepPcs, Outcome
  <2>2. working' \in [Databases -> WorkingCopies \cup {Nothing}]
    BY <1>22, <2>0, <2>w DEF RekeyOk, Forms, WorkingCopies, PrepTypeOK
  <2> QED BY <1>22, <2>1, <2>2 DEF RekeyOk, files, PrepTypeOK
<1>23. CASE RekeyRefused
  <2>0. prep.db \in Databases /\ prep.db # Nothing
    BY <1>23, HasDatabase DEF RekeyRefused
  <2>w. working[prep.db] \in WorkingCopies
    BY <1>23, HasDatabase DEF RekeyRefused, LeftForAReason
  <2>1. prep' \in PrepRow
    BY <1>23, <2>0, Goes, Ends, Idles DEF RekeyRefused, PrepPcs, Outcome
  <2>2. working' \in [Databases -> WorkingCopies \cup {Nothing}]
    BY <1>23, <2>0, <2>w DEF RekeyRefused, RemoveWorking, WorkingCopies, PrepTypeOK
  <2> QED BY <1>23, <2>1, <2>2 DEF RekeyRefused, files, PrepTypeOK
<1>24. CASE RekeyTimesOut
  <2>0. prep.db \in Databases /\ prep.db # Nothing
    BY <1>24, HasDatabase DEF RekeyTimesOut
  <2>w. working[prep.db] \in WorkingCopies
    BY <1>24, HasDatabase DEF RekeyTimesOut, LeftForAReason
  <2>1. prep' \in PrepRow
    BY <1>24, <2>0, Goes, Ends, Idles DEF RekeyTimesOut, PrepPcs, Outcome
  <2>2. working' \in [Databases -> WorkingCopies \cup {Nothing}]
    BY <1>24, <2>0, <2>w DEF RekeyTimesOut, WorkingCopies, PrepTypeOK
  <2> QED BY <1>24, <2>1, <2>2 DEF RekeyTimesOut, files, PrepTypeOK
<1>25. CASE StripWorking
  <2>0. prep.db \in Databases /\ prep.db # Nothing
    BY <1>25, HasDatabase DEF StripWorking
  <2>w. working[prep.db] \in WorkingCopies
    BY <1>25, HasDatabase DEF StripWorking, LeftForAReason
  <2>1. PICK ok \in BOOLEAN :
          /\ prepared' \in {prepared, [prepared EXCEPT ![prep.db] = Copy(working[prep.db].of, "sqlite")]}
          /\ PrepGoes(IF ok THEN "drop" ELSE "fail")
    BY <1>25 DEF StripWorking, Promoted, Outcomes
  <2>2. Copy(working[prep.db].of, "sqlite") \in Copies
    BY <2>w, CopyTypes DEF WorkingCopies, Forms
  <2>3. prep' \in PrepRow
    BY <2>1, Goes DEF PrepPcs
  <2> QED BY <1>25, <2>0, <2>1, <2>2, <2>3 DEF StripWorking, files, PrepTypeOK
<1>26. CASE DropWorking
  <2>0. prep.db \in Databases /\ prep.db # Nothing
    BY <1>26, HasDatabase DEF DropWorking
  <2>w. working[prep.db] \in WorkingCopies
    BY <1>26, HasDatabase DEF DropWorking, LeftForAReason
  <2>1. prep' \in PrepRow
    BY <1>26, <2>0, Goes, Ends, Idles DEF DropWorking, PrepPcs, Outcome
  <2>2. working' \in [Databases -> WorkingCopies \cup {Nothing}]
    BY <1>26, <2>0, <2>w DEF DropWorking, RemoveWorking, WorkingCopies, PrepTypeOK
  <2> QED BY <1>26, <2>1, <2>2 DEF DropWorking, files, PrepTypeOK
<1>27. CASE WriteCatalog
  BY <1>27, Idles DEF WriteCatalog, PrepTypeOK, PrepRow, files
<1>28. CASE KillPrep
  <2>1. prep' \in PrepRow
    BY <1>28, Idles DEF KillPrep
  <2>2. prep.db \in Databases \/ prep.db = Nothing
    BY DEF PrepTypeOK, PrepRow
  <2>3. working' \in [Databases -> WorkingCopies \cup {Nothing}]
    <3>1. CASE prep.db # Nothing /\ working[prep.db] # Nothing
      <4>1. working[prep.db] \in WorkingCopies /\ prep.db \in Databases
        BY <3>1, <2>2 DEF PrepTypeOK
      <4>2. [working[prep.db] EXCEPT !.left = "killed"] \in WorkingCopies
        BY <4>1 DEF WorkingCopies
      <4>3. working' = [working EXCEPT ![prep.db] = [working[prep.db] EXCEPT !.left = "killed"]]
        BY <1>28, <3>1 DEF KillPrep
      <4> QED BY <4>1, <4>2, <4>3 DEF PrepTypeOK
    <3>2. CASE ~(prep.db # Nothing /\ working[prep.db] # Nothing)
      BY <1>28, <3>2 DEF KillPrep, PrepTypeOK
    <3> QED BY <3>1, <3>2
  <2>4. held' \in SUBSET Databases
    <3>1. prep.pc = "qq" => prep.db \in Databases
      BY <2>2 DEF OwnDatabase
    <3> QED BY <1>28, <3>1 DEF KillPrep, PrepTypeOK
  <2> QED BY <1>28, <2>1, <2>3, <2>4 DEF KillPrep, PrepTypeOK
<1>29. ASSUME NEW d \in Databases, QQLetsGo(d) PROVE PrepTypeOK'
  <2>1. working' \in [Databases -> WorkingCopies \cup {Nothing}]
    <3>1. CASE working' = working
      BY <3>1 DEF PrepTypeOK
    <3>2. CASE working[d] # Nothing /\ working' = [working EXCEPT ![d].form = "headed"]
      BY <3>2 DEF PrepTypeOK, WorkingCopies, Forms
    <3> QED BY <1>29, <3>1, <3>2 DEF QQLetsGo
  <2> QED BY <1>29, <2>1 DEF QQLetsGo, PrepTypeOK
<1>30. ASSUME NEW d \in Databases, WriteFile(d) PROVE PrepTypeOK'
  <2>1. PICK v \in {0, file[d] + 1} :
          /\ file' = [file EXCEPT ![d] = v]
          /\ prep' = IF prep.db = d THEN [prep EXCEPT !.seen = @ \cup {v}] ELSE prep
    BY <1>30 DEF WriteFile
  <2>2. v \in Nat
    BY <2>1 DEF PrepTypeOK
  <2>3. prep' \in PrepRow
    BY <2>1, <2>2 DEF PrepTypeOK, PrepRow
  <2> QED BY <1>30, <2>1, <2>2, <2>3 DEF WriteFile, PrepTypeOK
<1> QED BY <1>1, <1>2, <1>3, <1>4, <1>5, <1>6, <1>7, <1>8, <1>9, <1>10, <1>11, <1>12,
   <1>13, <1>14, <1>15, <1>16, <1>17, <1>18, <1>19, <1>20, <1>21, <1>22, <1>23, <1>24, <1>25,
   <1>26, <1>27, <1>28, <1>29, <1>30 DEF PrepNext, PrepStep

----------------------------------------------------------------------------
(***************************************************************************)
(* What each step makes of the run.                                        *)
(***************************************************************************)

Same == prep'.old = prep.old /\ prep'.force = prep.force /\ prep'.rows = prep.rows

Going(pcs) ==
  /\ prep'.pc \in pcs /\ prep'.db = prep.db
  /\ prep'.tmp = prep.tmp /\ prep'.seen = prep.seen /\ Same

Ended(row) ==
  /\ prep'.pc = "next" /\ prep'.db = Nothing /\ ~prep'.old
  /\ prep'.rows = [prep.rows EXCEPT ![prep.db] = row]

Over == prep'.pc = "idle" /\ prep'.db = Nothing /\ ~prep'.old /\ prep'.rows = [d \in Databases |-> "none"]

LEMMA PlanRun ==
  ASSUME PrepTypeOK, OwnDatabase, Plan
  PROVE  /\ prep.pc = "plan"
         /\ Ended("planned")
<1>1. prep.db \in Databases /\ prep.pc = "plan"
  BY HasDatabase DEF Plan
<1>2. \A row \in Outcome : Reported(row) => Ended(row)
  BY <1>1, Ends DEF Ended
<1>3. \A pc \in PrepPcs : PrepGoes(pc) => Going({pc})
  BY Goes DEF Going, Same
<1> HIDE DEF Ended, Going
<1> QED BY <1>1, <1>2, <1>3 DEF Plan, Outcome, PrepPcs

LEMMA KeepExistingRun ==
  ASSUME PrepTypeOK, OwnDatabase, KeepExisting
  PROVE  /\ prep.pc = "prepare"
         /\ Exists /\ (Ended("prepared") \/ Going({"check"}))
<1>1. prep.db \in Databases /\ prep.pc = "prepare"
  BY HasDatabase DEF KeepExisting
<1>2. \A row \in Outcome : Reported(row) => Ended(row)
  BY <1>1, Ends DEF Ended
<1>3. \A pc \in PrepPcs : PrepGoes(pc) => Going({pc})
  BY Goes DEF Going, Same
<1> HIDE DEF Ended, Going
<1> QED BY <1>1, <1>2, <1>3 DEF KeepExisting, Kept, Outcome, PrepPcs

LEMMA NoInnerHeaderRun ==
  ASSUME PrepTypeOK, OwnDatabase, NoInnerHeader
  PROVE  /\ prep.pc = "prepare"
         /\ Going({"rekey?"})
<1>1. prep.db \in Databases /\ prep.pc = "prepare"
  BY HasDatabase DEF NoInnerHeader
<1>2. \A row \in Outcome : Reported(row) => Ended(row)
  BY <1>1, Ends DEF Ended
<1>3. \A pc \in PrepPcs : PrepGoes(pc) => Going({pc})
  BY Goes DEF Going, Same
<1> HIDE DEF Ended, Going
<1> QED BY <1>1, <1>2, <1>3 DEF NoInnerHeader, Outcome, PrepPcs

LEMMA CopyFailsRun ==
  ASSUME PrepTypeOK, OwnDatabase, CopyFails
  PROVE  /\ prep.pc \in {"prepare", "copied"}
         /\ Ended("failed") \/ Going({"rekey?"})
<1>1. prep.db \in Databases /\ prep.pc \in {"prepare", "copied"}
  BY HasDatabase DEF CopyFails
<1>2. \A row \in Outcome : Reported(row) => Ended(row)
  BY <1>1, Ends DEF Ended
<1>3. \A pc \in PrepPcs : PrepGoes(pc) => Going({pc})
  BY Goes DEF Going, Same
<1> HIDE DEF Ended, Going
<1> QED BY <1>1, <1>2, <1>3 DEF CopyFails, Outcome, PrepPcs

LEMMA CopyIntoPlaceRun ==
  ASSUME PrepTypeOK, OwnDatabase, CopyIntoPlace
  PROVE  /\ prep.pc = "copied"
         /\ prepared'[prep.db] = Copy(Bytes, Stored[shape[prep.db]])
         /\ Ended("prepared") \/ Going({"check"})
<1>1. prep.db \in Databases /\ prep.pc = "copied"
  BY HasDatabase DEF CopyIntoPlace
<1>2. \A row \in Outcome : Reported(row) => Ended(row)
  BY <1>1, Ends DEF Ended
<1>3. \A pc \in PrepPcs : PrepGoes(pc) => Going({pc})
  BY Goes DEF Going, Same
<1> HIDE DEF Ended, Going
<1> QED BY <1>1, <1>2, <1>3 DEF CopyIntoPlace, PrepTypeOK, Outcome, PrepPcs

LEMMA StripIntoPlaceRun ==
  ASSUME PrepTypeOK, OwnDatabase, StripIntoPlace
  PROVE  /\ prep.pc = "copied"
         /\ \/ Ended("prepared") /\ prepared'[prep.db] = Copy(Bytes, "sqlite") /\ ~ Bytes \subseteq Empties
            \/ Going({"rekey?"}) /\ prepared' = prepared
<1>1. prep.db \in Databases /\ prep.pc = "copied"
  BY HasDatabase DEF StripIntoPlace
<1>2. \A row \in Outcome : Reported(row) => Ended(row)
  BY <1>1, Ends DEF Ended
<1>3. \A pc \in PrepPcs : PrepGoes(pc) => Going({pc})
  BY Goes DEF Going, Same
<1> HIDE DEF Ended, Going
<1>4. PICK ok \in BOOLEAN :
        /\ ok \in Outcomes(Copy(Bytes, "sqlite")) /\ Promoted(Copy(Bytes, "sqlite"), ok)
        /\ IF ok THEN Reported("prepared") ELSE PrepGoes("rekey?")
  BY DEF StripIntoPlace, Outcomes
<1>5. CASE ok
  BY <1>4, <1>5, <1>1, <1>2 DEF Outcomes, Copy, Promoted, PrepTypeOK, Outcome
<1>6. CASE ~ok
  BY <1>1, <1>3, <1>4, <1>6 DEF Promoted, PrepPcs
<1> QED BY <1>5, <1>6

LEMMA SqliteSummaryRun ==
  ASSUME PrepTypeOK, OwnDatabase, SqliteSummary
  PROVE  /\ prep.pc = "check"
         /\ Ended("prepared") \/ Ended("failed") \/ Going({"rekey?"})
<1>1. prep.db \in Databases /\ prep.pc = "check"
  BY HasDatabase DEF SqliteSummary
<1>2. \A row \in Outcome : Reported(row) => Ended(row)
  BY <1>1, Ends DEF Ended
<1>3. \A pc \in PrepPcs : PrepGoes(pc) => Going({pc})
  BY Goes DEF Going, Same
<1> HIDE DEF Ended, Going
<1> QED BY <1>1, <1>2, <1>3 DEF SqliteSummary, Outcome, PrepPcs

LEMMA NoRekeyRun ==
  ASSUME PrepTypeOK, OwnDatabase, NoRekey
  PROVE  /\ prep.pc = "rekey?"
         /\ Ended("failed")
<1>1. prep.db \in Databases /\ prep.pc = "rekey?"
  BY HasDatabase DEF NoRekey
<1>2. \A row \in Outcome : Reported(row) => Ended(row)
  BY <1>1, Ends DEF Ended
<1>3. \A pc \in PrepPcs : PrepGoes(pc) => Going({pc})
  BY Goes DEF Going, Same
<1> HIDE DEF Ended, Going
<1> QED BY <1>1, <1>2, <1>3 DEF NoRekey, Outcome, PrepPcs

LEMMA RekeyRun ==
  ASSUME PrepTypeOK, OwnDatabase, Rekey
  PROVE  /\ prep.pc = "rekey?"
         /\ Going({"work"})
<1>1. prep.db \in Databases /\ prep.pc = "rekey?"
  BY HasDatabase DEF Rekey
<1>2. \A row \in Outcome : Reported(row) => Ended(row)
  BY <1>1, Ends DEF Ended
<1>3. \A pc \in PrepPcs : PrepGoes(pc) => Going({pc})
  BY Goes DEF Going, Same
<1> HIDE DEF Ended, Going
<1> QED BY <1>1, <1>2, <1>3 DEF Rekey, Outcome, PrepPcs

LEMMA RemoveFailsRun ==
  ASSUME PrepTypeOK, OwnDatabase, RemoveFails
  PROVE  /\ prep.pc = "work"
         /\ Ended("failed")
<1>1. prep.db \in Databases /\ prep.pc = "work"
  BY HasDatabase DEF RemoveFails
<1>2. \A row \in Outcome : Reported(row) => Ended(row)
  BY <1>1, Ends DEF Ended
<1>3. \A pc \in PrepPcs : PrepGoes(pc) => Going({pc})
  BY Goes DEF Going, Same
<1> HIDE DEF Ended, Going
<1> QED BY <1>1, <1>2, <1>3 DEF RemoveFails, Outcome, PrepPcs

LEMMA CloneRun ==
  ASSUME PrepTypeOK, OwnDatabase, Clone
  PROVE  /\ prep.pc = "clone"
         /\ Going({"runner"})
<1>1. prep.db \in Databases /\ prep.pc = "clone"
  BY HasDatabase DEF Clone
<1>2. \A row \in Outcome : Reported(row) => Ended(row)
  BY <1>1, Ends DEF Ended
<1>3. \A pc \in PrepPcs : PrepGoes(pc) => Going({pc})
  BY Goes DEF Going, Same
<1> HIDE DEF Ended, Going
<1> QED BY <1>1, <1>2, <1>3 DEF Clone, Outcome, PrepPcs

LEMMA WorkingFailsRun ==
  ASSUME PrepTypeOK, OwnDatabase, WorkingFails
  PROVE  /\ prep.pc \in {"work", "fallback"}
         /\ Ended("failed")
<1>1. prep.db \in Databases /\ prep.pc \in {"work", "fallback"}
  BY HasDatabase DEF WorkingFails
<1>2. \A row \in Outcome : Reported(row) => Ended(row)
  BY <1>1, Ends DEF Ended
<1>3. \A pc \in PrepPcs : PrepGoes(pc) => Going({pc})
  BY Goes DEF Going, Same
<1> HIDE DEF Ended, Going
<1> QED BY <1>1, <1>2, <1>3 DEF WorkingFails, Outcome, PrepPcs

LEMMA NoRunnerRun ==
  ASSUME PrepTypeOK, OwnDatabase, NoRunner
  PROVE  /\ prep.pc = "runner"
         /\ Ended("failed")
<1>1. prep.db \in Databases /\ prep.pc = "runner"
  BY HasDatabase DEF NoRunner
<1>2. \A row \in Outcome : Reported(row) => Ended(row)
  BY <1>1, Ends DEF Ended
<1>3. \A pc \in PrepPcs : PrepGoes(pc) => Going({pc})
  BY Goes DEF Going, Same
<1> HIDE DEF Ended, Going
<1> QED BY <1>1, <1>2, <1>3 DEF NoRunner, Outcome, PrepPcs

LEMMA RunnerRun ==
  ASSUME PrepTypeOK, OwnDatabase, Runner
  PROVE  /\ prep.pc = "runner"
         /\ Going({"qq"})
<1>1. prep.db \in Databases /\ prep.pc = "runner"
  BY HasDatabase DEF Runner
<1>2. \A row \in Outcome : Reported(row) => Ended(row)
  BY <1>1, Ends DEF Ended
<1>3. \A pc \in PrepPcs : PrepGoes(pc) => Going({pc})
  BY Goes DEF Going, Same
<1> HIDE DEF Ended, Going
<1> QED BY <1>1, <1>2, <1>3 DEF Runner, Outcome, PrepPcs

LEMMA RekeyOkRun ==
  ASSUME PrepTypeOK, OwnDatabase, RekeyOk
  PROVE  /\ prep.pc = "qq"
         /\ Going({"strip"})
<1>1. prep.db \in Databases /\ prep.pc = "qq"
  BY HasDatabase DEF RekeyOk
<1>2. \A row \in Outcome : Reported(row) => Ended(row)
  BY <1>1, Ends DEF Ended
<1>3. \A pc \in PrepPcs : PrepGoes(pc) => Going({pc})
  BY Goes DEF Going, Same
<1> HIDE DEF Ended, Going
<1> QED BY <1>1, <1>2, <1>3 DEF RekeyOk, Outcome, PrepPcs

LEMMA RekeyRefusedRun ==
  ASSUME PrepTypeOK, OwnDatabase, RekeyRefused
  PROVE  /\ prep.pc = "qq"
         /\ Ended("failed")
<1>1. prep.db \in Databases /\ prep.pc = "qq"
  BY HasDatabase DEF RekeyRefused
<1>2. \A row \in Outcome : Reported(row) => Ended(row)
  BY <1>1, Ends DEF Ended
<1>3. \A pc \in PrepPcs : PrepGoes(pc) => Going({pc})
  BY Goes DEF Going, Same
<1> HIDE DEF Ended, Going
<1> QED BY <1>1, <1>2, <1>3 DEF RekeyRefused, Outcome, PrepPcs

LEMMA RekeyTimesOutRun ==
  ASSUME PrepTypeOK, OwnDatabase, RekeyTimesOut
  PROVE  /\ prep.pc = "qq"
         /\ Ended("failed")
<1>1. prep.db \in Databases /\ prep.pc = "qq"
  BY HasDatabase DEF RekeyTimesOut
<1>2. \A row \in Outcome : Reported(row) => Ended(row)
  BY <1>1, Ends DEF Ended
<1>3. \A pc \in PrepPcs : PrepGoes(pc) => Going({pc})
  BY Goes DEF Going, Same
<1> HIDE DEF Ended, Going
<1> QED BY <1>1, <1>2, <1>3 DEF RekeyTimesOut, Outcome, PrepPcs

LEMMA DropWorkingRun ==
  ASSUME PrepTypeOK, OwnDatabase, DropWorking
  PROVE  /\ prep.pc \in {"drop", "fail"}
         /\ \/ prep.pc = "drop" /\ Ended("prepared")
            \/ Ended("failed")
<1>1. prep.db \in Databases /\ prep.pc \in {"drop", "fail"}
  BY HasDatabase DEF DropWorking
<1>2. \A row \in Outcome : Reported(row) => Ended(row)
  BY <1>1, Ends DEF Ended
<1>3. \A pc \in PrepPcs : PrepGoes(pc) => Going({pc})
  BY Goes DEF Going, Same
<1> HIDE DEF Ended, Going
<1> QED BY <1>1, <1>2, <1>3 DEF DropWorking, Outcome, PrepPcs

LEMMA StartPrepRun ==
  ASSUME PrepTypeOK, NEW r \in Requests, StartPrep(r)
  PROVE  /\ prep.pc = "idle" /\ prep'.pc = "next" /\ prep'.db = Nothing /\ ~prep'.old
         /\ prep'.rows = [d \in Databases |-> "none"]
BY Idles DEF StartPrep, PrepRow

LEMMA HeaderKindRun ==
  ASSUME PrepTypeOK, NEW d \in Databases, HeaderKind(d)
  PROVE  /\ prep.pc = "next"
         /\ \/ Over
            \/ /\ prep'.pc \in {"prepare", "plan"} /\ prep'.db = d /\ prep'.seen = {file[d]} /\ Same
<1>1. prep \in PrepRow
  BY DEF PrepTypeOK
<1>2. CASE prep' = PrepIdle
  BY <1>2, Idles DEF HeaderKind, Over
<1>3. CASE prep' = [prep EXCEPT !.db = d, !.seen = {file[d]},
                                !.pc = IF prep.prepare THEN "prepare" ELSE "plan"]
  BY <1>1, <1>3 DEF HeaderKind, Same, PrepRow
<1> QED BY <1>2, <1>3 DEF HeaderKind

LEMMA ReadHalfRun ==
  ASSUME PrepTypeOK, ReadHalf
  PROVE  /\ prep.pc = "prepare" /\ prep'.pc = "copied" /\ prep'.db = prep.db
         /\ prep'.tmp = {file[prep.db]} /\ prep'.seen = prep.seen /\ Same
BY DEF ReadHalf, PrepTypeOK, PrepRow, Same

LEMMA ReuseWorkingRun ==
  ASSUME PrepTypeOK, ReuseWorking
  PROVE  /\ prep.pc = "work" /\ prep'.pc = "runner" /\ prep'.db = prep.db /\ prep'.old
         /\ prep'.force = prep.force /\ ~prep.force /\ prep'.rows = prep.rows
         /\ prep'.seen = prep.seen
BY DEF ReuseWorking, Reused, PrepTypeOK, PrepRow

\* The copy that is made when a clone cannot be had.
FallsBack ==
  /\ prep'.pc = "fallback" /\ prep'.db = prep.db /\ prep'.tmp = {file[prep.db]}
  /\ prep'.seen = prep.seen /\ Same

LEMMA FallingBack ==
  ASSUME PrepTypeOK, prep' = [prep EXCEPT !.pc = "fallback", !.tmp = {file[prep.db]}]
  PROVE  FallsBack
BY DEF PrepTypeOK, PrepRow, FallsBack, Same

LEMMA CreateWorkingRun ==
  ASSUME PrepTypeOK, OwnDatabase, CreateWorking
  PROVE  /\ prep.pc = "work"
         /\ Going({"clone"}) \/ FallsBack
<1>1. PrepGoes("clone") => Going({"clone"})
  BY Goes DEF Going, Same, PrepPcs
<1> QED BY <1>1, FallingBack DEF CreateWorking

LEMMA CloneFailsRun ==
  ASSUME PrepTypeOK, OwnDatabase, CloneFails
  PROVE  /\ prep.pc = "clone"
         /\ Ended("failed") \/ FallsBack
BY HasDatabase, Ends, FallingBack DEF CloneFails, Ended, Outcome

LEMMA FallbackRun ==
  ASSUME PrepTypeOK, Fallback
  PROVE  /\ prep.pc = "fallback" /\ prep'.pc = "runner" /\ prep'.db = prep.db
         /\ prep'.seen = prep.seen /\ Same
BY DEF Fallback, PrepTypeOK, PrepRow, Same

\* What is not validated is not promoted.
LEMMA StripWorkingRun ==
  ASSUME PrepTypeOK, OwnDatabase, StripWorking
  PROVE  /\ prep.pc = "strip"
         /\ \/ Going({"drop"}) /\ Exists /\ ~prep.force /\ prepared' = prepared
            \/ /\ Going({"drop"}) /\ ~ working[prep.db].of \subseteq Empties
               /\ prepared' = [prepared EXCEPT ![prep.db] = Copy(working[prep.db].of, "sqlite")]
            \/ Going({"fail"}) /\ prepared' = prepared
<1>1. \A pc \in PrepPcs : PrepGoes(pc) => Going({pc})
  BY Goes DEF Going, Same
<1> HIDE DEF Going
<1>2. PICK ok \in BOOLEAN :
        /\ (Exists /\ ~prep.force) \/ ok \in Outcomes(Copy(working[prep.db].of, "sqlite"))
        /\ IF Exists /\ ~prep.force THEN prepared' = prepared
           ELSE Promoted(Copy(working[prep.db].of, "sqlite"), ok)
        /\ PrepGoes(IF ok THEN "drop" ELSE "fail")
  BY DEF StripWorking, Outcomes
<1>3. Going({IF ok THEN "drop" ELSE "fail"})
  BY <1>1, <1>2 DEF PrepPcs
<1>4. prep.pc = "strip"
  BY DEF StripWorking
<1>5. CASE Exists /\ ~prep.force
  BY <1>2, <1>3, <1>4, <1>5
<1>6. CASE ~(Exists /\ ~prep.force) /\ ok
  <2>1. ~ working[prep.db].of \subseteq Empties
    BY <1>2, <1>6 DEF Outcomes, Copy
  <2> QED BY <1>2, <1>3, <1>4, <1>6, <2>1 DEF Promoted
<1>7. CASE ~(Exists /\ ~prep.force) /\ ~ok
  BY <1>2, <1>3, <1>4, <1>7 DEF Promoted
<1> QED BY <1>5, <1>6, <1>7

LEMMA WriteFileRun ==
  ASSUME PrepTypeOK, NEW d \in Databases, WriteFile(d)
  PROVE  /\ prep'.pc = prep.pc /\ prep'.db = prep.db /\ prep'.tmp = prep.tmp /\ Same
         /\ prep.seen \subseteq prep'.seen /\ file' \in [Databases -> Nat]
         /\ \A e \in Databases : file'[e] = file[e] \/ (e = d /\ (prep.db = d => file'[d] \in prep'.seen))
<1>1. PICK v \in {0, file[d] + 1} :
        /\ file' = [file EXCEPT ![d] = v]
        /\ prep' = IF prep.db = d THEN [prep EXCEPT !.seen = @ \cup {v}] ELSE prep
  BY DEF WriteFile
<1> QED BY <1>1 DEF PrepTypeOK, PrepRow, Same

----------------------------------------------------------------------------
(***************************************************************************)
(* The parts of the invariant.                                             *)
(***************************************************************************)

LEMMA OwnDatabaseKept ==
  ASSUME PrepInv, PrepNext
  PROVE  OwnDatabase'
<1>1. ASSUME NEW r \in Requests, StartPrep(r) PROVE OwnDatabase'
  BY <1>1, StartPrepRun DEF PrepInv, OwnDatabase
<1>2. ASSUME NEW d \in Databases, HeaderKind(d) PROVE OwnDatabase'
  BY <1>2, HeaderKindRun, NothingAssumption DEF PrepInv, OwnDatabase, Over
<1>3. CASE Plan
  BY HasDatabase, <1>3, PlanRun DEF PrepInv, OwnDatabase, Going, Same, Ended, Over,
    FallsBack
<1>4. CASE KeepExisting
  BY HasDatabase, <1>4, KeepExistingRun DEF PrepInv, OwnDatabase, Going, Same, Ended,
    Over, FallsBack
<1>5. CASE NoInnerHeader
  BY HasDatabase, <1>5, NoInnerHeaderRun DEF PrepInv, OwnDatabase, Going, Same, Ended,
    Over, FallsBack
<1>6. CASE ReadHalf
  BY HasDatabase, <1>6, ReadHalfRun DEF PrepInv, OwnDatabase, Going, Same, Ended, Over,
    FallsBack
<1>7. CASE CopyFails
  BY HasDatabase, <1>7, CopyFailsRun DEF PrepInv, OwnDatabase, Going, Same, Ended, Over,
    FallsBack
<1>8. CASE CopyIntoPlace
  BY HasDatabase, <1>8, CopyIntoPlaceRun DEF PrepInv, OwnDatabase, Going, Same, Ended,
    Over, FallsBack
<1>9. CASE StripIntoPlace
  BY HasDatabase, <1>9, StripIntoPlaceRun DEF PrepInv, OwnDatabase, Going, Same, Ended,
    Over, FallsBack
<1>10. CASE SqliteSummary
  BY HasDatabase, <1>10, SqliteSummaryRun DEF PrepInv, OwnDatabase, Going, Same, Ended,
    Over, FallsBack
<1>11. CASE NoRekey
  BY HasDatabase, <1>11, NoRekeyRun DEF PrepInv, OwnDatabase, Going, Same, Ended, Over,
    FallsBack
<1>12. CASE Rekey
  BY HasDatabase, <1>12, RekeyRun DEF PrepInv, OwnDatabase, Going, Same, Ended, Over,
    FallsBack
<1>13. CASE ReuseWorking
  BY HasDatabase, <1>13, ReuseWorkingRun DEF PrepInv, OwnDatabase, Going, Same, Ended,
    Over, FallsBack
<1>14. CASE RemoveFails
  BY HasDatabase, <1>14, RemoveFailsRun DEF PrepInv, OwnDatabase, Going, Same, Ended,
    Over, FallsBack
<1>15. CASE CreateWorking
  BY HasDatabase, <1>15, CreateWorkingRun DEF PrepInv, OwnDatabase, Going, Same, Ended,
    Over, FallsBack
<1>16. CASE Clone
  BY HasDatabase, <1>16, CloneRun DEF PrepInv, OwnDatabase, Going, Same, Ended, Over,
    FallsBack
<1>17. CASE CloneFails
  BY HasDatabase, <1>17, CloneFailsRun DEF PrepInv, OwnDatabase, Going, Same, Ended,
    Over, FallsBack
<1>18. CASE Fallback
  BY HasDatabase, <1>18, FallbackRun DEF PrepInv, OwnDatabase, Going, Same, Ended, Over,
    FallsBack
<1>19. CASE WorkingFails
  BY HasDatabase, <1>19, WorkingFailsRun DEF PrepInv, OwnDatabase, Going, Same, Ended,
    Over, FallsBack
<1>20. CASE NoRunner
  BY HasDatabase, <1>20, NoRunnerRun DEF PrepInv, OwnDatabase, Going, Same, Ended, Over,
    FallsBack
<1>21. CASE Runner
  BY HasDatabase, <1>21, RunnerRun DEF PrepInv, OwnDatabase, Going, Same, Ended, Over,
    FallsBack
<1>22. CASE RekeyOk
  BY HasDatabase, <1>22, RekeyOkRun DEF PrepInv, OwnDatabase, Going, Same, Ended, Over,
    FallsBack
<1>23. CASE RekeyRefused
  BY HasDatabase, <1>23, RekeyRefusedRun DEF PrepInv, OwnDatabase, Going, Same, Ended,
    Over, FallsBack
<1>24. CASE RekeyTimesOut
  BY HasDatabase, <1>24, RekeyTimesOutRun DEF PrepInv, OwnDatabase, Going, Same, Ended,
    Over, FallsBack
<1>25. CASE StripWorking
  BY HasDatabase, <1>25, StripWorkingRun DEF PrepInv, OwnDatabase, Going, Same, Ended,
    Over, FallsBack
<1>26. CASE DropWorking
  BY HasDatabase, <1>26, DropWorkingRun DEF PrepInv, OwnDatabase, Going, Same, Ended,
    Over, FallsBack
<1>27. CASE WriteCatalog
  BY <1>27, Idles DEF PrepInv, OwnDatabase, WriteCatalog, files
<1>28. CASE KillPrep
  BY <1>28, Idles DEF PrepInv, OwnDatabase, KillPrep, files
<1>29. ASSUME NEW d \in Databases, QQLetsGo(d) PROVE OwnDatabase'
  BY <1>29 DEF PrepInv, OwnDatabase, QQLetsGo
<1>30. ASSUME NEW d \in Databases, WriteFile(d) PROVE OwnDatabase'
  BY HasDatabase, <1>30, WriteFileRun DEF PrepInv, OwnDatabase, Going, Same, Ended,
    Over, FallsBack
<1> QED BY <1>1, <1>2, <1>3, <1>4, <1>5, <1>6, <1>7, <1>8, <1>9, <1>10, <1>11, <1>12,
   <1>13, <1>14, <1>15, <1>16, <1>17, <1>18, <1>19, <1>20, <1>21, <1>22, <1>23, <1>24, <1>25,
   <1>26, <1>27, <1>28, <1>29, <1>30 DEF PrepNext, PrepStep

LEMMA StrippedStaysValid ==
  ASSUME PrepInv, PrepNext
  PROVE  StrippedIsValid'
<1>1. ASSUME NEW r \in Requests, StartPrep(r) PROVE StrippedIsValid'
  BY <1>1 DEF StartPrep, files, PrepInv, StrippedIsValid, NoneUnvalidated
<1>2. ASSUME NEW d \in Databases, HeaderKind(d) PROVE StrippedIsValid'
  BY <1>2 DEF HeaderKind, files, PrepInv, StrippedIsValid, NoneUnvalidated
<1>3. CASE Plan
  BY <1>3 DEF Plan, files, PrepInv, StrippedIsValid, NoneUnvalidated
<1>4. CASE KeepExisting
  BY <1>4 DEF KeepExisting, files, PrepInv, StrippedIsValid, NoneUnvalidated
<1>5. CASE NoInnerHeader
  BY <1>5 DEF NoInnerHeader, files, PrepInv, StrippedIsValid, NoneUnvalidated
<1>6. CASE ReadHalf
  BY <1>6 DEF ReadHalf, files, PrepInv, StrippedIsValid, NoneUnvalidated
<1>7. CASE CopyFails
  BY <1>7 DEF CopyFails, files, PrepInv, StrippedIsValid, NoneUnvalidated
<1>8. CASE CopyIntoPlace
  <2>1. prep.db \in Databases /\ shape' = shape /\ shape[prep.db] \in {"sqlite", "nt", "raw"}
    BY <1>8, HasDatabase, CopyIntoPlaceRun DEF PrepInv, CopyIntoPlace, files
  <2>2. ASSUME NEW d \in Databases, d # prep.db PROVE prepared'[d] = prepared[d]
    BY <1>8, <2>2 DEF CopyIntoPlace, PrepInv, PrepTypeOK
  <2> QED BY <2>1, <2>2 DEF PrepInv, StrippedIsValid, NoneUnvalidated
<1>9. CASE StripIntoPlace
  <2>1. prep.db \in Databases /\ shape' = shape
    BY <1>9, HasDatabase, StripIntoPlaceRun DEF PrepInv, StripIntoPlace, files
  <2>2. ASSUME NEW d \in Databases, d # prep.db PROVE prepared'[d] = prepared[d]
    BY <1>9, <2>2 DEF StripIntoPlace, Promoted, PrepInv, PrepTypeOK
  <2>3. \/ prepared'[prep.db] = prepared[prep.db]
        \/ prepared'[prep.db] = Copy(Bytes, "sqlite") /\ ~ Bytes \subseteq Empties
    BY <1>9, StripIntoPlaceRun DEF PrepInv
  <2> QED BY <2>1, <2>2, <2>3 DEF PrepInv, StrippedIsValid, NoneUnvalidated, Copy
<1>10. CASE SqliteSummary
  BY <1>10 DEF SqliteSummary, files, PrepInv, StrippedIsValid, NoneUnvalidated
<1>11. CASE NoRekey
  BY <1>11 DEF NoRekey, files, PrepInv, StrippedIsValid, NoneUnvalidated
<1>12. CASE Rekey
  BY <1>12 DEF Rekey, files, PrepInv, StrippedIsValid, NoneUnvalidated
<1>13. CASE ReuseWorking
  BY <1>13 DEF ReuseWorking, files, PrepInv, StrippedIsValid, NoneUnvalidated
<1>14. CASE RemoveFails
  BY <1>14 DEF RemoveFails, files, PrepInv, StrippedIsValid, NoneUnvalidated
<1>15. CASE CreateWorking
  BY <1>15 DEF CreateWorking, files, PrepInv, StrippedIsValid, NoneUnvalidated
<1>16. CASE Clone
  BY <1>16 DEF Clone, files, PrepInv, StrippedIsValid, NoneUnvalidated
<1>17. CASE CloneFails
  BY <1>17 DEF CloneFails, files, PrepInv, StrippedIsValid, NoneUnvalidated
<1>18. CASE Fallback
  BY <1>18 DEF Fallback, files, PrepInv, StrippedIsValid, NoneUnvalidated
<1>19. CASE WorkingFails
  BY <1>19 DEF WorkingFails, files, PrepInv, StrippedIsValid, NoneUnvalidated
<1>20. CASE NoRunner
  BY <1>20 DEF NoRunner, files, PrepInv, StrippedIsValid, NoneUnvalidated
<1>21. CASE Runner
  BY <1>21 DEF Runner, files, PrepInv, StrippedIsValid, NoneUnvalidated
<1>22. CASE RekeyOk
  BY <1>22 DEF RekeyOk, files, PrepInv, StrippedIsValid, NoneUnvalidated
<1>23. CASE RekeyRefused
  BY <1>23 DEF RekeyRefused, files, PrepInv, StrippedIsValid, NoneUnvalidated
<1>24. CASE RekeyTimesOut
  BY <1>24 DEF RekeyTimesOut, files, PrepInv, StrippedIsValid, NoneUnvalidated
<1>25. CASE StripWorking
  BY <1>25, HasDatabase, StripWorkingRun DEF PrepInv, StripWorking, files, PrepTypeOK,
    StrippedIsValid, NoneUnvalidated, Copy
<1>26. CASE DropWorking
  BY <1>26 DEF DropWorking, files, PrepInv, StrippedIsValid, NoneUnvalidated
<1>27. CASE WriteCatalog
  BY <1>27 DEF WriteCatalog, files, PrepInv, StrippedIsValid, NoneUnvalidated
<1>28. CASE KillPrep
  BY <1>28 DEF KillPrep, files, PrepInv, StrippedIsValid, NoneUnvalidated
<1>29. ASSUME NEW d \in Databases, QQLetsGo(d) PROVE StrippedIsValid'
  BY <1>29 DEF QQLetsGo, files, PrepInv, StrippedIsValid, NoneUnvalidated
<1>30. ASSUME NEW d \in Databases, WriteFile(d) PROVE StrippedIsValid'
  BY <1>30 DEF WriteFile, files, PrepInv, StrippedIsValid, NoneUnvalidated
<1> QED BY <1>1, <1>2, <1>3, <1>4, <1>5, <1>6, <1>7, <1>8, <1>9, <1>10, <1>11, <1>12,
   <1>13, <1>14, <1>15, <1>16, <1>17, <1>18, <1>19, <1>20, <1>21, <1>22, <1>23, <1>24, <1>25,
   <1>26, <1>27, <1>28, <1>29, <1>30 DEF PrepNext, PrepStep

LEMMA ReportedStaysThere ==
  ASSUME PrepInv, PrepNext
  PROVE  ReportedIsThere'
<1>1. ASSUME NEW r \in Requests, StartPrep(r) PROVE ReportedIsThere'
  <2>1. prepared' = prepared /\ catalog' = catalog
    BY <1>1 DEF StartPrep
  <2> QED BY <1>1, <2>1, StartPrepRun DEF PrepInv, PrepTypeOK, PrepRow, ReportedIsThere, Exists, Going, Same, Ended, Over, FallsBack
<1>2. ASSUME NEW d \in Databases, HeaderKind(d) PROVE ReportedIsThere'
  <2>1. prepared' = prepared /\ catalog' = catalog
    BY <1>2 DEF HeaderKind
  <2> QED BY <1>2, <2>1, HeaderKindRun DEF PrepInv, PrepTypeOK, PrepRow, ReportedIsThere, Exists, Going, Same, Ended, Over, FallsBack
<1>3. CASE Plan
  <2>0. prep.db \in Databases /\ prep.db # Nothing
    BY <1>3, HasDatabase, PlanRun DEF PrepInv
  <2>1. prepared' = prepared /\ catalog' = catalog
    BY <1>3 DEF Plan
  <2> QED BY <1>3, <2>0, <2>1, PlanRun DEF PrepInv, PrepTypeOK, PrepRow, ReportedIsThere, Exists, Going, Same, Ended, Over, FallsBack
<1>4. CASE KeepExisting
  <2>0. prep.db \in Databases /\ prep.db # Nothing
    BY <1>4, HasDatabase, KeepExistingRun DEF PrepInv
  <2>1. prepared' = prepared /\ catalog' = catalog
    BY <1>4 DEF KeepExisting
  <2> QED BY <1>4, <2>0, <2>1, KeepExistingRun DEF PrepInv, PrepTypeOK, PrepRow, ReportedIsThere, Exists, Going, Same, Ended, Over, FallsBack
<1>5. CASE NoInnerHeader
  <2>0. prep.db \in Databases /\ prep.db # Nothing
    BY <1>5, HasDatabase, NoInnerHeaderRun DEF PrepInv
  <2>1. prepared' = prepared /\ catalog' = catalog
    BY <1>5 DEF NoInnerHeader
  <2> QED BY <1>5, <2>0, <2>1, NoInnerHeaderRun DEF PrepInv, PrepTypeOK, PrepRow, ReportedIsThere, Exists, Going, Same, Ended, Over, FallsBack
<1>6. CASE ReadHalf
  <2>0. prep.db \in Databases /\ prep.db # Nothing
    BY <1>6, HasDatabase, ReadHalfRun DEF PrepInv
  <2>1. prepared' = prepared /\ catalog' = catalog
    BY <1>6 DEF ReadHalf
  <2> QED BY <1>6, <2>0, <2>1, ReadHalfRun DEF PrepInv, PrepTypeOK, PrepRow, ReportedIsThere, Exists, Going, Same, Ended, Over, FallsBack
<1>7. CASE CopyFails
  <2>0. prep.db \in Databases /\ prep.db # Nothing
    BY <1>7, HasDatabase, CopyFailsRun DEF PrepInv
  <2>1. prepared' = prepared /\ catalog' = catalog
    BY <1>7 DEF CopyFails
  <2> QED BY <1>7, <2>0, <2>1, CopyFailsRun DEF PrepInv, PrepTypeOK, PrepRow, ReportedIsThere, Exists, Going, Same, Ended, Over, FallsBack
<1>8. CASE CopyIntoPlace
  <2>0. prep.db \in Databases /\ prep.db # Nothing
    BY <1>8, HasDatabase, CopyIntoPlaceRun DEF PrepInv
  <2>1. Copy(Bytes, Stored[shape[prep.db]]) # Nothing
    <3>1. Bytes \in SUBSET Nat /\ Stored[shape[prep.db]] \in Forms
      BY <1>8, BytesAreVersions, HasDatabase DEF PrepInv, CopyIntoPlace, Stored, Forms
    <3> QED BY <3>1, CopyTypes, NothingAssumption
  <2>2. \/ prepared' = prepared
        \/ prepared' = [prepared EXCEPT ![prep.db] = Copy(Bytes, Stored[shape[prep.db]])]
    BY <1>8 DEF CopyIntoPlace, Promoted
  <2>3. catalog' = catalog
    BY <1>8 DEF CopyIntoPlace
  <2>4. \A d \in Databases : prepared[d] # Nothing => prepared'[d] # Nothing
    BY <2>0, <2>1, <2>2 DEF PrepInv, PrepTypeOK
  <2> QED BY <1>8, <2>0, <2>1, <2>2, <2>3, <2>4, CopyIntoPlaceRun DEF PrepInv, PrepTypeOK, PrepRow, ReportedIsThere, Exists, Going, Same, Ended, Over, FallsBack
<1>9. CASE StripIntoPlace
  <2>0. prep.db \in Databases /\ prep.db # Nothing
    BY <1>9, HasDatabase, StripIntoPlaceRun DEF PrepInv
  <2>1. Copy(Bytes, "sqlite") # Nothing
    BY <1>9, <2>0, BytesAreVersions, CopyTypes, NothingAssumption, HasDatabase, StripIntoPlaceRun
       DEF PrepInv, Forms, Stored, LeftForAReason, WorkingCopies
  <2>2. \/ prepared' = prepared
        \/ prepared' = [prepared EXCEPT ![prep.db] = Copy(Bytes, "sqlite")]
    BY <1>9 DEF StripIntoPlace, Promoted
  <2>3. catalog' = catalog
    BY <1>9 DEF StripIntoPlace
  <2>4. \A d \in Databases : prepared[d] # Nothing => prepared'[d] # Nothing
    BY <2>0, <2>1, <2>2 DEF PrepInv, PrepTypeOK
  <2> QED BY <1>9, <2>0, <2>1, <2>2, <2>3, <2>4, StripIntoPlaceRun DEF PrepInv, PrepTypeOK, PrepRow, ReportedIsThere, Exists, Going, Same, Ended, Over, FallsBack
<1>10. CASE SqliteSummary
  <2>0. prep.db \in Databases /\ prep.db # Nothing
    BY <1>10, HasDatabase, SqliteSummaryRun DEF PrepInv
  <2>1. prepared' = prepared /\ catalog' = catalog
    BY <1>10 DEF SqliteSummary
  <2> QED BY <1>10, <2>0, <2>1, SqliteSummaryRun DEF PrepInv, PrepTypeOK, PrepRow, ReportedIsThere, Exists, Going, Same, Ended, Over, FallsBack
<1>11. CASE NoRekey
  <2>0. prep.db \in Databases /\ prep.db # Nothing
    BY <1>11, HasDatabase, NoRekeyRun DEF PrepInv
  <2>1. prepared' = prepared /\ catalog' = catalog
    BY <1>11 DEF NoRekey
  <2> QED BY <1>11, <2>0, <2>1, NoRekeyRun DEF PrepInv, PrepTypeOK, PrepRow, ReportedIsThere, Exists, Going, Same, Ended, Over, FallsBack
<1>12. CASE Rekey
  <2>0. prep.db \in Databases /\ prep.db # Nothing
    BY <1>12, HasDatabase, RekeyRun DEF PrepInv
  <2>1. prepared' = prepared /\ catalog' = catalog
    BY <1>12 DEF Rekey
  <2> QED BY <1>12, <2>0, <2>1, RekeyRun DEF PrepInv, PrepTypeOK, PrepRow, ReportedIsThere, Exists, Going, Same, Ended, Over, FallsBack
<1>13. CASE ReuseWorking
  <2>0. prep.db \in Databases /\ prep.db # Nothing
    BY <1>13, HasDatabase, ReuseWorkingRun DEF PrepInv
  <2>1. prepared' = prepared /\ catalog' = catalog
    BY <1>13 DEF ReuseWorking
  <2> QED BY <1>13, <2>0, <2>1, ReuseWorkingRun DEF PrepInv, PrepTypeOK, PrepRow, ReportedIsThere, Exists, Going, Same, Ended, Over, FallsBack
<1>14. CASE RemoveFails
  <2>0. prep.db \in Databases /\ prep.db # Nothing
    BY <1>14, HasDatabase, RemoveFailsRun DEF PrepInv
  <2>1. prepared' = prepared /\ catalog' = catalog
    BY <1>14 DEF RemoveFails
  <2> QED BY <1>14, <2>0, <2>1, RemoveFailsRun DEF PrepInv, PrepTypeOK, PrepRow, ReportedIsThere, Exists, Going, Same, Ended, Over, FallsBack
<1>15. CASE CreateWorking
  <2>0. prep.db \in Databases /\ prep.db # Nothing
    BY <1>15, HasDatabase, CreateWorkingRun DEF PrepInv
  <2>1. prepared' = prepared /\ catalog' = catalog
    BY <1>15 DEF CreateWorking
  <2> QED BY <1>15, <2>0, <2>1, CreateWorkingRun DEF PrepInv, PrepTypeOK, PrepRow, ReportedIsThere, Exists, Going, Same, Ended, Over, FallsBack
<1>16. CASE Clone
  <2>0. prep.db \in Databases /\ prep.db # Nothing
    BY <1>16, HasDatabase, CloneRun DEF PrepInv
  <2>1. prepared' = prepared /\ catalog' = catalog
    BY <1>16 DEF Clone
  <2> QED BY <1>16, <2>0, <2>1, CloneRun DEF PrepInv, PrepTypeOK, PrepRow, ReportedIsThere, Exists, Going, Same, Ended, Over, FallsBack
<1>17. CASE CloneFails
  <2>0. prep.db \in Databases /\ prep.db # Nothing
    BY <1>17, HasDatabase, CloneFailsRun DEF PrepInv
  <2>1. prepared' = prepared /\ catalog' = catalog
    BY <1>17 DEF CloneFails
  <2> QED BY <1>17, <2>0, <2>1, CloneFailsRun DEF PrepInv, PrepTypeOK, PrepRow, ReportedIsThere, Exists, Going, Same, Ended, Over, FallsBack
<1>18. CASE Fallback
  <2>0. prep.db \in Databases /\ prep.db # Nothing
    BY <1>18, HasDatabase, FallbackRun DEF PrepInv
  <2>1. prepared' = prepared /\ catalog' = catalog
    BY <1>18 DEF Fallback
  <2> QED BY <1>18, <2>0, <2>1, FallbackRun DEF PrepInv, PrepTypeOK, PrepRow, ReportedIsThere, Exists, Going, Same, Ended, Over, FallsBack
<1>19. CASE WorkingFails
  <2>0. prep.db \in Databases /\ prep.db # Nothing
    BY <1>19, HasDatabase, WorkingFailsRun DEF PrepInv
  <2>1. prepared' = prepared /\ catalog' = catalog
    BY <1>19 DEF WorkingFails
  <2> QED BY <1>19, <2>0, <2>1, WorkingFailsRun DEF PrepInv, PrepTypeOK, PrepRow, ReportedIsThere, Exists, Going, Same, Ended, Over, FallsBack
<1>20. CASE NoRunner
  <2>0. prep.db \in Databases /\ prep.db # Nothing
    BY <1>20, HasDatabase, NoRunnerRun DEF PrepInv
  <2>1. prepared' = prepared /\ catalog' = catalog
    BY <1>20 DEF NoRunner
  <2> QED BY <1>20, <2>0, <2>1, NoRunnerRun DEF PrepInv, PrepTypeOK, PrepRow, ReportedIsThere, Exists, Going, Same, Ended, Over, FallsBack
<1>21. CASE Runner
  <2>0. prep.db \in Databases /\ prep.db # Nothing
    BY <1>21, HasDatabase, RunnerRun DEF PrepInv
  <2>1. prepared' = prepared /\ catalog' = catalog
    BY <1>21 DEF Runner
  <2> QED BY <1>21, <2>0, <2>1, RunnerRun DEF PrepInv, PrepTypeOK, PrepRow, ReportedIsThere, Exists, Going, Same, Ended, Over, FallsBack
<1>22. CASE RekeyOk
  <2>0. prep.db \in Databases /\ prep.db # Nothing
    BY <1>22, HasDatabase, RekeyOkRun DEF PrepInv
  <2>1. prepared' = prepared /\ catalog' = catalog
    BY <1>22 DEF RekeyOk
  <2> QED BY <1>22, <2>0, <2>1, RekeyOkRun DEF PrepInv, PrepTypeOK, PrepRow, ReportedIsThere, Exists, Going, Same, Ended, Over, FallsBack
<1>23. CASE RekeyRefused
  <2>0. prep.db \in Databases /\ prep.db # Nothing
    BY <1>23, HasDatabase, RekeyRefusedRun DEF PrepInv
  <2>1. prepared' = prepared /\ catalog' = catalog
    BY <1>23 DEF RekeyRefused
  <2> QED BY <1>23, <2>0, <2>1, RekeyRefusedRun DEF PrepInv, PrepTypeOK, PrepRow, ReportedIsThere, Exists, Going, Same, Ended, Over, FallsBack
<1>24. CASE RekeyTimesOut
  <2>0. prep.db \in Databases /\ prep.db # Nothing
    BY <1>24, HasDatabase, RekeyTimesOutRun DEF PrepInv
  <2>1. prepared' = prepared /\ catalog' = catalog
    BY <1>24 DEF RekeyTimesOut
  <2> QED BY <1>24, <2>0, <2>1, RekeyTimesOutRun DEF PrepInv, PrepTypeOK, PrepRow, ReportedIsThere, Exists, Going, Same, Ended, Over, FallsBack
<1>25. CASE StripWorking
  <2>0. prep.db \in Databases /\ prep.db # Nothing
    BY <1>25, HasDatabase, StripWorkingRun DEF PrepInv
  <2>1. Copy(working[prep.db].of, "sqlite") # Nothing
    BY <1>25, <2>0, BytesAreVersions, CopyTypes, NothingAssumption, HasDatabase, StripWorkingRun
       DEF PrepInv, Forms, Stored, LeftForAReason, WorkingCopies
  <2>2. \/ prepared' = prepared
        \/ prepared' = [prepared EXCEPT ![prep.db] = Copy(working[prep.db].of, "sqlite")]
    BY <1>25 DEF StripWorking, Promoted
  <2>3. catalog' = catalog
    BY <1>25 DEF StripWorking
  <2>4. \A d \in Databases : prepared[d] # Nothing => prepared'[d] # Nothing
    BY <2>0, <2>1, <2>2 DEF PrepInv, PrepTypeOK
  <2> QED BY <1>25, <2>0, <2>1, <2>2, <2>3, <2>4, StripWorkingRun DEF PrepInv, PrepTypeOK, PrepRow, ReportedIsThere, Exists, Going, Same, Ended, Over, FallsBack
<1>26. CASE DropWorking
  <2>0. prep.db \in Databases /\ prep.db # Nothing
    BY <1>26, HasDatabase, DropWorkingRun DEF PrepInv
  <2>1. prepared' = prepared /\ catalog' = catalog
    BY <1>26 DEF DropWorking
  <2> QED BY <1>26, <2>0, <2>1, DropWorkingRun DEF PrepInv, PrepTypeOK, PrepRow, ReportedIsThere, Exists, Going, Same, Ended, Over, FallsBack
<1>27. CASE WriteCatalog
  BY <1>27, Idles DEF WriteCatalog, PrepInv, ReportedIsThere
<1>28. CASE KillPrep
  BY <1>28, Idles DEF KillPrep, PrepInv, ReportedIsThere
<1>29. ASSUME NEW d \in Databases, QQLetsGo(d) PROVE ReportedIsThere'
  BY <1>29 DEF QQLetsGo, PrepInv, ReportedIsThere
<1>30. ASSUME NEW d \in Databases, WriteFile(d) PROVE ReportedIsThere'
  <2>1. prepared' = prepared /\ catalog' = catalog
    BY <1>30 DEF WriteFile
  <2> QED BY <1>30, <2>1, WriteFileRun DEF PrepInv, PrepTypeOK, PrepRow, ReportedIsThere, Exists, Going, Same, Ended, Over, FallsBack
<1> QED BY <1>1, <1>2, <1>3, <1>4, <1>5, <1>6, <1>7, <1>8, <1>9, <1>10, <1>11, <1>12,
   <1>13, <1>14, <1>15, <1>16, <1>17, <1>18, <1>19, <1>20, <1>21, <1>22, <1>23, <1>24, <1>25,
   <1>26, <1>27, <1>28, <1>29, <1>30 DEF PrepNext, PrepStep

LEMMA LeftForAReasonKept ==
  ASSUME PrepInv, PrepNext
  PROVE  LeftForAReason'
<1>1. ASSUME NEW r \in Requests, StartPrep(r) PROVE LeftForAReason'
  <2>1. working' = working
    BY <1>1 DEF StartPrep
  <2> QED BY <1>1, <2>1, NothingAssumption, StartPrepRun DEF PrepInv, PrepTypeOK, PrepRow, LeftForAReason, OwnDatabase, Going, Same, Ended, Over, FallsBack
<1>2. ASSUME NEW d \in Databases, HeaderKind(d) PROVE LeftForAReason'
  <2>1. working' = working
    BY <1>2 DEF HeaderKind
  <2> QED BY <1>2, <2>1, NothingAssumption, HeaderKindRun DEF PrepInv, PrepTypeOK, PrepRow, LeftForAReason, OwnDatabase, Going, Same, Ended, Over, FallsBack
<1>3. CASE Plan
  <2>0. prep.db \in Databases /\ prep.db # Nothing
    BY <1>3, HasDatabase, PlanRun DEF PrepInv
  <2>1. working' = working
    BY <1>3 DEF Plan
  <2> QED BY <1>3, <2>0, <2>1, NothingAssumption, PlanRun DEF PrepInv, PrepTypeOK, PrepRow, LeftForAReason, Going, Same, Ended, Over, FallsBack
<1>4. CASE KeepExisting
  <2>0. prep.db \in Databases /\ prep.db # Nothing
    BY <1>4, HasDatabase, KeepExistingRun DEF PrepInv
  <2>1. working' = working
    BY <1>4 DEF KeepExisting
  <2> QED BY <1>4, <2>0, <2>1, NothingAssumption, KeepExistingRun DEF PrepInv, PrepTypeOK, PrepRow, LeftForAReason, Going, Same, Ended, Over, FallsBack
<1>5. CASE NoInnerHeader
  <2>0. prep.db \in Databases /\ prep.db # Nothing
    BY <1>5, HasDatabase, NoInnerHeaderRun DEF PrepInv
  <2>1. working' = working
    BY <1>5 DEF NoInnerHeader
  <2> QED BY <1>5, <2>0, <2>1, NothingAssumption, NoInnerHeaderRun DEF PrepInv, PrepTypeOK, PrepRow, LeftForAReason, Going, Same, Ended, Over, FallsBack
<1>6. CASE ReadHalf
  <2>0. prep.db \in Databases /\ prep.db # Nothing
    BY <1>6, HasDatabase, ReadHalfRun DEF PrepInv
  <2>1. working' = working
    BY <1>6 DEF ReadHalf
  <2> QED BY <1>6, <2>0, <2>1, NothingAssumption, ReadHalfRun DEF PrepInv, PrepTypeOK, PrepRow, LeftForAReason, Going, Same, Ended, Over, FallsBack
<1>7. CASE CopyFails
  <2>0. prep.db \in Databases /\ prep.db # Nothing
    BY <1>7, HasDatabase, CopyFailsRun DEF PrepInv
  <2>1. working' = working
    BY <1>7 DEF CopyFails
  <2> QED BY <1>7, <2>0, <2>1, NothingAssumption, CopyFailsRun DEF PrepInv, PrepTypeOK, PrepRow, LeftForAReason, Going, Same, Ended, Over, FallsBack
<1>8. CASE CopyIntoPlace
  <2>0. prep.db \in Databases /\ prep.db # Nothing
    BY <1>8, HasDatabase, CopyIntoPlaceRun DEF PrepInv
  <2>1. working' = working
    BY <1>8 DEF CopyIntoPlace
  <2> QED BY <1>8, <2>0, <2>1, NothingAssumption, CopyIntoPlaceRun DEF PrepInv, PrepTypeOK, PrepRow, LeftForAReason, Going, Same, Ended, Over, FallsBack
<1>9. CASE StripIntoPlace
  <2>0. prep.db \in Databases /\ prep.db # Nothing
    BY <1>9, HasDatabase, StripIntoPlaceRun DEF PrepInv
  <2>1. working' = working
    BY <1>9 DEF StripIntoPlace
  <2> QED BY <1>9, <2>0, <2>1, NothingAssumption, StripIntoPlaceRun DEF PrepInv, PrepTypeOK, PrepRow, LeftForAReason, Going, Same, Ended, Over, FallsBack
<1>10. CASE SqliteSummary
  <2>0. prep.db \in Databases /\ prep.db # Nothing
    BY <1>10, HasDatabase, SqliteSummaryRun DEF PrepInv
  <2>1. working' = working
    BY <1>10 DEF SqliteSummary
  <2> QED BY <1>10, <2>0, <2>1, NothingAssumption, SqliteSummaryRun DEF PrepInv, PrepTypeOK, PrepRow, LeftForAReason, Going, Same, Ended, Over, FallsBack
<1>11. CASE NoRekey
  <2>0. prep.db \in Databases /\ prep.db # Nothing
    BY <1>11, HasDatabase, NoRekeyRun DEF PrepInv
  <2>1. working' = working
    BY <1>11 DEF NoRekey
  <2> QED BY <1>11, <2>0, <2>1, NothingAssumption, NoRekeyRun DEF PrepInv, PrepTypeOK, PrepRow, LeftForAReason, Going, Same, Ended, Over, FallsBack
<1>12. CASE Rekey
  <2>0. prep.db \in Databases /\ prep.db # Nothing
    BY <1>12, HasDatabase, RekeyRun DEF PrepInv
  <2>1. working' = working
    BY <1>12 DEF Rekey
  <2> QED BY <1>12, <2>0, <2>1, NothingAssumption, RekeyRun DEF PrepInv, PrepTypeOK, PrepRow, LeftForAReason, Going, Same, Ended, Over, FallsBack
<1>13. CASE ReuseWorking
  <2>0. prep.db \in Databases /\ prep.db # Nothing
    BY <1>13, HasDatabase, ReuseWorkingRun DEF PrepInv
  <2>1. \A d \in Databases \ {prep.db} : working'[d] = working[d]
    BY <1>13, <2>0 DEF ReuseWorking, Reused, PrepInv, PrepTypeOK
  <2>w. working[prep.db] \in WorkingCopies
    BY <1>13, <2>0, HasDatabase, ReuseWorkingRun DEF PrepInv, ReuseWorking, Reused
  <2>2. working'[prep.db] # Nothing
    BY <1>13, <2>0, <2>w, CopyTypes, NothingAssumption DEF ReuseWorking, Reused, WorkingCopies, PrepInv, PrepTypeOK
  <2> QED BY <1>13, <2>0, <2>1, <2>2, NothingAssumption, ReuseWorkingRun DEF PrepInv, PrepTypeOK, PrepRow, LeftForAReason, Going, Same, Ended, Over, FallsBack
<1>14. CASE RemoveFails
  <2>0. prep.db \in Databases /\ prep.db # Nothing
    BY <1>14, HasDatabase, RemoveFailsRun DEF PrepInv
  <2>1. working' = working
    BY <1>14 DEF RemoveFails
  <2> QED BY <1>14, <2>0, <2>1, NothingAssumption, RemoveFailsRun DEF PrepInv, PrepTypeOK, PrepRow, LeftForAReason, Going, Same, Ended, Over, FallsBack
<1>15. CASE CreateWorking
  <2>0. prep.db \in Databases /\ prep.db # Nothing
    BY <1>15, HasDatabase, CreateWorkingRun DEF PrepInv
  <2>1. \A d \in Databases \ {prep.db} : working'[d] = working[d]
    BY <1>15, <2>0 DEF CreateWorking, PrepInv, PrepTypeOK
  <2> QED BY <1>15, <2>0, <2>1, NothingAssumption, CreateWorkingRun DEF PrepInv, PrepTypeOK, PrepRow, LeftForAReason, Going, Same, Ended, Over, FallsBack
<1>16. CASE Clone
  <2>0. prep.db \in Databases /\ prep.db # Nothing
    BY <1>16, HasDatabase, CloneRun DEF PrepInv
  <2>1. \A d \in Databases \ {prep.db} : working'[d] = working[d]
    BY <1>16, <2>0 DEF Clone, PrepInv, PrepTypeOK
  <2>2. working'[prep.db] # Nothing
    BY <1>16, CopyTypes, HasDatabase, BytesAreVersions, CloneRun, <2>0,
      NothingAssumption DEF PrepInv, Clone, PrepTypeOK
  <2> QED BY <1>16, <2>0, <2>1, <2>2, NothingAssumption, CloneRun DEF PrepInv, PrepTypeOK, PrepRow, LeftForAReason, Going, Same, Ended, Over, FallsBack
<1>17. CASE CloneFails
  <2>0. prep.db \in Databases /\ prep.db # Nothing
    BY <1>17, HasDatabase, CloneFailsRun DEF PrepInv
  <2>1. \A d \in Databases \ {prep.db} : working'[d] = working[d]
    BY <1>17, <2>0 DEF CloneFails, PrepInv, PrepTypeOK
  <2>2. working'[prep.db] = Nothing
    BY <1>17, <2>0 DEF CloneFails, WorkingCopies, PrepInv, PrepTypeOK
  <2> QED BY <1>17, <2>0, <2>1, <2>2, NothingAssumption, CloneFailsRun DEF PrepInv, PrepTypeOK, PrepRow, LeftForAReason, Going, Same, Ended, Over, FallsBack
<1>18. CASE Fallback
  <2>0. prep.db \in Databases /\ prep.db # Nothing
    BY <1>18, HasDatabase, FallbackRun DEF PrepInv
  <2>1. \A d \in Databases \ {prep.db} : working'[d] = working[d]
    BY <1>18, <2>0 DEF Fallback, PrepInv, PrepTypeOK
  <2>2. working'[prep.db] # Nothing
    <3>1. WorkingCopy(Bytes, shape[prep.db]) \in WorkingCopies
      BY <1>18, CopyTypes, HasDatabase, BytesAreVersions, FallbackRun DEF PrepInv
    <3>2. working'[prep.db] = WorkingCopy(Bytes, shape[prep.db])
      BY <1>18, <2>0 DEF Fallback, PrepInv, PrepTypeOK
    <3> QED BY <3>1, <3>2, NothingAssumption
  <2> QED BY <1>18, <2>0, <2>1, <2>2, NothingAssumption, FallbackRun DEF PrepInv, PrepTypeOK, PrepRow, LeftForAReason, Going, Same, Ended, Over, FallsBack
<1>19. CASE WorkingFails
  <2>0. prep.db \in Databases /\ prep.db # Nothing
    BY <1>19, HasDatabase, WorkingFailsRun DEF PrepInv
  <2>1. \A d \in Databases \ {prep.db} : working'[d] = working[d]
    BY <1>19, <2>0 DEF WorkingFails, PrepInv, PrepTypeOK
  <2>2. working'[prep.db] = Nothing
    BY <1>19, <2>0 DEF WorkingFails, WorkingCopies, PrepInv, PrepTypeOK
  <2> QED BY <1>19, <2>0, <2>1, <2>2, NothingAssumption, WorkingFailsRun DEF PrepInv, PrepTypeOK, PrepRow, LeftForAReason, Going, Same, Ended, Over, FallsBack
<1>20. CASE NoRunner
  <2>0. prep.db \in Databases /\ prep.db # Nothing
    BY <1>20, HasDatabase, NoRunnerRun DEF PrepInv
  <2>w. working[prep.db] \in WorkingCopies
    BY <1>20, HasDatabase, NoRunnerRun DEF PrepInv, LeftForAReason
  <2>1. \A d \in Databases \ {prep.db} : working'[d] = working[d]
    BY <1>20, <2>0 DEF NoRunner, PrepInv, PrepTypeOK
  <2>2. working'[prep.db].left = "no runner"
    BY <1>20, <2>0, <2>w DEF NoRunner, WorkingCopies, PrepInv, PrepTypeOK
  <2> QED BY <1>20, <2>0, <2>1, <2>2, NothingAssumption, NoRunnerRun DEF PrepInv, PrepTypeOK, PrepRow, LeftForAReason, Going, Same, Ended, Over, FallsBack
<1>21. CASE Runner
  <2>0. prep.db \in Databases /\ prep.db # Nothing
    BY <1>21, HasDatabase, RunnerRun DEF PrepInv
  <2>1. working' = working
    BY <1>21 DEF Runner
  <2> QED BY <1>21, <2>0, <2>1, NothingAssumption, RunnerRun DEF PrepInv, PrepTypeOK, PrepRow, LeftForAReason, Going, Same, Ended, Over, FallsBack
<1>22. CASE RekeyOk
  <2>0. prep.db \in Databases /\ prep.db # Nothing
    BY <1>22, HasDatabase, RekeyOkRun DEF PrepInv
  <2>w. working[prep.db] \in WorkingCopies
    BY <1>22, HasDatabase, RekeyOkRun DEF PrepInv, LeftForAReason
  <2>1. \A d \in Databases \ {prep.db} : working'[d] = working[d]
    BY <1>22, <2>0 DEF RekeyOk, PrepInv, PrepTypeOK
  <2>3. [working[prep.db] EXCEPT !.form = "headed"] # Nothing
    BY <2>w, NothingAssumption DEF WorkingCopies, Forms
  <2>2. working'[prep.db] # Nothing
    BY <1>22, <2>0, <2>w, <2>3 DEF RekeyOk, WorkingCopies, PrepInv, PrepTypeOK
  <2> QED BY <1>22, <2>0, <2>1, <2>2, NothingAssumption, RekeyOkRun DEF PrepInv, PrepTypeOK, PrepRow, LeftForAReason, Going, Same, Ended, Over, FallsBack
<1>23. CASE RekeyRefused
  <2>0. prep.db \in Databases /\ prep.db # Nothing
    BY <1>23, HasDatabase, RekeyRefusedRun DEF PrepInv
  <2>w. working[prep.db] \in WorkingCopies
    BY <1>23, HasDatabase, RekeyRefusedRun DEF PrepInv, LeftForAReason
  <2>1. \A d \in Databases \ {prep.db} : working'[d] = working[d]
    BY <1>23, <2>0 DEF RekeyRefused, RemoveWorking, PrepInv, PrepTypeOK
  <2>2. working'[prep.db] = Nothing \/ working'[prep.db].left = "held"
    BY <1>23, <2>0, <2>w DEF RekeyRefused, RemoveWorking, WorkingCopies, PrepInv, PrepTypeOK
  <2> QED BY <1>23, <2>0, <2>1, <2>2, NothingAssumption, RekeyRefusedRun DEF PrepInv, PrepTypeOK, PrepRow, LeftForAReason, Going, Same, Ended, Over, FallsBack
<1>24. CASE RekeyTimesOut
  <2>0. prep.db \in Databases /\ prep.db # Nothing
    BY <1>24, HasDatabase, RekeyTimesOutRun DEF PrepInv
  <2>w. working[prep.db] \in WorkingCopies
    BY <1>24, HasDatabase, RekeyTimesOutRun DEF PrepInv, LeftForAReason
  <2>1. \A d \in Databases \ {prep.db} : working'[d] = working[d]
    BY <1>24, <2>0 DEF RekeyTimesOut, PrepInv, PrepTypeOK
  <2>2. working'[prep.db].left = "held"
    BY <1>24, <2>0, <2>w DEF RekeyTimesOut, WorkingCopies, PrepInv, PrepTypeOK
  <2> QED BY <1>24, <2>0, <2>1, <2>2, NothingAssumption, RekeyTimesOutRun DEF PrepInv, PrepTypeOK, PrepRow, LeftForAReason, Going, Same, Ended, Over, FallsBack
<1>25. CASE StripWorking
  <2>0. prep.db \in Databases /\ prep.db # Nothing
    BY <1>25, HasDatabase, StripWorkingRun DEF PrepInv
  <2>1. working' = working
    BY <1>25 DEF StripWorking
  <2> QED BY <1>25, <2>0, <2>1, NothingAssumption, StripWorkingRun DEF PrepInv, PrepTypeOK, PrepRow, LeftForAReason, Going, Same, Ended, Over, FallsBack
<1>26. CASE DropWorking
  <2>0. prep.db \in Databases /\ prep.db # Nothing
    BY <1>26, HasDatabase, DropWorkingRun DEF PrepInv
  <2>w. working[prep.db] \in WorkingCopies
    BY <1>26, HasDatabase, DropWorkingRun DEF PrepInv, LeftForAReason
  <2>1. \A d \in Databases \ {prep.db} : working'[d] = working[d]
    BY <1>26, <2>0 DEF DropWorking, RemoveWorking, PrepInv, PrepTypeOK
  <2>2. working'[prep.db] = Nothing \/ working'[prep.db].left = "held"
    BY <1>26, <2>0, <2>w DEF DropWorking, RemoveWorking, WorkingCopies, PrepInv, PrepTypeOK
  <2> QED BY <1>26, <2>0, <2>1, <2>2, NothingAssumption, DropWorkingRun DEF PrepInv, PrepTypeOK, PrepRow, LeftForAReason, Going, Same, Ended, Over, FallsBack
<1>27. CASE WriteCatalog
  BY <1>27, Idles DEF WriteCatalog, PrepInv, OwnDatabase, LeftForAReason
<1>28. CASE KillPrep
  <2>0. prep.db \in Databases \cup {Nothing}
    BY DEF PrepInv, PrepTypeOK, PrepRow
  <2>1. ASSUME NEW d \in Databases, working'[d] # Nothing PROVE working'[d].left # "no"
    <3>1. CASE prep.db # Nothing /\ working[prep.db] # Nothing
      <4>1. working[prep.db] \in WorkingCopies /\ prep.db \in Databases
        BY <3>1, <2>0 DEF PrepInv, PrepTypeOK
      <4>2. [working[prep.db] EXCEPT !.left = "killed"].left = "killed"
        BY <4>1 DEF WorkingCopies
      <4>3. working' = [working EXCEPT ![prep.db] = [working[prep.db] EXCEPT !.left = "killed"]]
        BY <1>28, <3>1 DEF KillPrep
      <4> QED BY <2>1, <4>1, <4>2, <4>3 DEF PrepInv, PrepTypeOK, LeftForAReason
    <3>2. CASE ~(prep.db # Nothing /\ working[prep.db] # Nothing)
      <4>1. working' = working
        BY <1>28, <3>2 DEF KillPrep
      <4> QED BY <2>1, <3>2, <4>1, NothingAssumption DEF PrepInv, LeftForAReason
    <3> QED BY <3>1, <3>2
  <2>2. prep'.pc = "idle"
    BY <1>28, Idles DEF KillPrep
  <2> QED BY <2>1, <2>2 DEF LeftForAReason
<1>29. ASSUME NEW d \in Databases, QQLetsGo(d) PROVE LeftForAReason'
  <2>1. prep' = prep
    BY <1>29 DEF QQLetsGo
  <2>2. CASE working' = working
    BY <2>1, <2>2 DEF PrepInv, LeftForAReason
  <2>3. CASE working[d] # Nothing /\ working' = [working EXCEPT ![d].form = "headed"]
    <3>1. working[d] \in WorkingCopies
      BY <2>3 DEF PrepInv, PrepTypeOK
    <3>2. /\ [working[d] EXCEPT !.form = "headed"] \in WorkingCopies
          /\ [working[d] EXCEPT !.form = "headed"].left = working[d].left
      BY <3>1 DEF WorkingCopies, Forms
    <3>3. working' = [working EXCEPT ![d] = [working[d] EXCEPT !.form = "headed"]]
      BY <2>3
    <3>4. ASSUME NEW e \in Databases
          PROVE  /\ working'[e] # Nothing <=> working[e] # Nothing
                 /\ working'[e] # Nothing => working'[e].left = working[e].left
      BY <2>3, <3>2, <3>3, NothingAssumption DEF PrepInv, PrepTypeOK
    <3>5. prep.pc \notin {"idle", "next"} => prep.db \in Databases
      BY HasDatabase DEF PrepInv
    <3> QED BY <2>1, <3>4, <3>5 DEF PrepInv, LeftForAReason
  <2> QED BY <1>29, <2>2, <2>3 DEF QQLetsGo
<1>30. ASSUME NEW d \in Databases, WriteFile(d) PROVE LeftForAReason'
  <2>1. working' = working
    BY <1>30 DEF WriteFile
  <2> QED BY <1>30, <2>1, NothingAssumption, WriteFileRun DEF PrepInv, PrepTypeOK, PrepRow, LeftForAReason, OwnDatabase, Going, Same, Ended, Over, FallsBack
<1> QED BY <1>1, <1>2, <1>3, <1>4, <1>5, <1>6, <1>7, <1>8, <1>9, <1>10, <1>11, <1>12,
   <1>13, <1>14, <1>15, <1>16, <1>17, <1>18, <1>19, <1>20, <1>21, <1>22, <1>23, <1>24, <1>25,
   <1>26, <1>27, <1>28, <1>29, <1>30 DEF PrepNext, PrepStep

LEMMA KnowsItsVersionsKept ==
  ASSUME PrepInv, PrepNext
  PROVE  KnowsItsVersions'
<1>1. ASSUME NEW r \in Requests, StartPrep(r) PROVE KnowsItsVersions'
  BY <1>1, StartPrepRun DEF PrepInv, KnowsItsVersions
<1>2. ASSUME NEW d \in Databases, HeaderKind(d) PROVE KnowsItsVersions'
  <2>1. file' = file /\ working' = working
    BY <1>2 DEF HeaderKind, files
  <2> QED BY <1>2, <2>1, HeaderKindRun DEF PrepInv, PrepTypeOK, PrepRow, KnowsItsVersions, OwnDatabase, Going, Same, Ended, Over, FallsBack
<1>3. CASE Plan
  <2>0. prep.db \in Databases /\ prep.db # Nothing
    BY <1>3, HasDatabase, PlanRun DEF PrepInv
  <2>1. file' = file /\ \A d \in Databases : working'[d] = working[d] \/ prep'.db = Nothing
    BY <1>3, <2>0, PlanRun DEF Plan, files, Ended, PrepInv, PrepTypeOK
  <2> QED BY <1>3, <2>0, <2>1, NothingAssumption, PlanRun DEF PrepInv, PrepTypeOK, PrepRow, KnowsItsVersions, OwnDatabase, Going, Same, Ended, Over, FallsBack
<1>4. CASE KeepExisting
  <2>0. prep.db \in Databases /\ prep.db # Nothing
    BY <1>4, HasDatabase, KeepExistingRun DEF PrepInv
  <2>1. file' = file /\ \A d \in Databases : working'[d] = working[d] \/ prep'.db = Nothing
    BY <1>4, <2>0, KeepExistingRun DEF KeepExisting, files, Ended, PrepInv, PrepTypeOK
  <2> QED BY <1>4, <2>0, <2>1, NothingAssumption, KeepExistingRun DEF PrepInv, PrepTypeOK, PrepRow, KnowsItsVersions, OwnDatabase, Going, Same, Ended, Over, FallsBack
<1>5. CASE NoInnerHeader
  <2>0. prep.db \in Databases /\ prep.db # Nothing
    BY <1>5, HasDatabase, NoInnerHeaderRun DEF PrepInv
  <2>1. file' = file /\ \A d \in Databases : working'[d] = working[d] \/ prep'.db = Nothing
    BY <1>5, <2>0, NoInnerHeaderRun DEF NoInnerHeader, files, Ended, PrepInv, PrepTypeOK
  <2> QED BY <1>5, <2>0, <2>1, NothingAssumption, NoInnerHeaderRun DEF PrepInv, PrepTypeOK, PrepRow, KnowsItsVersions, OwnDatabase, Going, Same, Ended, Over, FallsBack
<1>6. CASE ReadHalf
  <2>1. file' = file
    BY <1>6 DEF ReadHalf, files
  <2> QED BY <1>6, <2>1, ReadHalfRun, HasDatabase DEF PrepInv, PrepTypeOK, PrepRow, KnowsItsVersions, Same
<1>7. CASE CopyFails
  <2>0. prep.db \in Databases /\ prep.db # Nothing
    BY <1>7, HasDatabase, CopyFailsRun DEF PrepInv
  <2>1. file' = file /\ \A d \in Databases : working'[d] = working[d] \/ prep'.db = Nothing
    BY <1>7, <2>0, CopyFailsRun DEF CopyFails, files, Ended, PrepInv, PrepTypeOK
  <2> QED BY <1>7, <2>0, <2>1, NothingAssumption, CopyFailsRun DEF PrepInv, PrepTypeOK, PrepRow, KnowsItsVersions, OwnDatabase, Going, Same, Ended, Over, FallsBack
<1>8. CASE CopyIntoPlace
  <2>0. prep.db \in Databases /\ prep.db # Nothing
    BY <1>8, HasDatabase, CopyIntoPlaceRun DEF PrepInv
  <2>1. file' = file /\ \A d \in Databases : working'[d] = working[d] \/ prep'.db = Nothing
    BY <1>8, <2>0, CopyIntoPlaceRun DEF CopyIntoPlace, files, Ended, PrepInv, PrepTypeOK
  <2> QED BY <1>8, <2>0, <2>1, NothingAssumption, CopyIntoPlaceRun DEF PrepInv, PrepTypeOK, PrepRow, KnowsItsVersions, OwnDatabase, Going, Same, Ended, Over, FallsBack
<1>9. CASE StripIntoPlace
  <2>0. prep.db \in Databases /\ prep.db # Nothing
    BY <1>9, HasDatabase, StripIntoPlaceRun DEF PrepInv
  <2>1. file' = file /\ \A d \in Databases : working'[d] = working[d] \/ prep'.db = Nothing
    BY <1>9, <2>0, StripIntoPlaceRun DEF StripIntoPlace, files, Ended, PrepInv, PrepTypeOK
  <2> QED BY <1>9, <2>0, <2>1, NothingAssumption, StripIntoPlaceRun DEF PrepInv, PrepTypeOK, PrepRow, KnowsItsVersions, OwnDatabase, Going, Same, Ended, Over, FallsBack
<1>10. CASE SqliteSummary
  <2>0. prep.db \in Databases /\ prep.db # Nothing
    BY <1>10, HasDatabase, SqliteSummaryRun DEF PrepInv
  <2>1. file' = file /\ \A d \in Databases : working'[d] = working[d] \/ prep'.db = Nothing
    BY <1>10, <2>0, SqliteSummaryRun DEF SqliteSummary, files, Ended, PrepInv, PrepTypeOK
  <2> QED BY <1>10, <2>0, <2>1, NothingAssumption, SqliteSummaryRun DEF PrepInv, PrepTypeOK, PrepRow, KnowsItsVersions, OwnDatabase, Going, Same, Ended, Over, FallsBack
<1>11. CASE NoRekey
  <2>0. prep.db \in Databases /\ prep.db # Nothing
    BY <1>11, HasDatabase, NoRekeyRun DEF PrepInv
  <2>1. file' = file /\ \A d \in Databases : working'[d] = working[d] \/ prep'.db = Nothing
    BY <1>11, <2>0, NoRekeyRun DEF NoRekey, files, Ended, PrepInv, PrepTypeOK
  <2> QED BY <1>11, <2>0, <2>1, NothingAssumption, NoRekeyRun DEF PrepInv, PrepTypeOK, PrepRow, KnowsItsVersions, OwnDatabase, Going, Same, Ended, Over, FallsBack
<1>12. CASE Rekey
  <2>0. prep.db \in Databases /\ prep.db # Nothing
    BY <1>12, HasDatabase, RekeyRun DEF PrepInv
  <2>1. file' = file /\ \A d \in Databases : working'[d] = working[d] \/ prep'.db = Nothing
    BY <1>12, <2>0, RekeyRun DEF Rekey, files, Ended, PrepInv, PrepTypeOK
  <2> QED BY <1>12, <2>0, <2>1, NothingAssumption, RekeyRun DEF PrepInv, PrepTypeOK, PrepRow, KnowsItsVersions, OwnDatabase, Going, Same, Ended, Over, FallsBack
<1>13. CASE ReuseWorking
  <2>1. file' = file
    BY <1>13 DEF ReuseWorking, files
  <2> QED BY <1>13, <2>1, ReuseWorkingRun DEF PrepInv, PrepTypeOK, PrepRow, KnowsItsVersions
<1>14. CASE RemoveFails
  <2>0. prep.db \in Databases /\ prep.db # Nothing
    BY <1>14, HasDatabase, RemoveFailsRun DEF PrepInv
  <2>1. file' = file /\ \A d \in Databases : working'[d] = working[d] \/ prep'.db = Nothing
    BY <1>14, <2>0, RemoveFailsRun DEF RemoveFails, files, Ended, PrepInv, PrepTypeOK
  <2> QED BY <1>14, <2>0, <2>1, NothingAssumption, RemoveFailsRun DEF PrepInv, PrepTypeOK, PrepRow, KnowsItsVersions, OwnDatabase, Going, Same, Ended, Over, FallsBack
<1>15. CASE CreateWorking
  <2>1. file' = file
    BY <1>15 DEF CreateWorking, files
  <2> QED BY <1>15, <2>1, CreateWorkingRun, HasDatabase DEF PrepInv, PrepTypeOK, PrepRow, KnowsItsVersions, Going, Same, Ended, Over, FallsBack
<1>16. CASE Clone
  <2>0. prep.db \in Databases /\ prep.db # Nothing
    BY <1>16, HasDatabase, CloneRun DEF PrepInv
  <2>1. file' = file /\ working'[prep.db].of = {file[prep.db]}
    BY <1>16, <2>0 DEF Clone, files, WorkingCopy, PrepInv, PrepTypeOK
  <2>2. {file[prep.db]} \subseteq prep.seen
    BY <1>16, <2>0, CloneRun DEF PrepInv, PrepTypeOK, PrepRow, KnowsItsVersions, Bytes
  <2> QED BY <1>16, <2>0, <2>1, <2>2, CloneRun DEF PrepInv, PrepTypeOK, PrepRow, KnowsItsVersions, Going, Same, Ended, Over, FallsBack
<1>17. CASE CloneFails
  <2>1. file' = file
    BY <1>17 DEF CloneFails, files
  <2> QED BY <1>17, <2>1, CloneFailsRun, HasDatabase DEF PrepInv, PrepTypeOK, PrepRow, KnowsItsVersions, Going, Same, Ended, Over, FallsBack
<1>18. CASE Fallback
  <2>0. prep.db \in Databases /\ prep.db # Nothing
    BY <1>18, HasDatabase, FallbackRun DEF PrepInv
  <2>1. file' = file /\ working'[prep.db].of = Bytes
    BY <1>18, <2>0 DEF Fallback, files, WorkingCopy, PrepInv, PrepTypeOK
  <2>2. Bytes \subseteq prep.seen
    BY <1>18, <2>0, FallbackRun DEF PrepInv, PrepTypeOK, PrepRow, KnowsItsVersions, Bytes
  <2> QED BY <1>18, <2>0, <2>1, <2>2, FallbackRun DEF PrepInv, PrepTypeOK, PrepRow, KnowsItsVersions, Going, Same, Ended, Over, FallsBack
<1>19. CASE WorkingFails
  <2>1. prep'.db = Nothing /\ prep'.pc = "next" /\ ~prep'.old
    BY <1>19, WorkingFailsRun DEF PrepInv, Ended
  <2> QED BY <2>1 DEF KnowsItsVersions
<1>20. CASE NoRunner
  <2>1. prep'.db = Nothing /\ prep'.pc = "next" /\ ~prep'.old
    BY <1>20, NoRunnerRun DEF PrepInv, Ended
  <2> QED BY <2>1 DEF KnowsItsVersions
<1>21. CASE Runner
  <2>0. prep.db \in Databases /\ prep.db # Nothing
    BY <1>21, HasDatabase, RunnerRun DEF PrepInv
  <2>1. file' = file /\ \A d \in Databases : working'[d] = working[d] \/ prep'.db = Nothing
    BY <1>21, <2>0, RunnerRun DEF Runner, files, Ended, PrepInv, PrepTypeOK
  <2> QED BY <1>21, <2>0, <2>1, NothingAssumption, RunnerRun DEF PrepInv, PrepTypeOK, PrepRow, KnowsItsVersions, OwnDatabase, Going, Same, Ended, Over, FallsBack
<1>22. CASE RekeyOk
  <2>0. prep.db \in Databases /\ prep.db # Nothing
    BY <1>22, HasDatabase, RekeyOkRun DEF PrepInv
  <2>w. working[prep.db] \in WorkingCopies
    BY <1>22, HasDatabase, RekeyOkRun DEF PrepInv, LeftForAReason
  <2>1. file' = file /\ working'[prep.db].of = working[prep.db].of
    BY <1>22, <2>0, <2>w DEF RekeyOk, files, WorkingCopies, PrepInv, PrepTypeOK
  <2> QED BY <1>22, <2>0, <2>1, RekeyOkRun DEF PrepInv, PrepTypeOK, PrepRow, KnowsItsVersions, Going, Same, Ended, Over, FallsBack
<1>23. CASE RekeyRefused
  <2>1. prep'.db = Nothing /\ prep'.pc = "next" /\ ~prep'.old
    BY <1>23, RekeyRefusedRun DEF PrepInv, Ended
  <2> QED BY <2>1 DEF KnowsItsVersions
<1>24. CASE RekeyTimesOut
  <2>1. prep'.db = Nothing /\ prep'.pc = "next" /\ ~prep'.old
    BY <1>24, RekeyTimesOutRun DEF PrepInv, Ended
  <2> QED BY <2>1 DEF KnowsItsVersions
<1>25. CASE StripWorking
  <2>0. prep.db \in Databases /\ prep.db # Nothing
    BY <1>25, HasDatabase, StripWorkingRun DEF PrepInv
  <2>1. file' = file /\ \A d \in Databases : working'[d] = working[d] \/ prep'.db = Nothing
    BY <1>25, <2>0, StripWorkingRun DEF StripWorking, files, Ended, PrepInv, PrepTypeOK
  <2> QED BY <1>25, <2>0, <2>1, NothingAssumption, StripWorkingRun DEF PrepInv, PrepTypeOK, PrepRow, KnowsItsVersions, OwnDatabase, Going, Same, Ended, Over, FallsBack
<1>26. CASE DropWorking
  <2>1. prep'.db = Nothing /\ prep'.pc = "next" /\ ~prep'.old
    BY <1>26, DropWorkingRun DEF PrepInv, Ended
  <2> QED BY <2>1 DEF KnowsItsVersions
<1>27. CASE WriteCatalog
  BY <1>27, Idles DEF WriteCatalog, KnowsItsVersions
<1>28. CASE KillPrep
  BY <1>28, Idles DEF KillPrep, KnowsItsVersions
<1>29. ASSUME NEW d \in Databases, QQLetsGo(d) PROVE KnowsItsVersions'
  <2>1. prep' = prep /\ file' = file
    BY <1>29 DEF QQLetsGo
  <2>2. ASSUME NEW e \in Databases, working[e] # Nothing PROVE working'[e].of = working[e].of
    <3>1. working[e] \in WorkingCopies
      BY <2>2 DEF PrepInv, PrepTypeOK
    <3>2. [working[e] EXCEPT !.form = "headed"].of = working[e].of
      BY <3>1 DEF WorkingCopies
    <3>3. working'[e] \in {working[e], [working[e] EXCEPT !.form = "headed"]}
      BY <1>29, <3>1 DEF QQLetsGo, PrepInv, PrepTypeOK
    <3> QED BY <3>2, <3>3
  <2>3. prep.pc \in {"runner", "qq", "strip"} => prep.db \in Databases /\ working[prep.db] # Nothing
    BY HasDatabase DEF PrepInv, LeftForAReason
  <2> QED BY <2>1, <2>2, <2>3 DEF PrepInv, KnowsItsVersions
<1>30. ASSUME NEW d \in Databases, WriteFile(d) PROVE KnowsItsVersions'
  BY <1>30, WriteFileRun DEF WriteFile, PrepInv, PrepTypeOK, PrepRow, KnowsItsVersions,
    Same
<1> QED BY <1>1, <1>2, <1>3, <1>4, <1>5, <1>6, <1>7, <1>8, <1>9, <1>10, <1>11, <1>12,
   <1>13, <1>14, <1>15, <1>16, <1>17, <1>18, <1>19, <1>20, <1>21, <1>22, <1>23, <1>24, <1>25,
   <1>26, <1>27, <1>28, <1>29, <1>30 DEF PrepNext, PrepStep

----------------------------------------------------------------------------
(***************************************************************************)
(* The invariant and what follows of it.                                   *)
(***************************************************************************)

LEMMA PrepInvInit ==
  ASSUME PrepInit
  PROVE  PrepInv
<1>1. PrepTypeOK
  <2>1. shape \in [Databases -> Forms]
    BY PreprocessAssumption DEF PrepInit
  <2> QED BY <2>1, Idles DEF PrepInit, PrepTypeOK, Outcome
<1>2. OwnDatabase /\ LeftForAReason /\ KnowsItsVersions
  BY Idles DEF PrepInit, OwnDatabase, LeftForAReason, KnowsItsVersions
<1>3. StrippedIsValid /\ ReportedIsThere
  BY Idles DEF PrepInit, StrippedIsValid, NoneUnvalidated, ReportedIsThere
<1> QED BY <1>1, <1>2, <1>3 DEF PrepInv

LEMMA PrepInvStep ==
  ASSUME PrepInv, [PrepNext]_prepVars
  PROVE  PrepInv'
<1>1. CASE PrepNext
  BY <1>1, TypesKept, OwnDatabaseKept, StrippedStaysValid, ReportedStaysThere,
    LeftForAReasonKept, KnowsItsVersionsKept DEF PrepInv
<1>2. CASE UNCHANGED prepVars
  BY <1>2 DEF prepVars, PrepInv, PrepTypeOK, OwnDatabase, StrippedIsValid, NoneUnvalidated,
     ReportedIsThere, LeftForAReason, KnowsItsVersions
<1> QED BY <1>1, <1>2

\* The inductive invariant of the runs of preprocess.
THEOREM PrepInvariant == PrepSpec => []PrepInv
<1>1. PrepInit => PrepInv
  BY PrepInvInit
<1>2. PrepInv /\ [PrepNext]_prepVars => PrepInv'
  BY PrepInvStep
<1> QED BY <1>1, <1>2, PTL DEF PrepSpec

\* Whatever is killed, times out, is refused or is written meanwhile, and
\* whatever earlier runs left under encrypted-tmp: what was stripped has
\* been validated, the catalog lists as prepared what is there, and working
\* copies are left behind for the known reasons only.
THEOREM PreparationIsSound == PrepSpec => []PreparedSound
<1>1. PrepInv => PreparedSound
  <2> SUFFICES ASSUME PrepInv, NEW d \in Databases
               PROVE  /\ shape[d] # "sqlite" => NoneUnvalidated(d)
                      /\ catalog[d] = "prepared" => prepared[d] # Nothing
                      /\ working[d] # Nothing /\ prep.db # d => working[d].left # "no"
    BY DEF PreparedSound
  <2>1. shape[d] # "sqlite" => NoneUnvalidated(d)
    BY DEF PrepInv, PrepTypeOK, Forms, StrippedIsValid, NoneUnvalidated
  <2> QED BY <2>1 DEF PrepInv, ReportedIsThere, LeftForAReason
<1> QED BY <1>1, PrepInvariant, PTL

\* A copy is of versions its database had while the step that made it ran,
\* unless the step used the working copy of an earlier one, and a forced run
\* does not.
THEOREM PreparedCopiesAreFresh == PrepSpec => CopiesAreFresh
<1> DEFINE Fresh == \A d \in Databases : prepared'[d] # prepared[d] =>
                      prepared'[d].of \subseteq prep.seen \/ (prep.old /\ ~prep.force)
<1>1. ASSUME PrepInv, PrepNext PROVE Fresh
  <2> SUFFICES ASSUME NEW d \in Databases, prepared'[d] # prepared[d]
               PROVE  prepared'[d].of \subseteq prep.seen \/ (prep.old /\ ~prep.force)
    OBVIOUS
  <2>1. CopyIntoPlace \/ StripIntoPlace \/ StripWorking
    BY <1>1 DEF PrepNext, PrepStep, StartPrep, HeaderKind, Plan, KeepExisting, NoInnerHeader,
       ReadHalf, CopyFails, SqliteSummary, NoRekey, Rekey, ReuseWorking, RemoveFails,
       CreateWorking, Clone, CloneFails, Fallback, WorkingFails, NoRunner, Runner, RekeyOk,
       RekeyRefused, RekeyTimesOut, DropWorking, WriteCatalog, KillPrep, QQLetsGo, WriteFile
  <2>2. prep.db \in Databases /\ prep.db # Nothing
    BY <1>1, <2>1, HasDatabase DEF PrepInv, CopyIntoPlace, StripIntoPlace, StripWorking
  <2>3. CASE CopyIntoPlace \/ StripIntoPlace
    BY <2>3, <1>1, <2>2 DEF CopyIntoPlace, StripIntoPlace, PrepInv, KnowsItsVersions,
      Bytes, Promoted, Copy, PrepTypeOK
  <2>4. CASE StripWorking
    BY <1>1, <2>4, StripWorkingRun, <2>2 DEF PrepInv, Copy, PrepTypeOK, KnowsItsVersions
  <2> QED BY <2>1, <2>3, <2>4
<1>2. ASSUME UNCHANGED prepVars PROVE [Fresh]_prepVars
  BY <1>2
<1>3. PrepInv /\ [PrepNext]_prepVars => [Fresh]_prepVars
  BY <1>1, <1>2
<1>4. PrepSpec => [][Fresh]_prepVars
  <2> HIDE DEF Fresh
  <2> QED BY <1>3, PrepInvariant, PTL DEF PrepSpec
<1> QED BY <1>4 DEF CopiesAreFresh

----------------------------------------------------------------------------
(* InfoStreams: lists and numbers.                                         *)

\* The least of some numbers is one of them.
LEMMA LeastOf ==
  ASSUME NEW S \in SUBSET Nat, S # {}
  PROVE  Min(S) \in S /\ \A y \in S : Min(S) <= y
<1> DEFINE R == OpToRel(<, Nat)
<1>1. PICK x \in S : \A y \in S : <<y, x>> \notin R
  <2>1. IsWellFoundedOn(R, Nat)
    BY NatLessThanWellFounded
  <2> HIDE DEF R
  <2>2. QED
    BY <2>1, WFMin
<1>2. \A y \in Nat, z \in Nat : y < z => <<y, z>> \in R
  BY DEF OpToRel
<1>3. ASSUME NEW y \in S PROVE x <= y
  <2> SUFFICES ASSUME ~(x <= y) PROVE FALSE
    OBVIOUS
  <2>1. x \in Nat /\ y \in Nat /\ y < x
    OBVIOUS
  <2> HIDE DEF R
  <2> QED BY <1>1, <1>2, <1>3, <2>1
<1> QED BY <1>3 DEF Min

\* What is left of a list when one element is taken out.
LEMMA Removed ==
  ASSUME NEW S, NEW s \in Seq(S), NEW p \in 1 .. Len(s), IsInjective(s)
  PROVE  /\ RemoveAt(s, p) \in Seq(S) /\ IsInjective(RemoveAt(s, p))
         /\ Range(RemoveAt(s, p)) = Range(s) \ {s[p]}
<1> DEFINE t == RemoveAt(s, p)
<1>1. /\ t \in Seq(S) /\ Len(t) = Len(s) - 1 /\ Len(s) \in Nat
      /\ \A i \in 1 .. Len(s) - 1 : t[i] = IF i < p THEN s[i] ELSE s[i + 1]
      /\ DOMAIN t = 1 .. Len(s) - 1 /\ DOMAIN s = 1 .. Len(s)
  <2> DEFINE u == SubSeq(s, 1, p - 1)
             v == SubSeq(s, p + 1, Len(s))
  <2>1. Len(s) \in Nat /\ DOMAIN s = 1 .. Len(s)
    OBVIOUS
  <2>2. u \in Seq(S) /\ Len(u) = p - 1 /\ \A i \in 1 .. p - 1 : u[i] = s[i]
    OBVIOUS
  <2>3. v \in Seq(S) /\ Len(v) = Len(s) - p /\ \A i \in 1 .. Len(s) - p : v[i] = s[i + p]
    OBVIOUS
  <2>4. t = u \o v
    BY DEF RemoveAt
  <2> HIDE DEF t, u, v
  <2>5. /\ t \in Seq(S) /\ Len(t) = Len(u) + Len(v)
        /\ \A i \in 1 .. Len(u) + Len(v) : t[i] = IF i <= Len(u) THEN u[i] ELSE v[i - Len(u)]
    BY <2>2, <2>3, <2>4, ConcatProperties
  <2>6. ASSUME NEW i \in 1 .. Len(s) - 1 PROVE t[i] = IF i < p THEN s[i] ELSE s[i + 1]
    <3>1. i - (p - 1) + p = i + 1
      BY <2>1
    <3>2. CASE i < p
      <4>1. i \in 1 .. p - 1 /\ i <= Len(u) /\ i \in 1 .. Len(u) + Len(v)
        BY <2>1, <2>2, <2>3, <3>2
      <4> QED BY <2>2, <2>5, <3>2, <4>1
    <3>3. CASE ~(i < p)
      <4>1. i - (p - 1) \in 1 .. Len(s) - p /\ ~(i <= Len(u)) /\ i \in 1 .. Len(u) + Len(v)
        BY <2>1, <2>2, <2>3, <3>3
      <4>2. t[i] = v[i - (p - 1)]
        BY <2>2, <2>5, <4>1
      <4> QED BY <2>3, <3>1, <3>3, <4>1, <4>2
    <3> QED BY <3>2, <3>3
  <2> QED BY <2>1, <2>2, <2>3, <2>5, <2>6
<1> HIDE DEF t
<1>2. \A i \in 1 .. Len(s), j \in 1 .. Len(s) : s[i] = s[j] => i = j
  BY <1>1 DEF IsInjective
<1>3. IsInjective(t)
  <2> SUFFICES ASSUME NEW i \in 1 .. Len(s) - 1, NEW j \in 1 .. Len(s) - 1, t[i] = t[j]
               PROVE  i = j
    BY <1>1 DEF IsInjective
  <2> DEFINE a == IF i < p THEN i ELSE i + 1
             b == IF j < p THEN j ELSE j + 1
  <2>1. t[i] = s[a] /\ t[j] = s[b] /\ a \in 1 .. Len(s) /\ b \in 1 .. Len(s)
    BY <1>1
  <2>2. a = b
    BY <1>2, <2>1
  <2> QED BY <2>2, <1>1
<1>4. ASSUME NEW x \in Range(t) PROVE x \in Range(s) \ {s[p]}
  <2>1. PICK i \in 1 .. Len(s) - 1 : x = t[i]
    BY <1>1 DEF Range
  <2>2. PICK a \in 1 .. Len(s) : a # p /\ x = s[a]
    BY <1>1, <2>1
  <2> QED BY <1>1, <1>2, <2>2 DEF Range
<1>5. ASSUME NEW x \in Range(s) \ {s[p]} PROVE x \in Range(t)
  <2>1. PICK a \in 1 .. Len(s) : x = s[a]
    BY <1>1 DEF Range
  <2>2. a # p
    BY <2>1
  <2>3. CASE a < p
    <3>1. a \in 1 .. Len(s) - 1 /\ t[a] = x
      BY <1>1, <2>1, <2>3
    <3> QED BY <1>1, <3>1 DEF Range
  <2>4. CASE a > p
    <3>1. a - 1 \in 1 .. Len(s) - 1 /\ t[a - 1] = x
      BY <1>1, <2>1, <2>4
    <3> QED BY <1>1, <3>1 DEF Range
  <2> QED BY <2>2, <2>3, <2>4, <1>1
<1> QED BY <1>1, <1>3, <1>4, <1>5 DEF t

\* A list that is not to repeat a key gets one more.
LEMMA AppendedKey ==
  ASSUME NEW S, NEW s \in Seq(S), NEW e \in S, IsInjective(s), e \notin Range(s)
  PROVE  /\ Append(s, e) \in Seq(S) /\ IsInjective(Append(s, e))
         /\ Range(Append(s, e)) = Range(s) \cup {e}
<1> DEFINE t == Append(s, e)
<1>1. /\ t \in Seq(S) /\ Len(t) = Len(s) + 1 /\ t[Len(s) + 1] = e
      /\ \A i \in 1 .. Len(s) : t[i] = s[i]
      /\ DOMAIN t = 1 .. Len(s) + 1 /\ DOMAIN s = 1 .. Len(s) /\ Len(s) \in Nat
  OBVIOUS
<1> HIDE DEF t
<1>2. \A i \in 1 .. Len(s) : s[i] \in Range(s)
  BY <1>1 DEF Range
<1>3. IsInjective(t)
  <2> SUFFICES ASSUME NEW i \in 1 .. Len(s) + 1, NEW j \in 1 .. Len(s) + 1, t[i] = t[j]
               PROVE  i = j
    BY <1>1 DEF IsInjective
  <2>1. CASE i <= Len(s) /\ j <= Len(s)
    BY <1>1, <2>1 DEF IsInjective
  <2>2. CASE i <= Len(s) /\ j = Len(s) + 1
    <3>1. i \in 1 .. Len(s)
      BY <1>1, <2>2
    <3> QED BY <1>1, <1>2, <2>2, <3>1
  <2>3. CASE j <= Len(s) /\ i = Len(s) + 1
    <3>1. j \in 1 .. Len(s)
      BY <1>1, <2>3
    <3> QED BY <1>1, <1>2, <2>3, <3>1
  <2> QED BY <1>1, <2>1, <2>2, <2>3
<1>4. ASSUME NEW x \in Range(t) PROVE x \in Range(s) \cup {e}
  <2>1. PICK i \in 1 .. Len(s) + 1 : x = t[i]
    BY <1>1 DEF Range
  <2>2. i \in 1 .. Len(s) => x \in Range(s)
    BY <1>1, <1>2, <2>1
  <2>3. i \notin 1 .. Len(s) => i = Len(s) + 1
    BY <1>1
  <2> QED BY <1>1, <2>1, <2>2, <2>3
<1>5. ASSUME NEW x \in Range(s) \cup {e} PROVE x \in Range(t)
  <2>1. CASE x \in Range(s)
    <3>1. PICK i \in 1 .. Len(s) : x = s[i]
      BY <1>1, <2>1 DEF Range
    <3>2. i \in 1 .. Len(s) + 1 /\ x = t[i]
      BY <1>1, <3>1
    <3> QED BY <1>1, <3>2 DEF Range
  <2>2. CASE x = e
    <3>1. Len(s) + 1 \in 1 .. Len(s) + 1
      BY <1>1
    <3> QED BY <1>1, <2>2, <3>1 DEF Range
  <2> QED BY <2>1, <2>2
<1> QED BY <1>1, <1>3, <1>4, <1>5 DEF t

\* A key that is passed over is not in the list any more.
LEMMA PassedList ==
  ASSUME NEW S, NEW s \in Seq(S), NEW e, IsInjective(s)
  PROVE  /\ Passed(s, e) \in Seq(S) /\ IsInjective(Passed(s, e))
         /\ Range(Passed(s, e)) = Range(s) \ {e}
<1> DEFINE p == CHOOSE i \in DOMAIN s : s[i] = e
<1>1. CASE e \in Range(s)
  <2>1. \E i \in DOMAIN s : s[i] = e
    BY <1>1 DEF Range
  <2>2. p \in DOMAIN s /\ s[p] = e
    BY <2>1
  <2>3. p \in 1 .. Len(s)
    <3>1. DOMAIN s = 1 .. Len(s)
      OBVIOUS
    <3> QED BY <2>2, <3>1
  <2>4. Passed(s, e) = RemoveAt(s, p)
    BY <1>1 DEF Passed
  <2> HIDE DEF p
  <2> QED BY <2>2, <2>3, <2>4, Removed
<1>2. CASE e \notin Range(s)
  <2>1. Passed(s, e) = s
    BY <1>2 DEF Passed
  <2> QED BY <1>2, <2>1
<1> QED BY <1>1, <1>2

\* A list without its oldest keys.
LEMMA ShortenedList ==
  ASSUME NEW S, NEW s \in Seq(S), IsInjective(s), NEW n \in 0 .. Len(s)
  PROVE  LET t == SubSeq(s, n + 1, Len(s)) IN
         /\ t \in Seq(S) /\ IsInjective(t)
         /\ Range(t) = Range(s) \ {s[i] : i \in 1 .. n}
<1> DEFINE t == SubSeq(s, n + 1, Len(s))
<1>1. /\ t \in Seq(S) /\ Len(t) = Len(s) - n /\ Len(s) \in Nat
      /\ \A i \in 1 .. Len(s) - n : t[i] = s[i + n]
      /\ DOMAIN t = 1 .. Len(s) - n /\ DOMAIN s = 1 .. Len(s)
  OBVIOUS
<1> HIDE DEF t
<1>2. \A i \in 1 .. Len(s), j \in 1 .. Len(s) : s[i] = s[j] => i = j
  BY <1>1 DEF IsInjective
<1>3. IsInjective(t)
  <2> SUFFICES ASSUME NEW i \in 1 .. Len(s) - n, NEW j \in 1 .. Len(s) - n, t[i] = t[j]
               PROVE  i = j
    BY <1>1 DEF IsInjective
  <2>1. i + n \in 1 .. Len(s) /\ j + n \in 1 .. Len(s) /\ s[i + n] = s[j + n]
    BY <1>1
  <2>2. i + n = j + n
    BY <1>2, <2>1
  <2> QED BY <1>1, <2>2
<1>4. ASSUME NEW x \in Range(t) PROVE x \in Range(s) \ {s[i] : i \in 1 .. n}
  <2>1. PICK i \in 1 .. Len(s) - n : x = t[i]
    BY <1>1 DEF Range
  <2>2. i + n \in 1 .. Len(s) /\ x = s[i + n]
    BY <1>1, <2>1
  <2>3. x \in Range(s)
    BY <1>1, <2>2 DEF Range
  <2>4. ASSUME NEW j \in 1 .. n, x = s[j] PROVE FALSE
    <3>1. j \in 1 .. Len(s)
      BY <1>1
    <3>2. j = i + n
      BY <1>2, <2>2, <2>4, <3>1
    <3> QED BY <1>1, <3>2
  <2> QED BY <2>3, <2>4
<1>5. ASSUME NEW x \in Range(s) \ {s[i] : i \in 1 .. n} PROVE x \in Range(t)
  <2>1. PICK i \in 1 .. Len(s) : x = s[i]
    BY <1>1 DEF Range
  <2>2. i \notin 1 .. n
    BY <2>1
  <2>3. i - n \in 1 .. Len(s) - n /\ t[i - n] = x
    BY <1>1, <2>1, <2>2
  <2> QED BY <1>1, <2>3 DEF Range
<1> QED BY <1>1, <1>3, <1>4, <1>5 DEF t

\* A list without repetition is as long as its set.
LEMMA ListSize ==
  ASSUME NEW S, NEW s \in Seq(S), IsInjective(s)
  PROVE  IsFiniteSet(Range(s)) /\ Cardinality(Range(s)) = Len(s)
<1>1. DOMAIN s = 1 .. Len(s) /\ Len(s) \in Nat /\ s \in [1 .. Len(s) -> S]
  OBVIOUS
<1>2. s \in [1 .. Len(s) -> Range(s)]
  BY <1>1 DEF Range
<1>3. s \in Bijection(1 .. Len(s), Range(s))
  BY <1>1, <1>2 DEF Bijection, Injection, Surjection, Range, IsInjective
<1>4. IsFiniteSet(1 .. Len(s)) /\ Cardinality(1 .. Len(s)) = Len(s)
  BY <1>1, FS_Interval
<1> QED BY <1>3, <1>4, FS_Bijection DEF ExistsBijection
(* Sequences of sequences.                                                 *)

\* FlattenSeq is what its recursion says: each step appends the next one.
LEMMA FlattenSteps ==
  ASSUME NEW S, NEW seqs \in Seq(Seq(S)), seqs # <<>>
  PROVE  \E f \in [1 .. Len(seqs) -> Seq(S)] :
           /\ f[1] = seqs[1]
           /\ \A i \in 2 .. Len(seqs) : f[i] = f[i - 1] \o seqs[i]
           /\ FlattenSeq(seqs) = f[Len(seqs)]
<1> DEFINE Joined(f, n) == /\ f \in [1 .. n -> Seq(S)] /\ f[1] = seqs[1]
                           /\ \A i \in 2 .. n : f[i] = f[i - 1] \o seqs[i]
           Bad == {n \in 1 .. Len(seqs) : ~ \E f : Joined(f, n)}
<1>1. Len(seqs) \in Nat /\ Len(seqs) >= 1
  BY EmptySeq
<1>2. \A i \in 1 .. Len(seqs) : seqs[i] \in Seq(S)
  OBVIOUS
<1>3. Joined([i \in 1 .. 1 |-> seqs[1]], 1)
  BY <1>1, <1>2
<1>4. ASSUME NEW n \in 1 .. Len(seqs), n + 1 <= Len(seqs), NEW f, Joined(f, n)
      PROVE  \E g : Joined(g, n + 1)
  <2> DEFINE g == [i \in 1 .. n + 1 |-> IF i <= n THEN f[i] ELSE f[n] \o seqs[n + 1]]
  <2>1. f \in [1 .. n -> Seq(S)] /\ n \in Nat /\ n >= 1
    BY <1>4, <1>1
  <2>2. f[n] \in Seq(S) /\ seqs[n + 1] \in Seq(S)
    BY <1>1, <1>2, <1>4, <2>1
  <2>3. f[n] \o seqs[n + 1] \in Seq(S)
    BY <2>2
  <2>4. g \in [1 .. n + 1 -> Seq(S)]
    BY <2>1, <2>3
  <2>5. g[1] = seqs[1]
    BY <1>4, <2>1
  <2>6. ASSUME NEW i \in 2 .. n + 1 PROVE g[i] = g[i - 1] \o seqs[i]
    <3>1. CASE i <= n
      <4>1. g[i] = f[i] /\ g[i - 1] = f[i - 1] /\ i \in 2 .. n
        BY <3>1, <2>1
      <4>2. f[i] = f[i - 1] \o seqs[i]
        BY <4>1, <1>4
      <4> QED BY <4>1, <4>2
    <3>2. CASE i = n + 1
      <4>1. g[i] = f[n] \o seqs[n + 1] /\ i - 1 = n /\ g[i - 1] = f[n]
        BY <3>2, <2>1
      <4> QED BY <4>1, <3>2
    <3>3. i <= n \/ i = n + 1
      BY <2>1
    <3> HIDE DEF g
    <3> QED BY <3>1, <3>2, <3>3
  <2> HIDE DEF g
  <2> QED BY <2>4, <2>5, <2>6
<1>5. Bad = {}
  <2> HIDE DEF Joined
  <2> SUFFICES ASSUME Bad # {} PROVE FALSE
    OBVIOUS
  <2>1. Bad \in SUBSET Nat
    BY <1>1
  <2> DEFINE m == Min(Bad)
  <2>2. m \in Bad /\ \A y \in Bad : m <= y
    BY <2>1, LeastOf
  <2> HIDE DEF m
  <2>3. m # 1
    BY <2>2, <1>3
  <2>4. m - 1 \in 1 .. Len(seqs) /\ (m - 1) + 1 = m /\ m <= Len(seqs) /\ ~(m <= m - 1)
    BY <2>2, <2>3, <1>1
  <2>5. \E f : Joined(f, m - 1)
    BY <2>2, <2>4
  <2>6. \E f : Joined(f, m)
    BY <2>4, <2>5, <1>4
  <2> QED BY <2>2, <2>6
<1>6. PICK h : Joined(h, Len(seqs))
  <2>1. Len(seqs) \in 1 .. Len(seqs)
    BY <1>1
  <2> HIDE DEF Joined
  <2> QED BY <1>5, <2>1
<1> DEFINE Body(f) == [i \in 1 .. Len(seqs) |-> IF i = 1 THEN seqs[i] ELSE f[i - 1] \o seqs[i]]
           flatten == CHOOSE f : f = Body(f)
<1>7. flatten = Body(flatten)
  <2>1. ASSUME NEW i \in 1 .. Len(seqs)
        PROVE  h[i] = IF i = 1 THEN seqs[i] ELSE h[i - 1] \o seqs[i]
    <3>1. CASE i = 1
      BY <3>1, <1>6
    <3>2. CASE i \in 2 .. Len(seqs)
      BY <3>2, <1>6, <1>1
    <3> QED BY <3>1, <3>2, <1>1
  <2>2. h = [i \in 1 .. Len(seqs) |-> h[i]]
    BY <1>6
  <2>3. h = Body(h)
    BY <2>1, <2>2
  <2> QED BY <2>3
<1>8. FlattenSeq(seqs) = flatten[Len(seqs)]
  BY <1>1 DEF FlattenSeq
<1> DEFINE Off == {n \in 1 .. Len(seqs) : flatten[n] # h[n]}
<1>9. \A i \in 1 .. Len(seqs) :
        flatten[i] = IF i = 1 THEN seqs[i] ELSE flatten[i - 1] \o seqs[i]
  <2> HIDE DEF flatten
  <2> QED BY <1>7
<1> HIDE DEF flatten
<1>10. Off = {}
  <2> SUFFICES ASSUME Off # {} PROVE FALSE
    OBVIOUS
  <2>1. Off \in SUBSET Nat
    BY <1>1
  <2> DEFINE m == Min(Off)
  <2>2. m \in Off /\ \A y \in Off : m <= y
    BY <2>1, LeastOf
  <2> HIDE DEF m
  <2>3. m # 1
    BY <2>2, <1>6, <1>9, <1>1
  <2>4. m - 1 \in 1 .. Len(seqs) /\ m \in 2 .. Len(seqs) /\ ~(m <= m - 1)
    BY <2>2, <2>3, <1>1
  <2>5. flatten[m - 1] = h[m - 1]
    BY <2>2, <2>4
  <2>6. flatten[m] = flatten[m - 1] \o seqs[m]
    <3>1. m \in 1 .. Len(seqs) /\ m # 1
      BY <2>4, <1>1
    <3> QED BY <3>1, <1>9
  <2>7. h[m] = h[m - 1] \o seqs[m]
    BY <2>4, <1>6
  <2> QED BY <2>2, <2>5, <2>6, <2>7
<1>11. flatten[Len(seqs)] = h[Len(seqs)]
  BY <1>10, <1>1
<1> QED BY <1>6, <1>8, <1>11

\* A list with an element is not empty.
LEMMA NotEmpty ==
  ASSUME NEW S, NEW w \in Seq(S), Len(w) = 1
  PROVE  w # <<>>
<1> SUFFICES ASSUME w = <<>> PROVE FALSE
  OBVIOUS
<1> QED BY EmptySeq

\* A list and a list of one.
LEMMA OneMore ==
  ASSUME NEW S, NEW u \in Seq(S), NEW w \in Seq(S), Len(w) = 1
  PROVE  /\ Len(u \o w) = Len(u) + 1 /\ Len(u) \in Nat
         /\ \A a \in 1 .. Len(u) : (u \o w)[a] = u[a]
         /\ (u \o w)[Len(u) + 1] = w[1]
<1>1. Len(u) \in Nat /\ Len(u \o w) = Len(u) + 1
  <2>1. Len(u) \in Nat
    OBVIOUS
  <2>2. Len(u \o w) = Len(u) + Len(w)
    BY ConcatProperties
  <2> QED BY <2>1, <2>2
<1>2. \A a \in 1 .. Len(u) : (u \o w)[a] = u[a]
  <2> TAKE a \in 1 .. Len(u)
  <2>1. a \in 1 .. Len(u) + Len(w) /\ a <= Len(u)
    BY <1>1
  <2> QED BY <2>1, ConcatProperties
<1>3. (u \o w)[Len(u) + 1] = w[1]
  BY <1>1, ConcatProperties
<1> QED BY <1>1, <1>2, <1>3

\* Lists that are put together are a list (FlattenSeq).
LEMMA Flattened ==
  ASSUME NEW S, NEW seqs \in Seq(Seq(S))
  PROVE  FlattenSeq(seqs) \in Seq(S)
<1>1. CASE seqs = <<>>
  BY <1>1 DEF FlattenSeq
<1>2. CASE seqs # <<>>
  <2>1. Len(seqs) \in 1 .. Len(seqs)
    BY <1>2, EmptySeq
  <2>2. PICK f \in [1 .. Len(seqs) -> Seq(S)] : FlattenSeq(seqs) = f[Len(seqs)]
    BY <1>2, FlattenSteps
  <2> QED BY <2>1, <2>2
<1> QED BY <1>1, <1>2

\* Sequences of one element or none, and no element twice.
LEMMA FlattenedSingles ==
  ASSUME NEW S, NEW seqs \in Seq(Seq(S)),
         \A i \in 1 .. Len(seqs) : seqs[i] = <<>> \/ Len(seqs[i]) = 1,
         \A i, j \in 1 .. Len(seqs) :
           i # j /\ seqs[i] # <<>> /\ seqs[j] # <<>> => seqs[i][1] # seqs[j][1]
  PROVE  IsInjective(FlattenSeq(seqs))
<1>1. CASE seqs = <<>>
  BY <1>1 DEF FlattenSeq, IsInjective
<1>2. CASE seqs # <<>>
  <2>1. Len(seqs) \in Nat /\ Len(seqs) >= 1
    BY <1>2, EmptySeq
  <2>2. PICK f \in [1 .. Len(seqs) -> Seq(S)] :
           /\ f[1] = seqs[1]
           /\ \A i \in 2 .. Len(seqs) : f[i] = f[i - 1] \o seqs[i]
           /\ FlattenSeq(seqs) = f[Len(seqs)]
    BY <1>2, FlattenSteps
  <2> DEFINE Distinct(n) ==
               /\ \A a \in 1 .. Len(f[n]) : \E i \in 1 .. n : seqs[i] # <<>> /\ f[n][a] = seqs[i][1]
               /\ \A a, b \in 1 .. Len(f[n]) : f[n][a] = f[n][b] => a = b
             Bad == {n \in 1 .. Len(seqs) : ~Distinct(n)}
  <2>3. \A i \in 1 .. Len(seqs) : seqs[i] \in Seq(S)
    OBVIOUS
  <2>4. Distinct(1)
    <3>1. seqs[1] \in Seq(S) /\ (seqs[1] = <<>> \/ Len(seqs[1]) = 1)
      BY <2>1, <2>3
    <3>2. CASE seqs[1] = <<>>
      BY <3>2, <2>2
    <3>3. CASE Len(seqs[1]) = 1
      <4>1. Len(f[1]) = 1 /\ 1 .. 1 = {1}
        BY <3>3, <2>2
      <4>2. seqs[1] # <<>> /\ 1 .. Len(f[1]) = {1}
        <5>1. seqs[1] # <<>>
          BY <3>1, <3>3, NotEmpty
        <5> QED BY <4>1, <5>1
      <4>3. \E i \in 1 .. 1 : seqs[i] # <<>> /\ f[1][1] = seqs[i][1]
        BY <4>2, <2>2
      <4> QED BY <4>2, <4>3
    <3> QED BY <3>1, <3>2, <3>3
  <2>5. ASSUME NEW n \in 1 .. Len(seqs), n + 1 <= Len(seqs), Distinct(n)
        PROVE  Distinct(n + 1)
    <3>1. /\ n \in Nat /\ n + 1 \in 1 .. Len(seqs) /\ n + 1 \in 2 .. Len(seqs)
          /\ f[n] \in Seq(S) /\ f[n + 1] \in Seq(S) /\ seqs[n + 1] \in Seq(S)
      BY <2>1, <2>2, <2>3, <2>5
    <3>2. f[n + 1] = f[n] \o seqs[n + 1]
      <4>1. (n + 1) - 1 = n
        BY <3>1
      <4> QED BY <3>1, <4>1, <2>2
    <3>3. CASE seqs[n + 1] = <<>>
      <4>1. f[n + 1] = f[n]
        BY <3>1, <3>2, <3>3
      <4> QED BY <4>1, <2>5, <3>1
    <3>4. CASE Len(seqs[n + 1]) = 1
      <4>1. /\ Len(f[n + 1]) = Len(f[n]) + 1 /\ Len(f[n]) \in Nat
            /\ \A a \in 1 .. Len(f[n]) : f[n + 1][a] = f[n][a]
            /\ f[n + 1][Len(f[n]) + 1] = seqs[n + 1][1]
        <5> DEFINE u == f[n]
                   w == seqs[n + 1]
        <5>1. u \in Seq(S) /\ w \in Seq(S) /\ Len(w) = 1 /\ f[n + 1] = u \o w
          BY <3>1, <3>2, <3>4
        <5> HIDE DEF u, w
        <5>2. /\ Len(u \o w) = Len(u) + 1 /\ Len(u) \in Nat
              /\ \A a \in 1 .. Len(u) : (u \o w)[a] = u[a]
              /\ (u \o w)[Len(u) + 1] = w[1]
          BY <5>1, OneMore
        <5>3. f[n] = u /\ seqs[n + 1] = w
          BY DEF u, w
        <5> QED BY <5>1, <5>2, <5>3
      <4>2. seqs[n + 1] # <<>>
        BY <3>1, <3>4, NotEmpty
      <4>3. ASSUME NEW a \in 1 .. Len(f[n]) PROVE f[n + 1][a] # seqs[n + 1][1]
        <5>1. PICK i \in 1 .. n : seqs[i] # <<>> /\ f[n][a] = seqs[i][1]
          BY <2>5
        <5>2. i # n + 1 /\ i \in 1 .. Len(seqs)
          BY <3>1
        <5> QED BY <5>1, <5>2, <4>1, <4>2, <3>1
      <4>4. \A a \in 1 .. Len(f[n + 1]) :
              \E i \in 1 .. (n + 1) : seqs[i] # <<>> /\ f[n + 1][a] = seqs[i][1]
        <5> TAKE a \in 1 .. Len(f[n + 1])
        <5>1. CASE a \in 1 .. Len(f[n])
          BY <5>1, <2>5, <4>1, <3>1
        <5>2. CASE a = Len(f[n]) + 1
          BY <5>2, <4>1, <3>1, <4>2
        <5> QED BY <5>1, <5>2, <4>1
      <4>5. \A a, b \in 1 .. Len(f[n + 1]) : f[n + 1][a] = f[n + 1][b] => a = b
        <5> TAKE a, b \in 1 .. Len(f[n + 1])
        <5>1. /\ a \in 1 .. Len(f[n]) \/ a = Len(f[n]) + 1
              /\ b \in 1 .. Len(f[n]) \/ b = Len(f[n]) + 1
          BY <4>1
        <5>2. CASE a \in 1 .. Len(f[n]) /\ b \in 1 .. Len(f[n])
          BY <5>2, <2>5, <4>1
        <5>3. CASE ~(a \in 1 .. Len(f[n]) /\ b \in 1 .. Len(f[n]))
          BY <5>1, <5>3, <4>1, <4>3
        <5> QED BY <5>2, <5>3
      <4> QED BY <4>4, <4>5
    <3>5. seqs[n + 1] = <<>> \/ Len(seqs[n + 1]) = 1
      BY <3>1
    <3> QED BY <3>3, <3>4, <3>5
  <2> HIDE DEF Distinct
  <2>6. Bad = {}
    <3> SUFFICES ASSUME Bad # {} PROVE FALSE
      OBVIOUS
    <3>1. Bad \in SUBSET Nat
      BY <2>1
    <3> DEFINE m == Min(Bad)
    <3>2. m \in Bad /\ \A y \in Bad : m <= y
      BY <3>1, LeastOf
    <3> HIDE DEF m
    <3>3. m # 1
      BY <3>2, <2>4
    <3>4. m - 1 \in 1 .. Len(seqs) /\ (m - 1) + 1 = m /\ m <= Len(seqs) /\ ~(m <= m - 1)
      BY <3>2, <3>3, <2>1
    <3>5. Distinct(m - 1)
      BY <3>2, <3>4
    <3>6. Distinct(m)
      BY <3>4, <3>5, <2>5
    <3> QED BY <3>2, <3>6
  <2>7. Distinct(Len(seqs))
    <3>1. Len(seqs) \in 1 .. Len(seqs)
      BY <2>1
    <3> QED BY <3>1, <2>6
  <2>8. FlattenSeq(seqs) \in Seq(S) /\ FlattenSeq(seqs) = f[Len(seqs)]
    BY <2>2, Flattened
  <2>9. DOMAIN FlattenSeq(seqs) = 1 .. Len(f[Len(seqs)])
    BY <2>8
  <2> QED BY <2>7, <2>8, <2>9 DEF Distinct, IsInjective
<1> QED BY <1>1, <1>2

\* The largest of a bounded set is one of it.
LEMMA GreatestOf ==
  ASSUME NEW B \in Nat, NEW S \in SUBSET (0 .. B), S # {}
  PROVE  Max(S) \in S /\ \A y \in S : Max(S) >= y
<1> DEFINE T == {B - x : x \in S}
<1>1. T \in SUBSET Nat /\ T # {}
  <2>1. \A x \in S : B - x \in Nat
    OBVIOUS
  <2>2. PICK x \in S : TRUE
    OBVIOUS
  <2>3. B - x \in T
    BY <2>2
  <2> QED BY <2>1, <2>3
<1>2. Min(T) \in T /\ \A y \in T : Min(T) <= y
  BY <1>1, LeastOf
<1>3. PICK s \in S : Min(T) = B - s
  BY <1>2
<1>4. \A y \in S : s >= y
  <2> TAKE y \in S
  <2>1. B - y \in T
    OBVIOUS
  <2>2. Min(T) <= B - y /\ y \in Nat /\ s \in Nat
    BY <2>1, <1>2
  <2> HIDE DEF T
  <2> QED BY <2>2, <1>3
<1> QED BY <1>4 DEF Max

\* A chain stays among the valid positions, and takes none twice.
LEMMA Followed ==
  ASSUME NEW next, NEW start, NEW valid, NEW most \in Nat
  PROVE  LET chain == Follow(next, start, valid, most)
         IN  chain \in Seq(valid) /\ IsInjective(chain)
<1> DEFINE at[n \in 0 .. most] ==
             IF n = 0 THEN start
             ELSE IF at[n - 1] \in DOMAIN next THEN next[at[n - 1]] ELSE None
           fresh(n) == at[n] \in valid /\ \A m \in 0 .. (n - 1) : at[m] # at[n]
           lens == {n \in 0 .. most : \A m \in 0 .. (n - 1) : fresh(m)}
           len == Max(lens)
           chain == [i \in 1 .. len |-> at[i - 1]]
<1>1. Follow(next, start, valid, most) = chain
  BY DEF Follow
<1> HIDE DEF at
<1>2. lens \in SUBSET (0 .. most)
  OBVIOUS
<1>3. 0 \in lens
  OBVIOUS
<1>4. len \in lens
  <2> HIDE DEF lens
  <2> QED BY <1>2, <1>3, GreatestOf
<1> HIDE DEF len
<1>5. len \in Nat /\ \A m \in 0 .. (len - 1) : fresh(m)
  BY <1>4
<1>6. chain \in Seq(valid)
  <2>1. \A i \in 1 .. len : at[i - 1] \in valid
    BY <1>5
  <2> QED BY <1>5, <2>1
<1>7. IsInjective(chain)
  <2> SUFFICES ASSUME NEW i \in 1 .. len, NEW j \in 1 .. len, at[i - 1] = at[j - 1], i # j
               PROVE  FALSE
    BY DEF IsInjective
  <2>1. CASE i < j
    <3>1. fresh(j - 1) /\ i - 1 \in 0 .. ((j - 1) - 1)
      BY <2>1, <1>5
    <3> QED BY <3>1
  <2>2. CASE j < i
    <3>1. fresh(i - 1) /\ j - 1 \in 0 .. ((i - 1) - 1)
      BY <2>2, <1>5
    <3> QED BY <3>1
  <2> QED BY <2>1, <2>2, <1>5
<1> QED BY <1>1, <1>6, <1>7

\* A stream that is cut to its size is a part of it.
LEMMA CutShort ==
  ASSUME NEW S, NEW s \in Seq(S), NEW len \in Nat
  PROVE  /\ Cut(s, len) \in Seq(S)
         /\ IsInjective(s) => IsInjective(Cut(s, len))
         /\ \A i \in 1 .. Len(Cut(s, len)) : i \in 1 .. Len(s) /\ Cut(s, len)[i] = s[i]
<1>1. Min({len, Len(s)}) \in {len, Len(s)} /\ Min({len, Len(s)}) <= Len(s) /\ Len(s) \in Nat
  <2>1. {len, Len(s)} \in SUBSET Nat /\ {len, Len(s)} # {}
    OBVIOUS
  <2> QED BY <2>1, LeastOf
<1> DEFINE m == Min({len, Len(s)})
<1> HIDE DEF m
<1>2. m \in Nat /\ m <= Len(s)
  BY <1>1 DEF m
<1>3. Cut(s, len) = SubSeq(s, 1, m)
  BY DEF Cut, m
<1>4. /\ SubSeq(s, 1, m) \in Seq(S) /\ Len(SubSeq(s, 1, m)) = m
      /\ \A i \in 1 .. m : SubSeq(s, 1, m)[i] = s[i]
  BY <1>2, SubSeqProperties
<1>5. DOMAIN SubSeq(s, 1, m) = 1 .. m /\ DOMAIN s = 1 .. Len(s)
  BY <1>4
<1> QED BY <1>2, <1>3, <1>4, <1>5 DEF IsInjective
----------------------------------------------------------------------------
(* The bookkeeping of EntryChunkCache.                                     *)

\* The streams that are asked for.
StreamKeys ==
  { <<"Group", "Basic.db">>, <<"User", "Group1.db">>, <<"Contact", "QQInfo.db">>,
    <<"Contact", "NonRelationQQInfo.db">>, <<"Contact", "PublicInfo.db">>,
    <<"Contact", "Remark.db">> }

\* What a cell says, and what is kept of a stream.
CellSet == {<<Containers[v].version, s, h>> : v \in DOMAIN Containers, s \in Nat, h \in {1, 2}}
Chunks  == {Meaning(cell) : cell \in CellSet}
Items   == [identity : Nat, chunks : Seq(Chunks)]

\* Every item is in the order once, and its chunks are counted.
StoreLists(c) ==
  /\ c = [items |-> c.items, order |-> c.order, cells |-> c.cells]
  /\ c.order \in Seq(StreamKeys) /\ IsInjective(c.order) /\ Range(c.order) = DOMAIN c.items
  /\ \A k \in DOMAIN c.items : c.items[k] \in Items
  /\ c.cells = Cardinality(Occupied(c.items))

StoreLimits(c) == Cardinality(DOMAIN c.items) <= CacheItems /\ c.cells <= CacheCells

\* What a chunk of the cache is.
LEMMA InOccupied ==
  ASSUME NEW items, NEW p
  PROVE  p \in Occupied(items) <=>
           \E k \in DOMAIN items : \E i \in DOMAIN items[k].chunks : p = <<k, i>>
BY DEF Occupied

\* Items of streams have finitely many chunks.
LEMMA OccupiedFinite ==
  ASSUME NEW items, IsFiniteSet(DOMAIN items), \A k \in DOMAIN items : items[k] \in Items
  PROVE  /\ IsFiniteSet(Occupied(items)) /\ Cardinality(Occupied(items)) \in Nat
<1> DEFINE own == [k \in DOMAIN items |-> {k} \X DOMAIN items[k].chunks]
           parts == {own[k] : k \in DOMAIN items}
<1>1. own \in Surjection(DOMAIN items, parts)
  BY DEF Surjection
<1>2. IsFiniteSet(parts)
  <2> HIDE DEF own, parts
  <2> QED BY <1>1, FS_Surjection
<1>3. \A p \in parts : IsFiniteSet(p)
  <2> TAKE p \in parts
  <2>1. PICK k \in DOMAIN items : p = {k} \X DOMAIN items[k].chunks
    OBVIOUS
  <2>2. items[k].chunks \in Seq(Chunks)
    BY DEF Items
  <2>3. DOMAIN items[k].chunks = 1 .. Len(items[k].chunks) /\ Len(items[k].chunks) \in Nat
    BY <2>2
  <2>4. IsFiniteSet(DOMAIN items[k].chunks)
    BY <2>3, FS_Interval
  <2>5. IsFiniteSet({k})
    BY FS_Singleton
  <2> QED BY <2>1, <2>4, <2>5, FS_Product
<1>4. Occupied(items) = UNION parts
  BY DEF Occupied
<1>5. IsFiniteSet(Occupied(items))
  <2> HIDE DEF parts
  <2> QED BY <1>2, <1>3, <1>4, FS_UNION
<1> QED BY <1>5, FS_CardinalityType

\* Two groups of items without a common key.
LEMMA SplitOccupied ==
  ASSUME NEW items, IsFiniteSet(DOMAIN items), \A k \in DOMAIN items : items[k] \in Items,
         NEW gone \in SUBSET (DOMAIN items)
  PROVE  LET rest == Restrict(items, DOMAIN items \ gone)
             out  == Restrict(items, gone)
         IN  /\ Cardinality(Occupied(rest)) \in Nat /\ Cardinality(Occupied(out)) \in Nat
             /\ Cardinality(Occupied(items)) =
                  Cardinality(Occupied(rest)) + Cardinality(Occupied(out))
<1> DEFINE rest == Restrict(items, DOMAIN items \ gone)
           out  == Restrict(items, gone)
<1>1. /\ DOMAIN rest = DOMAIN items \ gone /\ DOMAIN out = gone
      /\ \A k \in DOMAIN items \ gone : rest[k] = items[k]
      /\ \A k \in gone : out[k] = items[k]
  BY DEF Restrict
<1> HIDE DEF rest, out
<1>2. /\ IsFiniteSet(Occupied(rest)) /\ Cardinality(Occupied(rest)) \in Nat
      /\ IsFiniteSet(Occupied(out)) /\ Cardinality(Occupied(out)) \in Nat
  BY <1>1, FS_Difference, FS_Subset, OccupiedFinite
<1>3. Occupied(items) = Occupied(rest) \cup Occupied(out)
  <2>1. ASSUME NEW p PROVE p \in Occupied(items) <=> p \in Occupied(rest) \cup Occupied(out)
    BY <1>1, InOccupied
  <2> QED BY <2>1
<1>4. Occupied(rest) \cap Occupied(out) = {}
  <2> SUFFICES ASSUME NEW p, p \in Occupied(rest), p \in Occupied(out) PROVE FALSE
    OBVIOUS
  <2>1. PICK k \in DOMAIN items \ gone : \E i \in DOMAIN items[k].chunks : p = <<k, i>>
    BY <1>1, InOccupied
  <2>2. PICK j \in gone : \E i \in DOMAIN items[j].chunks : p = <<j, i>>
    BY <1>1, InOccupied
  <2> QED BY <2>1, <2>2
<1>5. Cardinality(Occupied(rest) \cup Occupied(out)) =
        Cardinality(Occupied(rest)) + Cardinality(Occupied(out))
  <2>1. Cardinality(Occupied(rest) \cap Occupied(out)) = 0
    BY <1>4, FS_EmptySet
  <2>2. Cardinality(Occupied(rest) \cup Occupied(out)) =
          Cardinality(Occupied(rest)) + Cardinality(Occupied(out))
            - Cardinality(Occupied(rest) \cap Occupied(out))
    BY <1>2, FS_Union
  <2> QED BY <1>2, <2>1, <2>2
<1> QED BY <1>2, <1>3, <1>5 DEF rest, out

\* The chunks of one item.
LEMMA OccupiedByOne ==
  ASSUME NEW items, NEW k, DOMAIN items = {k}, items[k] \in Items
  PROVE  Cardinality(Occupied(items)) = CellsOf(items[k].chunks)
<1> DEFINE n == Len(items[k].chunks)
<1>1. items[k].chunks \in Seq(Chunks)
  BY DEF Items
<1>2. n \in Nat /\ DOMAIN items[k].chunks = 1 .. n
  BY <1>1
<1>3. Occupied(items) = {k} \X (1 .. n)
  <2>1. ASSUME NEW p PROVE p \in Occupied(items) <=> p \in {k} \X (1 .. n)
    BY <1>2, InOccupied
  <2> QED BY <2>1
<1> HIDE DEF n
<1>4. IsFiniteSet(1 .. n) /\ Cardinality(1 .. n) = n
  BY <1>2, FS_Interval
<1>5. IsFiniteSet({k}) /\ Cardinality({k}) = 1
  BY FS_Singleton
<1>6. Cardinality({k} \X (1 .. n)) = n
  <2>1. Cardinality({k} \X (1 .. n)) = Cardinality({k}) * Cardinality(1 .. n)
    BY <1>4, <1>5, FS_Product
  <2> QED BY <1>2, <1>4, <1>5, <2>1
<1> QED BY <1>2, <1>3, <1>6 DEF n, CellsOf

\* What follows for the sizes.
LEMMA StoreTypes ==
  ASSUME NEW c, StoreLists(c)
  PROVE  /\ Len(c.order) \in Nat /\ DOMAIN c.order = 1 .. Len(c.order)
         /\ IsFiniteSet(DOMAIN c.items) /\ Cardinality(DOMAIN c.items) = Len(c.order)
         /\ Cardinality(Occupied(c.items)) \in Nat /\ c.cells \in Nat
BY ListSize, OccupiedFinite DEF StoreLists

\* What is left when some items go.
Lighter(c, gone, order) ==
  [items |-> Restrict(c.items, DOMAIN c.items \ gone), order |-> order,
   cells |-> c.cells - Cardinality(Occupied(Restrict(c.items, gone)))]

\* Items that go take their chunks with them.
LEMMA Lightened ==
  ASSUME NEW c, StoreLists(c), NEW gone \in SUBSET (DOMAIN c.items),
         NEW o \in Seq(StreamKeys), IsInjective(o), Range(o) = DOMAIN c.items \ gone
  PROVE  /\ StoreLists(Lighter(c, gone, o)) /\ Lighter(c, gone, o).order = o
         /\ DOMAIN Lighter(c, gone, o).items = DOMAIN c.items \ gone
         /\ \A k \in DOMAIN c.items \ gone : Lighter(c, gone, o).items[k] = c.items[k]
         /\ StoreLimits(c) => StoreLimits(Lighter(c, gone, o))
<1> DEFINE left == Lighter(c, gone, o)
           rest == Restrict(c.items, DOMAIN c.items \ gone)
           out  == Restrict(c.items, gone)
<1>1. DOMAIN rest = DOMAIN c.items \ gone /\ \A k \in DOMAIN rest : rest[k] = c.items[k]
  BY DEF Restrict
<1>2. /\ IsFiniteSet(DOMAIN c.items) /\ \A k \in DOMAIN c.items : c.items[k] \in Items
      /\ c.cells = Cardinality(Occupied(c.items)) /\ c.cells \in Nat
  BY StoreTypes DEF StoreLists
<1>3. /\ Cardinality(Occupied(rest)) \in Nat /\ Cardinality(Occupied(out)) \in Nat
      /\ Cardinality(Occupied(c.items)) = Cardinality(Occupied(rest)) + Cardinality(Occupied(out))
  BY <1>2, SplitOccupied
<1>4. left.items = rest /\ left.order = o /\ left.cells = c.cells - Cardinality(Occupied(out))
      /\ left = [items |-> left.items, order |-> left.order, cells |-> left.cells]
  BY DEF Lighter
<1> HIDE DEF left, rest, out
<1>5. left.cells = Cardinality(Occupied(left.items)) /\ left.cells <= c.cells
  BY <1>2, <1>3, <1>4
<1>6. Cardinality(DOMAIN rest) <= Cardinality(DOMAIN c.items)
  BY <1>1, <1>2, FS_Subset
<1>7. StoreLists(left)
  BY <1>1, <1>2, <1>4, <1>5 DEF StoreLists
<1>8. ASSUME StoreLimits(c) PROVE StoreLimits(left)
  BY <1>2, <1>4, <1>7, StoreTypes, <1>5, <1>6, <1>8, StreamsAssumption DEF StoreLimits
<1> QED BY <1>1, <1>4, <1>7, <1>8 DEF left

\* remove keeps the lists, and what else is kept.
LEMMA WithoutKept ==
  ASSUME NEW c, StoreLists(c), NEW key
  PROVE  LET left == Without(c, key)
         IN  /\ StoreLists(left)
             /\ DOMAIN left.items = DOMAIN c.items \ {key}
             /\ \A k \in DOMAIN left.items : left.items[k] = c.items[k]
             /\ StoreLimits(c) => StoreLimits(left)
<1> DEFINE left == Without(c, key)
           o == Passed(c.order, key)
           gone == {key} \cap DOMAIN c.items
<1>1. o \in Seq(StreamKeys) /\ IsInjective(o) /\ Range(o) = DOMAIN c.items \ gone
  <2>1. c.order \in Seq(StreamKeys) /\ IsInjective(c.order) /\ Range(c.order) = DOMAIN c.items
    BY DEF StoreLists
  <2>2. o \in Seq(StreamKeys) /\ IsInjective(o) /\ Range(o) = Range(c.order) \ {key}
    BY <2>1, PassedList
  <2> HIDE DEF o
  <2> QED BY <2>1, <2>2
<1>2. Cardinality(Occupied(Restrict(c.items, gone))) =
        IF key \in DOMAIN c.items THEN CellsOf(c.items[key].chunks) ELSE 0
  <2> DEFINE out == Restrict(c.items, gone)
  <2>1. DOMAIN out = gone /\ \A k \in gone : out[k] = c.items[k]
    BY DEF Restrict
  <2> HIDE DEF out
  <2>2. CASE key \in DOMAIN c.items
    <3>1. DOMAIN out = {key} /\ out[key] = c.items[key] /\ out[key] \in Items
      BY <2>1, <2>2 DEF StoreLists
    <3> QED BY <2>2, <3>1, OccupiedByOne DEF out
  <2>3. CASE key \notin DOMAIN c.items
    <3>1. Occupied(out) = {}
      BY <2>1, <2>3 DEF Occupied
    <3> QED BY <2>3, <3>1, FS_EmptySet DEF out
  <2> QED BY <2>2, <2>3
<1>3. c.cells \in Nat
  BY StoreTypes
<1>4. DOMAIN c.items \ {key} = DOMAIN c.items \ gone
  OBVIOUS
<1>5. c.cells - Cardinality(Occupied(Restrict(c.items, gone))) =
        IF key \in DOMAIN c.items THEN c.cells - CellsOf(c.items[key].chunks) ELSE c.cells
  BY <1>2, <1>3
<1>6. left = Lighter(c, gone, o)
  <2> HIDE DEF gone
  <2> QED BY <1>4, <1>5 DEF Without, Lighter
<1>7. gone \in SUBSET (DOMAIN c.items)
  OBVIOUS
<1> HIDE DEF left, o, gone
<1>8. StoreLists(Lighter(c, gone, o))
  BY <1>1, <1>7, Lightened
<1>9. DOMAIN Lighter(c, gone, o).items = DOMAIN c.items \ gone
  BY <1>1, <1>7, Lightened
<1>10. \A k \in DOMAIN c.items \ gone : Lighter(c, gone, o).items[k] = c.items[k]
  BY DEF Lighter, Restrict
<1>11. StoreLimits(c) => StoreLimits(Lighter(c, gone, o))
  BY <1>1, <1>7, Lightened
<1> QED BY <1>4, <1>6, <1>8, <1>9, <1>10, <1>11 DEF left

\* An item that is asked for moves to the end.
LEMMA GotKept ==
  ASSUME NEW c, StoreLists(c), NEW key \in StreamKeys
  PROVE  /\ StoreLists(Got(c, key)) /\ Got(c, key).items = c.items
         /\ StoreLimits(c) => StoreLimits(Got(c, key))
<1>1. CASE key \notin DOMAIN c.items
  BY <1>1 DEF Got
<1>2. CASE key \in DOMAIN c.items
  <2> DEFINE p == Passed(c.order, key)
             o == Append(p, key)
  <2>1. c.order \in Seq(StreamKeys) /\ IsInjective(c.order) /\ Range(c.order) = DOMAIN c.items
        /\ c = [items |-> c.items, order |-> c.order, cells |-> c.cells]
    BY DEF StoreLists
  <2>2. p \in Seq(StreamKeys) /\ IsInjective(p) /\ Range(p) = Range(c.order) \ {key}
    BY <2>1, PassedList
  <2>3. Got(c, key) = [c EXCEPT !.order = o]
    BY <1>2 DEF Got
  <2> HIDE DEF p
  <2>4. o \in Seq(StreamKeys) /\ IsInjective(o) /\ Range(o) = Range(p) \cup {key}
    BY <2>2, AppendedKey
  <2> HIDE DEF o
  <2>5. Got(c, key) = [items |-> c.items, order |-> o, cells |-> c.cells]
    BY <2>1, <2>3
  <2>6. Range(o) = DOMAIN c.items
    BY <1>2, <2>1, <2>2, <2>4
  <2> QED BY <2>4, <2>5, <2>6 DEF StoreLists, StoreLimits
<1> QED BY <1>1, <1>2

\* The oldest items go.
LEMMA DroppedKept ==
  ASSUME NEW c, StoreLists(c), NEW n \in 0 .. Len(c.order)
  PROVE  /\ StoreLists(Dropped(c, n))
         /\ Dropped(c, n).order = SubSeq(c.order, n + 1, Len(c.order))
         /\ Range(Dropped(c, n).order) = Range(c.order) \ {c.order[i] : i \in 1 .. n}
         /\ DOMAIN Dropped(c, n).items \subseteq DOMAIN c.items
         /\ \A k \in DOMAIN Dropped(c, n).items : Dropped(c, n).items[k] = c.items[k]
<1> DEFINE some == {c.order[i] : i \in 1 .. n}
           gone == some \cap DOMAIN c.items
           o == SubSeq(c.order, n + 1, Len(c.order))
<1>1. c.order \in Seq(StreamKeys) /\ IsInjective(c.order) /\ Range(c.order) = DOMAIN c.items
  BY DEF StoreLists
<1>2. o \in Seq(StreamKeys) /\ IsInjective(o) /\ Range(o) = Range(c.order) \ some
  BY <1>1, ShortenedList
<1>3. Dropped(c, n) = Lighter(c, gone, o)
  BY DEF Dropped, Lighter
<1> HIDE DEF o, some
<1>4. gone \in SUBSET (DOMAIN c.items) /\ DOMAIN c.items \ gone = DOMAIN c.items \ some
  OBVIOUS
<1> HIDE DEF gone
<1>5. Range(o) = DOMAIN c.items \ gone
  BY <1>1, <1>2, <1>4
<1>6. StoreLists(Lighter(c, gone, o))
  BY <1>2, <1>4, <1>5, Lightened
<1>7. Lighter(c, gone, o).order = o
  BY DEF Lighter
<1>8. DOMAIN Lighter(c, gone, o).items = DOMAIN c.items \ gone
  BY <1>2, <1>4, <1>5, Lightened
<1>9. \A k \in DOMAIN c.items \ gone : Lighter(c, gone, o).items[k] = c.items[k]
  BY DEF Lighter, Restrict
<1> QED BY <1>2, <1>3, <1>6, <1>7, <1>8, <1>9 DEF o, some

\* What is evicted leaves room, unless one item is too much for the cache.
LEMMA EvictedKept ==
  ASSUME NEW c, StoreLists(c), NEW size \in Nat, size <= CacheCells
  PROVE  /\ StoreLists(Evicted(c, size)) /\ HasRoom(Evicted(c, size), size)
         /\ DOMAIN Evicted(c, size).items \subseteq DOMAIN c.items
         /\ \A k \in DOMAIN Evicted(c, size).items : Evicted(c, size).items[k] = c.items[k]
<1> DEFINE fits == {n \in 0 .. Len(c.order) : HasRoom(Dropped(c, n), size)}
           all == Len(c.order)
<1>1. all \in Nat /\ all \in 0 .. Len(c.order)
  BY StoreTypes
<1>2. HasRoom(Dropped(c, all), size)
  <2> DEFINE d == Dropped(c, all)
  <2>1. StoreLists(d) /\ Range(d.order) = Range(c.order) \ {c.order[i] : i \in 1 .. all}
    BY <1>1, DroppedKept
  <2>2. Range(c.order) = {c.order[i] : i \in 1 .. all}
    BY StoreTypes DEF Range
  <2> HIDE DEF d, all
  <2>3. Range(d.order) = {}
    BY <2>1, <2>2
  <2>4. DOMAIN d.items = {} /\ d.cells = Cardinality(Occupied(d.items))
    BY <2>1, <2>3 DEF StoreLists
  <2>5. Occupied(d.items) = {}
    BY <2>4 DEF Occupied
  <2>6. Cardinality(DOMAIN d.items) = 0 /\ d.cells = 0
    BY <2>4, <2>5, FS_EmptySet
  <2>7. 0 < CacheItems /\ 0 + size <= CacheCells
    BY StreamsAssumption
  <2> QED BY <2>6, <2>7 DEF HasRoom, d
<1>3. all \in fits
  BY <1>1, <1>2
<1>4. Evicted(c, size) = Dropped(c, Min(fits))
  <2> HIDE DEF all
  <2>1. fits # {}
    BY <1>3
  <2> QED BY <2>1 DEF Evicted
<1>5. fits \in SUBSET Nat /\ fits # {}
  BY <1>1, <1>3
<1>6. Min(fits) \in fits
  <2> HIDE DEF fits
  <2> QED BY <1>5, LeastOf
<1> DEFINE n == Min(fits)
<1>7. n \in 0 .. Len(c.order) /\ HasRoom(Dropped(c, n), size)
  BY <1>6
<1> HIDE DEF n, fits, all
<1>8. /\ StoreLists(Dropped(c, n)) /\ DOMAIN Dropped(c, n).items \subseteq DOMAIN c.items
      /\ \A k \in DOMAIN Dropped(c, n).items : Dropped(c, n).items[k] = c.items[k]
  BY <1>7, DroppedKept
<1> QED BY <1>4, <1>7, <1>8 DEF n

\* insert keeps the limits, and what else is kept stays as it is.
LEMMA InsertedKept ==
  ASSUME NEW c, StoreLists(c), StoreLimits(c), NEW key \in StreamKeys, NEW value \in Items
  PROVE  LET new == Inserted(c, key, value)
         IN  /\ StoreLists(new) /\ StoreLimits(new)
             /\ DOMAIN new.items \subseteq DOMAIN c.items \cup {key}
             /\ key \in DOMAIN new.items => new.items[key] = value
             /\ \A k \in DOMAIN new.items : k # key => new.items[k] = c.items[k]
<1> DEFINE new  == Inserted(c, key, value)
           rest == Without(c, key)
           size == CellsOf(value.chunks)
           room == Evicted(rest, size)
<1>1. StoreLists(rest) /\ DOMAIN rest.items = DOMAIN c.items \ {key}
      /\ \A k \in DOMAIN rest.items : rest.items[k] = c.items[k]
  BY WithoutKept
<1>2. StoreLimits(rest)
  BY WithoutKept
<1>3. size \in Nat
  <2>1. value.chunks \in Seq(Chunks)
    BY DEF Items
  <2> QED BY <2>1 DEF CellsOf
<1>4. CASE size > CacheCells
  <2>1. new = rest
    BY <1>4 DEF Inserted
  <2> HIDE DEF new, rest
  <2> QED BY <1>1, <1>2, <2>1 DEF new
<1>5. CASE ~(size > CacheCells)
  <2>1. new = [items |-> [k \in DOMAIN room.items \cup {key} |->
                            IF k = key THEN value ELSE room.items[k]],
               order |-> Append(room.order, key), cells |-> room.cells + size]
    BY <1>5 DEF Inserted
  <2>2. size <= CacheCells
    BY <1>3, <1>5, StreamsAssumption
  <2> HIDE DEF new, rest, size
  <2>3. StoreLists(room) /\ HasRoom(room, size) /\ DOMAIN room.items \subseteq DOMAIN rest.items
    BY <1>1, <1>3, <2>2, EvictedKept
  <2>4. \A k \in DOMAIN room.items : room.items[k] = rest.items[k]
    BY <1>1, <1>3, <2>2, EvictedKept
  <2> HIDE DEF room
  <2> DEFINE items == [k \in DOMAIN room.items \cup {key} |->
                      IF k = key THEN value ELSE room.items[k]]
  <2>5. /\ DOMAIN items = DOMAIN room.items \cup {key} /\ items[key] = value
        /\ \A k \in DOMAIN room.items : k # key => items[k] = room.items[k]
    OBVIOUS
  <2>6. key \notin DOMAIN room.items
    BY <1>1, <2>3
  <2> HIDE DEF items
  <2>7. room.order \in Seq(StreamKeys) /\ IsInjective(room.order)
        /\ Range(room.order) = DOMAIN room.items
        /\ (\A k \in DOMAIN room.items : room.items[k] \in Items)
        /\ room.cells = Cardinality(Occupied(room.items))
    BY <2>3 DEF StoreLists
  <2>8. Append(room.order, key) \in Seq(StreamKeys) /\ IsInjective(Append(room.order, key))
        /\ Range(Append(room.order, key)) = DOMAIN items
    BY <2>5, <2>6, <2>7, AppendedKey
  <2>9. \A k \in DOMAIN items : items[k] \in Items
    BY <2>5, <2>7
  <2>10. IsFiniteSet(DOMAIN items) /\ Cardinality(DOMAIN items) = Cardinality(DOMAIN room.items) + 1
         /\ Cardinality(DOMAIN room.items) \in Nat
    BY <2>3, StoreTypes, <2>6, FS_AddElement, FS_CardinalityType, <2>5
  <2>11. Cardinality(Occupied(items)) = room.cells + size
    <3> DEFINE out == Restrict(items, {key})
               old == Restrict(items, DOMAIN items \ {key})
    <3>1. DOMAIN items \ {key} = DOMAIN room.items
      BY <2>5, <2>6
    <3>2. Occupied(old) = Occupied(room.items)
      <4>1. DOMAIN old = DOMAIN room.items /\ \A k \in DOMAIN old : old[k] = room.items[k]
        BY <2>5, <2>6, <3>1 DEF Restrict
      <4> HIDE DEF old
      <4>2. ASSUME NEW p PROVE p \in Occupied(old) <=> p \in Occupied(room.items)
        BY <4>1, InOccupied
      <4> QED BY <4>2
    <3>3. Cardinality(Occupied(out)) = size
      <4>1. DOMAIN out = {key} /\ out[key] = value
        BY <2>5 DEF Restrict
      <4> HIDE DEF out
      <4> QED BY <4>1, OccupiedByOne DEF size
    <3>4. {key} \in SUBSET (DOMAIN items)
      BY <2>5
    <3>5. Cardinality(Occupied(old)) \in Nat /\ Cardinality(Occupied(out)) \in Nat
          /\ Cardinality(Occupied(items)) = Cardinality(Occupied(old)) + Cardinality(Occupied(out))
      BY <2>9, <2>10, <3>4, SplitOccupied
    <3> QED BY <2>7, <3>2, <3>3, <3>5
  <2>12. new.items = items /\ new.order = Append(room.order, key) /\ new.cells = room.cells + size
         /\ new = [items |-> new.items, order |-> new.order, cells |-> new.cells]
    BY <2>1 DEF items
  <2>13. StoreLists(new)
    BY <2>8, <2>9, <2>11, <2>12 DEF StoreLists
  <2>14. StoreLimits(new)
    BY <2>3, <2>10, StreamsAssumption, <2>12 DEF HasRoom, StoreLimits
  <2>15. DOMAIN items \subseteq DOMAIN c.items \cup {key}
    BY <1>1, <2>3, <2>5
  <2>16. \A k \in DOMAIN items : k # key => items[k] = c.items[k]
    BY <1>1, <2>3, <2>4, <2>5
  <2> QED BY <2>5, <2>12, <2>13, <2>14, <2>15, <2>16 DEF new
<1> QED BY <1>4, <1>5

----------------------------------------------------------------------------
(* What CfbReader reads of a container.                                    *)

\* A sector has two cells.
LEMMA HalfOf ==
  ASSUME NEW n \in Nat, NEW i \in 1 .. 2 * n
  PROVE  /\ (i + 1) \div 2 \in 1 .. n /\ 2 - (i % 2) \in {1, 2}
         /\ i = 2 * ((i + 1) \div 2) - 2 + (2 - (i % 2))
OBVIOUS

\* What a cell is.
LEMMA CellIn ==
  ASSUME NEW v \in DOMAIN Containers, NEW s \in Nat, NEW h \in {1, 2}
  PROVE  <<Containers[v].version, s, h>> \in CellSet
BY DEF CellSet

\* The cells of a chain of sectors are different ones.
LEMMA CellsOfSectors ==
  ASSUME NEW v \in DOMAIN Containers, NEW chain \in Seq(Nat), IsInjective(chain)
  PROVE  /\ CellsIn(Containers[v], chain) \in Seq(CellSet)
         /\ IsInjective(CellsIn(Containers[v], chain))
<1> DEFINE n == Len(chain)
           version == Containers[v].version
           cells == CellsIn(Containers[v], chain)
           sector(i) == chain[(i + 1) \div 2]
           half(i) == 2 - (i % 2)
<1>1. n \in Nat /\ DOMAIN chain = 1 .. n /\ \A k \in 1 .. n : chain[k] \in Nat
  OBVIOUS
<1>2. cells = [i \in 1 .. 2 * n |-> <<version, sector(i), half(i)>>]
  BY DEF CellsIn
<1>3. ASSUME NEW i \in 1 .. 2 * n
      PROVE  /\ (i + 1) \div 2 \in 1 .. n /\ half(i) \in {1, 2}
             /\ i = 2 * ((i + 1) \div 2) - 2 + half(i)
  BY <1>1, HalfOf
<1> HIDE DEF half
<1>4. ASSUME NEW i \in 1 .. 2 * n PROVE sector(i) \in Nat
  <2>1. (i + 1) \div 2 \in 1 .. n
    BY <1>3
  <2> QED BY <1>1, <2>1
<1>5. ASSUME NEW i \in 1 .. 2 * n, NEW j \in 1 .. 2 * n, sector(i) = sector(j), half(i) = half(j)
      PROVE  i = j
  <2> DEFINE a == (i + 1) \div 2
             b == (j + 1) \div 2
  <2>1. a \in 1 .. n /\ b \in 1 .. n /\ chain[a] = chain[b]
    BY <1>3, <1>5
  <2>2. i = 2 * a - 2 + half(i) /\ j = 2 * b - 2 + half(j)
    BY <1>3
  <2> HIDE DEF a, b
  <2>3. a = b
    BY <1>1, <2>1 DEF IsInjective
  <2> QED BY <1>5, <2>2, <2>3
<1> HIDE DEF cells, sector, n, version
<1>6. \A i \in 1 .. 2 * n : cells[i] = <<version, sector(i), half(i)>>
  BY <1>2
<1>7. DOMAIN cells = 1 .. 2 * n
  BY <1>2
<1>8. \A i \in 1 .. 2 * n : cells[i] \in CellSet
  <2> TAKE i \in 1 .. 2 * n
  <2>1. sector(i) \in Nat /\ half(i) \in {1, 2}
    BY <1>3, <1>4
  <2>2. cells[i] = <<Containers[v].version, sector(i), half(i)>>
    BY <1>6 DEF version
  <2> QED BY <2>1, <2>2, CellIn
<1>9. cells \in Seq(CellSet)
  <2>1. cells \in [1 .. 2 * n -> CellSet] /\ 2 * n \in Nat
    BY <1>1, <1>2, <1>7, <1>8
  <2> QED BY <2>1, SeqDef
<1>10. IsInjective(cells)
  <2> SUFFICES ASSUME NEW i \in 1 .. 2 * n, NEW j \in 1 .. 2 * n, cells[i] = cells[j]
               PROVE  i = j
    BY <1>7 DEF IsInjective
  <2>1. sector(i) = sector(j) /\ half(i) = half(j)
    BY <1>6
  <2> QED BY <1>5, <2>1
<1> QED BY <1>9, <1>10 DEF cells

\* A chain of sectors is one of numbers.
LEMMA ChainOfSectors ==
  ASSUME NEW c, c.last \in Nat, NEW fat, NEW start, NEW most \in Nat
  PROVE  Chain(c, fat, start, most) \in Seq(Nat) /\ IsInjective(Chain(c, fat, start, most))
<1> DEFINE chain == Follow(fat, start, Sectors(c), most)
<1>1. chain \in Seq(Sectors(c)) /\ IsInjective(chain)
  BY Followed
<1>2. Sectors(c) \subseteq Nat
  BY DEF Sectors
<1>3. Chain(c, fat, start, most) = chain
  BY DEF Chain
<1> HIDE DEF chain
<1>4. chain \in Seq(Nat)
  BY <1>1, <1>2
<1> QED BY <1>1, <1>3, <1>4

\* The directory and the tables have the types their readers rely on.
LEMMA EntriesTyped ==
  ASSUME NEW v \in DOMAIN Containers, NEW fat
  PROVE  Entries(Containers[v], fat) \in Seq(Entry)
<1> DEFINE c == Containers[v]
           chain == Chain(c, fat, c.dirStart, c.last + 1)
           parts == [i \in DOMAIN chain |->
                       IF chain[i] \in DOMAIN c.dirs THEN c.dirs[chain[i]]
                       ELSE <<EmptyEntry, EmptyEntry>>]
<1>1. c.last \in Nat /\ \A s \in DOMAIN c.dirs : c.dirs[s] \in Seq(Entry)
  BY StreamsAssumption
<1>2. EmptyEntry \in Entry
  <2> DEFINE types == {None, "stream", "storage", "root"}
             places == Int \cup {None}
             names == STRING \cup {""}
  <2>1. None \in types /\ None \in places /\ "" \in names /\ 0 \in Nat
    OBVIOUS
  <2>2. EmptyEntry = [name |-> "", typ |-> None, left |-> None, right |-> None, child |-> None,
                      start |-> None, size |-> 0]
    BY DEF EmptyEntry
  <2>3. Entry = [name : names, typ : types, left : places, right : places, child : places,
                 start : places, size : Nat]
    BY DEF Entry
  <2> HIDE DEF types, places, names
  <2> QED BY <2>1, <2>2, <2>3
<1>3. <<EmptyEntry, EmptyEntry>> \in Seq(Entry)
  BY <1>2
<1>4. chain \in Seq(Nat)
  <2>1. c.last + 1 \in Nat
    BY <1>1
  <2> HIDE DEF c
  <2> QED BY <1>1, <2>1, ChainOfSectors
<1>5. parts \in Seq(Seq(Entry))
  <2>1. DOMAIN chain = 1 .. Len(chain) /\ Len(chain) \in Nat
    BY <1>4
  <2> HIDE DEF chain
  <2>2. \A i \in DOMAIN chain : parts[i] \in Seq(Entry)
    BY <1>1, <1>3
  <2>3. parts \in [1 .. Len(chain) -> Seq(Entry)]
    BY <2>1, <2>2
  <2> QED BY <2>1, <2>3, SeqDef
<1>6. Entries(c, fat) = FlattenSeq(parts)
  BY DEF Entries
<1> HIDE DEF parts
<1> QED BY <1>5, <1>6, Flattened

\* The mini table has finitely many positions.
LEMMA MinisTyped ==
  ASSUME NEW v \in DOMAIN Containers, NEW fat
  PROVE  /\ IsFiniteSet(DOMAIN MiniFat(Containers[v], fat))
         /\ DOMAIN MiniFat(Containers[v], fat) \subseteq Nat
<1> DEFINE c == Containers[v]
           sectors == Chain(c, fat, c.miniStart, c.numMini)
           parts == [i \in DOMAIN sectors |->
                       IF sectors[i] \in DOMAIN c.minis THEN c.minis[sectors[i]] ELSE <<>>]
<1>1. c.last \in Nat /\ c.numMini \in Nat
      /\ \A s \in DOMAIN c.minis : c.minis[s] \in Seq(Int \cup {None})
  BY StreamsAssumption
<1>2. sectors \in Seq(Nat)
  <2> HIDE DEF c
  <2> QED BY <1>1, ChainOfSectors
<1>3. parts \in Seq(Seq(Int \cup {None}))
  <2>1. DOMAIN sectors = 1 .. Len(sectors) /\ Len(sectors) \in Nat
    BY <1>2
  <2>2. <<>> \in Seq(Int \cup {None})
    OBVIOUS
  <2> HIDE DEF sectors
  <2>3. \A i \in DOMAIN sectors : parts[i] \in Seq(Int \cup {None})
    BY <1>1, <2>2
  <2>4. parts \in [1 .. Len(sectors) -> Seq(Int \cup {None})]
    BY <2>1, <2>3
  <2> QED BY <2>1, <2>4, SeqDef
<1> DEFINE all == FlattenSeq(parts)
<1>4. MiniFat(c, fat) = [s \in 0 .. (Len(all) - 1) |-> all[s + 1]]
  BY DEF MiniFat, Numbered
<1> HIDE DEF parts
<1>5. all \in Seq(Int \cup {None})
  BY <1>3, Flattened
<1> HIDE DEF all
<1>6. Len(all) - 1 \in Int /\ DOMAIN MiniFat(c, fat) = 0 .. (Len(all) - 1)
  BY <1>4, <1>5
<1>7. IsFiniteSet(0 .. (Len(all) - 1))
  BY <1>6, FS_Interval
<1> QED BY <1>6, <1>7

\* The mini stream: every cell once.
LEMMA MiniStreamTyped ==
  ASSUME NEW v \in DOMAIN Containers, NEW fat, NEW entries \in Seq(Entry)
  PROVE  /\ MiniStream(Containers[v], fat, entries) \in Seq(CellSet)
         /\ IsInjective(MiniStream(Containers[v], fat, entries))
<1> DEFINE c == Containers[v]
           chain == Chain(c, fat, entries[1].start, c.last + 1)
           cells == CellsIn(c, chain)
<1>1. c.last \in Nat /\ c.last + 1 \in Nat
  BY StreamsAssumption
<1>2. chain \in Seq(Nat) /\ IsInjective(chain)
  <2> HIDE DEF c
  <2> QED BY <1>1, ChainOfSectors
<1>3. cells \in Seq(CellSet) /\ IsInjective(cells)
  <2> HIDE DEF chain
  <2> QED BY <1>2, CellsOfSectors
<1>4. CASE entries = <<>>
  BY <1>4 DEF MiniStream, IsInjective
<1>5. CASE entries # <<>>
  <2>1. entries[1].size \in Nat
    <3>1. entries[1] \in Entry
      BY <1>5
    <3> QED BY <3>1 DEF Entry
  <2>2. MiniStream(c, fat, entries) = Cut(cells, entries[1].size)
    BY <1>5 DEF MiniStream
  <2> HIDE DEF cells
  <2> QED BY <1>3, <2>1, <2>2, CutShort
<1> QED BY <1>4, <1>5

\* A reader, and what it reads: no cell twice.
LEMMA OpenedTyped ==
  ASSUME NEW v \in DOMAIN Containers
  PROVE  /\ Opened(v).version = v /\ Opened(v).entries \in Seq(Entry)
         /\ IsFiniteSet(DOMAIN Opened(v).minis)
         /\ Opened(v).root \in Seq(CellSet) /\ IsInjective(Opened(v).root)
         /\ DOMAIN Opened(v).minis \subseteq Nat
<1> DEFINE c == Containers[v]
           fat == Fat(c)
           entries == Entries(c, fat)
<1>1. Opened(v) = [version |-> v, fat |-> fat, entries |-> entries, minis |-> MiniFat(c, fat),
                   root |-> MiniStream(c, fat, entries)]
  BY DEF Opened
<1>2. entries \in Seq(Entry)
  <2> HIDE DEF fat
  <2> QED BY EntriesTyped
<1>3. IsFiniteSet(DOMAIN MiniFat(c, fat)) /\ DOMAIN MiniFat(c, fat) \subseteq Nat
  <2> HIDE DEF fat
  <2> QED BY MinisTyped
<1>4. MiniStream(c, fat, entries) \in Seq(CellSet) /\ IsInjective(MiniStream(c, fat, entries))
  <2> HIDE DEF fat, entries
  <2> QED BY <1>2, MiniStreamTyped
<1> HIDE DEF c, fat, entries
<1> QED BY <1>1, <1>2, <1>3, <1>4

\* read_stream_entry returns no cell twice, whatever the tables say.
LEMMA StreamCellsTyped ==
  ASSUME NEW v \in DOMAIN Containers, NEW entry \in Entry
  PROVE  /\ StreamCells(Opened(v), entry) \in Seq(CellSet)
         /\ IsInjective(StreamCells(Opened(v), entry))
<1> DEFINE reader == Opened(v)
           c == Containers[v]
           most == Cardinality(DOMAIN reader.minis)
           small == Follow(reader.minis, entry.start, DOMAIN reader.minis, most)
           parts == [i \in DOMAIN small |->
                       IF small[i] < Len(reader.root) THEN <<reader.root[small[i] + 1]>> ELSE <<>>]
           large == CellsIn(c, Chain(c, reader.fat, entry.start, c.last + 1))
           cells == IF entry.size < c.cutoff /\ reader.root # <<>> THEN FlattenSeq(parts) ELSE large
<1>1. /\ reader.version = v /\ IsFiniteSet(DOMAIN reader.minis)
      /\ reader.root \in Seq(CellSet) /\ IsInjective(reader.root)
      /\ DOMAIN reader.minis \subseteq Nat
  BY OpenedTyped
<1>2. StreamCells(reader, entry) = Cut(cells, entry.size) /\ entry.size \in Nat
  BY <1>1 DEF StreamCells, Entry
<1> HIDE DEF reader
<1>3. most \in Nat
  BY <1>1, FS_CardinalityType
<1>4. small \in Seq(Nat) /\ IsInjective(small)
  <2> HIDE DEF most
  <2>1. small \in Seq(DOMAIN reader.minis) /\ IsInjective(small)
    BY <1>3, Followed
  <2> HIDE DEF small
  <2> QED BY <1>1, <2>1
<1>5. Len(small) \in Nat /\ DOMAIN small = 1 .. Len(small)
      /\ \A i \in 1 .. Len(small) : small[i] \in Nat
  BY <1>4
<1> HIDE DEF small, most
<1>6. Len(reader.root) \in Nat /\ DOMAIN reader.root = 1 .. Len(reader.root)
  BY <1>1
<1>7. ASSUME NEW i \in 1 .. Len(small), small[i] < Len(reader.root)
      PROVE  /\ small[i] + 1 \in 1 .. Len(reader.root)
             /\ parts[i] = <<reader.root[small[i] + 1]>>
             /\ parts[i] \in Seq(CellSet) /\ Len(parts[i]) = 1
  BY <1>5, <1>6, <1>7, <1>1
<1>8. ASSUME NEW i \in 1 .. Len(small), ~(small[i] < Len(reader.root)) PROVE parts[i] = <<>>
  BY <1>5, <1>8
<1>9. DOMAIN parts = 1 .. Len(small)
  BY <1>5
<1>10. <<>> \in Seq(CellSet)
  OBVIOUS
<1>11. parts = [i \in 1 .. Len(small) |-> parts[i]]
  BY <1>5
<1> HIDE DEF parts
<1>12. \A i \in 1 .. Len(small) : parts[i] \in Seq(CellSet)
  BY <1>7, <1>8, <1>10
<1>13. parts \in Seq(Seq(CellSet)) /\ Len(parts) = Len(small)
  BY <1>11, <1>12, <1>5, SeqDef, <1>9
<1>14. \A i \in 1 .. Len(parts) : parts[i] = <<>> \/ Len(parts[i]) = 1
  BY <1>7, <1>8, <1>13
<1>15. ASSUME NEW i \in 1 .. Len(parts), NEW j \in 1 .. Len(parts), i # j,
              parts[i] # <<>>, parts[j] # <<>>
       PROVE  parts[i][1] # parts[j][1]
  <2>1. i \in 1 .. Len(small) /\ j \in 1 .. Len(small)
    BY <1>13
  <2>2. small[i] < Len(reader.root) /\ small[j] < Len(reader.root)
    BY <1>8, <1>15, <2>1
  <2>3. /\ small[i] + 1 \in 1 .. Len(reader.root) /\ small[j] + 1 \in 1 .. Len(reader.root)
        /\ parts[i][1] = reader.root[small[i] + 1] /\ parts[j][1] = reader.root[small[j] + 1]
    BY <1>7, <2>1, <2>2
  <2>4. small[i] # small[j]
    BY <1>4, <1>5, <1>15, <2>1 DEF IsInjective
  <2>5. small[i] + 1 # small[j] + 1
    BY <1>5, <2>1, <2>4
  <2> QED BY <1>1, <1>6, <2>3, <2>5 DEF IsInjective
<1>16. FlattenSeq(parts) \in Seq(CellSet)
  BY <1>13, Flattened
<1>17. IsInjective(FlattenSeq(parts))
  BY <1>13, <1>14, <1>15, FlattenedSingles
<1>18. large \in Seq(CellSet) /\ IsInjective(large)
  <2> DEFINE chain == Chain(c, reader.fat, entry.start, c.last + 1)
  <2>1. c.last \in Nat /\ c.last + 1 \in Nat
    BY StreamsAssumption
  <2>2. chain \in Seq(Nat) /\ IsInjective(chain)
    <3> HIDE DEF c
    <3> QED BY <2>1, ChainOfSectors
  <2> HIDE DEF chain
  <2> QED BY <2>2, CellsOfSectors DEF chain
<1> HIDE DEF large
<1>19. cells \in Seq(CellSet) /\ IsInjective(cells)
  BY <1>16, <1>17, <1>18
<1> HIDE DEF cells
<1>20. Cut(cells, entry.size) \in Seq(CellSet) /\ IsInjective(Cut(cells, entry.size))
  BY <1>2, <1>19, CutShort
<1> QED BY <1>2, <1>20 DEF reader

----------------------------------------------------------------------------
(* Where a stream is written.                                              *)

\* The path without a number.
BasePath(path, prefixes) ==
  IF Safe(path) \in prefixes THEN Append(Safe(path), "__stream") ELSE Safe(path)

\* unique_output_path finds a name that is not taken, and has a reason for
\* a number.
LEMMA OutputFree ==
  ASSUME IsFiniteSet(DOMAIN disk), NEW path, NEW prefixes
  PROVE  LET place == OutputPath(path, prefixes)
         IN  /\ place = <<BasePath(path, prefixes), place[2]>> /\ place[2] \in Nat
             /\ ~FileExists(place)
             /\ place[2] # 0 => FileExists(<<BasePath(path, prefixes), 0>>)
<1> DEFINE base == BasePath(path, prefixes)
           most == Cardinality(DOMAIN disk) + 1
           free == {n \in 0 .. most : ~FileExists(<<base, n>>)}
           place == OutputPath(path, prefixes)
<1>1. place = <<base, Min(free)>>
  BY DEF OutputPath, BasePath
<1>2. Cardinality(DOMAIN disk) \in Nat /\ most \in Nat
  BY FS_CardinalityType
<1> HIDE DEF base
<1>3. free # {}
  <2> SUFFICES ASSUME \A n \in 0 .. most : FileExists(<<base, n>>) PROVE FALSE
    OBVIOUS
  <2> DEFINE name == [n \in 1 .. most |-> <<base, n>>]
             names == {<<base, n>> : n \in 1 .. most}
  <2>1. \A n \in 1 .. most : <<base, n>> \in DOMAIN disk
    <3> TAKE n \in 1 .. most
    <3>1. n \in 0 .. most /\ n # 0
      BY <1>2
    <3>2. FileExists(<<base, n>>)
      BY <3>1
    <3> QED BY <3>1, <3>2 DEF FileExists
  <2>2. names \subseteq DOMAIN disk
    BY <2>1
  <2>3. name \in Bijection(1 .. most, names)
    BY DEF Bijection, Injection, Surjection, IsInjective
  <2>4. IsFiniteSet(1 .. most) /\ Cardinality(1 .. most) = most
    BY <1>2, FS_Interval
  <2> HIDE DEF name, names, most
  <2>5. Cardinality(names) = most
    BY <2>3, <2>4, FS_Bijection DEF ExistsBijection
  <2>6. Cardinality(names) <= Cardinality(DOMAIN disk)
    BY <2>2, FS_Subset
  <2> QED BY <1>2, <2>5, <2>6 DEF most
<1>4. Min(free) \in free /\ \A n \in free : Min(free) <= n
  <2>1. free \in SUBSET Nat
    BY <1>2
  <2> HIDE DEF free
  <2> QED BY <1>3, <2>1, LeastOf
<1> DEFINE least == Min(free)
<1>5. least \in 0 .. most /\ ~FileExists(<<base, least>>)
  BY <1>4
<1>6. least # 0 => FileExists(<<base, 0>>)
  <2> SUFFICES ASSUME least # 0, ~FileExists(<<base, 0>>) PROVE FALSE
    OBVIOUS
  <2>1. 0 \in 0 .. most
    BY <1>2
  <2>2. 0 \in free
    BY <2>1
  <2>3. least <= 0
    BY <1>4, <2>2
  <2> QED BY <1>2, <1>5, <2>3
<1> HIDE DEF least
<1>7. place = <<base, least>> /\ least \in Nat
  BY <1>1, <1>2, <1>5 DEF least
<1> HIDE DEF place
<1>8. place[2] = least
  BY <1>7
<1> QED BY <1>5, <1>6, <1>7, <1>8 DEF place, base

\* The folders that a file is in are folders of the streams.
LEMMA FoldersOfStreams ==
  ASSUME NEW streams \in Seq(Seq(STRING) \X Int), NEW i \in DOMAIN streams,
         NEW n \in 1 .. Len(BasePath(streams[i][1], FolderNames(streams))) - 1
  PROVE  SubSeq(BasePath(streams[i][1], FolderNames(streams)), 1, n) \in FolderNames(streams)
<1> DEFINE path == streams[i][1]
           safe == Safe(path)
           folders == FolderNames(streams)
           base == BasePath(path, folders)
<1>1. streams[i] \in Seq(STRING) \X Int
  OBVIOUS
<1>2. path \in Seq(STRING) /\ DOMAIN path = 1 .. Len(path) /\ Len(path) \in Nat
  BY <1>1
<1>3. safe = [k \in DOMAIN path |-> SafePart(path[k])]
  BY DEF Safe
<1> DEFINE Parts == {SafePart(s) : s \in STRING} \cup {"__stream"}
<1>4. safe \in Seq(Parts) /\ Len(safe) = Len(path)
  <2>1. \A k \in DOMAIN path : SafePart(path[k]) \in Parts
    BY <1>2
  <2> HIDE DEF Parts
  <2>2. safe \in [1 .. Len(path) -> Parts]
    BY <1>2, <1>3, <2>1
  <2> HIDE DEF safe
  <2>3. safe \in Seq(Parts)
    <3>1. PICK m \in Nat : safe \in [1 .. m -> Parts]
      BY <1>2, <2>2
    <3> HIDE DEF path
    <3> QED BY <3>1, SeqDef
  <2> QED BY <1>2, <2>2, <2>3
<1>5. \A k \in 1 .. Len(path) - 1 : SubSeq(safe, 1, k) \in folders
  BY DEF FolderNames
<1>6. "__stream" \in Parts
  OBVIOUS
<1> HIDE DEF Parts, folders, safe
<1>7. CASE safe \notin folders
  BY <1>7, <1>4, <1>5 DEF BasePath, safe, folders
<1>8. CASE safe \in folders
  <2>1. base = Append(safe, "__stream")
    BY <1>8 DEF BasePath, safe
  <2>2. Len(base) = Len(path) + 1
    BY <1>4, <1>6, <2>1
  <2>3. n \in 1 .. Len(path)
    BY <1>2, <2>2 DEF folders
  <2>4. SubSeq(base, 1, n) = SubSeq(safe, 1, n)
    BY <1>2, <1>4, <1>6, <2>1, <2>3
  <2>5. CASE n = Len(path)
    <3>1. SubSeq(safe, 1, n) = safe
      BY <1>2, <1>4, <2>3, <2>5
    <3> QED BY <1>8, <2>4, <3>1 DEF folders
  <2>6. CASE n # Len(path)
    <3>1. n \in 1 .. Len(path) - 1
      BY <1>2, <2>3, <2>6
    <3> QED BY <1>5, <2>4, <3>1 DEF folders
  <2> QED BY <2>5, <2>6
<1> QED BY <1>7, <1>8

----------------------------------------------------------------------------
(* The invariant of a run of extract_cfb_step.                             *)

Limited(all) == IF StreamLimit = None THEN all ELSE Cut(all, StreamLimit)

Running == extract.pc \in {"next", "fill", "done"}

\* All streams of the container that the run reads, and what it writes for
\* one of them.
RunStreams == Streams(extract.held.entries)

CellsFor(stream) == StreamCells(extract.held, extract.held.entries[stream[2] + 1])

WrittenFiles ==
  {[stream |-> s, out |-> <<BasePath(s[1], extract.prefixes), n>>, cells |-> CellsFor(s)] :
     s \in Range(RunStreams), n \in Nat}

RunReads ==
  /\ \E v \in DOMAIN Containers : Containers[v].readable /\ extract.held = Opened(v)
  /\ extract.prefixes = FolderNames(RunStreams)

\* The streams are written one after the other.
RunInOrder ==
  /\ extract.files \in Seq(WrittenFiles) /\ extract.todo \in Seq(Range(RunStreams))
  /\ Len(extract.files) + Len(extract.todo) = Len(Limited(RunStreams))
  /\ \A i \in 1 .. Len(extract.files) : extract.files[i].stream = Limited(RunStreams)[i]
  /\ \A i \in 1 .. Len(extract.todo) :
       extract.todo[i] = Limited(RunStreams)[Len(extract.files) + i]
  /\ extract.pc = "done" => extract.todo = <<>>

\* Each has a file of its own, which holds it.
RunOnDisk ==
  /\ \A i \in 1 .. Len(extract.files) :
       /\ extract.files[i].out \in DOMAIN disk
       /\ disk[extract.files[i].out].cells = extract.files[i].cells
  /\ \A i, j \in 1 .. Len(extract.files) :
       i # j => extract.files[i].out # extract.files[j].out

RunFills ==
  extract.pc = "fill" =>
    /\ extract.todo # <<>> /\ extract.out \in DOMAIN disk
    /\ \E n \in Nat : extract.out = <<BasePath(extract.todo[1][1], extract.prefixes), n>>
    /\ \A i \in 1 .. Len(extract.files) : extract.files[i].out # extract.out

\* Where the directory was empty, there are only the files of the run, and
\* a number has its reason.
RunAlone ==
  extract.clean =>
    /\ DOMAIN disk = {extract.files[i].out : i \in 1 .. Len(extract.files)}
                       \cup (IF extract.pc = "fill" THEN {extract.out} ELSE {})
    /\ \A f \in DOMAIN disk :
         f[2] # 0 => f[1] \in extract.prefixes \/ \E g \in DOMAIN disk : g # f /\ g[1] = f[1]

RunSound == Running => RunReads /\ RunInOrder /\ RunOnDisk /\ RunFills /\ RunAlone

ExtractTyped ==
  /\ extract = [pc |-> extract.pc, clean |-> extract.clean, held |-> extract.held,
                todo |-> extract.todo, prefixes |-> extract.prefixes, out |-> extract.out,
                files |-> extract.files]
  /\ extract.pc \in {None, "clean", "next", "fill", "done", "failed"}
  /\ extract.pc = "clean" => extract.files = <<>>

DiskTyped ==
  /\ info \in DOMAIN Containers /\ clock \in Nat \ {0}
  /\ IsFiniteSet(DOMAIN disk)
  /\ \A f \in DOMAIN disk :
       disk[f].cells \in Seq(CellSet) /\ disk[f].stamp \in Nat /\ disk[f].stamp < clock

\* A stream of the run leads to an entry, and no cell is taken twice.
LEMMA RunStream ==
  ASSUME RunReads, NEW stream \in Range(RunStreams)
  PROVE  /\ stream \in Seq(STRING) \X Int
         /\ CellsFor(stream) \in Seq(CellSet) /\ IsInjective(CellsFor(stream))
         /\ RunStreams \in Seq(Seq(STRING) \X Int)
<1>1. PICK v \in DOMAIN Containers : Containers[v].readable /\ extract.held = Opened(v)
  BY DEF RunReads
<1> DEFINE entries == Opened(v).entries
<1>2. /\ Streams(entries) \in Seq(Seq(STRING) \X Int)
      /\ \A i \in DOMAIN Streams(entries) : Streams(entries)[i][2] \in 0 .. (Len(entries) - 1)
  BY <1>1, WalkAssumption
<1>3. RunStreams = Streams(entries)
  BY <1>1 DEF RunStreams
<1>4. entries \in Seq(Entry)
  BY OpenedTyped
<1>5. PICK i \in DOMAIN RunStreams : stream = RunStreams[i]
  BY DEF Range
<1> HIDE DEF entries
<1>6. stream \in Seq(STRING) \X Int /\ stream[2] \in 0 .. (Len(entries) - 1)
  BY <1>2, <1>3, <1>5
<1>7. entries[stream[2] + 1] \in Entry
  BY <1>4, <1>6
<1>8. CellsFor(stream) = StreamCells(Opened(v), entries[stream[2] + 1])
  BY <1>1 DEF CellsFor, entries
<1>9. CellsFor(stream) \in Seq(CellSet) /\ IsInjective(CellsFor(stream))
  BY <1>7, <1>8, StreamCellsTyped
<1> QED BY <1>2, <1>3, <1>6, <1>9

\* --cfb-stream-limit takes the first of them.
LEMMA LimitedStreams ==
  ASSUME NEW S, NEW all \in Seq(S)
  PROVE  /\ Limited(all) \in Seq(S)
         /\ \A i \in 1 .. Len(Limited(all)) : i \in 1 .. Len(all) /\ Limited(all)[i] = all[i]
<1>1. CASE StreamLimit = None
  BY <1>1 DEF Limited
<1>2. CASE StreamLimit # None
  <2>1. StreamLimit \in Nat /\ Limited(all) = Cut(all, StreamLimit)
    BY <1>2, StreamsAssumption DEF Limited
  <2> QED BY <2>1, CutShort
<1> QED BY <1>1, <1>2

\* CfbReader::open starts the run with nothing written.
LEMMA OpenStep ==
  ASSUME DiskTyped, ExtractTyped, OpenContainer
  PROVE  ExtractTyped' /\ RunSound'
<1>1. extract.pc = "clean" /\ Cleaned /\ disk' = disk /\ extract.files = <<>>
  BY DEF OpenContainer, ExtractTyped
<1>2. CASE ~Containers[info].readable
  BY <1>2 DEF OpenContainer, ExtractIs, ExtractTyped, Running, RunSound
<1>3. CASE Containers[info].readable
  <2> DEFINE opened == Opened(info)
             all == Streams(opened.entries)
             folders == FolderNames(all)
             todo == Limited(all)
  <2>1. extract' = [extract EXCEPT !.pc = "next", !.held = opened, !.prefixes = folders,
                                   !.todo = todo]
    BY <1>3 DEF OpenContainer, ExtractIs, Limited
  <2>2. info \in DOMAIN Containers /\ all \in Seq(Seq(STRING) \X Int)
    BY <1>3, WalkAssumption DEF DiskTyped
  <2> HIDE DEF opened, all, folders, todo
  <2>3. extract' = [pc |-> "next", clean |-> extract.clean, held |-> opened, todo |-> todo,
                    prefixes |-> folders, out |-> extract.out, files |-> <<>>]
    BY <1>1, <2>1 DEF ExtractTyped
  <2>4. /\ extract'.pc = "next" /\ extract'.held = opened /\ extract'.todo = todo
        /\ extract'.prefixes = folders /\ extract'.files = <<>>
        /\ extract'.clean = extract.clean /\ extract'.out = extract.out
    BY <2>3
  <2>5. ExtractTyped'
    BY <2>3, <2>4 DEF ExtractTyped
  <2>6. RunStreams' = all
    BY <2>4 DEF RunStreams, all
  <2>7. RunReads'
    BY <1>3, <2>2, <2>4, <2>6 DEF RunReads, opened, folders
  <2>8. RunInOrder'
    <3>1. Len(<<>>) = 0 /\ <<>> \in Seq(WrittenFiles')
      OBVIOUS
    <3>2. all \in Seq(Range(all))
      BY <2>2 DEF Range
    <3>3. todo \in Seq(Range(all))
      BY <3>2, LimitedStreams DEF todo
    <3>4. Len(todo) \in Nat
      BY <3>3
    <3>5. /\ extract'.files \in Seq(WrittenFiles') /\ extract'.todo \in Seq(Range(RunStreams'))
          /\ Len(extract'.files) = 0
      BY <2>4, <2>6, <3>1, <3>3
    <3>6. Limited(RunStreams)' = todo
      BY <2>6 DEF todo, Limited
    <3>7. \A i \in 1 .. Len(todo) : 0 + i = i
      BY <3>4
    <3>8. 0 + Len(todo) = Len(todo) /\ 1 .. 0 = {}
      BY <3>4
    <3> HIDE DEF todo
    <3> QED BY <2>4, <3>5, <3>6, <3>7, <3>8 DEF RunInOrder
  <2>9. \A i \in 1 .. Len(extract'.files) : FALSE
    BY <2>4
  <2>10. RunOnDisk'
    BY <2>9 DEF RunOnDisk
  <2>11. RunFills'
    BY <2>4 DEF RunFills
  <2>12. RunAlone'
    <3> SUFFICES ASSUME extract'.clean PROVE RunAlone'
      BY DEF RunAlone
    <3>1. disk' = <<>>
      BY <1>1, <2>4 DEF Cleaned
    <3>2. DOMAIN disk' = {}
      BY <3>1
    <3>3. {extract'.files[i].out : i \in 1 .. Len(extract'.files)} = {}
      BY <2>9
    <3> QED BY <2>4, <3>2, <3>3 DEF RunAlone
  <2> QED BY <2>5, <2>7, <2>8, <2>10, <2>11, <2>12 DEF RunSound
<1> QED BY <1>2, <1>3

\* What the other operations on a run keep.
LEMMA CreateStep ==
  ASSUME DiskTyped, ExtractTyped, RunSound, CreateFile
  PROVE  ExtractTyped' /\ RunSound'
<1> DEFINE path == Head(extract.todo)[1]
           place == OutputPath(path, extract.prefixes)
<1>1. extract.pc = "next" /\ extract.todo # <<>>
  BY DEF CreateFile
<1>2. RunReads /\ RunInOrder /\ RunOnDisk /\ RunFills /\ RunAlone
  BY <1>1 DEF RunSound, Running
<1>3. CASE FolderBlocked(place)
  BY <1>3 DEF CreateFile, ExtractIs, ExtractTyped, Running, RunSound
<1>4. CASE ~FolderBlocked(place)
  <2>1. /\ extract' = [extract EXCEPT !.pc = "fill", !.out = place]
        /\ disk' = [f \in DOMAIN disk \cup {place} |->
                      IF f = place THEN [cells |-> <<>>, stamp |-> clock] ELSE disk[f]]
    BY <1>4 DEF CreateFile, ExtractIs, Touch
  <2>2. /\ place = <<BasePath(path, extract.prefixes), place[2]>> /\ place[2] \in Nat
        /\ ~FileExists(place)
        /\ place[2] # 0 => FileExists(<<BasePath(path, extract.prefixes), 0>>)
    <3>1. IsFiniteSet(DOMAIN disk)
      BY DEF DiskTyped
    <3> HIDE DEF path
    <3> QED BY <3>1, OutputFree
  <2>3. extract.todo \in Seq(Range(RunStreams)) /\ path = extract.todo[1][1]
        /\ extract.todo[1] \in Range(RunStreams)
    BY <1>1, <1>2 DEF RunInOrder
  <2> DEFINE base == BasePath(path, extract.prefixes)
  <2> HIDE DEF place
  <2>4. extract' = [pc |-> "fill", clean |-> extract.clean, held |-> extract.held,
                    todo |-> extract.todo, prefixes |-> extract.prefixes, out |-> place,
                    files |-> extract.files]
    BY <2>1 DEF ExtractTyped
  <2>5. /\ extract'.pc = "fill" /\ extract'.held = extract.held /\ extract'.todo = extract.todo
        /\ extract'.prefixes = extract.prefixes /\ extract'.files = extract.files
        /\ extract'.clean = extract.clean /\ extract'.out = place
    BY <2>4
  <2>6. ExtractTyped'
    BY <2>4, <2>5 DEF ExtractTyped
  <2>7. RunStreams' = RunStreams /\ WrittenFiles' = WrittenFiles
    BY <2>5 DEF RunStreams, WrittenFiles, CellsFor
  <2>8. RunReads'
    BY <1>2, <2>5, <2>7 DEF RunReads
  <2>9. RunInOrder'
    BY <1>1, <1>2, <2>5, <2>7 DEF RunInOrder, Limited
  <2>10. /\ DOMAIN disk' = DOMAIN disk \cup {place} /\ place \notin DOMAIN disk
         /\ \A f \in DOMAIN disk : disk'[f] = disk[f]
    <3>1. place \notin DOMAIN disk
      BY <2>2 DEF FileExists
    <3> QED BY <2>1, <3>1
  <2>11. RunOnDisk'
    BY <1>2, <2>5, <2>10 DEF RunOnDisk
  <2>12. RunFills'
    BY <1>2, <2>10, <2>2, <2>3, <1>1, <2>5 DEF RunOnDisk, RunFills
  <2>13. RunAlone'
    <3> SUFFICES ASSUME extract.clean
                 PROVE  /\ DOMAIN disk' = {extract.files[i].out : i \in 1 .. Len(extract.files)}
                                            \cup {place}
                        /\ \A f \in DOMAIN disk' :
                             f[2] # 0 => f[1] \in extract.prefixes
                                           \/ \E g \in DOMAIN disk' : g # f /\ g[1] = f[1]
      BY <2>5 DEF RunAlone
    <3>1. DOMAIN disk = {extract.files[i].out : i \in 1 .. Len(extract.files)}
      BY <1>1, <1>2 DEF RunAlone
    <3>2. \A f \in DOMAIN disk :
             f[2] # 0 => f[1] \in extract.prefixes \/ \E g \in DOMAIN disk : g # f /\ g[1] = f[1]
      BY <1>2 DEF RunAlone
    <3>3. ASSUME place[2] # 0
          PROVE  base \in extract.prefixes \/ \E g \in DOMAIN disk : g # place /\ g[1] = base
      <4>1. FileExists(<<base, 0>>)
        BY <2>2, <3>3
      <4> HIDE DEF base
      <4>2. CASE <<base, 0>> \in DOMAIN disk
        BY <3>3, <4>2
      <4>3. CASE base \in Folders
        <5>1. PICK f \in DOMAIN disk : \E n \in 1 .. (Len(f[1]) - 1) : base = SubSeq(f[1], 1, n)
          BY <4>3 DEF Folders
        <5>2. PICK i \in 1 .. Len(extract.files) : f = extract.files[i].out
          BY <3>1, <5>1
        <5>3. extract.files[i] \in WrittenFiles
          BY <1>2, <5>2 DEF RunInOrder
        <5>4. PICK s \in Range(RunStreams) : f[1] = BasePath(s[1], extract.prefixes)
          BY <5>2, <5>3 DEF WrittenFiles
        <5>5. PICK j \in DOMAIN RunStreams : s = RunStreams[j]
          BY <5>4 DEF Range
        <5>6. RunStreams \in Seq(Seq(STRING) \X Int)
          BY <1>2, <5>4, RunStream
        <5>7. extract.prefixes = FolderNames(RunStreams)
          BY <1>2 DEF RunReads
        <5>8. base \in FolderNames(RunStreams)
          BY <5>1, <5>4, <5>5, <5>6, <5>7, FoldersOfStreams
        <5> QED BY <5>7, <5>8
      <4> QED BY <4>1, <4>2, <4>3 DEF FileExists
    <3>4. place[1] = base
      BY <2>2
    <3> HIDE DEF base
    <3>5. ASSUME NEW f \in DOMAIN disk', f[2] # 0
          PROVE  f[1] \in extract.prefixes \/ \E g \in DOMAIN disk' : g # f /\ g[1] = f[1]
      <4>1. CASE f = place
        BY <2>10, <3>3, <3>4, <3>5, <4>1
      <4>2. CASE f # place
        BY <2>10, <3>2, <3>5, <4>2
      <4> QED BY <4>1, <4>2
    <3> QED BY <2>10, <3>1, <3>5
  <2> QED BY <2>6, <2>8, <2>9, <2>11, <2>12, <2>13 DEF RunSound
<1> QED BY <1>3, <1>4

\* A file that is filled is one more that is written.
LEMMA FillStep ==
  ASSUME DiskTyped, ExtractTyped, RunSound, FillFile
  PROVE  ExtractTyped' /\ RunSound' /\ CellsFor(Head(extract.todo)) \in Seq(CellSet)
<1> DEFINE stream == Head(extract.todo)
           cells == CellsFor(stream)
           one == [stream |-> stream, out |-> extract.out, cells |-> cells]
           longer == Append(extract.files, one)
           m == Len(extract.files)
           todo == Tail(extract.todo)
<1>1. extract.pc = "fill"
  BY DEF FillFile
<1>2. RunReads /\ RunInOrder /\ RunOnDisk /\ RunFills /\ RunAlone
  BY <1>1 DEF RunSound, Running
<1>3. /\ extract' = [extract EXCEPT !.pc = "next", !.todo = todo, !.files = longer]
      /\ disk' = [f \in DOMAIN disk \cup {extract.out} |->
                    IF f = extract.out THEN [cells |-> cells, stamp |-> clock] ELSE disk[f]]
  <2>2. PICK r \in {stream} : \E c \in {CellsFor(r)} :
           /\ Touch(extract.out, c)
           /\ ExtractIs([extract EXCEPT !.pc = "next", !.todo = Tail(@),
                           !.files = Append(@, [stream |-> r, out |-> extract.out,
                                                cells |-> c])])
    BY DEF FillFile, CellsFor
  <2>3. r = stream
    BY <2>2
  <2>4. /\ Touch(extract.out, cells)
        /\ ExtractIs([extract EXCEPT !.pc = "next", !.todo = Tail(@),
                        !.files = Append(@, [stream |-> stream, out |-> extract.out,
                                             cells |-> cells])])
    <3> HIDE DEF stream
    <3> QED BY <2>2, <2>3
  <2> HIDE DEF stream, cells
  <2> QED BY <2>4 DEF ExtractIs, Touch
<1>4. /\ extract.todo # <<>> /\ extract.todo \in Seq(Range(RunStreams))
      /\ extract.files \in Seq(WrittenFiles)
  BY <1>1, <1>2 DEF RunFills, RunInOrder
<1>5. /\ stream = extract.todo[1] /\ stream \in Range(RunStreams)
      /\ todo \in Seq(Range(RunStreams)) /\ Len(extract.todo) \in Nat
      /\ Len(extract.todo) = Len(todo) + 1 /\ Len(todo) \in Nat
      /\ \A i \in 1 .. Len(todo) : todo[i] = extract.todo[i + 1]
  BY <1>4
<1>6. cells \in Seq(CellSet)
  BY <1>2, <1>5, RunStream
<1>7. one \in WrittenFiles
  <2>1. PICK n \in Nat : extract.out = <<BasePath(stream[1], extract.prefixes), n>>
    BY <1>1, <1>2, <1>5 DEF RunFills
  <2> HIDE DEF stream
  <2>2. one = [stream |-> stream, out |-> <<BasePath(stream[1], extract.prefixes), n>>,
               cells |-> CellsFor(stream)]
    BY <2>1
  <2>3. \A s \in Range(RunStreams), k \in Nat :
           [stream |-> s, out |-> <<BasePath(s[1], extract.prefixes), k>>, cells |-> CellsFor(s)]
             \in WrittenFiles
    BY DEF WrittenFiles
  <2> HIDE DEF one
  <2> QED BY <1>5, <2>2, <2>3
<1>8. /\ longer \in Seq(WrittenFiles) /\ m \in Nat /\ Len(longer) = m + 1 /\ longer[m + 1] = one
      /\ \A i \in 1 .. m : longer[i] = extract.files[i]
  <2> HIDE DEF one
  <2> QED BY <1>4, <1>7
<1>9. one.stream = stream /\ one.out = extract.out /\ one.cells = cells
  OBVIOUS
<1> HIDE DEF one, longer, todo, cells, m, stream
<1>10. extract' = [pc |-> "next", clean |-> extract.clean, held |-> extract.held,
                   todo |-> todo, prefixes |-> extract.prefixes, out |-> extract.out,
                   files |-> longer]
  BY <1>3 DEF ExtractTyped
<1>11. /\ extract'.pc = "next" /\ extract'.held = extract.held /\ extract'.todo = todo
       /\ extract'.prefixes = extract.prefixes /\ extract'.files = longer
       /\ extract'.clean = extract.clean /\ extract'.out = extract.out
  BY <1>10
<1>12. ExtractTyped'
  BY <1>10, <1>11 DEF ExtractTyped
<1>13. RunStreams' = RunStreams /\ WrittenFiles' = WrittenFiles
  BY <1>11 DEF RunStreams, WrittenFiles, CellsFor
<1>14. RunReads'
  BY <1>2, <1>11, <1>13 DEF RunReads
<1> DEFINE all == Limited(RunStreams)
<1>15. /\ m + Len(extract.todo) = Len(all)
       /\ \A i \in 1 .. m : extract.files[i].stream = all[i]
       /\ \A i \in 1 .. Len(extract.todo) : extract.todo[i] = all[m + i]
  BY <1>2 DEF RunInOrder, m
<1> HIDE DEF all
<1>16. RunInOrder'
  <2>1. (m + 1) + Len(todo) = Len(all)
    BY <1>5, <1>8, <1>15
  <2>2. ASSUME NEW i \in 1 .. m + 1 PROVE longer[i].stream = all[i]
    <3>1. CASE i = m + 1
      <4>1. 1 \in 1 .. Len(extract.todo)
        BY <1>5
      <4> QED BY <1>5, <1>8, <1>9, <1>15, <3>1, <4>1
    <3>2. CASE i # m + 1
      <4>1. i \in 1 .. m
        BY <1>8, <3>2
      <4> QED BY <1>8, <1>15, <4>1
    <3> QED BY <3>1, <3>2
  <2>3. ASSUME NEW i \in 1 .. Len(todo) PROVE todo[i] = all[(m + 1) + i]
    <3>1. i + 1 \in 1 .. Len(extract.todo) /\ m + (i + 1) = (m + 1) + i
      BY <1>5, <1>8
    <3> QED BY <1>5, <1>15, <3>1
  <2>4. Limited(RunStreams)' = all
    BY <1>13 DEF Limited, all
  <2> QED BY <1>5, <1>8, <1>11, <1>13, <2>1, <2>2, <2>3, <2>4 DEF RunInOrder
<1>17. /\ extract.out \in DOMAIN disk /\ DOMAIN disk' = DOMAIN disk
       /\ disk'[extract.out].cells = cells
       /\ \A f \in DOMAIN disk : f # extract.out => disk'[f] = disk[f]
  <2>1. extract.out \in DOMAIN disk
    BY <1>1, <1>2 DEF RunFills
  <2> QED BY <1>3, <2>1
<1>18. \A i \in 1 .. m : extract.files[i].out # extract.out
  BY <1>1, <1>2 DEF RunFills, m
<1>19. RunOnDisk'
  <2>1. ASSUME NEW i \in 1 .. m + 1
        PROVE  longer[i].out \in DOMAIN disk' /\ disk'[longer[i].out].cells = longer[i].cells
    <3>1. CASE i = m + 1
      BY <1>8, <1>9, <1>17, <3>1
    <3>2. CASE i # m + 1
      BY <1>8, <3>2, <1>18, <1>2, <1>17 DEF RunOnDisk, m
    <3> QED BY <3>1, <3>2
  <2>2. ASSUME NEW i \in 1 .. m + 1, NEW j \in 1 .. m + 1, i # j
        PROVE  longer[i].out # longer[j].out
    <3>1. \A k \in 1 .. m : longer[k].out # extract.out
      BY <1>8, <1>18
    <3>2. CASE i = m + 1
      <4>1. j \in 1 .. m
        BY <1>8, <2>2, <3>2
      <4> QED BY <1>8, <1>9, <3>1, <3>2, <4>1
    <3>3. CASE j = m + 1
      <4>1. i \in 1 .. m
        BY <1>8, <2>2, <3>3
      <4> QED BY <1>8, <1>9, <3>1, <3>3, <4>1
    <3>4. CASE i # m + 1 /\ j # m + 1
      <4>1. i \in 1 .. m /\ j \in 1 .. m
        BY <1>8, <3>4
      <4> QED BY <1>2, <1>8, <2>2, <4>1 DEF RunOnDisk, m
    <3> QED BY <3>2, <3>3, <3>4
  <2> QED BY <1>8, <1>11, <2>1, <2>2 DEF RunOnDisk
<1>20. RunFills'
  BY <1>11 DEF RunFills
<1>21. RunAlone'
  <2> SUFFICES ASSUME extract.clean
               PROVE  /\ DOMAIN disk = {longer[i].out : i \in 1 .. m + 1}
                      /\ \A f \in DOMAIN disk :
                           f[2] # 0 => f[1] \in extract.prefixes
                                         \/ \E g \in DOMAIN disk : g # f /\ g[1] = f[1]
    BY <1>11, <1>8, <1>17 DEF RunAlone
  <2>1. DOMAIN disk = {extract.files[i].out : i \in 1 .. m} \cup {extract.out}
    BY <1>1, <1>2 DEF RunAlone, m
  <2>2. ASSUME NEW f PROVE f \in DOMAIN disk <=> f \in {longer[i].out : i \in 1 .. m + 1}
    <3>1. ASSUME f \in DOMAIN disk PROVE \E i \in 1 .. m + 1 : f = longer[i].out
      <4>1. CASE f = extract.out
        <5>1. m + 1 \in 1 .. m + 1
          BY <1>8
        <5> QED BY <1>8, <1>9, <4>1, <5>1
      <4>2. CASE f # extract.out
        <5>1. PICK i \in 1 .. m : f = extract.files[i].out
          BY <2>1, <3>1, <4>2
        <5>2. i \in 1 .. m + 1
          BY <1>8
        <5> QED BY <1>8, <5>1, <5>2
      <4> QED BY <4>1, <4>2
    <3>2. ASSUME NEW i \in 1 .. m + 1, f = longer[i].out PROVE f \in DOMAIN disk
      <4>1. CASE i = m + 1
        BY <1>8, <1>9, <2>1, <3>2, <4>1
      <4>2. CASE i # m + 1
        <5>1. i \in 1 .. m
          BY <1>8, <4>2
        <5> QED BY <1>8, <2>1, <3>2, <5>1
      <4> QED BY <4>1, <4>2
    <3> QED BY <3>1, <3>2
  <2>3. DOMAIN disk = {longer[i].out : i \in 1 .. m + 1}
    BY <2>2
  <2>4. \A f \in DOMAIN disk :
           f[2] # 0 => f[1] \in extract.prefixes \/ \E g \in DOMAIN disk : g # f /\ g[1] = f[1]
    BY <1>2 DEF RunAlone
  <2> QED BY <2>3, <2>4
<1> QED BY <1>6, <1>12, <1>14, <1>16, <1>19, <1>20, <1>21 DEF RunSound, cells, stream

----------------------------------------------------------------------------
(* The invariant of the requests and of the cache.                         *)

\* The chunks are what the file says, if it still has that identity.
Fresh(key, identity, chunks, there) ==
  key \in DOMAIN there /\ there[key].stamp = identity => chunks = Decoded(there[key].cells)

\* Files only change by being written now.
FilesMove(old, new, now) ==
  \A f \in DOMAIN new : (f \in DOMAIN old /\ new[f] = old[f]) \/ new[f].stamp = now

Asking == {"stat", "get", "read", "insert"}

RequestSound(a, there, now) ==
  /\ a \in [pc : {"idle", "answered"} \cup Asking, question : Questions \cup {None},
            identity : Nat, chunks : Seq(Chunks), got : Seq(Seq(Chunks))]
  /\ a.identity < now
  /\ a.pc \in Asking => a.question \in Questions /\ Len(a.got) < Len(Wanted(a.question))
  /\ a.pc = "answered" =>
       /\ a.question \in Questions /\ Enough(a.question, a.got)
       /\ Len(a.got) <= Len(Wanted(a.question))
  /\ a.pc = "insert" =>
       Fresh(Key(Wanted(a.question)[Len(a.got) + 1]), a.identity, a.chunks, there)

RequestsSound ==
  ask = [t \in Readers |-> ask[t]] /\ \A t \in Readers : RequestSound(ask[t], disk, clock)

StoreFresh(items, there, now) ==
  \A k \in DOMAIN items :
    items[k].identity < now /\ Fresh(Key(k), items[k].identity, items[k].chunks, there)

StoreSound == StoreLists(store) /\ StoreLimits(store) /\ StoreFresh(store.items, disk, clock)

\* An identity that was read before now is of no file that is written now.
LEMMA FreshKept ==
  ASSUME NEW key, NEW identity, NEW chunks, NEW old, NEW new, NEW now \in Nat,
         identity \in Nat, identity < now,
         Fresh(key, identity, chunks, old), FilesMove(old, new, now)
  PROVE  Fresh(key, identity, chunks, new)
<1> SUFFICES ASSUME key \in DOMAIN new, new[key].stamp = identity
             PROVE  chunks = Decoded(new[key].cells)
  BY DEF Fresh
<1>1. new[key].stamp # now
  OBVIOUS
<1>2. key \in DOMAIN old /\ new[key] = old[key]
  BY <1>1 DEF FilesMove
<1> QED BY <1>2 DEF Fresh

\* Requests and items stay sound while files are written.
LEMMA RequestKept ==
  ASSUME NEW a, NEW old, NEW new, NEW now \in Nat, NEW later \in Nat, now <= later,
         RequestSound(a, old, now), FilesMove(old, new, now)
  PROVE  RequestSound(a, new, later)
BY FreshKept DEF RequestSound

\* Nor does an item become one of another content.
LEMMA StoreKept ==
  ASSUME NEW items, \A k \in DOMAIN items : items[k] \in Items,
         NEW old, NEW new, NEW now \in Nat, NEW later \in Nat, now <= later,
         StoreFresh(items, old, now), FilesMove(old, new, now)
  PROVE  StoreFresh(items, new, later)
<1> SUFFICES ASSUME NEW k \in DOMAIN items
             PROVE  items[k].identity < later
                    /\ Fresh(Key(k), items[k].identity, items[k].chunks, new)
  BY DEF StoreFresh
<1>1. items[k].identity \in Nat /\ items[k].identity < now
      /\ Fresh(Key(k), items[k].identity, items[k].chunks, old)
  BY DEF StoreFresh, Items
<1>2. Fresh(Key(k), items[k].identity, items[k].chunks, new)
  BY <1>1, FreshKept
<1> QED BY <1>1, <1>2

\* What each operation does to the files.
LEMMA FilesStep ==
  ASSUME DiskTyped, ExtractTyped, RunSound, StreamsNext
  PROVE  DiskTyped' /\ FilesMove(disk, disk', clock) /\ clock' \in Nat /\ clock <= clock'
<1>1. /\ clock \in Nat /\ clock \in Nat \ {0} /\ IsFiniteSet(DOMAIN disk)
      /\ \A f \in DOMAIN disk :
           disk[f].cells \in Seq(CellSet) /\ disk[f].stamp \in Nat /\ disk[f].stamp < clock
      /\ info \in DOMAIN Containers
  BY DEF DiskTyped
<1>2. CASE disk' = disk /\ clock' = clock /\ info' \in DOMAIN Containers
  BY <1>1, <1>2 DEF DiskTyped, FilesMove
<1>3. ASSUME NEW place, NEW cells, cells \in Seq(CellSet), Touch(place, cells), info' = info
      PROVE  DiskTyped' /\ FilesMove(disk, disk', clock) /\ clock' \in Nat /\ clock <= clock'
  <2>1. /\ disk' = [f \in DOMAIN disk \cup {place} |->
                      IF f = place THEN [cells |-> cells, stamp |-> clock] ELSE disk[f]]
        /\ clock' = clock + 1
    BY <1>3 DEF Touch
  <2>2. /\ DOMAIN disk' = DOMAIN disk \cup {place}
        /\ disk'[place].cells = cells /\ disk'[place].stamp = clock
        /\ \A f \in DOMAIN disk : f # place => disk'[f] = disk[f]
    BY <2>1
  <2>3. IsFiniteSet(DOMAIN disk')
    BY <1>1, <2>2, FS_AddElement
  <2>4. ASSUME NEW f \in DOMAIN disk'
        PROVE  /\ disk'[f].cells \in Seq(CellSet)
               /\ disk'[f].stamp \in Nat /\ disk'[f].stamp < clock'
    <3>1. CASE f = place
      BY <1>1, <1>3, <2>1, <2>2, <3>1
    <3>2. CASE f # place
      <4>1. f \in DOMAIN disk /\ disk'[f] = disk[f]
        BY <2>2, <3>2
      <4> QED BY <1>1, <2>1, <4>1
    <3> QED BY <3>1, <3>2
  <2>5. FilesMove(disk, disk', clock)
    BY <2>2 DEF FilesMove
  <2>6. clock' \in Nat \ {0} /\ clock <= clock'
    BY <1>1, <2>1
  <2> QED BY <1>1, <1>3, <2>3, <2>4, <2>5, <2>6 DEF DiskTyped
<1>4. ASSUME RemoveOld PROVE DiskTyped' /\ FilesMove(disk, disk', clock) /\ clock' = clock
  <2>1. PICK f \in DOMAIN disk : disk' = [g \in DOMAIN disk \ {f} |-> disk[g]]
    BY <1>4 DEF RemoveOld
  <2>2. DOMAIN disk' = DOMAIN disk \ {f} /\ \A g \in DOMAIN disk' : disk'[g] = disk[g]
    BY <2>1
  <2>3. IsFiniteSet(DOMAIN disk')
    BY <1>1, <2>2, FS_RemoveElement
  <2>4. clock' = clock /\ info' = info
    BY <1>4 DEF RemoveOld
  <2> QED BY <1>1, <2>2, <2>3, <2>4 DEF DiskTyped, FilesMove
<1>5. ASSUME CreateFile
      PROVE  DiskTyped' /\ FilesMove(disk, disk', clock) /\ clock' \in Nat /\ clock <= clock'
  <2> DEFINE place == OutputPath(Head(extract.todo)[1], extract.prefixes)
  <2>1. info' = info
    BY <1>5 DEF CreateFile, ExtractIs
  <2>2. <<>> \in Seq(CellSet)
    OBVIOUS
  <2>3. CASE FolderBlocked(place)
    <3>1. disk' = disk /\ clock' = clock
      BY <1>5, <2>3 DEF CreateFile
    <3> QED BY <1>1, <1>2, <2>1, <3>1
  <2>4. CASE ~FolderBlocked(place)
    <3>1. Touch(place, <<>>)
      BY <1>5, <2>4 DEF CreateFile
    <3> QED BY <1>3, <2>1, <2>2, <3>1
  <2> QED BY <2>3, <2>4
<1>6. ASSUME FillFile
      PROVE  DiskTyped' /\ FilesMove(disk, disk', clock) /\ clock' \in Nat /\ clock <= clock'
  BY <1>6, FillStep, <1>3 DEF FillFile, ExtractIs, CellsFor
<1>7. ASSUME NEW t \in Readers, Reader(t) PROVE disk' = disk /\ clock' = clock /\ info' = info
  BY <1>7 DEF Reader, Ask, Stat, GetCached, ReadStream, InsertChunks, Answered, AskIs
<1>8. ASSUME StartExtract \/ OpenContainer \/ EndExtract \/ KillExtract \/ ReplaceInfo
      PROVE  disk' = disk /\ clock' = clock /\ info' \in DOMAIN Containers
  BY <1>1, <1>8 DEF StartExtract, OpenContainer, EndExtract, KillExtract, ReplaceInfo, ExtractIs
<1>9. clock <= clock
  BY <1>1
<1> QED BY <1>1, <1>2, <1>4, <1>5, <1>6, <1>7, <1>8, <1>9 DEF StreamsNext, Extracting

\* What a run keeps.
LEMMA ExtractKept ==
  ASSUME ExtractTyped, RunSound, extract' = extract, disk' = disk
  PROVE  ExtractTyped' /\ RunSound'
BY DEF ExtractTyped, RunSound, Running, RunReads, RunInOrder, RunOnDisk, RunFills, RunAlone,
   RunStreams, WrittenFiles, CellsFor

\* Every operation keeps what a run has written.
LEMMA ExtractStep ==
  ASSUME DiskTyped, ExtractTyped, RunSound, StreamsNext
  PROVE  ExtractTyped' /\ RunSound'
<1>1. CASE extract' = extract /\ disk' = disk
  BY <1>1, ExtractKept
<1>2. ASSUME NEW pc \in {None, "clean", "failed"}, extract'.pc = pc PROVE RunSound'
  BY <1>2, StreamsAssumption DEF RunSound, Running
<1>3. ASSUME StartExtract PROVE ExtractTyped' /\ RunSound'
  <2>1. PICK clean \in BOOLEAN : extract' = [NoRun EXCEPT !.pc = "clean", !.clean = clean]
    BY <1>3 DEF StartExtract, ExtractIs
  <2>2. extract' = [pc |-> "clean", clean |-> clean, held |-> None, todo |-> <<>>,
                    prefixes |-> {}, out |-> None, files |-> <<>>]
    BY <2>1 DEF NoRun
  <2> QED BY <1>2, <2>2 DEF ExtractTyped
<1>4. ASSUME RemoveOld PROVE ExtractTyped' /\ RunSound'
  <2>1. extract' = extract /\ extract.pc = "clean"
    BY <1>4 DEF RemoveOld
  <2> QED BY <1>2, <2>1 DEF ExtractTyped
<1>5. ASSUME OpenContainer PROVE ExtractTyped' /\ RunSound'
  BY <1>5, OpenStep
<1>6. ASSUME CreateFile PROVE ExtractTyped' /\ RunSound'
  BY <1>6, CreateStep
<1>7. ASSUME FillFile PROVE ExtractTyped' /\ RunSound'
  BY <1>7, FillStep
<1>8. ASSUME EndExtract PROVE ExtractTyped' /\ RunSound'
  <2>1. /\ extract' = [extract EXCEPT !.pc = "done"] /\ disk' = disk
        /\ extract.pc = "next" /\ extract.todo = <<>>
    BY <1>8 DEF EndExtract, ExtractIs
  <2>2. extract' = [pc |-> "done", clean |-> extract.clean, held |-> extract.held,
                    todo |-> extract.todo, prefixes |-> extract.prefixes, out |-> extract.out,
                    files |-> extract.files]
    BY <2>1 DEF ExtractTyped
  <2>3. /\ extract'.pc = "done" /\ extract'.held = extract.held /\ extract'.todo = extract.todo
        /\ extract'.prefixes = extract.prefixes /\ extract'.files = extract.files
        /\ extract'.clean = extract.clean /\ extract'.out = extract.out
    BY <2>2
  <2>4. ExtractTyped'
    BY <2>2, <2>3 DEF ExtractTyped
  <2>5. RunReads /\ RunInOrder /\ RunOnDisk /\ RunFills /\ RunAlone
    BY <2>1 DEF RunSound, Running
  <2>6. RunStreams' = RunStreams /\ WrittenFiles' = WrittenFiles
    BY <2>3 DEF RunStreams, WrittenFiles, CellsFor
  <2>7. RunReads'
    BY <2>3, <2>5, <2>6 DEF RunReads
  <2>8. RunInOrder'
    BY <2>1, <2>3, <2>5, <2>6 DEF RunInOrder, Limited
  <2>9. RunOnDisk' /\ RunFills'
    BY <2>1, <2>3, <2>5 DEF RunOnDisk, RunFills
  <2>10. RunAlone'
    BY <2>1, <2>3, <2>5 DEF RunAlone
  <2> QED BY <2>4, <2>7, <2>8, <2>9, <2>10 DEF RunSound
<1>9. ASSUME KillExtract PROVE ExtractTyped' /\ RunSound'
  BY <1>9, StreamsAssumption, <1>2 DEF KillExtract, ExtractIs, NoRun, ExtractTyped
<1>10. ASSUME ReplaceInfo PROVE extract' = extract /\ disk' = disk
  BY <1>10 DEF ReplaceInfo
<1>11. ASSUME NEW t \in Readers, Reader(t) PROVE extract' = extract /\ disk' = disk
  BY <1>11 DEF Reader, Ask, Stat, GetCached, ReadStream, InsertChunks, Answered, AskIs
<1> QED BY <1>1, <1>3, <1>4, <1>5, <1>6, <1>7, <1>8, <1>9, <1>10, <1>11 DEF StreamsNext, Extracting

\* What a request reads, and what it keeps of it.
LEMMA WantedKeys ==
  ASSUME NEW q \in Questions
  PROVE  /\ Len(Wanted(q)) \in Nat \ {0}
         /\ \A i \in 1 .. Len(Wanted(q)) : Wanted(q)[i] \in StreamKeys
<1>1. q.kind \in {"group", "buddy", "member", "contact"}
  BY StreamsAssumption
<1>2. CASE q.kind = "group"
  <2>1. Wanted(q) = << <<"Group", "Basic.db">> >>
    BY <1>2 DEF Wanted
  <2> QED BY <2>1 DEF StreamKeys
<1>3. CASE q.kind = "buddy"
  BY <1>3 DEF Wanted, StreamKeys
<1>4. CASE q.kind = "member"
  <2>1. Wanted(q) = << <<"User", "Group1.db">> >>
    BY <1>4 DEF Wanted
  <2> QED BY <2>1 DEF StreamKeys
<1>5. CASE q.kind = "contact"
  <2>1. Wanted(q) = ContactStreams
    BY <1>5 DEF Wanted
  <2> QED BY <2>1 DEF ContactStreams, StreamKeys
<1> QED BY <1>1, <1>2, <1>3, <1>4, <1>5

\* The chunks of a stream are what its cells say.
LEMMA DecodedTyped ==
  ASSUME NEW cells \in Seq(CellSet)
  PROVE  Decoded(cells) \in Seq(Chunks)
<1> DEFINE n == Len(cells) - 1
           parts == [i \in 1 .. n |->
                       IF Meaning(cells[i + 1]) = <<>> THEN <<>> ELSE <<Meaning(cells[i + 1])>>]
<1>1. Decoded(cells) = FlattenSeq(parts)
  BY DEF Decoded
<1>2. Len(cells) \in Nat
  OBVIOUS
<1>3. \A i \in 1 .. n : Meaning(cells[i + 1]) \in Chunks
  <2> TAKE i \in 1 .. n
  <2>1. i + 1 \in 1 .. Len(cells)
    BY <1>2
  <2>2. cells[i + 1] \in CellSet
    BY <2>1
  <2> QED BY <2>2 DEF Chunks
<1>4. <<>> \in Seq(Chunks) /\ \A x \in Chunks : <<x>> \in Seq(Chunks)
  OBVIOUS
<1>5. \A i \in 1 .. n : parts[i] \in Seq(Chunks)
  BY <1>3, <1>4
<1>6. \E k \in Nat : 1 .. n = 1 .. k
  <2>1. CASE n \in Nat
    BY <2>1
  <2>2. CASE n \notin Nat
    <3>1. 1 .. n = 1 .. 0
      BY <1>2, <2>2
    <3> QED BY <3>1
  <2> QED BY <2>1, <2>2
<1>7. parts \in Seq(Seq(Chunks))
  <2>1. PICK k \in Nat : 1 .. n = 1 .. k
    BY <1>6
  <2>2. parts \in [1 .. k -> Seq(Chunks)]
    BY <1>5, <2>1
  <2> HIDE DEF parts
  <2> QED BY <2>2, SeqDef
<1> HIDE DEF parts
<1> QED BY <1>1, <1>7, Flattened

\* A request that asks has a stream to read.
LEMMA StreamOfRequest ==
  ASSUME NEW t \in Readers, RequestSound(ask[t], disk, clock), ask[t].pc \in Asking
  PROVE  /\ Stream(t) \in StreamKeys /\ ask[t].question \in Questions
         /\ Stream(t) = Wanted(ask[t].question)[Len(ask[t].got) + 1]
         /\ Len(ask[t].got) + 1 \in 1 .. Len(Wanted(ask[t].question))
BY WantedKeys DEF RequestSound, Stream

\* An answered stream is one less to read.
LEMMA LearntSound ==
  ASSUME NEW t \in Readers, RequestSound(ask[t], disk, clock), ask[t].pc \in Asking,
         NEW chunks \in Seq(Chunks)
  PROVE  RequestSound(Learnt(t, chunks), disk, clock)
<1> DEFINE a == ask[t]
           got == Append(a.got, chunks)
           pc == IF Enough(a.question, got) THEN "answered" ELSE "stat"
<1>1. /\ a \in [pc : {"idle", "answered"} \cup Asking, question : Questions \cup {None},
                identity : Nat, chunks : Seq(Chunks), got : Seq(Seq(Chunks))]
      /\ a.identity < clock /\ a.question \in Questions
      /\ Len(a.got) < Len(Wanted(a.question)) /\ a.got \in Seq(Seq(Chunks))
  BY DEF RequestSound
<1>2. Len(Wanted(a.question)) \in Nat /\ Len(a.got) \in Nat
  BY <1>1, WantedKeys
<1>3. got \in Seq(Seq(Chunks)) /\ Len(got) = Len(a.got) + 1
  <2> HIDE DEF a
  <2> QED BY <1>1
<1>4. Learnt(t, chunks) = [a EXCEPT !.got = got, !.pc = pc]
  BY DEF Learnt
<1>5. pc # "answered" => pc = "stat" /\ Len(got) < Len(Wanted(a.question))
  <2>1. ~Enough(a.question, got) => Len(got) # Len(Wanted(a.question))
    BY DEF Enough
  <2> HIDE DEF a, got
  <2> QED BY <1>1, <1>2, <1>3, <2>1
<1>6. pc = "answered" => Enough(a.question, got) /\ Len(got) <= Len(Wanted(a.question))
  <2>1. pc = "answered" => Enough(a.question, got)
    OBVIOUS
  <2> HIDE DEF a, got, pc
  <2> QED BY <1>1, <1>2, <1>3, <2>1
<1>7. pc \in {"answered", "stat"}
  OBVIOUS
<1> DEFINE b == Learnt(t, chunks)
<1> HIDE DEF a, got, pc
<1>8. /\ b.pc = pc /\ b.got = got /\ b.question = a.question /\ b.identity = a.identity
      /\ b.chunks = a.chunks
      /\ b = [pc |-> pc, question |-> a.question, identity |-> a.identity,
              chunks |-> a.chunks, got |-> got]
  BY <1>1, <1>4
<1> HIDE DEF b
<1>9. b \in [pc : {"idle", "answered"} \cup Asking, question : Questions \cup {None},
             identity : Nat, chunks : Seq(Chunks), got : Seq(Seq(Chunks))]
  BY <1>1, <1>3, <1>7, <1>8 DEF Asking
<1> QED BY <1>1, <1>5, <1>6, <1>7, <1>8, <1>9 DEF RequestSound, b, Asking

\* What a request does to itself, and what it does to the cache.
LEMMA RequestStep ==
  ASSUME DiskTyped, RequestsSound, StoreSound, NEW t \in Readers, Reader(t)
  PROVE  /\ \E next : RequestSound(next, disk, clock) /\ ask' = [ask EXCEPT ![t] = next]
         /\ StoreLists(store') /\ StoreLimits(store') /\ StoreFresh(store'.items, disk, clock)
<1> DEFINE a == ask[t]
           key == Stream(t)
           Types == [pc : {"idle", "answered"} \cup Asking, question : Questions \cup {None},
                     identity : Nat, chunks : Seq(Chunks), got : Seq(Seq(Chunks))]
<1>1. /\ RequestSound(a, disk, clock) /\ a \in Types /\ a.identity < clock
      /\ a.pc \in Asking => a.question \in Questions /\ Len(a.got) < Len(Wanted(a.question))
  BY DEF RequestsSound, RequestSound
<1>2. StoreLists(store) /\ StoreLimits(store) /\ StoreFresh(store.items, disk, clock)
  BY DEF StoreSound
<1>3. /\ clock \in Nat \ {0}
      /\ \A f \in DOMAIN disk :
           disk[f].cells \in Seq(CellSet) /\ disk[f].stamp \in Nat /\ disk[f].stamp < clock
  BY DEF DiskTyped
<1>4. <<>> \in Seq(Chunks) /\ <<>> \in Seq(Seq(Chunks)) /\ Len(<<>>) = 0
  OBVIOUS
<1>5. a.pc \in Asking =>
        /\ key \in StreamKeys /\ key = Wanted(a.question)[Len(a.got) + 1]
        /\ \A c \in Seq(Chunks) : RequestSound(Learnt(t, c), disk, clock)
  BY <1>1, StreamOfRequest, LearntSound
<1>6. CASE Ask(t)
  <2>1. PICK q \in Questions : ask' = [ask EXCEPT ![t] = [Silent EXCEPT !.pc = "stat", !.question = q]]
    BY <1>6 DEF Ask
  <2>7. PICK next : next = [Silent EXCEPT !.pc = "stat", !.question = q]
    OBVIOUS
  <2>2. next = [pc |-> "stat", question |-> q, identity |-> 0, chunks |-> <<>>, got |-> <<>>]
    <3>1. Silent = [pc |-> "idle", question |-> None, identity |-> 0, chunks |-> <<>>,
                    got |-> <<>>]
      BY DEF Silent
    <3> HIDE DEF a, key, Types
    <3> QED BY <2>7, <3>1
  <2>3. next \in Types /\ next.identity < clock /\ next.pc = "stat" /\ next.question \in Questions
    BY <1>3, <1>4, <2>2 DEF Asking
  <2>4. Len(next.got) < Len(Wanted(next.question))
    BY <1>4, <2>2, WantedKeys
  <2>5. RequestSound(next, disk, clock)
    BY <2>3, <2>4 DEF RequestSound
  <2>6. store' = store
    BY <1>6 DEF Ask
  <2> QED BY <1>2, <2>1, <2>5, <2>6, <2>7
<1>7. CASE Stat(t)
  <2>1. a.pc = "stat" /\ store' = store
    BY <1>7 DEF Stat
  <2>2. a.pc \in Asking
    BY <2>1 DEF Asking
  <2>3. CASE Key(key) \in DOMAIN disk
    <3>6. PICK next : next = [a EXCEPT !.pc = "get", !.identity = disk[Key(key)].stamp]
      OBVIOUS
    <3>1. ask' = [ask EXCEPT ![t] = next]
      BY <1>7, <2>3, <3>6 DEF Stat, AskIs
    <3>2. disk[Key(key)].stamp \in Nat /\ disk[Key(key)].stamp < clock
      BY <1>3, <2>3
    <3> HIDE DEF a, key
    <3>3. /\ next.pc = "get" /\ next.question = a.question /\ next.got = a.got
          /\ next.identity = disk[Key(key)].stamp /\ next.chunks = a.chunks
          /\ next = [pc |-> "get", question |-> a.question, identity |-> disk[Key(key)].stamp,
                     chunks |-> a.chunks, got |-> a.got]
      BY <1>1, <3>6
    <3>4. next \in Types
      BY <1>1, <3>2, <3>3 DEF Asking
    <3>5. RequestSound(next, disk, clock)
      BY <1>1, <2>2, <3>2, <3>3, <3>4 DEF RequestSound
    <3> QED BY <1>2, <2>1, <3>1, <3>5
  <2>4. CASE Key(key) \notin DOMAIN disk
    <3>1. ask' = [ask EXCEPT ![t] = Learnt(t, <<>>)]
      BY <1>7, <2>4 DEF Stat, AskIs
    <3> QED BY <1>2, <1>4, <1>5, <2>1, <2>2, <3>1
  <2> QED BY <2>3, <2>4
<1>8. CASE GetCached(t)
  <2>1. a.pc = "get"
    BY <1>8 DEF GetCached
  <2>2. a.pc \in Asking
    BY <2>1 DEF Asking
  <2>3. CASE key \in DOMAIN store.items /\ store.items[key].identity = a.identity
    BY <1>8, <2>3, <1>2, <1>5, <2>2, GotKept DEF GetCached, AskIs, StoreLists, Items
  <2>4. CASE ~(key \in DOMAIN store.items /\ store.items[key].identity = a.identity)
    <3> DEFINE next == [a EXCEPT !.pc = "read"]
               left == IF key \in DOMAIN store.items THEN Without(store, key) ELSE store
    <3>1. store' = left /\ ask' = [ask EXCEPT ![t] = next]
      BY <1>8, <2>4 DEF GetCached, AskIs
    <3> HIDE DEF a, key
    <3>2. /\ next.pc = "read" /\ next.question = a.question /\ next.got = a.got
          /\ next.identity = a.identity /\ next.chunks = a.chunks
          /\ next = [pc |-> "read", question |-> a.question, identity |-> a.identity,
                     chunks |-> a.chunks, got |-> a.got]
      BY <1>1
    <3> HIDE DEF next
    <3>3. next \in Types
      BY <1>1, <3>2 DEF Asking
    <3>4. RequestSound(next, disk, clock)
      BY <1>1, <2>2, <3>2, <3>3 DEF RequestSound
    <3>5. StoreLists(left) /\ StoreLimits(left) /\ StoreFresh(left.items, disk, clock)
      <4>1. CASE key \notin DOMAIN store.items
        BY <1>2, <4>1
      <4>2. CASE key \in DOMAIN store.items
        <5> DEFINE w == Without(store, key)
        <5>1. StoreLists(w)
          BY <1>2, WithoutKept
        <5>2. StoreLimits(w)
          BY <1>2, WithoutKept
        <5>3. DOMAIN w.items = DOMAIN store.items \ {key}
          BY <1>2, WithoutKept
        <5>4. \A k \in DOMAIN w.items : w.items[k] = store.items[k]
          BY <1>2, WithoutKept
        <5> HIDE DEF w
        <5>5. StoreFresh(w.items, disk, clock)
          BY <1>2, <5>3, <5>4 DEF StoreFresh
        <5> QED BY <4>2, <5>1, <5>2, <5>5 DEF w
      <4> QED BY <4>1, <4>2
    <3> HIDE DEF left
    <3> QED BY <3>1, <3>4, <3>5
  <2> QED BY <2>3, <2>4
<1>9. CASE ReadStream(t)
  <2>1. a.pc = "read" /\ store' = store
    BY <1>9 DEF ReadStream
  <2>2. a.pc \in Asking
    BY <2>1 DEF Asking
  <2>3. CASE Key(key) \in DOMAIN disk
    <3> DEFINE chunks == Decoded(disk[Key(key)].cells)
    <3>8. PICK next : next = [a EXCEPT !.pc = "insert", !.chunks = chunks]
      OBVIOUS
    <3>1. ask' = [ask EXCEPT ![t] = next]
      BY <1>9, <2>3, <3>8 DEF ReadStream, AskIs
    <3>2. chunks \in Seq(Chunks)
      BY <1>3, <2>3, DecodedTyped
    <3>3. Fresh(Key(key), a.identity, chunks, disk)
      BY DEF Fresh
    <3> HIDE DEF a, chunks, key
    <3>4. /\ next.pc = "insert" /\ next.question = a.question /\ next.got = a.got
          /\ next.identity = a.identity /\ next.chunks = chunks
          /\ next = [pc |-> "insert", question |-> a.question, identity |-> a.identity,
                     chunks |-> chunks, got |-> a.got]
      BY <1>1, <3>8
    <3>5. next \in Types
      BY <1>1, <3>2, <3>4 DEF Asking
    <3>6. key = Wanted(next.question)[Len(next.got) + 1]
      BY <1>5, <2>2, <3>4
    <3>7. RequestSound(next, disk, clock)
      BY <1>1, <2>2, <3>3, <3>4, <3>5, <3>6 DEF RequestSound
    <3> QED BY <1>2, <2>1, <3>1, <3>7
  <2>4. CASE Key(key) \notin DOMAIN disk
    <3>1. ask' = [ask EXCEPT ![t] = Learnt(t, <<>>)]
      BY <1>9, <2>4 DEF ReadStream, AskIs
    <3> QED BY <1>2, <1>4, <1>5, <2>1, <2>2, <3>1
  <2> QED BY <2>3, <2>4
<1>10. CASE InsertChunks(t)
  <2> DEFINE value == [identity |-> a.identity, chunks |-> a.chunks]
             new == Inserted(store, key, value)
  <2>1. /\ a.pc = "insert" /\ store' = new /\ ask' = [ask EXCEPT ![t] = Learnt(t, a.chunks)]
    BY <1>10 DEF InsertChunks, AskIs, IdentityOf
  <2>2. a.pc \in Asking
    BY <2>1 DEF Asking
  <2>3. Fresh(Key(key), a.identity, a.chunks, disk)
    BY <1>1, <1>5, <2>1, <2>2 DEF RequestSound
  <2>4. a.chunks \in Seq(Chunks) /\ a.identity \in Nat
    BY <1>1
  <2> HIDE DEF a, key
  <2>5. value \in Items /\ value.identity = a.identity /\ value.chunks = a.chunks
    BY <2>4 DEF Items
  <2> HIDE DEF value
  <2>6. key \in StreamKeys
    BY <1>5, <2>2
  <2>7. StoreLists(new)
    BY <1>2, <2>5, <2>6, InsertedKept
  <2>8. StoreLimits(new)
    BY <1>2, <2>5, <2>6, InsertedKept
  <2>9. DOMAIN new.items \subseteq DOMAIN store.items \cup {key}
    BY <1>2, <2>5, <2>6, InsertedKept
  <2>10. key \in DOMAIN new.items => new.items[key] = value
    BY <1>2, <2>5, <2>6, InsertedKept
  <2>11. \A k \in DOMAIN new.items : k # key => new.items[k] = store.items[k]
    BY <1>2, <2>5, <2>6, InsertedKept
  <2> HIDE DEF new
  <2>12. StoreFresh(new.items, disk, clock)
    <3> SUFFICES ASSUME NEW k \in DOMAIN new.items
                 PROVE  new.items[k].identity < clock
                        /\ Fresh(Key(k), new.items[k].identity, new.items[k].chunks, disk)
      BY DEF StoreFresh
    <3>1. CASE k = key
      BY <1>1, <2>3, <2>5, <2>10, <3>1
    <3>2. CASE k # key
      BY <2>9, <2>11, <3>2, <1>2 DEF StoreFresh
    <3> QED BY <3>1, <3>2
  <2>13. RequestSound(Learnt(t, a.chunks), disk, clock)
    BY <1>5, <2>2, <2>4
  <2> QED BY <2>1, <2>7, <2>8, <2>12, <2>13
<1>11. CASE Answered(t)
  <2>1. ask' = [ask EXCEPT ![t] = Silent] /\ store' = store
    BY <1>11 DEF Answered, AskIs
  <2>2. /\ Silent.pc = "idle" /\ Silent.identity = 0
        /\ Silent = [pc |-> "idle", question |-> None, identity |-> 0, chunks |-> <<>>,
                     got |-> <<>>]
    BY DEF Silent
  <2>3. Silent \in Types
    BY <1>4, <2>2
  <2>4. "idle" \notin Asking
    BY DEF Asking
  <2>5. RequestSound(Silent, disk, clock)
    BY <1>3, <2>2, <2>3, <2>4 DEF RequestSound
  <2> QED BY <1>2, <2>1, <2>5
<1> QED BY <1>6, <1>7, <1>8, <1>9, <1>10, <1>11 DEF Reader

----------------------------------------------------------------------------
StreamsInv == DiskTyped /\ ExtractTyped /\ RunSound /\ RequestsSound /\ StoreSound

\* The invariant holds at the start, and every step keeps it.
LEMMA StreamsStart ==
  ASSUME StreamsInit PROVE StreamsInv
<1>1. DiskTyped
  <2>1. DOMAIN disk = {}
    BY DEF StreamsInit
  <2> QED BY <2>1, FS_EmptySet DEF StreamsInit, DiskTyped
<1>2. ExtractTyped
  BY StreamsAssumption DEF StreamsInit, NoRun, ExtractTyped
<1>3. RunSound
  <2>1. extract.pc = None
    BY DEF StreamsInit, NoRun
  <2> QED BY <2>1, StreamsAssumption DEF RunSound, Running
<1>4. RequestsSound
  BY DEF StreamsInit, RequestSound, Silent, Asking, RequestsSound
<1>5. StoreSound
  <2>1. store = [items |-> <<>>, order |-> <<>>, cells |-> 0]
    BY DEF StreamsInit, NoStore
  <2>2. store.items = <<>> /\ store.order = <<>> /\ store.cells = 0 /\ DOMAIN store.items = {}
    BY <2>1
  <2>3. Occupied(store.items) = {}
    BY <2>2 DEF Occupied
  <2>4. store.order \in Seq(StreamKeys) /\ IsInjective(store.order) /\ Range(store.order) = {}
    BY <2>2 DEF IsInjective, Range
  <2>5. Cardinality(DOMAIN store.items) = 0 /\ Cardinality(Occupied(store.items)) = 0
    BY <2>2, <2>3, FS_EmptySet
  <2>6. StoreLists(store)
    BY <2>1, <2>2, <2>4, <2>5 DEF StoreLists
  <2>7. 0 <= CacheItems /\ 0 <= CacheCells
    BY StreamsAssumption
  <2>8. StoreLimits(store)
    BY <2>2, <2>5, <2>7 DEF StoreLimits
  <2>9. StoreFresh(store.items, disk, clock)
    BY <2>2 DEF StoreFresh
  <2> QED BY <2>6, <2>8, <2>9 DEF StoreSound
<1> QED BY <1>1, <1>2, <1>3, <1>4, <1>5 DEF StreamsInv

\* Extractions keep requests and items sound, requests keep the files.
LEMMA StreamsStep ==
  ASSUME StreamsInv, [StreamsNext]_streamVars PROVE StreamsInv'
<1>1. DiskTyped /\ ExtractTyped /\ RunSound /\ RequestsSound /\ StoreSound
  BY DEF StreamsInv
<1>2. CASE UNCHANGED streamVars
  BY <1>2, <1>1, ExtractKept DEF streamVars, DiskTyped, RequestsSound, StoreSound,
    StreamsInv
<1>3. CASE StreamsNext
  <2>1. DiskTyped' /\ FilesMove(disk, disk', clock) /\ clock' \in Nat /\ clock <= clock'
    BY <1>1, <1>3, FilesStep
  <2>2. ExtractTyped' /\ RunSound'
    BY <1>1, <1>3, ExtractStep
  <2>3. clock \in Nat
    BY <1>1 DEF DiskTyped
  <2>4. /\ StoreLists(store) /\ StoreLimits(store) /\ StoreFresh(store.items, disk, clock)
        /\ ask = [t \in Readers |-> ask[t]]
        /\ \A t \in Readers : RequestSound(ask[t], disk, clock)
    BY <1>1 DEF StoreSound, RequestsSound
  <2>5. /\ StoreLists(store') /\ StoreLimits(store') /\ StoreFresh(store'.items, disk, clock)
        /\ ask' = [t \in Readers |-> ask'[t]]
        /\ \A t \in Readers : RequestSound(ask'[t], disk, clock)
    <3>1. ASSUME Extracting PROVE ask' = ask /\ store' = store
      BY <3>1 DEF Extracting, StartExtract, RemoveOld, OpenContainer, CreateFile, FillFile,
         EndExtract, KillExtract, ReplaceInfo, ExtractIs
    <3>2. ASSUME NEW t \in Readers, Reader(t)
          PROVE  /\ StoreLists(store') /\ StoreLimits(store')
                 /\ StoreFresh(store'.items, disk, clock)
                 /\ ask' = [u \in Readers |-> ask'[u]]
                 /\ \A u \in Readers : RequestSound(ask'[u], disk, clock)
      <4>1. StoreLists(store') /\ StoreLimits(store') /\ StoreFresh(store'.items, disk, clock)
        BY <1>1, <3>2, RequestStep
      <4>2. PICK next : RequestSound(next, disk, clock) /\ ask' = [ask EXCEPT ![t] = next]
        BY <1>1, <3>2, RequestStep
      <4>3. \A u \in Readers : ask'[u] = IF u = t THEN next ELSE ask[u]
        BY <2>4, <4>2
      <4>4. ask' = [u \in Readers |-> ask'[u]]
        BY <2>4, <4>2
      <4> QED BY <2>4, <4>1, <4>2, <4>3, <4>4
    <3> QED BY <1>3, <2>4, <3>1, <3>2 DEF StreamsNext
  <2>6. \A t \in Readers : RequestSound(ask'[t], disk', clock')
    BY <2>1, <2>3, <2>5, RequestKept
  <2>7. StoreFresh(store'.items, disk', clock')
    BY <2>5, <2>1, <2>3, StoreKept DEF StoreLists
  <2>8. RequestsSound'
    BY <2>5, <2>6 DEF RequestsSound
  <2>9. StoreSound'
    BY <2>5, <2>7 DEF StoreSound
  <2> QED BY <2>1, <2>2, <2>8, <2>9 DEF StreamsInv
<1> QED BY <1>2, <1>3

\* The invariant of extractions, requests and the cache (extract_cfb_with_limit,
\* EntryChunkCache, entry_chunks).
THEOREM StreamsInvariant == StreamsSpec => []StreamsInv
<1>1. StreamsInit => StreamsInv
  BY StreamsStart
<1>2. StreamsInv /\ [StreamsNext]_streamVars => StreamsInv'
  BY StreamsStep
<1> QED BY <1>1, <1>2, PTL DEF StreamsSpec

\* A run that has ended wrote each stream to a file of its own and took no
\* cell twice.
FilesOwn ==
  extract.pc = "done" =>
    /\ \A i, j \in DOMAIN extract.files :
         i # j => extract.files[i].out # extract.files[j].out
    /\ \A i \in DOMAIN extract.files : IsInjective(extract.files[i].cells)

\* What is known of a run that has ended.
LEMMA RunEnded ==
  ASSUME RunSound, extract.pc = "done"
  PROVE  /\ RunReads /\ RunInOrder /\ RunOnDisk /\ RunAlone
         /\ DOMAIN extract.files = 1 .. Len(extract.files) /\ Len(extract.files) \in Nat
         /\ \A i \in 1 .. Len(extract.files) :
              \E s \in Range(RunStreams), n \in Nat :
                extract.files[i] = [stream |-> s, out |-> <<BasePath(s[1], extract.prefixes), n>>,
                                    cells |-> CellsFor(s)]
<1>1. RunReads /\ RunInOrder /\ RunOnDisk /\ RunAlone
  BY DEF RunSound, Running
<1>2. extract.files \in Seq(WrittenFiles)
  BY <1>1 DEF RunInOrder
<1>3. DOMAIN extract.files = 1 .. Len(extract.files) /\ Len(extract.files) \in Nat
  BY <1>2
<1>4. ASSUME NEW i \in 1 .. Len(extract.files)
      PROVE  \E s \in Range(RunStreams), n \in Nat :
               extract.files[i] = [stream |-> s, out |-> <<BasePath(s[1], extract.prefixes), n>>,
                                   cells |-> CellsFor(s)]
  <2>1. extract.files[i] \in WrittenFiles
    BY <1>2
  <2> QED BY <2>1 DEF WrittenFiles
<1> QED BY <1>1, <1>3, <1>4

\* No two streams have a file, and none a cell twice.
LEMMA OwnFiles ==
  ASSUME RunSound PROVE FilesOwn
<1> SUFFICES ASSUME extract.pc = "done"
             PROVE  /\ \A i, j \in DOMAIN extract.files :
                         i # j => extract.files[i].out # extract.files[j].out
                    /\ \A i \in DOMAIN extract.files : IsInjective(extract.files[i].cells)
  BY DEF FilesOwn
<1>1. /\ RunReads /\ RunOnDisk /\ DOMAIN extract.files = 1 .. Len(extract.files)
      /\ \A i \in 1 .. Len(extract.files) :
           \E s \in Range(RunStreams), n \in Nat :
             extract.files[i] = [stream |-> s, out |-> <<BasePath(s[1], extract.prefixes), n>>,
                                 cells |-> CellsFor(s)]
  BY RunEnded
<1>2. \A i, j \in DOMAIN extract.files : i # j => extract.files[i].out # extract.files[j].out
  BY <1>1 DEF RunOnDisk
<1>3. ASSUME NEW i \in DOMAIN extract.files PROVE IsInjective(extract.files[i].cells)
  <2>1. PICK s \in Range(RunStreams), n \in Nat :
           extract.files[i] = [stream |-> s, out |-> <<BasePath(s[1], extract.prefixes), n>>,
                               cells |-> CellsFor(s)]
    BY <1>1
  <2>2. extract.files[i].cells = CellsFor(s)
    BY <2>1
  <2> QED BY <1>1, <2>1, <2>2, RunStream
<1> QED BY <1>2, <1>3

\* What is written is there, under a number only for a reason.
LEMMA WrittenThere ==
  ASSUME RunSound PROVE WrittenWhereRead
<1> DEFINE Alone(f) ==
      /\ extract.clean
      /\ Safe(f.stream[1]) = f.stream[1] /\ f.stream[1] \notin extract.prefixes
      /\ \A g \in ToSet(extract.files) : g.out[1] = f.out[1] => g = f
<1> SUFFICES ASSUME extract.pc = "done", NEW f \in ToSet(extract.files)
             PROVE  /\ f.out \in DOMAIN disk /\ disk[f.out].cells = f.cells
                    /\ Alone(f) => f.out[2] = 0
  BY DEF WrittenWhereRead
<1>1. /\ RunOnDisk /\ RunAlone /\ DOMAIN extract.files = 1 .. Len(extract.files)
      /\ \A i \in 1 .. Len(extract.files) :
           \E s \in Range(RunStreams), n \in Nat :
             extract.files[i] = [stream |-> s, out |-> <<BasePath(s[1], extract.prefixes), n>>,
                                 cells |-> CellsFor(s)]
  BY RunEnded
<1>2. PICK i \in 1 .. Len(extract.files) : f = extract.files[i]
  BY <1>1 DEF ToSet
<1>3. f.out \in DOMAIN disk /\ disk[f.out].cells = f.cells
  BY <1>1, <1>2 DEF RunOnDisk
<1>4. ASSUME Alone(f), f.out[2] # 0 PROVE FALSE
  <2>1. f.out[1] = f.stream[1]
    <3>1. PICK s \in Range(RunStreams), n \in Nat :
             f = [stream |-> s, out |-> <<BasePath(s[1], extract.prefixes), n>>,
                  cells |-> CellsFor(s)]
      BY <1>1, <1>2
    <3>2. f.stream = s /\ f.out[1] = BasePath(s[1], extract.prefixes)
      BY <3>1
    <3>3. BasePath(s[1], extract.prefixes) = s[1]
      BY <1>4, <3>2 DEF BasePath
    <3> QED BY <3>2, <3>3
  <2>2. DOMAIN disk = {extract.files[k].out : k \in 1 .. Len(extract.files)}
    BY <1>1, <1>4 DEF RunAlone
  <2>3. f.out[1] \in extract.prefixes \/ \E g \in DOMAIN disk : g # f.out /\ g[1] = f.out[1]
    BY <1>1, <1>3, <1>4 DEF RunAlone
  <2>4. PICK g \in DOMAIN disk : g # f.out /\ g[1] = f.out[1]
    BY <1>4, <2>1, <2>3
  <2>5. PICK k \in 1 .. Len(extract.files) : g = extract.files[k].out
    BY <2>2, <2>4
  <2>6. extract.files[k] \in ToSet(extract.files)
    BY <1>1 DEF ToSet
  <2>7. extract.files[k] = f
    BY <1>4, <2>4, <2>5, <2>6
  <2> QED BY <2>4, <2>5, <2>7
<1> QED BY <1>3, <1>4

\* The limits and the contents of the cache.
LEMMA CacheSound ==
  ASSUME StoreSound PROVE CacheHonest /\ CacheWithinBounds
BY DEF StoreSound, StoreFresh, Fresh, CacheHonest, ToSet, Range, StoreLists,
  StoreLimits, CacheWithinBounds

\* A run that has ended wrote what its container lists, up to the limit, one
\* stream after the other, each as it reads there.
ListedAreWritten ==
  extract.pc = "done" =>
    /\ RunReads
    /\ Len(extract.files) = Len(Limited(RunStreams))
    /\ \A i \in 1 .. Len(extract.files) :
         /\ extract.files[i].stream = Limited(RunStreams)[i]
         /\ extract.files[i].cells = CellsFor(Limited(RunStreams)[i])

\* None is left to do.
LEMMA ListedWritten ==
  ASSUME RunSound PROVE ListedAreWritten
<1> SUFFICES ASSUME extract.pc = "done"
             PROVE  /\ RunReads
                    /\ Len(extract.files) = Len(Limited(RunStreams))
                    /\ \A i \in 1 .. Len(extract.files) :
                         /\ extract.files[i].stream = Limited(RunStreams)[i]
                         /\ extract.files[i].cells = CellsFor(Limited(RunStreams)[i])
  BY DEF ListedAreWritten
<1>1. /\ RunReads /\ RunInOrder /\ Len(extract.files) \in Nat
      /\ \A i \in 1 .. Len(extract.files) :
           \E s \in Range(RunStreams), n \in Nat :
             extract.files[i] = [stream |-> s, out |-> <<BasePath(s[1], extract.prefixes), n>>,
                                 cells |-> CellsFor(s)]
  BY RunEnded
<1>2. Len(extract.files) = Len(Limited(RunStreams))
  <2>1. extract.todo = <<>> /\ Len(<<>>) = 0
    BY <1>1 DEF RunInOrder
  <2>2. Len(extract.files) + Len(extract.todo) = Len(Limited(RunStreams))
    BY <1>1 DEF RunInOrder
  <2>3. Len(extract.todo) = 0
    BY <2>1
  <2> QED BY <1>1, <2>2, <2>3
<1>3. \A i \in 1 .. Len(extract.files) : extract.files[i].stream = Limited(RunStreams)[i]
  BY <1>1 DEF RunInOrder
<1>4. \A i \in 1 .. Len(extract.files) :
        extract.files[i].cells = CellsFor(Limited(RunStreams)[i])
  <2> TAKE i \in 1 .. Len(extract.files)
  <2>1. PICK s \in Range(RunStreams), n \in Nat :
           extract.files[i] = [stream |-> s, out |-> <<BasePath(s[1], extract.prefixes), n>>,
                               cells |-> CellsFor(s)]
    BY <1>1
  <2>2. extract.files[i].stream = s /\ extract.files[i].cells = CellsFor(s)
    BY <2>1
  <2> QED BY <1>3, <2>2
<1> QED BY <1>1, <1>2, <1>3, <1>4

\* Whatever the containers hold, and however often runs are killed and started
\* again: a run that ends has written each stream that its container lists to
\* a file of its own, which holds it, at its own name where that was free, and
\* the cache passes nothing for current that is not, and keeps its limits
\* (extract_cfb_with_limit, unique_output_path, CfbReader, EntryChunkCache,
\* entry_chunks).
THEOREM FilesAndCacheAreSound ==
  StreamsSpec => [](/\ ListedAreWritten /\ FilesOwn /\ WrittenWhereRead
                    /\ CacheHonest /\ CacheWithinBounds)
<1>1. StreamsInv => /\ ListedAreWritten /\ FilesOwn /\ WrittenWhereRead
                    /\ CacheHonest /\ CacheWithinBounds
  BY ListedWritten, OwnFiles, WrittenThere, CacheSound DEF StreamsInv
<1> QED BY <1>1, StreamsInvariant, PTL
=============================================================================
