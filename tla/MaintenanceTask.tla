-------------------------- MODULE MaintenanceTask --------------------------
(***************************************************************************)
(* What the maintenance page promises of one background task, and what     *)
(* ChatLinker and PopularityBuild take for granted: the task is worked on  *)
(* by at most one thread, and by none while it is shown as idle.           *)
(***************************************************************************)
CONSTANT Workers   \* identities of the threads that may work on the task

VARIABLES
  phase,    \* what the page shows
  working   \* the threads that work on the task

taskVars == <<phase, working>>

TaskInit == phase = "idle" /\ working = {}

\* A start is accepted, but the thread does not exist yet.
Begin ==
  /\ phase = "idle" /\ working = {}
  /\ phase' = "running"
  /\ UNCHANGED working

Enter ==
  /\ phase # "idle" /\ working = {}
  /\ \E w \in Workers : working' = {w}
  /\ UNCHANGED phase

Pause ==
  /\ phase = "running"
  /\ phase' = "pausing"
  /\ UNCHANGED working

\* The thread is done, or could not be created.
End ==
  /\ phase # "idle"
  /\ phase' = "idle"
  /\ working' = {}

\* The thread panics: nobody takes the task back.
Die ==
  /\ working # {}
  /\ working' = {}
  /\ UNCHANGED phase

TaskNext == Begin \/ Enter \/ Pause \/ End \/ Die

TaskSpec == TaskInit /\ [][TaskNext]_taskVars
=============================================================================
