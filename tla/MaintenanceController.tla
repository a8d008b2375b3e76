----------------------- MODULE MaintenanceController -----------------------
(***************************************************************************)
(* The controller of one background task of the web service                *)
(* (msg3_log_service.rs, MaintenanceController): clients start and pause   *)
(* the task, a thread of its own does the work (link_chat or               *)
(* build_popularity_analysis), and the runtime record they share behind a  *)
(* mutex says what the maintenance page shows.  Each action below is one   *)
(* critical section, or one step outside of the mutex.                     *)
(***************************************************************************)
EXTENDS Naturals

CONSTANTS
  Clients,     \* concurrent start requests
  MaxRuns,     \* bound on the number of runs
  SpawnFails,  \* whether the operating system may refuse a thread
  Panics,      \* whether the work may panic
  CleansUp     \* the popularity task drops superseded tables at its end

ASSUME ControllerAssumption ==
  /\ MaxRuns \in Nat
  /\ SpawnFails \in BOOLEAN /\ Panics \in BOOLEAN /\ CleansUp \in BOOLEAN

Runs  == 1 .. MaxRuns
NoRun == 0

VARIABLES
  runtime,  \* MaintenanceRuntime
  flag,     \* run -> its cancel flag, an Arc<AtomicBool>
  thread,   \* run -> what its thread is doing
  handler,  \* client -> the run it is about to spawn a thread for
  started   \* number of runs so far

controllerVars == <<runtime, flag, thread, handler, started>>

\* cancel is Some exactly while the task is running.
MaintenanceRuntime ==
  {m \in [running : BOOLEAN, stopping : BOOLEAN,
          cancel : Runs \cup {NoRun},        \* whose flag
          last_error : Runs \cup {NoRun}] :  \* whose error
     m.running <=> m.cancel # NoRun}

Active   == {"work", "succeeded", "failed"}
Progress == {"none", "cleanup", "ended", "died"} \cup Active

ControllerInit ==
  /\ runtime = [running |-> FALSE, stopping |-> FALSE, cancel |-> NoRun,
                last_error |-> NoRun]
  /\ flag = [r \in Runs |-> FALSE]
  /\ thread = [r \in Runs |-> "none"]
  /\ handler = [c \in Clients |-> NoRun]
  /\ started = 0

(***************************************************************************)
(* Requests.                                                               *)
(***************************************************************************)
\* Bug: a task that is being paused may be started again at once.
MayStartStopping == ~runtime.running \/ runtime.stopping

MayStart == ~runtime.running

RuntimeOf(r) ==
  [running |-> TRUE, stopping |-> FALSE, cancel |-> r, last_error |-> NoRun]

StartTask(c) ==
  /\ handler[c] = NoRun /\ MayStart
  /\ started < MaxRuns
  /\ started' = started + 1
  /\ runtime' = RuntimeOf(started')
  /\ handler' = [handler EXCEPT ![c] = started']
  /\ UNCHANGED <<flag, thread>>

Spawn(c) ==
  /\ handler[c] # NoRun
  /\ thread' = [thread EXCEPT ![handler[c]] = "work"]
  /\ handler' = [handler EXCEPT ![c] = NoRun]
  /\ UNCHANGED <<runtime, flag, started>>

\* The stopping mark of a pause that came first is left behind.
GivenBack == [runtime EXCEPT !.running = FALSE, !.cancel = NoRun]

SpawnFailed(c) ==
  /\ SpawnFails /\ handler[c] # NoRun
  /\ runtime' = GivenBack
  /\ handler' = [handler EXCEPT ![c] = NoRun]
  /\ UNCHANGED <<flag, thread, started>>

\* Bug: the flag is looked up among the threads, where the run may not be yet.
SignalledThreads == [r \in Runs |-> flag[r] \/ thread[r] = "work"]

Signalled == [r \in Runs |-> flag[r] \/ r = runtime.cancel]

PauseTask ==
  /\ runtime.running
  /\ runtime' = [runtime EXCEPT !.stopping = TRUE]
  /\ flag' = Signalled
  /\ UNCHANGED <<thread, handler, started>>

(***************************************************************************)
(* The thread of a run.                                                    *)
(***************************************************************************)
WorkEnds(r) ==
  /\ thread[r] = "work"
  /\ \E result \in {"succeeded", "failed"} : thread' = [thread EXCEPT ![r] = result]
  /\ UNCHANGED <<runtime, flag, handler, started>>

ErrorOf(r) == IF thread[r] = "failed" /\ ~flag[r] THEN r ELSE NoRun

Settle(r) ==
  /\ thread[r] \in {"succeeded", "failed"}
  /\ runtime' = [running |-> FALSE, stopping |-> FALSE, cancel |-> NoRun,
                 last_error |-> ErrorOf(r)]
  /\ thread' = [thread EXCEPT ![r] =
                  IF @ = "succeeded" /\ CleansUp THEN "cleanup" ELSE "ended"]
  /\ UNCHANGED <<flag, handler, started>>

\* cleanup_superseded_occurrence_tables: the task may be started meanwhile.
Cleanup(r) ==
  /\ thread[r] = "cleanup"
  /\ thread' = [thread EXCEPT ![r] = "ended"]
  /\ UNCHANGED <<runtime, flag, handler, started>>

\* Nothing catches the panic: the runtime stays as it is.
Panic(r) ==
  /\ Panics /\ thread[r] = "work"
  /\ thread' = [thread EXCEPT ![r] = "died"]
  /\ UNCHANGED <<runtime, flag, handler, started>>

ControllerNext ==
  \/ \E c \in Clients : StartTask(c) \/ Spawn(c) \/ SpawnFailed(c)
  \/ PauseTask
  \/ \E r \in Runs : WorkEnds(r) \/ Settle(r) \/ Cleanup(r) \/ Panic(r)

\* Requests are served and threads are scheduled, but only a run whose flag
\* is set is known to end: the loops of the linker and the builder look at it.
ControllerFairness ==
  /\ \A c \in Clients : WF_controllerVars(Spawn(c) \/ SpawnFailed(c))
  /\ \A r \in Runs : /\ WF_controllerVars(flag[r] /\ WorkEnds(r))
                     /\ WF_controllerVars(Settle(r))

ControllerSpec == ControllerInit /\ [][ControllerNext]_controllerVars /\ ControllerFairness

(***************************************************************************)
(* Properties.                                                             *)
(***************************************************************************)
ControllerTypeOK ==
  /\ runtime \in MaintenanceRuntime
  /\ flag \in [Runs -> BOOLEAN]
  /\ thread \in [Runs -> Progress]
  /\ handler \in [Clients -> Runs \cup {NoRun}]
  /\ started \in 0 .. MaxRuns

(***************************************************************************)
(* The page shows a task as stopping exactly when the run it belongs to    *)
(* has been told to, whatever starts, failed starts and ends came between  *)
(* (MaintenanceRuntime.stopping against the flag the thread holds).        *)
(***************************************************************************)
PauseOfThisRun == runtime.running => (runtime.stopping <=> flag[runtime.cancel])

(***************************************************************************)
(* last_error is of the last run that was started, which has ended, and    *)
(* never one that a pause provoked.                                        *)
(***************************************************************************)
ErrorOfLastRun ==
  runtime.last_error # NoRun =>
    /\ runtime.last_error = started /\ ~runtime.running
    /\ thread[started] = "ended" /\ ~flag[started]

(***************************************************************************)
(* A pause ends the run it was meant for, even one whose thread does not   *)
(* exist yet, unless the thread dies.                                      *)
(***************************************************************************)
PauseTakesEffect ==
  runtime.stopping ~> ~runtime.running \/ \E r \in Runs : thread[r] = "died"

(***************************************************************************)
(* The controller keeps the promise of MaintenanceTask: at most one thread *)
(* at work, none while the task is shown as idle.                          *)
(***************************************************************************)
Phase ==
  IF ~runtime.running THEN "idle" ELSE IF runtime.stopping THEN "pausing" ELSE "running"

Working == {r \in Runs : thread[r] \in Active}

Task == INSTANCE MaintenanceTask WITH
          Workers <- Runs, phase <- Phase, working <- Working

ImplementsTask == Task!TaskSpec

(***************************************************************************)
(* Why it does: a running task is owned by one request about to spawn, by  *)
(* one thread, or by a thread that died.                                   *)
(***************************************************************************)
RunIsLatest == runtime.running => runtime.cancel = started

NotStartedYet == \A r \in Runs : r > started => thread[r] = "none" /\ ~flag[r]

RequestOwnsRun ==
  \A c \in Clients : handler[c] # NoRun =>
    /\ runtime.running /\ handler[c] = started /\ thread[started] = "none"
    /\ \A d \in Clients \ {c} : handler[d] = NoRun

ThreadOwnsRun == \A r \in Working : runtime.running /\ r = started

ControllerInv ==
  /\ ControllerTypeOK /\ RunIsLatest /\ NotStartedYet /\ RequestOwnsRun
  /\ ThreadOwnsRun /\ PauseOfThisRun /\ ErrorOfLastRun
=============================================================================
