---------------------------- MODULE RankingTasks ----------------------------
(***************************************************************************)
(* Ranking tasks of the propagation dashboard (image_insights.rs,          *)
(* RankingTaskCache) over the vector index they wait for.  Browsers        *)
(* request a ranking again and again until it is complete; a request for   *)
(* another ranking cancels the ones that are not finished.                 *)
(*                                                                         *)
(* A task is found by the generation of the content, the generation of the *)
(* index and the query.  A run is the tokio task that computes it: runs    *)
(* are numbered by the sequence they were started with, which is counted   *)
(* on when the service is started again.                                   *)
(***************************************************************************)
EXTENDS VectorIndex, FiniteSetsExt

CONSTANTS
  Browsers,    \* concurrent requests
  Queries,     \* rankings that are asked for
  TokenOf,     \* browser -> the request token it sends, or NoToken
  NoToken,
  MaxRuns,     \* bound on the runs
  Workers,     \* permits of the semaphore (2)
  CacheLimit   \* RANKING_CACHE_LIMIT

ASSUME RankingAssumption ==
  /\ DOMAIN TokenOf = Browsers
  /\ MaxRuns \in Nat /\ Workers \in Nat \ {0} /\ CacheLimit \in Nat \ {0}

VARIABLES
  tasks,      \* key -> task, for the keys in the cache
  runs,       \* run -> what it is doing
  sequence,   \* last run started
  requests,   \* browser -> its request
  available   \* whether the build has the vector index at all

rankingVars == <<vectorVars, tasks, runs, sequence, requests, available>>

Tokens == {TokenOf[b] : b \in Browsers} \cup {NoToken}
Runs == 1 .. MaxRuns
Keys == [version : Contents, ann : 0 .. 1, query : Queries]

TaskStates == {"queued", "running", "complete", "cancelled", "failed"}
Live       == {"queued", "running"}

\* A result is reduced to the run that computed it and the version it read.
Results  == [by : Runs, version : Contents]
NoResult == [by |-> 0, version |-> NotYet]

RankingTask == [state : TaskStates, result : Results \cup {NoResult},
                sequence : Runs, token : Tokens]

RunSteps == {"none", "permit", "index", "open", "settle", "done"}
\* of is the key of the task; flag is the cancel flag, an Arc that the run
\* shares with its task and that outlives the task in the cache.
NoKey == [version |-> NotYet, ann |-> 0, query |-> "none"]
RankingRun == [pc : RunSteps, of : Keys \cup {NoKey}, flag : BOOLEAN,
               outcome : {"none", "done", "error"}, version : Contents \cup {NotYet}]
NoRun   == [pc |-> "none", of |-> NoKey, flag |-> FALSE, outcome |-> "none",
            version |-> NotYet]
DoneRun == [NoRun EXCEPT !.pc = "done"]

\* A request reads the identity first; then it holds the key it will use.
Request == Keys \cup {NoKey}

RankingInit ==
  /\ VectorInit
  /\ tasks = <<>>
  /\ runs = [r \in Runs |-> NoRun]
  /\ sequence = 0
  /\ requests = [b \in Browsers |-> NoKey]
  /\ available \in BOOLEAN

----------------------------------------------------------------------------
(***************************************************************************)
(* Requests.                                                               *)
(***************************************************************************)
rest == <<vectorVars, available>>

Ask(b, query) ==
  /\ Serving /\ requests[b] = NoKey
  /\ requests' = [requests EXCEPT ![b] =
       [version |-> content, ann |-> state.generation, query |-> query]]
  /\ UNCHANGED <<rest, tasks, runs, sequence>>

ShouldStart(key, token) ==
  key \in DOMAIN tasks =>
    /\ tasks[key].state \in {"cancelled", "failed"}
    /\ token = NoToken \/ tasks[key].token # token

ToCancel == {k \in DOMAIN tasks : tasks[k].state \in Live}

Cancelled(stopped) ==
  [k \in DOMAIN tasks |->
     IF k \in stopped THEN [tasks[k] EXCEPT !.state = "cancelled"] ELSE tasks[k]]

Inserted(cache, key, token) ==
  [k \in DOMAIN cache \cup {key} |->
     IF k # key THEN cache[k]
     ELSE [state |-> "queued", result |-> NoResult,
           sequence |-> sequence + 1, token |-> token]]

Removable(cache) == {k \in DOMAIN cache : cache[k].state \notin Live}

\* trim_ranking_tasks: the oldest finished tasks go.  Sequences are unique,
\* so the ones that stay are those with few removable tasks behind them.
Trimmed(cache) ==
  LET excess == Cardinality(DOMAIN cache) - CacheLimit
      older(k) == {o \in Removable(cache) : cache[o].sequence < cache[k].sequence}
      gone == {k \in Removable(cache) : Cardinality(older(k)) < excess}
  IN  [k \in DOMAIN cache \ gone |-> cache[k]]

FlagsRaised(stopped) ==
  [r \in Runs |-> [runs[r] EXCEPT !.flag = @ \/ \E k \in stopped : tasks[k].sequence = r]]

\* One critical section: a new task cancels what is not finished.
Start(b) ==
  LET key == requests[b]
      stopped == ToCancel
  IN  /\ ShouldStart(key, TokenOf[b]) /\ sequence < MaxRuns
      /\ sequence' = sequence + 1
      /\ tasks' = Trimmed(Inserted(Cancelled(stopped), key, TokenOf[b]))
      /\ runs' = [FlagsRaised(stopped) EXCEPT ![sequence + 1] =
                    [NoRun EXCEPT !.pc = "permit", !.of = key]]

Join(b) ==
  /\ ~ShouldStart(requests[b], TokenOf[b])
  /\ UNCHANGED <<sequence, tasks, runs>>

\* The answer is a snapshot of the task, which changes nothing.
Enter(b) ==
  /\ requests[b] # NoKey
  /\ Start(b) \/ Join(b)
  /\ requests' = [requests EXCEPT ![b] = NoKey]
  /\ UNCHANGED rest

----------------------------------------------------------------------------
(***************************************************************************)
(* run_task.                                                               *)
(***************************************************************************)
Holding == {r \in Runs : runs[r].pc \in {"index", "open", "settle"}}

\* The task this run was started for, unless it was trimmed or replaced.
Mine(r) == runs[r].of \in DOMAIN tasks /\ tasks[runs[r].of].sequence = r

RunGoesTo(r, step) == runs' = [runs EXCEPT ![r].pc = step]
Marked(r, mark)    == tasks' = [tasks EXCEPT ![runs[r].of].state = mark]

\* A step that ends the run, telling its task if it still has one.
EndAs(r, mark) ==
  /\ runs' = [runs EXCEPT ![r] = DoneRun]
  /\ IF Mine(r) THEN Marked(r, mark) ELSE UNCHANGED tasks

\* Bug: the flag is not looked at when the permit comes.
BeginAnyway(r) == TRUE

NotCancelled(r) == ~runs[r].flag

Begin(r) ==
  /\ runs[r].pc = "permit" /\ Cardinality(Holding) < Workers
  /\ IF Mine(r) /\ NotCancelled(r)
       THEN Marked(r, "running") /\ RunGoesTo(r, "index")
       ELSE EndAs(r, "cancelled")
  /\ UNCHANGED <<rest, sequence, requests>>

\* A build without the vector index refuses at once.
Unavailable(r) ==
  /\ runs[r].pc = "index" /\ ~available
  /\ EndAs(r, "failed")
  /\ UNCHANGED <<rest, sequence, requests>>

\* Bug: the graph counts as the index before its mapping is there.
GraphIsThere == state.phase \in {"indexing", "mapping", "ready"}

IndexIsReady == VectorReady

\* The index is there: the run takes the flag of its task.
IndexReady(r) ==
  /\ runs[r].pc = "index" /\ available /\ IndexIsReady
  /\ IF Mine(r) THEN RunGoesTo(r, "open") ELSE runs' = [runs EXCEPT ![r] = DoneRun]
  /\ UNCHANGED <<rest, tasks, sequence, requests>>

\* The loop that waits for the index: its error ends the run even when it
\* has been cancelled, then the flag is looked at, every half second.
IndexFailed(r) ==
  /\ runs[r].pc = "index" /\ available /\ VectorFailed
  /\ EndAs(r, "failed")
  /\ UNCHANGED <<rest, sequence, requests>>

\* Bug: the waiting loop watches the index only.
NeverGivesUp(r) == FALSE

GivesUp(r) == ~Mine(r) \/ runs[r].flag

WaitCancelled(r) ==
  /\ runs[r].pc = "index" /\ available /\ ~VectorReady /\ ~VectorFailed
  /\ GivesUp(r)
  /\ EndAs(r, "cancelled")
  /\ UNCHANGED <<rest, sequence, requests>>

\* compute_ranked_assets opens the manifest; it stops at a flag, fails, or
\* panics in its thread.  A flag that comes later shows in Settled.
Compute(r) ==
  /\ runs[r].pc = "open"
  /\ \/ /\ ~runs[r].flag
        /\ runs' = [runs EXCEPT ![r].pc = "settle", ![r].outcome = "done",
                               ![r].version = content]
     \/ runs' = [runs EXCEPT ![r].pc = "settle", ![r].outcome = "error"]
  /\ UNCHANGED <<rest, tasks, sequence, requests>>

\* Bug: a run that was cancelled too late completes its task.
CompletesLate(r) ==
  IF runs[r].outcome = "done" THEN "complete" ELSE "failed"

Settled(r) ==
  IF runs[r].flag THEN "cancelled"
  ELSE IF runs[r].outcome = "done" THEN "complete" ELSE "failed"

\* The permit is given back just before.
Settle(r) ==
  /\ runs[r].pc = "settle"
  /\ runs' = [runs EXCEPT ![r] = DoneRun]
  /\ IF Mine(r)
       THEN tasks' = [tasks EXCEPT ![runs[r].of].state = Settled(r),
              ![runs[r].of].result = IF Settled(r) = "complete"
                                       THEN [by |-> r, version |-> runs[r].version]
                                       ELSE @]
       ELSE UNCHANGED tasks
  /\ UNCHANGED <<rest, sequence, requests>>

RunStep(r) ==
  \/ Begin(r) \/ Unavailable(r) \/ IndexReady(r) \/ IndexFailed(r) \/ WaitCancelled(r)
  \/ Compute(r) \/ Settle(r)

----------------------------------------------------------------------------
taskVars == <<tasks, runs, sequence, requests>>

\* A build without the feature has no preparing thread that does anything.
VectorSteps ==
  /\ \/ ChangeContent \/ StartService
     \/ available /\ PrepStep
  /\ UNCHANGED <<taskVars, available>>

\* The tasks live in the memory of the service.
Killed ==
  /\ StopService
  /\ tasks' = <<>>
  /\ runs' = [r \in Runs |-> IF r <= sequence THEN DoneRun ELSE NoRun]
  /\ requests' = [b \in Browsers |-> NoKey]
  /\ UNCHANGED <<sequence, available>>

RankingNext ==
  \/ VectorSteps
  \/ Killed
  \/ \E b \in Browsers :
       \/ \E query \in Queries : Ask(b, query)
       \/ Enter(b)
  \/ \E r \in Runs : RunStep(r)

\* The preparing thread and the runs go on; nobody has to ask, to change the
\* manifest or to stop the service.  Runs are finite, so fairness of them
\* together is enough.
RankingFairness ==
  /\ WF_rankingVars(VectorSteps /\ PrepStep)
  /\ WF_rankingVars(\E r \in Runs : RunStep(r))

RankingSpec == RankingInit /\ [][RankingNext]_rankingVars /\ RankingFairness

----------------------------------------------------------------------------
RankingTypeOK ==
  /\ VectorTypeOK
  /\ DOMAIN tasks \subseteq Keys
  /\ \A k \in DOMAIN tasks : tasks[k] \in RankingTask
  /\ runs \in [Runs -> RankingRun]
  /\ requests \in [Browsers -> Request]

\* At most one ranking is being prepared or computed for a reader, whatever
\* is left of earlier runs: every start cancels the others first.  So the
\* cache keeps to its limit though a live task is never trimmed.
OneLiveTask ==
  /\ RankingTypeOK
  /\ Cardinality({k \in DOMAIN tasks : tasks[k].state \in Live}) <= 1
  /\ Cardinality(DOMAIN tasks) <= CacheLimit

\* A ranking that is served was computed by the run of the very task, from
\* content that is no older than its key, after the vectors were ready.
ResultOfItsTask ==
  \A k \in DOMAIN tasks :
    tasks[k].state = "complete" =>
      /\ tasks[k].result.by = tasks[k].sequence
      /\ tasks[k].result.version >= k.version
      /\ VectorReady

\* Requests, replaced runs and the limit of the cache together leave one live
\* task, and results only under the task that computed them (RankingTaskCache).
TasksSound == OneLiveTask /\ ResultOfItsTask

\* A task that was cancelled stays so, except that a failed index may still
\* mark it failed; only a new run under the same key replaces it.
CancelledStays ==
  [][\A k \in DOMAIN tasks \cap DOMAIN tasks' :
       tasks[k].state = "cancelled" /\ tasks'[k].sequence = tasks[k].sequence /\ Serving
         => tasks'[k].state \in {"cancelled", "failed"}]_rankingVars

\* Every run ends, with its permit, unless the preparation of the index
\* stalled: then a run waits as long as nobody cancels it.  Only an index that
\* was found on disk can stall; a rebuild always tells how it ended.
Waiting(r) == Stalled /\ prep.path = "load" /\ ~runs[r].flag

RunsEnd == []<>(\A r \in Runs : runs[r].pc \in {"none", "done"} \/ Waiting(r))

----------------------------------------------------------------------------
(***************************************************************************)
(* What every step keeps, so that TasksSound and CancelledStays hold.      *)
(***************************************************************************)
Active(r) == runs[r].pc \notin {"none", "done"}

\* Runs are numbered as they start, and the cache knows started ones only.
StartedInOrder ==
  /\ sequence \in 0 .. MaxRuns
  /\ \A r \in Runs : Active(r) => r <= sequence
  /\ \A k \in DOMAIN tasks : tasks[k].sequence <= sequence

OneLive ==
  \A k, other \in DOMAIN tasks :
    tasks[k].state \in Live /\ tasks[other].state \in Live => k = other

CacheBounded == IsFiniteSet(DOMAIN tasks) /\ Cardinality(DOMAIN tasks) <= CacheLimit

\* A run whose task is no longer live carries a raised flag.
FlagTellsCancelled ==
  \A r \in Runs : Active(r) /\ Mine(r) =>
    tasks[runs[r].of].state \in Live \/ runs[r].flag

RunKnows ==
  \A r \in Runs :
    /\ Active(r) => runs[r].of \in Keys /\ runs[r].of.version <= content
    /\ runs[r].pc \in {"open", "settle"} => VectorReady
    /\ runs[r].pc = "settle" /\ runs[r].outcome = "done" =>
         runs[r].version \in Contents /\ runs[r].version >= runs[r].of.version

RankingInv ==
  /\ VectorInv
  /\ RankingTypeOK
  /\ \A b \in Browsers : requests[b] # NoKey =>
       requests[b] \in Keys /\ requests[b].version <= content
  /\ StartedInOrder /\ OneLive /\ CacheBounded /\ FlagTellsCancelled
  /\ RunKnows /\ ResultOfItsTask
=============================================================================
