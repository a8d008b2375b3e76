----------------------------- MODULE WebRequests -----------------------------
(***************************************************************************)
(* msg3_log_service.rs: how requests of browsers share the search thread,  *)
(* the pool of chat connections and the directory of uploads.  A handler   *)
(* is a future: it is dropped where it waits when its browser leaves, but  *)
(* what it gave to a blocking thread, or to the search thread, goes on.    *)
(*                                                                         *)
(* What a search or a chat operation computes is left out; it succeeds,    *)
(* fails or panics.  A panic ends a blocking thread's task, and the        *)
(* search thread itself.                                                   *)
(***************************************************************************)
EXTENDS Integers, Sequences, FiniteSets, SequencesExt

CONSTANTS
  Texts,     \* requests that search for a text or an asset
  Uploads,   \* requests that search for an uploaded image
  Plain,     \* requests that read the chat database
  Caching,   \* those that also use the shared ChatCaches
  Traffic,   \* sets of requests that may come together
  Capacity,  \* SEARCH_QUEUE_CAPACITY
  PoolSize,  \* CHAT_POOL_SIZE
  MaxPanics  \* bound on the panics

Nobody == "nobody"

Searches == Texts \cup Uploads
Chats    == Plain \cup Caching
Requests == Searches \cup Chats

ASSUME WebAssumption ==
  /\ IsFiniteSet(Requests) /\ Nobody \notin Requests
  /\ Texts \cap Uploads = {} /\ Plain \cap Caching = {} /\ Searches \cap Chats = {}
  /\ Traffic \subseteq SUBSET Requests
  /\ Capacity \in Nat \ {0} /\ PoolSize \in Nat \ {0} /\ MaxPanics \in Nat

VARIABLES
  request,  \* where the handler of each request is
  reply,    \* what went into each search's response channel
  writing,  \* uploads a blocking thread is writing
  files,    \* uploads that have a file
  queue,    \* the commands in the channel of the search actor
  searcher, \* the search thread
  metrics,  \* SearchMetrics
  pool,     \* ChatDbPool, and who holds the lock of ChatCaches
  job,      \* the blocking task of each chat request
  panics

webVars  == <<request, reply, writing, files, queue, searcher, metrics, pool, job, panics>>
searchOf == <<reply, writing, files, queue, searcher, metrics>>
chatOf   == <<pool, job>>

Waiting == {"write", "wait", "permit", "task"}  \* where a handler awaits
Ended == {"answered", "refused", "stopped", "timed out", "left", "unguarded"}

Metrics == [queued : Nat, active : BOOLEAN, completed : Nat, failed : Nat, cancelled : Nat]
Idle == [pc |-> "recv", cmd |-> Nobody]

WebInit ==
  /\ \E come \in Traffic :
       request = [r \in Requests |-> IF r \in come THEN "away" ELSE "answered"]
  /\ reply = [r \in Searches |-> "none"]
  /\ writing = {} /\ files = {} /\ queue = <<>> /\ searcher = Idle
  /\ metrics = [queued |-> 0, active |-> FALSE, completed |-> 0, failed |-> 0, cancelled |-> 0]
  /\ pool = [free |-> PoolSize, connections |-> PoolSize, holder |-> Nobody, poisoned |-> FALSE]
  /\ job = [r \in Chats |-> "none"] /\ panics = 0

Goes(r, to) == request' = [request EXCEPT ![r] = to]
MayPanic == panics < MaxPanics /\ panics' = panics + 1

(***************************************************************************)
(* image_upload_search.  The name of the file is new; TemporaryUpload      *)
(* guards it only after tokio::fs::write has answered.                     *)
(***************************************************************************)
StartUpload(r) ==
  /\ request[r] = "away" /\ Goes(r, "write")
  /\ writing' = writing \cup {r}
  /\ UNCHANGED <<reply, files, queue, searcher, metrics, chatOf, panics>>

WriteFile(r) ==
  /\ r \in writing
  /\ writing' = writing \ {r} /\ files' = files \cup {r}
  /\ UNCHANGED <<request, reply, queue, searcher, metrics, chatOf, panics>>

\* The disk is full: the file is there, but not all of it.
WriteFails(r) ==
  /\ r \in writing
  /\ writing' = writing \ {r} /\ files' = files \cup {r}
  /\ IF request[r] = "write" THEN Goes(r, "unguarded") ELSE UNCHANGED request
  /\ UNCHANGED <<reply, queue, searcher, metrics, chatOf, panics>>

\* search_options comes after the guard, which removes the file.
RefuseOptions(r) ==
  /\ request[r] = "write" /\ r \in files
  /\ Goes(r, "answered") /\ files' = files \ {r}
  /\ UNCHANGED <<reply, writing, queue, searcher, metrics, chatOf, panics>>

(***************************************************************************)
(* SearchActor::execute.                                                   *)
(***************************************************************************)
Counted(by) == [metrics EXCEPT !.queued = @ + by]

Submit(r) ==
  /\ \/ r \in Texts /\ request[r] = "away"
     \/ r \in Uploads /\ request[r] = "write" /\ r \in files
  /\ Goes(r, "send") /\ metrics' = Counted(1)
  /\ UNCHANGED <<reply, writing, files, queue, searcher, chatOf, panics>>

TrySend(r) ==
  /\ request[r] = "send"
  /\ IF searcher.pc # "dead" /\ Len(queue) < Capacity
       THEN queue' = Append(queue, r) /\ Goes(r, "wait")
       ELSE Goes(r, "uncount") /\ UNCHANGED queue
  /\ UNCHANGED <<reply, writing, files, searcher, metrics, chatOf, panics>>

\* Bug: a command that was refused stays counted.
KeepsCount == metrics

Refused == Counted(-1)

\* The error holds the command, and with it the guard of the upload.
Refuse(r) ==
  /\ request[r] = "uncount"
  /\ Goes(r, "refused") /\ metrics' = Refused /\ files' = files \ {r}
  /\ UNCHANGED <<reply, writing, queue, searcher, chatOf, panics>>

Answer(r) ==
  /\ request[r] = "wait" /\ reply[r] # "none"
  /\ Goes(r, IF reply[r] = "dropped" THEN "stopped" ELSE "answered")
  /\ UNCHANGED <<searchOf, chatOf, panics>>

SearchTimeout(r) ==
  /\ request[r] = "wait" /\ reply[r] = "none"
  /\ Goes(r, "timed out")
  /\ UNCHANGED <<searchOf, chatOf, panics>>

\* The browser closes the connection: the future of the handler is dropped.
Leave(r) ==
  /\ request[r] \in Waiting
  /\ Goes(r, IF request[r] = "write" THEN "unguarded" ELSE "left")
  /\ UNCHANGED <<searchOf, chatOf, panics>>

(***************************************************************************)
(* The search thread.                                                      *)
(***************************************************************************)
Recv ==
  /\ searcher.pc = "recv" /\ queue # <<>>
  /\ searcher' = [pc |-> "popped", cmd |-> Head(queue)] /\ queue' = Tail(queue)
  /\ UNCHANGED <<request, reply, writing, files, metrics, chatOf, panics>>

Uncount ==
  /\ searcher.pc = "popped" /\ searcher' = [searcher EXCEPT !.pc = "check"]
  /\ metrics' = IF metrics.queued = 0 THEN metrics ELSE Counted(-1)
  /\ UNCHANGED <<request, reply, writing, files, queue, chatOf, panics>>

NobodyWaits(r) == request[r] # "wait"

Skip ==
  /\ searcher.pc = "check" /\ NobodyWaits(searcher.cmd)
  /\ searcher' = Idle /\ files' = files \ {searcher.cmd}
  /\ metrics' = [metrics EXCEPT !.cancelled = @ + 1]
  /\ UNCHANGED <<request, reply, writing, queue, chatOf, panics>>

Work ==
  /\ searcher.pc = "check" /\ ~NobodyWaits(searcher.cmd)
  /\ searcher' = [searcher EXCEPT !.pc = "work"] /\ metrics' = [metrics EXCEPT !.active = TRUE]
  /\ UNCHANGED <<request, reply, writing, files, queue, chatOf, panics>>

\* worker(command.kind) consumes the command's kind, the guard in it.
Worked ==
  /\ searcher.pc = "work" /\ files' = files \ {searcher.cmd}
  /\ \/ /\ searcher' = [searcher EXCEPT !.pc = "value"]
        /\ metrics' = [metrics EXCEPT !.active = FALSE, !.completed = @ + 1]
     \/ /\ searcher' = [searcher EXCEPT !.pc = "error"]
        /\ metrics' = [metrics EXCEPT !.active = FALSE, !.failed = @ + 1]
  /\ UNCHANGED <<request, reply, writing, queue, chatOf, panics>>

Respond ==
  /\ searcher.pc \in {"value", "error"} /\ searcher' = Idle
  /\ reply' = IF NobodyWaits(searcher.cmd) THEN reply ELSE [reply EXCEPT ![searcher.cmd] = searcher.pc]
  /\ UNCHANGED <<request, writing, files, queue, metrics, chatOf, panics>>

\* Commands that go with the receiver close their response channels.
Lost == Range(queue) \cup {searcher.cmd}

WorkerPanics ==
  /\ searcher.pc = "work" /\ MayPanic
  /\ searcher' = [pc |-> "dead", cmd |-> Nobody] /\ queue' = <<>> /\ files' = files \ Lost
  /\ reply' = [r \in Searches |-> IF r \in Lost THEN "dropped" ELSE reply[r]]
  /\ UNCHANGED <<request, writing, metrics, chatOf>>

(***************************************************************************)
(* ChatDbPool::run: a permit, then run_with_connection on a blocking       *)
(* thread, which goes on when the handler is dropped.                      *)
(***************************************************************************)
Ask(r) ==
  /\ request[r] = "away" /\ Goes(r, "permit")
  /\ UNCHANGED <<searchOf, chatOf, panics>>

Acquire(r) ==
  /\ request[r] = "permit" /\ pool.free > 0
  /\ Goes(r, "task") /\ pool' = [pool EXCEPT !.free = @ - 1]
  /\ job' = [job EXCEPT ![r] = "pop"]
  /\ UNCHANGED <<searchOf, panics>>

JobGoes(r, to) == job' = [job EXCEPT ![r] = to]

\* Bug: a permit without a connection is kept.
PermitKept == pool

\* The early return drops the permit.
PermitBack == [pool EXCEPT !.free = @ + 1]

\* "chat database pool invariant failed" when there is no connection.
Pop(r) ==
  /\ job[r] = "pop"
  /\ IF pool.connections > 0
       THEN JobGoes(r, "locked out") /\ pool' = [pool EXCEPT !.connections = @ - 1]
       ELSE JobGoes(r, "no connection") /\ pool' = PermitBack
  /\ UNCHANGED <<request, searchOf, panics>>

\* A poisoned lock is an error of the operation, not a panic.
Lock(r) ==
  /\ job[r] = "locked out"
  /\ \/ r \in Plain /\ JobGoes(r, "work") /\ UNCHANGED pool
     \/ r \in Caching /\ pool.poisoned /\ JobGoes(r, "push") /\ UNCHANGED pool
     \/ /\ r \in Caching /\ ~pool.poisoned /\ pool.holder = Nobody
        /\ JobGoes(r, "work") /\ pool' = [pool EXCEPT !.holder = r]
  /\ UNCHANGED <<request, searchOf, panics>>

Unlocked(r) == IF pool.holder = r THEN Nobody ELSE pool.holder

Operate(r) ==
  /\ job[r] = "work" /\ JobGoes(r, "push")
  /\ pool' = [pool EXCEPT !.holder = Unlocked(r)]
  /\ UNCHANGED <<request, searchOf, panics>>

\* Unwinding drops the connection, then the permit.
OperationPanics(r) ==
  /\ job[r] = "work" /\ MayPanic /\ JobGoes(r, "panicked")
  /\ pool' = [pool EXCEPT !.holder = Unlocked(r), !.poisoned = @ \/ pool.holder = r,
                          !.free = @ + 1]
  /\ UNCHANGED <<request, searchOf>>

Push(r) ==
  /\ job[r] = "push" /\ JobGoes(r, "release")
  /\ pool' = [pool EXCEPT !.connections = @ + 1]
  /\ UNCHANGED <<request, searchOf, panics>>

\* The permit is a parameter of run_with_connection and is dropped last.
Release(r) ==
  /\ job[r] = "release" /\ JobGoes(r, "done")
  /\ pool' = PermitBack
  /\ UNCHANGED <<request, searchOf, panics>>

JobAnswered(r) ==
  /\ request[r] = "task" /\ job[r] \in {"done", "panicked", "no connection"}
  /\ Goes(r, "answered")
  /\ UNCHANGED <<searchOf, chatOf, panics>>

UploadStep(r) == StartUpload(r) \/ WriteFile(r) \/ WriteFails(r) \/ RefuseOptions(r)
SearchStep(r) == Submit(r) \/ TrySend(r) \/ Refuse(r) \/ Answer(r) \/ SearchTimeout(r)
ThreadStep == Recv \/ Uncount \/ Skip \/ Work \/ Worked \/ Respond
ChatStep(r) == Ask(r) \/ Acquire(r) \/ JobAnswered(r)
JobStep(r) == Pop(r) \/ Lock(r) \/ Operate(r) \/ Push(r) \/ Release(r)

WebNext ==
  \/ \E r \in Uploads : UploadStep(r)
  \/ \E r \in Searches : SearchStep(r)
  \/ \E r \in Requests : Leave(r)
  \/ ThreadStep \/ WorkerPanics
  \/ \E r \in Chats : ChatStep(r) \/ JobStep(r) \/ OperationPanics(r)

\* What a handler does next when it is polled; a file that is being written.
Polled(r) ==
  \/ r \in Searches /\ request[r] # "away" /\ SearchStep(r)
  \/ r \in Chats /\ request[r] # "away" /\ ChatStep(r)

WebFairness ==
  /\ \A r \in Requests : WF_webVars(Polled(r))
  /\ \A r \in Uploads : WF_webVars(WriteFile(r) \/ WriteFails(r))
  /\ \A r \in Chats : WF_webVars(JobStep(r)) /\ SF_webVars(Acquire(r)) /\ SF_webVars(Lock(r))
  /\ WF_webVars(ThreadStep)

WebSpec == WebInit /\ [][WebNext]_webVars /\ WebFairness

(***************************************************************************)
(* Properties.                                                             *)
(***************************************************************************)
At(pcs) == {r \in Requests : request[r] \in pcs}
JobsAt(pcs) == {r \in Chats : job[r] \in pcs}

(***************************************************************************)
(* The file of an upload is there only while something that will remove it *)
(* has it: its handler, the queue, or the thread.  The exception is the    *)
(* browser that leaves, or the disk that is full, before TemporaryUpload   *)
(* exists: that file nobody removes.                                       *)
(***************************************************************************)
UploadsHaveOwner ==
  files \subseteq At({"write", "send", "uncount", "unguarded"}) \cup Lost

(***************************************************************************)
(* SearchMetrics.queued is the number of commands that are being sent,     *)
(* wait, or have just been taken, and active tells whether the thread      *)
(* searches; unless it died of a panic.                                    *)
(***************************************************************************)
MetricsTell ==
  searcher.pc # "dead" =>
    /\ metrics.queued = Len(queue) + Cardinality(At({"send", "uncount"}))
                        + Cardinality({t \in {searcher} : t.pc = "popped"})
    /\ metrics.active <=> searcher.pc = "work"

(***************************************************************************)
(* When the search thread has died, no browser is left to the five-minute  *)
(* timeout: its command was refused, or its channel closed.                *)
(***************************************************************************)
DeathIsTold ==
  searcher.pc = "dead" =>
    \A r \in Searches : request[r] = "wait" => reply[r] # "none"

(***************************************************************************)
(* A permit of the pool stands for a connection: only after an operation   *)
(* panicked does a request find none.                                      *)
(***************************************************************************)
PermitMeansConnection ==
  /\ pool.connections + Cardinality(JobsAt({"panicked"}))
       = pool.free + Cardinality(JobsAt({"pop", "release"}))
  /\ JobsAt({"no connection"}) # {} => JobsAt({"panicked"}) # {}

(***************************************************************************)
(* The inductive invariant behind them.                                    *)
(***************************************************************************)
RequestPcs == Waiting \cup Ended \cup {"away", "send", "uncount"}
JobPcs ==
  {"none", "pop", "locked out", "work", "push", "release", "done", "no connection", "panicked"}

ChatPool ==
  [free : Nat, connections : Nat, holder : Requests \cup {Nobody}, poisoned : BOOLEAN]

WebTypeOK ==
  /\ request \in [Requests -> RequestPcs]
  /\ reply \in [Searches -> {"none", "value", "error", "dropped"}]
  /\ writing \in SUBSET Uploads /\ files \in SUBSET Uploads /\ queue \in Seq(Searches)
  /\ searcher \in [pc : {"recv", "popped", "check", "work", "value", "error", "dead"},
                   cmd : Searches \cup {Nobody}]
  /\ metrics \in Metrics
  /\ pool \in ChatPool
  /\ job \in [Chats -> JobPcs]

\* A command is owned by the channel or the thread only once its handler has
\* sent it, and the thread has one only while it is busy.
CommandsSent ==
  /\ \A r \in Lost \ {Nobody} :
       request[r] \in {"wait", "answered", "stopped", "timed out", "left"}
  /\ searcher.cmd = Nobody <=> searcher.pc \in {"recv", "dead"}

\* The guard went with the command's kind.
GuardConsumed == searcher.pc \in {"value", "error"} => searcher.cmd \notin files

\* Who waits without an answer has a command on its way.
WaitersQueued ==
  \A r \in Searches : request[r] = "wait" /\ reply[r] = "none" => r \in Lost

\* A file that is being written is not there yet, and its handler waits or left.
WritersKnown ==
  writing \cap files = {} /\ writing \subseteq At({"write", "unguarded"})

\* AtomicUsize never wraps around: what fetch_sub takes away was counted.
QueuedNeverWraps == metrics.queued >= Cardinality(At({"send", "uncount"}))

\* A permit comes before the job, and one request has one job.
JobAfterPermit == \A r \in Chats : request[r] \in {"away", "permit"} => job[r] = "none"

SearchInv ==
  /\ UploadsHaveOwner /\ MetricsTell /\ DeathIsTold
  /\ CommandsSent /\ GuardConsumed /\ WaitersQueued /\ WritersKnown /\ QueuedNeverWraps

ChatInv == JobAfterPermit /\ PermitMeansConnection

WebInv == WebTypeOK /\ SearchInv /\ ChatInv

\* Files, places in the queue and connections are accounted for by requests.
NothingLeaks ==
  UploadsHaveOwner /\ MetricsTell /\ DeathIsTold /\ PermitMeansConnection

(***************************************************************************)
(* Every request that was begun comes to an end, whoever leaves, panics or *)
(* keeps the search thread busy.                                           *)
(***************************************************************************)
RequestsEnd ==
  \A r \in Requests : request[r] # "away" ~> request[r] \in Ended
=============================================================================
