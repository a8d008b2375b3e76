----------------------------- MODULE MediaIndex -----------------------------
(***************************************************************************)
(* media_info.rs: one build or repair of the media index at a time.  A     *)
(* build lists the files below its roots, passes over those whose row has  *)
(* their size and time, probes the rest and writes rows in batches; a      *)
(* repair probes the rows that had problems again.  With one worker the    *)
(* main thread does everything ("serial"); otherwise workers probe, and    *)
(* the main thread lists the files itself ("single") or lets walkers send  *)
(* them ("parallel").                                                      *)
(*                                                                         *)
(* A file is told by its version: a program that changes it also changes   *)
(* its stamp, the size and time the rows are compared by.  Channels are    *)
(* sequences; a walker or worker that has left its loop is "gone".         *)
(***************************************************************************)
EXTENDS Integers, Sequences, FiniteSets, SequencesExt

CONSTANTS
  Dirs,       \* directories, all of them below the roots
  Roots,      \* roots of a build, a sequence of directories
  SubDirs,    \* directories in a directory
  FilesIn,    \* files that should_consider_path accepts, in a directory
  Paths,      \* all files, in the order of their paths
  Walkers, Workers,
  JobLimit,   \* probe_job_queue_size
  EventLimit, \* walk_event_queue_size
  JobBatch,   \* probe_job_batch_size
  WriteBatch, \* sqlite_write_batch_size
  Limits,     \* what max_files may be
  EarlierRows, \* what earlier runs may have left in media_files
  HashFull,   \* whether hash_mode is "full"
  MaxEdits, MaxRuns, MaxPanics

Files == Range(Paths)

ASSUME MediaAssumption ==
  /\ Roots \in Seq(Dirs) /\ Roots # <<>> /\ Paths \in Seq(Files)
  /\ SubDirs \in [Dirs -> SUBSET Dirs] /\ FilesIn \in [Dirs -> SUBSET Files]
  /\ IsFiniteSet(Dirs) /\ IsFiniteSet(Walkers) /\ IsFiniteSet(Workers)
  /\ Walkers # {} /\ Workers # {} /\ Limits \subseteq Nat
  /\ {JobLimit, EventLimit, JobBatch, WriteBatch} \subseteq Nat \ {0}
  /\ HashFull \in BOOLEAN /\ {MaxEdits, MaxRuns, MaxPanics} \subseteq Nat

\* Every directory is a root or below one.
ASSUME TreeAssumption ==
  \A known \in SUBSET Dirs :
    Range(Roots) \subseteq known /\ (\A dir \in known : SubDirs[dir] \subseteq known)
    => known = Dirs

VARIABLES
  disk,    \* version of each file, 0 when it is not there
  edits,   \* changes of files so far
  rows,    \* media_files with what belongs to them
  run,     \* the build or repair: options, progress and counters
  lister,  \* MediaFileWalker of the main thread
  walk,    \* what the walkers share
  walker,  \* each walker
  pool,    \* the channels of the workers
  worker,  \* each worker
  writer   \* pending of ProbeWriteBatch

mediaVars == <<disk, edits, rows, run, lister, walk, walker, pool, worker, writer>>
threads   == <<walk, walker, pool, worker>>
outside   == <<disk, edits>>

NoRow == [stamp |-> 0, content |-> 0, hash |-> 0, status |-> "none"]

\* The first version of a file that the model sees is 2, an earlier one 1.
EarlierRow ==
  {row \in [stamp : 1 .. 2, content : 0 .. 2, hash : 0 .. 2, status : {"ok", "problem"}] :
     row.stamp = 2 => row.content = 2 /\ (HashFull => row.hash = 2)}

ASSUME EarlierAssumption == EarlierRows \subseteq [Files -> EarlierRow \cup {NoRow}]

Ended  == {"off", "done", "failed"}
Resting == [pc |-> "off", kind |-> "build", mode |-> "serial", force |-> FALSE, max |-> 0,
            targets |-> <<>>, next |-> <<>>, loaded |-> {}, scanned |-> 0, sent |-> 0,
            received |-> 0, errors |-> 0, lost |-> 0, calm |-> TRUE, runs |-> 0, panics |-> 0]
NoLister == [roots |-> <<>>, dirs |-> <<>>, current |-> {}]
NoWalk   == [dirs |-> <<>>, pending |-> 0, stop |-> FALSE, events |-> <<>>, closed |-> FALSE]
NoPool   == [jobs |-> <<>>, open |-> FALSE, results |-> <<>>]
Gone     == [pc |-> "gone", dirs |-> {}, entries |-> <<>>]
GoneWorker == [pc |-> "gone", entries |-> <<>>, probe |-> <<>>]

Init ==
  /\ disk = [f \in Files |-> 2] /\ edits = 0
  /\ rows \in EarlierRows
  /\ run = Resting /\ lister = NoLister
  /\ walk = NoWalk /\ walker = [w \in Walkers |-> Gone]
  /\ pool = NoPool /\ worker = [k \in Workers |-> GoneWorker]
  /\ writer = <<>>

AllGone(threadOf) == \A t \in DOMAIN threadOf : threadOf[t].pc = "gone"

----------------------------------------------------------------------------
(* Other programs change and delete files; nobody is told.                 *)
EditFile(f) ==
  /\ edits < MaxEdits /\ edits' = edits + 1
  /\ \E version \in {0, edits + 3} : version # disk[f] /\ disk' = [disk EXCEPT ![f] = version]
  /\ run' = [run EXCEPT !.calm = FALSE]
  /\ UNCHANGED <<rows, lister, threads, writer>>

----------------------------------------------------------------------------
(* Starting a run, and what ends one from outside.                         *)
Modes == {"serial", "single", "parallel"}

StartThreads(mode, roots) ==
  /\ walk' = [NoWalk EXCEPT !.dirs = roots, !.pending = Len(roots)]
  /\ walker' = [w \in Walkers |-> IF roots = <<>> THEN Gone ELSE [Gone EXCEPT !.pc = "idle"]]
  /\ pool' = [NoPool EXCEPT !.open = mode # "serial"]
  /\ worker' = [k \in Workers |->
                  IF mode = "serial" THEN GoneWorker ELSE [GoneWorker EXCEPT !.pc = "idle"]]
  /\ writer' = <<>>

MayStart == run.pc \in Ended /\ run.runs < MaxRuns

StartBuild ==
  /\ MayStart
  /\ \E mode \in Modes, force \in BOOLEAN, max \in Limits :
       /\ run' = [Resting EXCEPT !.pc = IF mode = "serial" THEN "list" ELSE "drain",
                                 !.mode = mode, !.force = force, !.max = max,
                                 !.runs = run.runs + 1, !.panics = run.panics]
       /\ StartThreads(mode, IF mode = "parallel" THEN Roots ELSE <<>>)
       /\ lister' = [NoLister EXCEPT !.roots = IF mode = "parallel" THEN <<>> ELSE Roots]
  /\ UNCHANGED <<outside, rows>>

HasProblem(f) == rows[f] # NoRow /\ rows[f].status = "problem"

\* The elements of s at the positions I, in their order.
Those(s, I) ==
  [n \in 1 .. Cardinality(I) |-> s[CHOOSE i \in I : Cardinality({j \in I : j <= i}) = n]]

\* The limit counts rows, those of files that are no longer there included.
Targets(max) ==
  LET problems == Those(Paths, {i \in DOMAIN Paths : HasProblem(Paths[i])})
  IN SubSeq(problems, 1, IF max < Len(problems) THEN max ELSE Len(problems))

StartRepair ==
  /\ MayStart
  /\ \E mode \in {"serial", "parallel"}, max \in Limits :
       LET targets == Targets(max)
           found   == Those(targets, {i \in DOMAIN targets : disk[targets[i]] # 0})
       IN /\ run' = [Resting EXCEPT !.pc = "targets", !.kind = "repair", !.mode = mode, !.max = max,
                       !.targets = [i \in DOMAIN found |-> [file |-> found[i], stamp |-> disk[found[i]]]],
                       !.loaded = Range(found), !.errors = Len(targets) - Len(found),
                       !.runs = run.runs + 1, !.panics = run.panics]
          /\ StartThreads(mode, <<>>)
  /\ UNCHANGED <<outside, rows, lister>>

\* The process dies: threads and rows that were not committed are lost.
Killed ==
  /\ run.pc \notin Ended
  /\ run' = [Resting EXCEPT !.runs = run.runs, !.panics = run.panics]
  /\ StartThreads("serial", <<>>)
  /\ lister' = NoLister
  /\ UNCHANGED <<outside, rows>>

----------------------------------------------------------------------------
(* Probing a file, and writing what came out.                              *)
Probed(entry, status) ==
  [file |-> entry.file, stamp |-> entry.stamp, content |-> disk[entry.file],
   hash |-> 0, status |-> status]

\* A file that cannot be opened becomes an error row of the stamp listed.
Outcomes(f) == IF disk[f] = 0 THEN {"problem"} ELSE {"ok", "problem"}

\* Bug: the stamp is read together with the hash.
HashedAnew(probe) == [probe EXCEPT !.hash = disk[probe.file], !.stamp = disk[probe.file]]

Hashed(probe) == [probe EXCEPT !.hash = disk[probe.file]]

\* sha256_file opens the path again; without the file the probe is an error.
Complete(probe) ==
  IF ~HashFull THEN probe
  ELSE IF disk[probe.file] = 0 THEN [probe EXCEPT !.content = 0, !.status = "problem"]
  ELSE Hashed(probe)

RowOf(probe) == [stamp |-> probe.stamp, content |-> probe.content,
                 hash |-> probe.hash, status |-> probe.status]

Flushed(probes) ==
  [f \in Files |->
     LET mine == {i \in DOMAIN probes : probes[i].file = f}
     IN IF mine = {} THEN rows[f]
        ELSE RowOf(probes[CHOOSE i \in mine : \A j \in mine : j <= i])]

Push(probe) ==
  LET pending == Append(writer, probe)
  IN IF Len(pending) >= WriteBatch
     THEN rows' = Flushed(pending) /\ writer' = <<>>
     ELSE rows' = rows /\ writer' = pending

SkipUnchanged(entry) ==
  ~run.force /\ rows[entry.file] # NoRow /\ rows[entry.file].stamp = entry.stamp

Go(pc) == run' = [run EXCEPT !.pc = pc]

----------------------------------------------------------------------------
(* The main thread lists the files: build_serial and, with workers but one *)
(* walker, build_parallel.                                                 *)
Listing == run.pc = "list" /\ run.kind = "build" /\ run.mode # "parallel"
Room    == run.scanned < run.max

Again == IF run.mode = "serial" THEN "list" ELSE "drain"

OpenRoot ==
  /\ Listing /\ Room /\ lister.current = {} /\ lister.dirs = <<>> /\ lister.roots # <<>>
  /\ lister' = [lister EXCEPT !.roots = Tail(@), !.dirs = <<Head(lister.roots)>>]
  /\ Go(Again)
  /\ UNCHANGED <<outside, rows, threads, writer>>

\* Directories are taken from the end; one that cannot be read is counted.
OpenDir ==
  /\ Listing /\ Room /\ lister.current = {} /\ lister.dirs # <<>>
  /\ LET dir == Last(lister.dirs)
     IN \/ /\ lister' = [lister EXCEPT !.dirs = Front(@) \o SetToSeq(SubDirs[dir]),
                                       !.current = {f \in FilesIn[dir] : disk[f] # 0}]
           /\ run' = run
        \/ /\ lister' = [lister EXCEPT !.dirs = Front(@)]
           /\ run' = [run EXCEPT !.errors = @ + 1]
  /\ UNCHANGED <<outside, rows, threads, writer>>

NextFile ==
  /\ Listing /\ Room
  /\ \E f \in lister.current :
       LET entry == [file |-> f, stamp |-> disk[f]]
       IN /\ lister' = [lister EXCEPT !.current = @ \ {f}]
          /\ run' = IF disk[f] = 0 THEN [run EXCEPT !.errors = @ + 1]
                    ELSE IF SkipUnchanged(entry) THEN [run EXCEPT !.pc = Again]
                    ELSE [run EXCEPT !.scanned = @ + 1, !.next = <<entry>>,
                            !.pc = IF run.mode = "serial" THEN "probe" ELSE "send"]
  /\ UNCHANGED <<outside, rows, threads, writer>>

ListEnds == lister.roots = <<>> /\ lister.dirs = <<>> /\ lister.current = {}

\* With the limit reached the loops of the roots that remain end at once.
EndList ==
  /\ Listing /\ (~Room \/ ListEnds)
  /\ Go(IF run.mode = "serial" THEN "flush" ELSE "rest")
  /\ pool' = [pool EXCEPT !.open = FALSE]
  /\ lister' = NoLister
  /\ UNCHANGED <<outside, rows, walk, walker, worker, writer>>

\* build_serial and repair_serial probe on the main thread.
ProbeHere ==
  /\ run.pc = "probe"
  /\ \E status \in Outcomes(Head(run.next).file) :
       run' = [run EXCEPT !.pc = "push", !.next = <<Probed(Head(run.next), status)>>]
  /\ UNCHANGED <<outside, rows, lister, threads, writer>>

PushHere ==
  /\ run.pc = "push"
  /\ Push(Complete(Head(run.next)))
  /\ run' = [run EXCEPT !.received = @ + 1, !.next = <<>>,
                        !.pc = IF run.kind = "build" THEN "list" ELSE "targets"]
  /\ UNCHANGED <<outside, lister, threads>>

----------------------------------------------------------------------------
(* repair_serial and repair_parallel: the targets one by one, or in jobs.  *)
NextTarget ==
  /\ run.pc = "targets" /\ run.targets # <<>>
  /\ LET size == IF run.mode = "serial" THEN 1
                 ELSE IF Len(run.targets) < JobBatch THEN Len(run.targets) ELSE JobBatch
     IN run' = [run EXCEPT !.next = SubSeq(run.targets, 1, size),
                           !.targets = SubSeq(run.targets, size + 1, Len(run.targets)),
                           !.scanned = @ + size,
                           !.pc = IF run.mode = "serial" THEN "probe" ELSE "send"]
  /\ UNCHANGED <<outside, rows, lister, threads, writer>>

EndTargets ==
  /\ run.pc = "targets" /\ run.targets = <<>>
  /\ Go(IF run.mode = "serial" THEN "flush" ELSE "rest")
  /\ pool' = [pool EXCEPT !.open = FALSE]
  /\ UNCHANGED <<outside, rows, lister, walk, walker, worker, writer>>

----------------------------------------------------------------------------
(* The main thread of build_parallel and repair_parallel.                  *)
AfterDrain == IF run.kind = "repair" THEN "targets"
              ELSE IF run.mode = "parallel" THEN "event" ELSE "list"

TakeResult ==
  /\ pool.results # <<>>
  /\ Push(Head(pool.results))
  /\ pool' = [pool EXCEPT !.results = Tail(@)]
  /\ run' = [run EXCEPT !.received = @ + 1]
  /\ UNCHANGED <<outside, lister, walk, walker, worker>>

WalkEnds == run.kind = "build" /\ run.mode = "parallel" /\ ~Room

\* drain_results without blocking: whatever is there, then on.
DrainResults == run.pc = "drain" /\ ~WalkEnds /\ TakeResult

Drained ==
  /\ run.pc = "drain" /\ ~WalkEnds /\ pool.results = <<>>
  /\ Go(AfterDrain)
  /\ UNCHANGED <<outside, rows, lister, threads, writer>>

\* The entries of an event up to the limit, without the unchanged ones.
ToProbe(entries) ==
  LET wanted == Those(entries, {i \in DOMAIN entries : ~SkipUnchanged(entries[i])})
      room   == run.max - run.scanned
  IN SubSeq(wanted, 1, IF room < Len(wanted) THEN room ELSE Len(wanted))

TakeEvent ==
  /\ run.pc = "event" /\ walk.events # <<>>
  /\ walk' = [walk EXCEPT !.events = Tail(@)]
  /\ LET event == Head(walk.events)
         next  == ToProbe(event.entries)
     IN run' = [run EXCEPT !.errors = @ + event.errors, !.next = next,
                           !.scanned = @ + Len(next),
                           !.pc = IF next = <<>> THEN "drain" ELSE "send"]
  /\ UNCHANGED <<outside, rows, lister, walker, pool, worker, writer>>

\* recv_timeout passes: the main thread looks at the results again.
NoEvent ==
  /\ run.pc = "event" /\ walk.events = <<>> /\ ~AllGone(walker) /\ pool.results # <<>>
  /\ Go("drain")
  /\ UNCHANGED <<outside, rows, lister, threads, writer>>

\* Bug: a timeout is taken for the end of the walk.
TimedOut == walk.events = <<>>

Disconnected == walk.events = <<>> /\ AllGone(walker)

\* The limit is reached, or every walker has dropped its sender.
StopWalkers ==
  /\ \/ run.pc = "drain" /\ WalkEnds
     \/ run.pc = "event" /\ Disconnected
  /\ walk' = [walk EXCEPT !.stop = TRUE, !.closed = TRUE, !.events = <<>>]
  /\ Go("join")
  /\ UNCHANGED <<outside, rows, lister, walker, pool, worker, writer>>

JoinWalkers ==
  /\ run.pc = "join" /\ AllGone(walker)
  /\ Go("rest")
  /\ pool' = [pool EXCEPT !.open = FALSE]
  /\ UNCHANGED <<outside, rows, lister, walk, walker, worker, writer>>

SendJob ==
  /\ run.pc = "send" /\ ~AllGone(worker) /\ Len(pool.jobs) < JobLimit
  /\ pool' = [pool EXCEPT !.jobs = Append(@, run.next)]
  /\ run' = [run EXCEPT !.pc = "drain", !.sent = @ + Len(run.next), !.next = <<>>]
  /\ UNCHANGED <<outside, rows, lister, walk, walker, worker, writer>>

\* With every worker dead the send fails, and the build with it: its caller
\* is the command line, which ends.
SendFails ==
  /\ run.pc = "send" /\ AllGone(worker)
  /\ run' = [run EXCEPT !.pc = "failed", !.next = <<>>]
  /\ StartThreads("serial", <<>>)
  /\ lister' = NoLister
  /\ UNCHANGED <<outside, rows>>

\* Bug: the last result is not waited for.
OutstandingButOne == run.received + 1 < run.sent

Outstanding == run.received < run.sent

\* The blocking drain_results.  When every worker has gone recv fails, which
\* drain_results reports as success: the loop asks again without end.
AwaitResult == run.pc = "rest" /\ Outstanding /\ TakeResult

EndRest ==
  /\ run.pc = "rest" /\ ~Outstanding
  /\ Go("flush")
  /\ UNCHANGED <<outside, rows, lister, threads, writer>>

FlushRest ==
  /\ run.pc = "flush"
  /\ rows' = Flushed(writer) /\ writer' = <<>>
  /\ Go("done")
  /\ UNCHANGED <<outside, lister, threads>>

Main ==
  \/ OpenRoot \/ OpenDir \/ NextFile \/ EndList \/ ProbeHere \/ PushHere
  \/ NextTarget \/ EndTargets \/ DrainResults \/ Drained \/ TakeEvent \/ NoEvent
  \/ StopWalkers \/ JoinWalkers \/ SendJob \/ SendFails \/ AwaitResult \/ EndRest \/ FlushRest

----------------------------------------------------------------------------
(* spawn_parallel_walkers: directories wait in walk.dirs; pending counts   *)
(* those that wait and those that a walker works on.                       *)
\* Bug: a walker that stops keeps its directory counted.
GiveBackUnlessStopped == [walk EXCEPT !.pending = IF walk.stop THEN @ ELSE @ - 1]

GiveBack == [walk EXCEPT !.pending = @ - 1]

Skip(w) ==
  /\ walker[w].pc = "idle" /\ walk.dirs # <<>> /\ walk.stop
  /\ walk' = [GiveBack EXCEPT !.dirs = Tail(@)]
  /\ UNCHANGED <<outside, rows, run, lister, walker, pool, worker, writer>>

\* enumerate_media_dir, with the size and time of every file.
Listed(dir) ==
  SetToSeq({[file |-> f, stamp |-> disk[f]] : f \in {f \in FilesIn[dir] : disk[f] # 0}})

Enumerate(w) ==
  /\ walker[w].pc = "idle" /\ walk.dirs # <<>> /\ ~walk.stop
  /\ LET dir == Head(walk.dirs)
     IN \/ walker' = [walker EXCEPT ![w] =
                        [pc |-> "stats", dirs |-> SubDirs[dir], entries |-> Listed(dir), errors |-> 0]]
        \/ walker' = [walker EXCEPT ![w] =
                        [pc |-> "stats", dirs |-> {}, entries |-> <<>>, errors |-> 1]]
  /\ walk' = [walk EXCEPT !.dirs = Tail(@)]
  /\ UNCHANGED <<outside, rows, run, lister, pool, worker, writer>>

\* send waits for room, and fails once the main thread has dropped walk_rx.
Send(event) ==
  \/ walk.closed /\ walk' = [walk EXCEPT !.stop = TRUE]
  \/ /\ ~walk.closed /\ Len(walk.events) < EventLimit
     /\ walk' = [walk EXCEPT !.events = Append(@, event)]

SendStats(w) ==
  /\ walker[w].pc = "stats"
  /\ Send([errors |-> walker[w].errors, entries |-> <<>>])
  /\ walker' = [walker EXCEPT ![w] = [pc |-> IF @.dirs = {} THEN "entries" ELSE "dirs",
                                      dirs |-> @.dirs, entries |-> @.entries]]
  /\ UNCHANGED <<outside, rows, run, lister, pool, worker, writer>>

QueueDir(w) ==
  /\ walker[w].pc = "dirs" /\ ~walk.stop
  /\ \E dir \in walker[w].dirs :
       /\ walk' = [walk EXCEPT !.dirs = Append(@, dir), !.pending = @ + 1]
       /\ walker' = [walker EXCEPT ![w].dirs = @ \ {dir},
                                   ![w].pc = IF walker[w].dirs = {dir} THEN "entries" ELSE "dirs"]
  /\ UNCHANGED <<outside, rows, run, lister, pool, worker, writer>>

\* stop is looked at before the first chunk, not between them.
SendEntries(w) ==
  LET entries == walker[w].entries
      size    == IF Len(entries) < JobBatch THEN Len(entries) ELSE JobBatch
  IN /\ walker[w].pc = "entries" /\ entries # <<>>
     /\ Send([errors |-> 0, entries |-> SubSeq(entries, 1, size)])
     /\ walker' = [walker EXCEPT ![w].entries = SubSeq(entries, size + 1, Len(entries))]
     /\ UNCHANGED <<outside, rows, run, lister, pool, worker, writer>>

DirDone(w) ==
  /\ \/ walker[w].pc = "entries" /\ walker[w].entries = <<>>
     \/ walker[w].pc \in {"dirs", "entries"} /\ walk.stop
  /\ walk' = GiveBack
  /\ walker' = [walker EXCEPT ![w] = [Gone EXCEPT !.pc = "idle"]]
  /\ UNCHANGED <<outside, rows, run, lister, pool, worker, writer>>

\* recv_timeout passes and no directory is pending.
NoneLeft == walk.dirs = <<>> /\ walk.pending = 0

WalkerLeaves(w) ==
  /\ walker[w].pc = "idle" /\ NoneLeft
  /\ walker' = [walker EXCEPT ![w] = Gone]
  /\ UNCHANGED <<outside, rows, run, lister, walk, pool, worker, writer>>

Walker(w) ==
  \/ Skip(w) \/ Enumerate(w) \/ SendStats(w) \/ QueueDir(w)
  \/ SendEntries(w) \/ DirDone(w) \/ WalkerLeaves(w)

----------------------------------------------------------------------------
(* The workers of build_parallel and repair_parallel.                      *)
TakeJob(k) ==
  /\ worker[k].pc = "idle" /\ pool.jobs # <<>>
  /\ pool' = [pool EXCEPT !.jobs = Tail(@)]
  /\ worker' = [worker EXCEPT ![k].pc = "probe", ![k].entries = Head(pool.jobs)]
  /\ UNCHANGED <<outside, rows, run, lister, walk, walker, writer>>

ProbeFile(k) ==
  /\ worker[k].pc = "probe" /\ worker[k].entries # <<>>
  /\ LET entry == Head(worker[k].entries)
     IN \E status \in Outcomes(entry.file) :
          worker' = [worker EXCEPT ![k].pc = "send", ![k].probe = <<Probed(entry, status)>>]
  /\ UNCHANGED <<outside, rows, run, lister, walk, walker, pool, writer>>

SendResult(k) ==
  /\ worker[k].pc = "send"
  /\ pool' = [pool EXCEPT !.results = Append(@, Complete(Head(worker[k].probe)))]
  /\ LET rest == Tail(worker[k].entries)
     IN worker' = [worker EXCEPT ![k] =
                     [pc |-> IF rest = <<>> THEN "idle" ELSE "probe", entries |-> rest, probe |-> <<>>]]
  /\ UNCHANGED <<outside, rows, run, lister, walk, walker, writer>>

WorkerLeaves(k) ==
  /\ worker[k].pc = "idle" /\ pool.jobs = <<>> /\ ~pool.open
  /\ worker' = [worker EXCEPT ![k] = GoneWorker]
  /\ UNCHANGED <<outside, rows, run, lister, walk, walker, pool, writer>>

Worker(k) == TakeJob(k) \/ ProbeFile(k) \/ SendResult(k) \/ WorkerLeaves(k)

\* A parser panics: the thread dies with the entries of its job.
WorkerPanics(k) ==
  /\ run.panics < MaxPanics /\ worker[k].pc = "probe"
  /\ worker' = [worker EXCEPT ![k] = GoneWorker]
  /\ run' = [run EXCEPT !.panics = @ + 1, !.lost = @ + Len(worker[k].entries)]
  /\ UNCHANGED <<outside, rows, lister, walk, walker, pool, writer>>

----------------------------------------------------------------------------
Next ==
  \/ \E f \in Files : EditFile(f)
  \/ StartBuild \/ StartRepair \/ Killed
  \/ Main
  \/ \E w \in Walkers : Walker(w)
  \/ \E k \in Workers : Worker(k) \/ WorkerPanics(k)

\* Every thread is scheduled; starts, kills, panics and edits need not happen.
Spec ==
  /\ Init /\ [][Next]_mediaVars
  /\ WF_mediaVars(Main)
  /\ \A w \in Walkers : WF_mediaVars(Walker(w))
  /\ \A k \in Workers : WF_mediaVars(Worker(k))

----------------------------------------------------------------------------
(* Properties.                                                             *)

(***************************************************************************)
(* A row that passes for current describes the file as it is: its stamp    *)
(* was listed before the file was read, and read again for the hash, so a  *)
(* file that changed meanwhile has another stamp by now, in whatever order *)
(* the results of overlapping roots arrive (should_skip_unchanged,         *)
(* write_probes_tx).                                                       *)
(***************************************************************************)
StampsHonest ==
  \A f \in Files :
    rows[f] # NoRow /\ rows[f].stamp = disk[f] =>
      /\ rows[f].content = disk[f]
      /\ HashFull => rows[f].hash = disk[f]

(***************************************************************************)
(* A build that returns without having met its limit or an unreadable      *)
(* directory, while nothing changed, has a row of every file there is; a   *)
(* repair has one of every file it loaded.  Walkers that took a pause of   *)
(* the others for the end of the tree would leave files out                *)
(* (spawn_parallel_walkers, build_parallel).                               *)
(***************************************************************************)
Covered(f) == rows[f] # NoRow /\ rows[f].stamp = disk[f]

CompleteRunCovers ==
  run.pc = "done" /\ run.calm =>
    IF run.kind = "repair" THEN \A f \in run.loaded : Covered(f)
    ELSE run.errors = 0 /\ Room =>
           \A f \in UNION {FilesIn[dir] : dir \in Dirs} : disk[f] # 0 => Covered(f)

(***************************************************************************)
(* Every file that was sent to the workers is a job, a result, or was lost *)
(* with its worker, and when a run returns each one it scanned has been    *)
(* written: nothing waits in a channel or in the batch of the writer.      *)
(***************************************************************************)
InJobs    == UNION {{<<"job", i, j>> : j \in DOMAIN pool.jobs[i]} : i \in DOMAIN pool.jobs}
InWorkers == UNION {{<<"worker", k, j>> : j \in DOMAIN worker[k].entries} : k \in Workers}

OnTheWay == Cardinality(InJobs) + Cardinality(InWorkers) + Len(pool.results)

ReportAddsUp ==
  /\ run.pc \notin Ended => run.scanned <= run.max
  /\ run.pc \notin Ended /\ run.mode # "serial" =>
       run.sent = run.received + OnTheWay + run.lost
  /\ run.pc = "done" => /\ run.received = run.scanned /\ writer = <<>>
                        /\ OnTheWay = 0 /\ AllGone(walker)

\* A run that returns has dealt with every file it met, and every file it met
\* was one it had to.
RunAccounts == CompleteRunCovers /\ ReportAddsUp

(***************************************************************************)
(* Every run ends, whatever its limit cuts off, unless a worker died with  *)
(* a file: recv then reports that all senders are gone, drain_results      *)
(* returns Ok, and the loop that waits for the results spins for ever      *)
(* (build_parallel, repair_parallel).                                      *)
(***************************************************************************)
Spins ==
  /\ run.pc = "rest" /\ run.lost > 0 /\ Outstanding
  /\ OnTheWay = 0 \/ (AllGone(worker) /\ pool.results = <<>>)

RunEnds == run.pc \notin Ended ~> run.pc \in Ended \/ Spins
=============================================================================
