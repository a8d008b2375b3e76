----------------------------- MODULE IndexScan -----------------------------
(***************************************************************************)
(* The manifest stage of `image-index build` (image_index.rs): it walks    *)
(* the asset roots and brings image_assets and image_exact_groups up to    *)
(* date with the files, while other programs go on changing the files.     *)
(* Full mode reads every changed file, in the thread of the build or in a  *)
(* pool of workers; fast mode only looks at size and time.  A build can    *)
(* fail or be killed between any two transactions; one build runs at a     *)
(* time.                                                                   *)
(***************************************************************************)
EXTENDS Integers, Sequences, FiniteSets, FiniteSetsExt

CONSTANTS
  Paths,      \* image files under the asset roots
  Goods,      \* contents that can be decoded; equal contents, equal SHA256
  Bad,        \* a content that cannot be decoded
  Gone,       \* there is no such file
  Unknown,    \* sha256_hex is empty
  NoRow,      \* there is no such row
  Modes,      \* ways to scan: "serial", "parallel", "fast"
  Kinds,      \* kinds of embeddings (clip, sscd)
  MaxEdits,   \* bound on the changes of files and of what can be read
  MaxRuns,    \* bound on the builds
  Limits,     \* build -> values of max_files to try
  Forces,     \* build -> values of --force to try
  BatchSize   \* manifest_write_batch_size

ASSUME ScanAssumption ==
  /\ IsFiniteSet(Paths) /\ IsFiniteSet(Goods) /\ IsFiniteSet(Kinds)
  /\ Bad \notin Goods /\ Gone \notin Goods \cup {Bad} /\ Unknown \notin Goods
  /\ Modes \subseteq {"serial", "parallel", "fast"}
  /\ MaxEdits \in Nat /\ MaxRuns \in Nat
  /\ Limits \in [1 .. MaxRuns -> SUBSET (Nat \ {0})] /\ BatchSize \in Nat \ {0}
  /\ Forces \in [1 .. MaxRuns -> SUBSET BOOLEAN]

VARIABLES
  disk,    \* path -> content and stamp (size and mtime) of the file
  edits,   \* such changes so far; the stamp of the next one
  asset,   \* image_assets: path -> row
  vec,     \* image_embeddings: path and kind -> content and rowid
  groups,  \* image_exact_groups: path -> its group, {} without one
  gen,     \* image_index_content_state.generation
  ovw,     \* image_index_overview_cache
  run,     \* the build
  scan     \* its manifest stage

manifest == <<asset, vec, groups, gen, ovw>>
scanVars == <<disk, edits, manifest, run, scan>>

Stamps == 0 .. MaxEdits
Files  == [content : Goods \cup {Bad, Gone}, stamp : Stamps]

\* A fingerprint is stored as a whole: without sha there are no pHash and no
\* tile hashes either.  record_path_error alone leaves error and no sha, and
\* it alone clears source_class.
Rows == [stamp : Stamps, sha : Goods \cup {Unknown}, error : BOOLEAN, stale : BOOLEAN]
Vectors  == [of : Goods, row : Nat]
Overview == [active : Nat, grouped : Nat, embedded : Nat]
NoVector == [k \in Kinds |-> NoRow]

\* What stands for a missing row is no row.
ASSUME RowAssumption == NoRow \notin Rows \cup Vectors \cup Overview

ScanPcs == {"idle", "scan", "drain", "stale", "group"}

Present == {p \in Paths : disk[p].content # Gone}
Active  == {p \in Paths : asset[p] # NoRow /\ ~asset[p].stale}

ScanInit ==
  /\ disk \in [Paths -> [content : Goods \cup {Gone}, stamp : {0}]]
  /\ edits = 0
  /\ asset = [p \in Paths |-> NoRow]
  /\ vec = [p \in Paths |-> NoVector]
  /\ groups = [p \in Paths |-> {}]
  /\ gen = 0 /\ ovw = NoRow

NoScan ==
  [listed |-> {}, must |-> {}, unread |-> {}, seen |-> {}, jobs |-> {}, results |-> {},
   pending |-> {}, erring |-> {}, hit |-> FALSE, lost |-> FALSE]

----------------------------------------------------------------------------
\* Any other program writes, replaces or removes a file.  The walker may meet
\* what was there at some time of the walk, and meets what was there all the
\* time.
EditFile(p, c) ==
  /\ edits < MaxEdits /\ c # disk[p].content
  /\ edits' = edits + 1
  /\ disk' = [disk EXCEPT ![p] = [content |-> c, stamp |-> edits + 1]]
  /\ run' = [run EXCEPT !.calm = FALSE]
  /\ scan' = IF run.pc # "scan" THEN scan
             ELSE [scan EXCEPT !.listed = @ \cup IF c = Gone THEN {} ELSE {p},
                               !.must = @ \ IF c = Gone THEN {p} ELSE {}]
  /\ UNCHANGED manifest

\* What was there all the time and is met, if the directories above it can be
\* read.
ToMeet == scan.must \ scan.unread

\* root_queue_has_more_images peeks into the roots that are left: once every
\* file has been met it can still answer yes, for directories without images.
MoreImages == IF ToMeet \subseteq scan.seen THEN BOOLEAN ELSE {TRUE}

\* Bug: the limit is taken for the end of the roots.
LimitIsTheEnd == {FALSE}

LimitHit == MoreImages

\* The statements of one error: the row, then its embeddings and features.
ErrorRow(p) ==
  [stamp |-> IF asset[p] = NoRow THEN 0 ELSE asset[p].stamp,
   sha |-> Unknown, error |-> TRUE, stale |-> FALSE]

RecordPathError(p) == asset' = [asset EXCEPT ![p] = ErrorRow(p)]

DropVectors(p) == vec' = [vec EXCEPT ![p] = NoVector]

DropFeatures(p) ==
  /\ p \in scan.erring
  /\ DropVectors(p)
  /\ scan' = [scan EXCEPT !.erring = {}]
  /\ UNCHANGED <<disk, edits, asset, groups, gen, ovw, run>>

\* existing_unchanged: size, time and a complete fingerprint without error;
\* with --force it is not asked.
Unchanged(p) ==
  /\ ~run.force /\ p \in Active
  /\ asset[p].stamp = disk[p].stamp
  /\ asset[p].sha # Unknown /\ ~asset[p].error

\* existing_fast_unchanged asks for the class of the file, which only
\* record_path_error removes.
FastUnchanged(p) ==
  /\ ~run.force /\ p \in Active
  /\ asset[p].stamp = disk[p].stamp
  /\ asset[p].sha # Unknown \/ ~asset[p].error

\* Bug: items are written as they come, under the time of the write.
WrittenUnderNewStamp(items) ==
  [p \in Paths |->
     IF \E i \in items : i.path = p
       THEN [stamp |-> disk[p].stamp, error |-> FALSE, stale |-> FALSE,
             sha |-> (CHOOSE i \in items : i.path = p).content]
       ELSE asset[p]]

\* write_asset_row and the upsert of flush_fast_manifest_batch.
Written(items) ==
  [p \in Paths |->
     IF \E i \in items : i.path = p
       THEN LET i == CHOOSE i \in items : i.path = p
            IN [stamp |-> i.stamp, sha |-> i.content, error |-> FALSE, stale |-> FALSE]
       ELSE asset[p]]

\* One transaction, which also makes the files count as indexed.
Flush(items) ==
  /\ asset' = Written(items)
  /\ run' = [run EXCEPT !.touched = @ \/ items # {}]

\* The main thread looks for the next file.
Walking == run.pc = "scan" /\ scan.erring = {} /\ Cardinality(scan.seen) < run.limit

\* prepare_index_image does in turn what the workers do side by side.
MayVisit == run.mode = "serial" => scan.jobs \cup scan.results = {}

\* A path that is met again, in overlapping roots, is skipped.
Meet(p) == Walking /\ p \in scan.listed \ scan.seen

\* ImageFileWalker only counts an error for a directory or an entry that cannot
\* be read, and goes on.  What is beneath it may still be met in an overlapping
\* root.
SkipUnreadable(p) ==
  /\ run.pc = "scan" /\ scan.erring = {} /\ MayVisit
  /\ edits < MaxEdits /\ p \in ToMeet \ scan.seen
  /\ edits' = edits + 1
  /\ scan' = [scan EXCEPT !.unread = @ \cup {p}]
  /\ UNCHANGED <<disk, manifest, run>>

\* The file went away after its directory was read.
VisitGone(p) ==
  /\ Meet(p) /\ MayVisit /\ p \notin Present
  /\ RecordPathError(p)
  /\ scan' = [scan EXCEPT !.seen = @ \cup {p}, !.erring = {p}]
  /\ run' = [run EXCEPT !.touched = TRUE]
  /\ UNCHANGED <<disk, edits, vec, groups, gen, ovw>>

Visit(p) ==
  /\ Meet(p) /\ MayVisit /\ p \in Present /\ run.mode # "fast"
  /\ scan' = [scan EXCEPT
       !.seen = @ \cup {p},
       !.jobs = @ \cup IF Unchanged(p) THEN {}
                       ELSE {[path |-> p, stamp |-> disk[p].stamp]}]
  /\ UNCHANGED <<disk, edits, manifest, run>>

\* One of the workers reads and fingerprints a file; the job has the size and
\* time that the main thread saw.
ReadFile(j) ==
  /\ j \in scan.jobs
  /\ scan' = [scan EXCEPT
       !.jobs = @ \ {j},
       !.results = @ \cup {[path |-> j.path, stamp |-> j.stamp,
                            content |-> disk[j.path].content]}]
  /\ UNCHANGED <<disk, edits, manifest, run>>

\* A decoder panics in a worker, whose queue is lost with it.
WorkerDies ==
  /\ run.mode = "parallel"
  /\ \E lost \in (SUBSET scan.jobs) \ {{}} :
       scan' = [scan EXCEPT !.jobs = @ \ lost, !.lost = TRUE]
  /\ UNCHANGED <<disk, edits, manifest, run>>

TakeResult(r) ==
  /\ run.pc \in {"scan", "drain"} /\ scan.erring = {} /\ r \in scan.results
  /\ LET pending == scan.pending \cup {r}
         full    == Cardinality(pending) >= BatchSize
     IN IF r.content \in Goods
          THEN /\ Flush(IF full THEN pending ELSE {})
               /\ scan' = [scan EXCEPT !.results = @ \ {r},
                                       !.pending = IF full THEN {} ELSE pending]
          ELSE /\ RecordPathError(r.path)
               /\ scan' = [scan EXCEPT !.results = @ \ {r}, !.erring = {r.path}]
               /\ run' = [run EXCEPT !.touched = TRUE]
  /\ UNCHANGED <<disk, edits, vec, groups, gen, ovw>>

\* Batches are flushed after so many paths, changed or not.
VisitFast(p) ==
  /\ Meet(p) /\ p \in Present /\ run.mode = "fast"
  /\ LET item    == [path |-> p, stamp |-> disk[p].stamp, content |-> Unknown]
         pending == scan.pending \cup IF FastUnchanged(p) THEN {} ELSE {item}
         full    == (Cardinality(scan.seen) + 1) % BatchSize = 0
     IN /\ Flush(IF full THEN pending ELSE {})
        /\ scan' = [scan EXCEPT !.seen = @ \cup {p},
                                !.pending = IF full THEN {} ELSE pending]
  /\ UNCHANGED <<disk, edits, vec, groups, gen, ovw>>

\* The roots are exhausted, unreadable directories or not, or the limit is
\* reached.  The flag of --force is of no more use.
EndWalk ==
  /\ run.pc = "scan" /\ scan.erring = {} /\ MayVisit
  /\ \/ /\ Cardinality(scan.seen) >= run.limit
        /\ \E hit \in LimitHit : scan' = [scan EXCEPT !.hit = hit]
     \/ Cardinality(scan.seen) < run.limit /\ ToMeet \subseteq scan.seen /\ UNCHANGED scan
  /\ run' = [run EXCEPT !.pc = "drain", !.force = FALSE]
  /\ UNCHANGED <<disk, edits, manifest>>

\* The last batch, once every job has been answered.
FlushLast ==
  /\ run.pc = "drain" /\ scan.erring = {} /\ scan.jobs \cup scan.results = {} /\ ~scan.lost
  /\ asset' = Written(scan.pending)
  /\ run' = [run EXCEPT !.touched = @ \/ scan.pending # {},
                        !.pc = IF scan.hit THEN "group" ELSE "stale"]
  /\ scan' = [scan EXCEPT !.pending = {}]
  /\ UNCHANGED <<disk, edits, vec, groups, gen, ovw>>

\* A lost job keeps the channel of results from bringing as many as were sent.
ResultsMissing ==
  /\ run.pc = "drain" /\ scan.erring = {} /\ scan.jobs \cup scan.results = {} /\ scan.lost
  /\ run' = [run EXCEPT !.pc = "unwind"]
  /\ UNCHANGED <<disk, edits, manifest, scan>>

Missing == Active \ scan.seen

MarkMissingStale ==
  /\ run.pc = "stale"
  /\ asset' = [p \in Paths |-> IF p \in Missing THEN [asset[p] EXCEPT !.stale = TRUE]
                               ELSE asset[p]]
  /\ run' = [run EXCEPT !.touched = @ \/ Missing # {}, !.pc = "group"]
  /\ UNCHANGED <<disk, edits, vec, groups, gen, ovw, scan>>

----------------------------------------------------------------------------
\* refresh_exact_groups with the columns of this module.  Which member
\* represents a group is left out; that it changed also advances gen.
GroupsNow ==
  [p \in Paths |->
     IF p \notin Active THEN {}
     ELSE {q \in Active : q = p \/ (asset[p].sha # Unknown /\ asset[q].sha = asset[p].sha)}]

\* Bug: a build that only found files missing leaves the groups alone.
SomeIndexed == \E p \in Active : groups[p] = {}

MustRegroup == run.touched \/ \E p \in Active : groups[p] = {}

AfterManifest == IF "embeddings" \in run.stage THEN "advance" ELSE "close"

Regroup ==
  /\ run.pc = "group"
  /\ IF MustRegroup
       THEN /\ groups' = GroupsNow
            /\ ovw' = NoRow
            /\ gen' = IF GroupsNow = groups THEN gen ELSE gen + 1
            /\ run' = [run EXCEPT !.pc = AfterManifest, !.cut = FALSE, !.filled = FALSE]
       ELSE /\ run' = [run EXCEPT !.pc = AfterManifest]
            /\ UNCHANGED <<groups, gen, ovw>>
  /\ UNCHANGED <<disk, edits, asset, vec, scan>>

ScanStep ==
  \/ \E p \in Paths :
       VisitGone(p) \/ Visit(p) \/ VisitFast(p) \/ SkipUnreadable(p) \/ DropFeatures(p)
  \/ \E j \in scan.jobs : ReadFile(j)
  \/ \E r \in scan.results : TakeResult(r)
  \/ WorkerDies \/ EndWalk \/ FlushLast \/ ResultsMissing \/ MarkMissingStale \/ Regroup

=============================================================================
