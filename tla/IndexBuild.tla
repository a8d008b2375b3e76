----------------------------- MODULE IndexBuild -----------------------------
(***************************************************************************)
(* build_index (image_index.rs): the manifest stage of IndexScan, then the *)
(* embedding stage, in which a pool prepares batches ahead of the thread   *)
(* that embeds them, and a third thread may write them; import_embeddings; *)
(* and what manifest_identity (image_insights.rs) makes of the result.     *)
(***************************************************************************)
EXTENDS IndexScan

CONSTANTS
  ChunkSize,   \* clip_batch_size
  Depth,       \* batches prepared ahead
  QueueSize,   \* bound of the channel to the writer (2)
  ImportAfter  \* bound: how many builds precede the one import_embeddings

ASSUME BuildAssumption ==
  /\ ChunkSize \in Nat \ {0} /\ Depth \in Nat \ {0} /\ QueueSize \in Nat \ {0}
  /\ ImportAfter \in Nat

VARIABLES
  emb,     \* the embedding stage
  snap,    \* what somebody keyed by the identity of the manifest
  imports  \* runs of import_embeddings so far, 0 or 1

buildVars == <<scanVars, emb, snap, imports>>

EmbedPcs == {"advance", "dropview", "reuse", "submit", "join", "errors",
             "more", "flush", "single", "finish", "unwind", "close", "overview"}
RunPcs == ScanPcs \cup EmbedPcs

NoEmbed ==
  [kinds |-> {}, reusing |-> {}, async |-> FALSE, backlog |-> {}, batches |-> {}, items |-> {},
   errors |-> {}, queue |-> <<>>, dead |-> FALSE, truncated |-> FALSE,
   copied |-> 0]

NoRun ==
  [pc |-> "idle", n |-> 0, stage |-> {}, mode |-> "serial", limit |-> 1, force |-> FALSE,
   touched |-> FALSE, calm |-> FALSE, done |-> FALSE, cut |-> FALSE, filled |-> FALSE]

BuildInit ==
  /\ ScanInit
  /\ run = NoRun /\ scan = NoScan /\ emb = NoEmbed
  /\ snap = NoRow /\ imports = 0

Idle == run.pc = "idle"
Go(pc) == run' = [run EXCEPT !.pc = pc]

\* cut and filled survive: a build was interrupted, or an embedding stage wrote
\* or cleared hashes, since the groups were last refreshed.
BeginRun(stage, mode, limit, kinds, async) ==
  /\ Idle /\ run.n < MaxRuns
  /\ \E force \in IF "manifest" \in stage THEN Forces[run.n + 1] ELSE {FALSE} :
       run' = [NoRun EXCEPT !.n = run.n + 1, !.stage = stage, !.mode = mode,
                            !.limit = limit, !.force = force, !.calm = TRUE,
                            !.cut = run.cut, !.filled = run.filled,
                            !.pc = IF "manifest" \in stage THEN "scan" ELSE "advance"]
  /\ scan' = IF "manifest" \in stage
               THEN [NoScan EXCEPT !.listed = Present, !.must = Present] ELSE NoScan
  /\ emb' = [NoEmbed EXCEPT !.kinds = kinds, !.reusing = kinds, !.async = async]
  /\ UNCHANGED <<disk, edits, manifest, snap, imports>>

----------------------------------------------------------------------------
\* Two statements, each its own transaction.
AdvanceGeneration ==
  /\ run.pc = "advance"
  /\ gen' = gen + 1
  /\ Go("dropview")
  /\ UNCHANGED <<disk, edits, asset, vec, groups, ovw, scan, emb, snap, imports>>

DropOverview ==
  /\ run.pc = "dropview"
  /\ ovw' = NoRow
  /\ Go("reuse")
  /\ UNCHANGED <<disk, edits, asset, vec, groups, gen, scan, emb, snap, imports>>

LastRow(v) ==
  LET R == UNION {{v[p][k].row : k \in {k \in Kinds : v[p][k] # NoRow}} : p \in Paths}
  IN IF R = {} THEN 0 ELSE Max(R)

\* Upserts of <<path, kind, content>>: a row that is there keeps its rowid.
Upserted(v, new) ==
  LET Fresh == {t \in new : v[t[1]][t[2]] = NoRow}
      Number == CHOOSE f \in [Fresh -> 1 .. Cardinality(Fresh)] :
                  \A s, t \in Fresh : s # t => f[s] # f[t]
  IN [p \in Paths |-> [k \in Kinds |->
       IF \E t \in new : t[1] = p /\ t[2] = k
         THEN LET t == CHOOSE t \in new : t[1] = p /\ t[2] = k
              IN [of |-> t[3],
                  row |-> IF t \in Fresh THEN LastRow(v) + Number[t] ELSE v[p][k].row]
         ELSE v[p][k]]]

NoError(p) == p \in Active /\ ~asset[p].error
Lacking(p, k) == NoError(p) /\ vec[p][k] = NoRow

\* reuse_duplicate_embeddings: the statements of the kinds, one after the
\* other; the source may have an error, but then it has no vectors.
Twins(p, k) ==
  {q \in Active \ {p} : asset[p].sha # Unknown /\ asset[q].sha = asset[p].sha
                        /\ vec[q][k] # NoRow}

Takers(k) == {p \in Paths : Lacking(p, k) /\ Twins(p, k) # {}}

ReuseVectors(k) ==
  /\ run.pc = "reuse" /\ k \in emb.reusing
  /\ \E from \in [Takers(k) -> Paths] :
       /\ \A p \in Takers(k) : from[p] \in Twins(p, k)
       /\ vec' = Upserted(vec, {<<p, k, vec[from[p]][k].of>> : p \in Takers(k)})
  /\ emb' = [emb EXCEPT !.reusing = @ \ {k}, !.copied = @ + Cardinality(Takers(k))]
  /\ UNCHANGED <<disk, edits, asset, groups, gen, ovw, run, scan, snap, imports>>

----------------------------------------------------------------------------
\* pending_embedding_paths: a vector that is there counts, whatever it is of.
\* The limit is the room that copied rows leave, so the loop need not look at
\* it again.
\* Bug: files whose fingerprint is still missing are left for another build.
LacksWithSha(p) == \E k \in emb.kinds : Lacking(p, k) /\ asset[p].sha # Unknown

Lacks(p) == \E k \in emb.kinds : Lacking(p, k)

Wanted == {p \in Active : Lacks(p)}

AtMost(n, S) == IF Cardinality(S) < n THEN Cardinality(S) ELSE n

Room == IF emb.copied < run.limit THEN run.limit - emb.copied ELSE 0

QueryBacklog ==
  /\ run.pc = "reuse" /\ emb.reusing = {}
  /\ \E chosen \in kSubset(AtMost(Room, Wanted), Wanted) :
       emb' = [emb EXCEPT
         !.backlog = {[path |-> p, stamp |-> asset[p].stamp, sha |-> asset[p].sha] :
                        p \in chosen},
         !.truncated = chosen # Wanted]
  /\ Go(IF Wanted = {} \/ Room = 0 THEN "finish" ELSE "submit")
  /\ UNCHANGED <<disk, edits, manifest, scan, snap, imports>>

\* Batches go to the pool while fewer than Depth are on their way.
MaySubmit == emb.backlog # {} /\ Cardinality(emb.batches) < Depth

Submit ==
  /\ run.pc \in {"submit", "more"} /\ MaySubmit
  /\ \E chunk \in kSubset(AtMost(ChunkSize, emb.backlog), emb.backlog) :
       emb' = [emb EXCEPT
         !.backlog = @ \ chunk,
         !.batches = @ \cup {[jobs |-> chunk, items |-> {}, errors |-> {}, lost |-> FALSE]}]
  /\ UNCHANGED <<disk, edits, manifest, run, scan, snap, imports>>

Submitted ==
  /\ run.pc \in {"submit", "more"} /\ ~MaySubmit
  /\ Go(IF run.pc = "submit" THEN "join" ELSE "flush")
  /\ UNCHANGED <<disk, edits, manifest, scan, emb, snap, imports>>

Batched(b, c) == emb' = [emb EXCEPT !.batches = (@ \ {b}) \cup {c}]

KnownFingerprint(job) == job.sha # Unknown /\ disk[job.path].stamp = job.stamp

\* prepare_embedding_asset; the file could also change between its metadata
\* and its bytes, as in IndexScan.
PrepareAsset(b, job) ==
  /\ b \in emb.batches /\ job \in b.jobs
  /\ LET file == disk[job.path]
         item == [path |-> job.path, content |-> file.content, sha |-> file.content,
                  stamp |-> file.stamp, reuse |-> FALSE]
     IN Batched(b,
          IF file.content \notin Goods
            THEN [b EXCEPT !.jobs = @ \ {job}, !.errors = @ \cup {job.path}]
            ELSE [b EXCEPT !.jobs = @ \ {job}, !.items = @ \cup
                    {IF KnownFingerprint(job)
                       THEN [item EXCEPT !.sha = job.sha, !.reuse = TRUE]
                       ELSE item}])
  /\ UNCHANGED <<disk, edits, manifest, run, scan, snap, imports>>

\* A decoder panics: no result of this job will come.
PrepareDies(b) ==
  /\ b \in emb.batches
  /\ \E job \in b.jobs : Batched(b, [b EXCEPT !.jobs = @ \ {job}, !.lost = TRUE])
  /\ UNCHANGED <<disk, edits, manifest, run, scan, snap, imports>>

\* join_prepare_batch: the channel of a batch with a lost job ends.
JoinBatch(b) ==
  /\ run.pc = "join" /\ b \in emb.batches /\ b.jobs = {}
  /\ IF b.lost THEN Go("unwind") /\ UNCHANGED emb
     ELSE /\ emb' = [emb EXCEPT !.batches = @ \ {b}, !.items = b.items, !.errors = b.errors]
          /\ run' = [run EXCEPT !.pc = "errors", !.touched = @ \/ b.errors # {}]
  /\ UNCHANGED <<disk, edits, manifest, scan, snap, imports>>

RecordPrepareError(p) ==
  /\ run.pc = "errors" /\ scan.erring = {} /\ p \in emb.errors
  /\ RecordPathError(p)
  /\ scan' = [scan EXCEPT !.erring = {p}]
  /\ emb' = [emb EXCEPT !.errors = @ \ {p}]
  /\ run' = [run EXCEPT !.filled = TRUE]
  /\ UNCHANGED <<disk, edits, vec, groups, gen, ovw, snap, imports>>

ErrorsRecorded ==
  /\ run.pc = "errors" /\ scan.erring = {} /\ emb.errors = {}
  /\ Go("more")
  /\ UNCHANGED <<disk, edits, manifest, scan, emb, snap, imports>>

\* Bug: the loop waits for another batch although nothing is left.
NextBatchAlways == "join"

NextBatch == IF emb.batches = {} THEN "finish" ELSE "join"

\* write_embedding_batch, in one transaction.
VectorsOf(items) == {<<i.path, k, i.content>> : i \in items, k \in emb.kinds}

FilledRows(items) == {i \in items : ~i.reuse}

WriteBatch(items) ==
  /\ vec' = Upserted(vec, VectorsOf(items))
  /\ asset' = Written({[path |-> i.path, stamp |-> i.stamp, content |-> i.sha] :
                         i \in FilledRows(items)})

\* flush_index_batch when the batch could be embedded as a whole.
FlushBatch ==
  /\ run.pc = "flush" /\ emb.items # {} /\ ~emb.async
  /\ WriteBatch(emb.items)
  /\ run' = [run EXCEPT !.pc = NextBatch, !.filled = @ \/ FilledRows(emb.items) # {}]
  /\ emb' = [emb EXCEPT !.items = {}]
  /\ UNCHANGED <<disk, edits, groups, gen, ovw, scan, snap, imports>>

EnqueueBatch ==
  /\ run.pc = "flush" /\ emb.items # {} /\ emb.async
  /\ IF emb.dead THEN Go("unwind") /\ UNCHANGED emb
     ELSE /\ Len(emb.queue) < QueueSize
          /\ emb' = [emb EXCEPT !.queue = Append(@, emb.items), !.items = {}]
          /\ Go(NextBatch)
  /\ UNCHANGED <<disk, edits, manifest, scan, snap, imports>>

NothingToFlush ==
  /\ run.pc = "flush" /\ emb.items = {}
  /\ Go(NextBatch)
  /\ UNCHANGED <<disk, edits, manifest, scan, emb, snap, imports>>

\* The batch could not be embedded: its images are embedded one by one.
BatchFails ==
  /\ run.pc = "flush" /\ emb.items # {}
  /\ Go("single")
  /\ UNCHANGED <<disk, edits, manifest, scan, emb, snap, imports>>

SingleOk(i) ==
  /\ run.pc = "single" /\ scan.erring = {} /\ i \in emb.items
  /\ WriteBatch({i})
  /\ run' = [run EXCEPT !.filled = @ \/ ~i.reuse]
  /\ emb' = [emb EXCEPT !.items = @ \ {i}]
  /\ UNCHANGED <<disk, edits, groups, gen, ovw, scan, snap, imports>>

\* record_item_error: hashes stay, vectors go.
ItemErrorRow(i) ==
  IF i.reuse THEN [asset[i.path] EXCEPT !.error = TRUE, !.stale = FALSE]
  ELSE [stamp |-> i.stamp, sha |-> i.sha, error |-> TRUE, stale |-> FALSE]

SingleFails(i) ==
  /\ run.pc = "single" /\ scan.erring = {} /\ i \in emb.items
  /\ asset' = [asset EXCEPT ![i.path] = ItemErrorRow(i)]
  /\ scan' = [scan EXCEPT !.erring = {i.path}]
  /\ emb' = [emb EXCEPT !.items = @ \ {i}]
  /\ run' = [run EXCEPT !.touched = TRUE, !.filled = @ \/ ~i.reuse]
  /\ UNCHANGED <<disk, edits, vec, groups, gen, ovw, snap, imports>>

SinglesDone ==
  /\ run.pc = "single" /\ scan.erring = {} /\ emb.items = {}
  /\ Go(NextBatch)
  /\ UNCHANGED <<disk, edits, manifest, scan, emb, snap, imports>>

\* The writer thread, until it has written what was queued.
WriterStep ==
  /\ emb.queue # <<>>
  /\ WriteBatch(Head(emb.queue))
  /\ emb' = [emb EXCEPT !.queue = Tail(@)]
  /\ run' = [run EXCEPT !.filled = @ \/ FilledRows(Head(emb.queue)) # {}]
  /\ UNCHANGED <<disk, edits, groups, gen, ovw, scan, snap, imports>>

WriterDies ==
  /\ emb.queue # <<>>
  /\ emb' = [emb EXCEPT !.queue = <<>>, !.dead = TRUE]
  /\ UNCHANGED <<disk, edits, manifest, run, scan, snap, imports>>

\* finish waits for the writer and passes its error on.
FinishEmbedding ==
  /\ run.pc = "finish" /\ emb.queue = <<>>
  /\ Go(IF emb.dead THEN "unwind" ELSE "close")
  /\ UNCHANGED <<disk, edits, manifest, scan, emb, snap, imports>>

----------------------------------------------------------------------------
CloseRun ==
  /\ run.pc = "close"
  /\ gen' = IF run.touched THEN gen + 1 ELSE gen
  /\ Go("overview")
  /\ UNCHANGED <<disk, edits, asset, vec, groups, ovw, scan, emb, snap, imports>>

OverviewNow ==
  [active |-> Cardinality(Active),
   grouped |-> Cardinality({p \in Paths : groups[p] # {}}),
   embedded |-> Cardinality({t \in Active \X Kinds : vec[t[1]][t[2]] # NoRow})]

EndRun ==
  /\ run.pc = "overview"
  /\ ovw' = OverviewNow
  /\ run' = [run EXCEPT !.pc = "idle", !.done = TRUE, !.touched = FALSE, !.limit = 1,
                        !.force = FALSE]
  /\ scan' = [NoScan EXCEPT !.hit = scan.hit, !.unread = scan.unread \ Active]
  /\ emb' = [NoEmbed EXCEPT !.kinds = emb.kinds, !.truncated = emb.truncated]
  /\ UNCHANGED <<disk, edits, asset, vec, groups, gen, snap, imports>>

\* An error ends the build; a writer that is alive still empties its queue,
\* without one an error leaves what a kill leaves.
Unwound ==
  /\ run.pc = "unwind" /\ emb.queue = <<>>
  /\ run' = [NoRun EXCEPT !.n = run.n, !.cut = TRUE, !.filled = run.filled]
  /\ scan' = NoScan /\ emb' = NoEmbed
  /\ UNCHANGED <<disk, edits, manifest, snap, imports>>

RunFails ==
  /\ run.pc \notin {"idle", "unwind"} /\ emb.queue # <<>>
  /\ Go("unwind")
  /\ UNCHANGED <<disk, edits, manifest, scan, emb, snap, imports>>

Killed ==
  /\ ~Idle
  /\ run' = [NoRun EXCEPT !.n = run.n, !.cut = TRUE, !.filled = run.filled]
  /\ scan' = NoScan /\ emb' = NoEmbed
  /\ UNCHANGED <<disk, edits, manifest, snap, imports>>

----------------------------------------------------------------------------
\* import_embeddings copies rows of another manifest of the same files; with
\* force it replaces what is there.  It leaves the overview as it is.
\* Bug: only rows that were not there count as a change.
ImportedNew(v) == LastRow(v) > LastRow(vec)

Imported(v) == TRUE

ImportEmbedding(p, k, c) ==
  /\ Idle /\ imports = 0 /\ run.n = ImportAfter
  /\ NoError(p) /\ asset[p].sha \in {Unknown, c}
  /\ vec' = Upserted(vec, {<<p, k, c>>})
  /\ gen' = IF Imported(vec') THEN gen + 1 ELSE gen
  /\ imports' = 1
  /\ UNCHANGED <<disk, edits, asset, groups, ovw, run, scan, emb, snap>>

\* manifest_identity without the names of model and account; updated_at of
\* the last row is left out, which only makes the identity weaker.
Identity == <<ovw, gen, LastRow(vec)>>
Content  == [vectors |-> [p \in Paths |-> [k \in Kinds |->
               IF vec[p][k] = NoRow THEN NoRow ELSE vec[p][k].of]],
             groups |-> groups]

\* Somebody computes an index or a group of same images from the manifest
\* that the last build left.  While there is no overview the identity has
\* the size and time of the file in it, which no earlier state had.
Settled == Idle /\ run.done /\ ovw # NoRow

TakeSnapshot ==
  /\ Settled /\ snap = NoRow
  /\ snap' = [identity |-> Identity, content |-> Content]
  /\ UNCHANGED <<disk, edits, manifest, run, scan, emb, imports>>

----------------------------------------------------------------------------
BuildStep ==
  \/ ScanStep /\ UNCHANGED <<emb, snap, imports>>
  \/ AdvanceGeneration \/ DropOverview \/ QueryBacklog \/ Submit \/ Submitted
  \/ \E k \in Kinds : ReuseVectors(k)
  \/ \E b \in emb.batches :
       \/ \E job \in b.jobs : PrepareAsset(b, job)
       \/ JoinBatch(b)
  \/ \E p \in emb.errors : RecordPrepareError(p)
  \/ ErrorsRecorded
  \/ FlushBatch \/ EnqueueBatch \/ NothingToFlush
  \/ \E i \in emb.items : SingleOk(i) \/ SingleFails(i)
  \/ SinglesDone \/ WriterStep \/ FinishEmbedding \/ CloseRun \/ EndRun \/ Unwound

Interference ==
  \/ \E p \in Paths, c \in Goods \cup {Bad, Gone} :
       EditFile(p, c) /\ UNCHANGED <<emb, snap, imports>>
  \/ \E b \in emb.batches : PrepareDies(b)
  \/ BatchFails \/ WriterDies \/ RunFails \/ Killed
  \/ \E p \in Paths, k \in Kinds, c \in Goods : ImportEmbedding(p, k, c)
  \/ TakeSnapshot

BuildNext ==
  \/ \E limit \in IF run.n < MaxRuns THEN Limits[run.n + 1] ELSE {} :
       \/ \E mode \in Modes : BeginRun({"manifest"}, mode, limit, {}, FALSE)
       \/ \E kinds \in (SUBSET Kinds) \ {{}}, async \in BOOLEAN :
            \/ BeginRun({"embeddings"}, "serial", limit, kinds, async)
            \/ \E mode \in Modes :
                 BeginRun({"manifest", "embeddings"}, mode, limit, kinds, async)
  \/ BuildStep
  \/ Interference

BuildSpec == BuildInit /\ [][BuildNext]_buildVars

----------------------------------------------------------------------------
IndexTypeOK ==
  /\ disk \in [Paths -> Files] /\ edits \in 0 .. MaxEdits
  /\ asset \in [Paths -> Rows \cup {NoRow}]
  /\ \A p \in Paths, k \in Kinds : vec[p][k] \in Vectors \cup {NoRow}
  /\ \A p, q \in Paths, k, l \in Kinds :
        vec[p][k] # NoRow /\ vec[q][l] # NoRow /\ vec[p][k].row = vec[q][l].row
          => p = q /\ k = l
  /\ \A p \in Paths : groups[p] \subseteq Paths /\ (groups[p] # {} => p \in groups[p])
  /\ ovw \in Overview \cup {NoRow}
  /\ run.pc \in RunPcs /\ Len(emb.queue) <= QueueSize
  /\ Cardinality(emb.batches) <= Depth

\* A scan that came to the end of the roots while no file changed leaves in use
\* the files that are there, but for those in directories that it could not
\* read, and no others; a full scan leaves decoded ones under their hash,
\* others as errors without vectors; whatever was cut short before.
WholeScan ==
  Idle /\ run.done /\ run.calm /\ "manifest" \in run.stage /\ ~scan.hit

ScannedExactly ==
  WholeScan =>
    /\ Active \subseteq Present /\ Present \ scan.unread \subseteq Active
    /\ run.mode # "fast" => \A p \in Active :
         IF disk[p].content \in Goods THEN asset[p].sha = disk[p].content
         ELSE asset[p].error /\ vec[p] = NoVector

\* A scan never takes away a file that was there all the time: one that it has
\* met, or could not meet because of the limit; but those of a directory that
\* it could not read do go (stale_files).
OnlyMissingGoStale ==
  [][run.pc = "stale" => \A p \in Active \ Active' : p \notin ToMeet]_buildVars

\* The groups follow the hashes, unless a build was cut short between them or
\* an embedding stage filled rows of a fast scan.
GroupsFollowHashes ==
  Idle /\ run.done /\ ~run.cut /\ ~run.filled => groups = GroupsNow

\* An embedding stage that had room leaves no file without vector or error.
EveryFileEmbedded ==
  Idle /\ run.done /\ "embeddings" \in run.stage /\ ~emb.truncated
    => \A p \in Paths, k \in emb.kinds : NoError(p) => vec[p][k] # NoRow

\* Neither stage leaves out a file.
NothingLeftOut == ScannedExactly /\ EveryFileEmbedded

\* The identity tells the vectors and groups of two builds apart, unless a
\* build was cut short since the groups were last refreshed: it may have
\* deleted vectors without a new generation, and when several builds end so,
\* the counts of the overview can return to what they were.
IdentityTellsContent ==
  /\ IndexTypeOK
  /\ Settled /\ ~run.cut /\ snap # NoRow /\ snap.identity = Identity
       => snap.content = Content

\* Nobody waits for ever: a build that works can go on, without being killed.
RunNeverStuck == ~Idle => ENABLED BuildStep

\* documentation: "semantic/copy queries never reuse stale vectors for a
\* changed file".
NoStaleVectors ==
  Idle /\ run.done /\ run.calm /\ run.stage = {"manifest", "embeddings"} /\ ~scan.hit
    => \A p \in Active, k \in emb.kinds :
         vec[p][k] # NoRow => vec[p][k].of = disk[p].content

\* documentation: an embedding stage replaces "pending rows with complete hash
\* and quality data".
ExactGroupsComplete == Idle /\ run.done /\ ~run.cut => groups = GroupsNow
=============================================================================
