# TLA+ models of qq-analyzer

This directory specifies the parts of qq-analyzer that keep state over time or
that several threads, programs or runs touch at once: the preparation of QQ's
databases, the manifest of an account's images with its linker and its
analyses, the index builds, and the web service. TLC checks the modules on
small instances; TLAPS proves the main results about most of them for every
size.

Paths are relative to `src/rust-msg3-parser/src/` unless they start with `src/`.

| checked with | command |
|---|---|
| a run of section 3 | `tlc -workers 2 -config MCLinking.cfg MCLinking` |
| proofs | `tlapm LinkingProofs.tla`, and the same for each `*Proofs` module |

## 1. The system

QQ Analyzer is a local forensic tool. `qq_analyzer_rs` decrypts and prepares
QQ's chat databases (`preprocess`), indexes image files (`image-index build`)
and media files, links chat messages to the images they show (`link-chat`),
computes how images spread (popularity analysis) and serves everything to a
browser (`serve`).

### Components

| component | state it keeps | operations that change it | what makes it correct |
|---|---|---|---|
| preprocessing (`preprocess.rs`, `snapshot.rs`, `catalog.rs`) | prepared and working copies of databases, the catalog | `preprocess` in all its options, rekeying by QQ | what is prepared was validated and is the newest copy; a killed run does not stop later ones |
| names and profiles (`cfb.rs`, `info_storage.rs`) | extracted streams of Info.db, a cache of their chunks | `extract_cfb`, readers of the service | a clean run leaves the container's streams; the cache answers what the files say |
| message parser (`msg3_parser.rs`) | - | walks over a content | parser and prefilter find the elements that were written |
| image index (`image_index.rs`) | assets, embeddings, exact groups, overview | `build_index` in every stage and mode, `import_embeddings` | groups follow the hashes, identity follows content, no run is stuck |
| chat linker (`image_index_link.rs`) | occurrences, scan states | `link_chat`: register tables, rebuild, upgrade, link a batch, skip an unreadable page; its parser threads | a checkpoint never claims messages that are not linked; nothing of a replaced source survives |
| popularity builder (`image_insights.rs` 166-1350) | facts of the occurrences, cube and summaries, analysis states, the build row with its ready mark | `build_popularity_analysis`: upgrade, legacy migration, fact lookup, cube | ready means complete and computed from what is stored |
| reference counts and overview (`image_index.rs` 2580-3115) | counts, cache state, overview row | `prepare_web_manifest`, the overview refreshes, `refresh_popularity_cache` | counts that look current are current |
| popularity queries and rankings (`image_insights.rs` 1353-3847) | same-image groups, ranking tasks, cached overviews | resolve, request, run, trim, overview, compare | single flight; results belong to their task; pages show what a plain count shows |
| image query (`image_index.rs`, `image_index_web.rs`) | - | tiers of a query over the manifest | the best of all matches, whatever order rows come in |
| SSCD vector index (`sscd_vector_index.rs`) | phase, files and maps of the index | prepare, publish, load | an index that claims a content was read from it |
| media info index (`media_info.rs`) | rows per file | build, repair; parsers of every format | no row passes for current by mistake; a run that returns has looked at everything |
| maintenance controller (`msg3_log_service.rs` 657-796) | running / stopping / cancel flag / last error of each of two tasks | start, pause, end of the thread | one thread per task; a pause reaches the run it was meant for |
| web service (`msg3_log_service.rs`) | search queue, uploads, pool of chat connections | search, upload, chat requests | nothing leaks; every request ends |
| presentation of messages and assets, reports, capture, frontend, scripts | nothing the others depend on | - | functions of their input |

### How they interact

The linker, the builder, the indexer and the service meet in the tables of one
manifest and nowhere else. They run in threads of the web service (one
controller per task) or in other processes (the command line), each with its
own SQLite connection. So the unit of interleaving is a **statement or
transaction**: what a component reads in one and uses in a later one can be
stale, and it can die between two of them. Inside a process the parts meet in
mutexes, bounded channels and atomics; there the unit is a critical section or
one operation of a channel.

```
 QQ's files --preprocess--> chat database <--reads-- link_chat, popularity builder
                                                       |             |
 image files --build_index--> assets, exact groups   occurrences,  facts, cube,
                                |                    scan states   build row
                                v                      v             v
                         +------------------ manifest -------------------+
                         |  counts, overview   vector index   rankings   |
                         +-----------------------------------------------+
                                                ^
                     browsers --> web service --+  (search thread, pool, uploads)
```

Invalidation is what holds the manifest together: whoever changes the
occurrences deletes the ready mark (`invalidate_popularity_build`) and advances
a generation (`mark_occurrence_content_changed`); whoever changes the exact
groups deletes everything counted per representative (`refresh_exact_groups`).

### What is hard

- **Interleaving**: linker, builder and indexer undo each other's marks.
- **Stale reads**: the identity of the source is read before the source is
  opened; the list of conversations, the exact mapping, the last rowids and the
  reuse decisions are read before the transactions that use them.
- **Crashes and pauses** at every statement; the next run resumes.
- **Upgrades** of manifests that earlier releases wrote: plain-message scans,
  UTC dates, a separate fact table, three earlier forms of its migration.
- **Sequences of runs**: forced, resumed, upgraded, with small budgets.
- **Threads and channels**: workers that panic, browsers that leave, results in
  any order, channels that are full.
- **Liveness** in the presence of all that.

`PROJECT.json` lists each hazard at its line with the properties about it.

## 2. Modules

| module | models | builds on |
|---|---|---|
| `ManifestStore` | the shared tables, the source, the operations several components perform on them | - |
| `ChatLinker` | `link_chat` | `ManifestStore` |
| `LinkWorkers` | the threads and channels of one run of `link_chat`, `asset_id_cache` | - |
| `PopularityBuild` | `build_popularity_analysis` without a legacy fact table | `ManifestStore` |
| `MaintenancePipeline` | linker, builder, group refresh and source replacement together | `ChatLinker`, `PopularityBuild` |
| `ReferenceCache` | service start, overview and reference counts, with linker, builder and indexer as environment | `ManifestStore` |
| `LegacyMigration` | the migration of the legacy fact table | - |
| `VectorIndex` | `ensure_ready`, build, publication and load of the vector index | - |
| `RankingTasks` | `RankingTaskCache`, its tasks, permits and runs | `VectorIndex` |
| `SameImageCache` | the cache of same-image groups and the workers that resolve candidates | - |
| `PopularityViews` | overview, rankings and comparisons over the tables of a build | - |
| `IndexScan`, `IndexBuild` | the manifest stage and the embedding stage of `build_index`, `import_embeddings`, `manifest_identity` | `IndexBuild` on `IndexScan` |
| `ImageQuery` | `query_indexed_asset`, `query_image_inner` | - |
| `MediaIndex` | builds and repairs of the media index | - |
| `MediaWalks` | the parsers of media formats as walks over the parts of a file | - |
| `Preprocess` | runs of `preprocess` over databases that QQ writes | - |
| `InfoStreams` | `extract_cfb_step`, `CfbReader`, the chunk cache and the labels read through it | - |
| `MessageFrames` | `parse_msgcontent` and `msgcontent_maybe_contains_multi_msg` as walks over cells | - |
| `WebRequests` | search thread, uploads, pool of connections | - |
| `MaintenanceTask`, `MaintenanceController` | what a controller promises; the controller and its threads | the second implements the first |
| `LinkingProofs`, `InsightsProofs`, `CacheProofs`, `RankingProofs`, `WebProofs`, `IndexProofs`, `MediaProofs`, `PreprocessProofs` | theorems | their components, `TLAPS` |
| `MC*` | constants of the instances and, where several components share a run, the product of their specifications | |

An action is one transaction, one critical section or one step between two of
them. Definitions whose comment starts with `Bug:` are the same code with one
plausible mistake; no specification uses them, and each property is known to
fail for the mistake that `PROJECT.json` pairs with it.

### ManifestStore

A chat database is a *version* `source`; a message is `<<version, table,
rowid>>`; which images it shows, and whether directly or in a forwarded record,
are the constant relations `Plain` and `Forwarded`. An occurrence is keyed
`<<asset, table, rowid>>` as in the table's primary key, and its columns are
reduced to what the properties distinguish: `"none"` (the message was not looked
up), `"void"` (it has no usable time), `"utc"` (dates of an earlier release),
`"local"`. `groups` maps an asset to the representative of its exact copies.
`cube` is the *set* of counted messages per representative rather than their
number, so that equal counts of different messages are told apart. `build` and
`analysis` are the build row and the analysis states.

### ChatLinker, LinkWorkers

`scan` is `image_occurrence_scan_state`; `lk` is the run, with the local
variables of `link_chat` and `link_table` and a program counter whose labels are
the boundaries of transactions. `MaterializeScanStates`, `BeginTable` (rebuild
and upgrade), `CommitBatch` and `SkipCorrupt` are one transaction each;
`ReadIdentity` and `OpenChat` are separate because `ReplaceSource` may come
between them. Parsing is reduced to `Found`, which keeps the shortcut of
`worker_loop` for `mmp_only` jobs. `LinkWorkers` opens the batch: parser threads
that take jobs, finish in any order or panic, the linker that waits for as many
results as it gave jobs, and the lookups of paths through a bounded cache while
indexers add and drop images.

### PopularityBuild, MaintenancePipeline, ReferenceCache, LegacyMigration

`bd` is the build. The actions follow `build_popularity_analysis`: fast return,
upgrade of a finished analysis (`BeginUpgrade`, `NormalizeDates`, then the
rebuild), opening, reading the conversations, `materialize_analysis_states`, a
loop over tables and batches, the decision, and `rebuild_cube_and_summaries` as
two steps, because the copy of the exact mapping is made before the transaction.
`PauseBuild` sets the flag; the progress handler of the connection lets it
interrupt any statement (`CancelledReport`). `MaintenancePipeline` is the
disjunction of linker, builder, `RefreshExactGroups` and `ReplaceSource`.

In `ReferenceCache`, `rf[p]` is the operation of process `p`: the start of the
service, `link-chat` or `build_index`, each split at its statements; `index` and
`grouping` stand for the asset and embedding tables. In `LegacyMigration` rowids
matter, so tables are sets of rows with rowids and the staging table is a
sequence; its actions are those of `cleanup_redundant_legacy_facts`,
`try_adopt_legacy_fact_table`, `migrate_legacy_facts` and
`finalize_legacy_fact_migration`, statement by statement.

### VectorIndex, RankingTasks, SameImageCache, PopularityViews

The embeddings and groups of the manifest are a *content version*; the index
directory on disk, the state of the service and the thread that prepares the
index each know which version they are of. `RankingTasks` adds requests of
browsers, the tasks they create, replace and cancel, the permits, and the runs
that complete them late. `SameImageCache` has the identity, the entries with
their order and sizes, the in-flight owners and their waiters. `PopularityViews`
computes pages from the tables `rebuild_cube_and_summaries` fills, in the order
of statements, while a build may commit between two of them, and compares with a
plain count over the messages.

### IndexScan, IndexBuild, ImageQuery, MediaIndex, MediaWalks

`IndexScan` walks the files in serial, parallel and fast mode against files that
change; `IndexBuild` adds the batches that are prepared ahead, the thread that
embeds, the asynchronous writer behind a bounded channel, and
`import_embeddings`. `ImageQuery` runs the tiers of a query over rows in every
order and compares with the best of all matches. `MediaIndex` has walkers,
workers, the writer and the channels between them; `MediaWalks` has each
format's parser as a walk over parts, on files that are whole, larger than the
probe window, or damaged.

### Preprocess, InfoStreams, MessageFrames, WebRequests, MaintenanceController

`Preprocess` models the files: a copy is known by the versions its bytes are of
and by its form. `InfoStreams` and `MessageFrames` keep positions, lengths and
bounds and abstract payloads to whether they say something. `WebRequests` models
a handler as a future that is dropped where it waits when its browser leaves.
In `MaintenanceController` each action is one critical section of the mutex or
one step outside of it; runs are numbered, and `flag[r]` is the
`Arc<AtomicBool>` of run `r`. `MaintenanceTask` is what `ChatLinker` and
`PopularityBuild` rely on when they let a run start only from `"idle"`.

## 3. Runs

### Runs that pass

A run may hold several components that share no variable; its specification is
then their product in which one of them moves at a time, and each property is
about one of them.

| run | instance | distinct states |
|---|---|---|
| `chat_linker` | two tables, two versions, an unreadable page, batch 2, budgets 1 and 9, forced and plain runs, interruptions, empty manifests and completely scanned ones of an earlier release; inside a run two parsers, a cache of one path, three changes of the index, panics | 122 882 |
| `preparation` | one database that QQ writes three times and that may be empty, every kind of request, kills anywhere; contents of up to five cells; two readers and an extraction of containers, a cache of one item; builds over two tables and two versions, pauses and crashes anywhere | 1 353 179 |
| `pipeline` | linker and builder interleaved, groups changing between builds, a replaced source, builds that die | 466 452 |
| `reference_cache` | two processes, two assets, two linker changes, one change of the files, crashes; queries over tiers whose rows come in any order | 3 437 206 |
| `legacy_migration` | four keys, four rowids, copy batches of 2, every state of the progress row, cancel and crash anywhere | 1 476 408 |
| `web_service` | six requests over one search thread, a queue of one, one connection, one panic; two clients and three runs of a task | 53 929 |
| `ranking` | two content versions, two starts, faults; two browsers, three runs, two workers, two cached tasks; archives of a few messages, every filter, a build that commits in between | 1 243 338 |
| `image_index` | two builds over two paths, forced and plain, one change of the files or of what can be read, decoders, writers and builds that die, one import; one reader and two workers on a cache of two groups | 2 497 188 |
| `media_index` | overlapping roots, two walkers, two workers, channels of one, one edit, two panics, limits 1 and 4; whole, windowed and damaged samples of every format | 386 354 |

What they show:

- `chat_linker` - `CheckpointSound`, `CompletedTablesAreLinked`: a scan state never
  claims messages that are not linked. `OnlyForceDeletes`. `NeverStale`: nothing of
  a replaced source survives in a recorded table. `LinksFollowIndex`: a run links
  exactly what its parsers found and its lookups answered, in spite of a bounded
  cache. `EventuallyLinked`, `LinkingEnds`.
- `preparation` - `PreparedSound`: a promoted copy is whole, validated and of the
  form its place asks for. `CopiesAreFresh`: a run that rewrites a copy uses what
  QQ has at that time. `PreparesInTheEnd`. `FramesAgree`: parser and prefilter find
  the pictures that were written, and the prefilter never rejects what the parser
  would find, but where it skips a long field. `StreamsSound` (`StreamsWhole`,
  `WrittenWhereRead`, `NamesRight`, `CacheHonest`, `CacheWithinBounds`).
  `BuildSound` (`BuilderTypeOK`, `ReadyFactsComplete`, `ReadyDatesLocal`): no ready
  mark over messages that were not looked up, nor over dates in UTC unless a pause
  cut an upgrade off before it normalised them (`bd.halted`, see below).
- `pipeline` - `ReadySound` (`ReadyCubeCurrent`, `ReadyFactsComplete`,
  `ReadyMeansExact`): a ready build holds the cube of the occurrences there are, all
  of them looked up, and over fully linked tables it counts exactly the messages of the current source.
  `PipelineConverges`: such a build is reached.
- `reference_cache` - `CachesCurrent`: counts that carry the current generation are
  the counts of the current occurrences and groups; the overview describes the
  files; once nothing interferes, the counts become current. `QueryReturnsBest`: a
  query is answered with the best of all matches.
- `legacy_migration` - `CopiedOnce`, `NothingLost`, `MigrationEnds`.
- `web_service` - `NothingLeaks` (`UploadsHaveOwner`, `MetricsTell`,
  `DeathIsTold`, `PermitMeansConnection`), `RequestsEnd`; `ImplementsTask`,
  `PauseOfThisRun`, `PauseTakesEffect` of the maintenance controller.
- `ranking` - `IndexServesContent` (`IndexExactWhenCurrent`, `LoadedMappingFits`),
  `TasksSound` (`OneLiveTask`, `ResultOfItsTask`), `CancelledStays`, `RunsEnd`, and
  `PagesExact` (`OverviewExact`, `CardsExact`, `ItemsExact`).
- `image_index` - `NothingLeftOut`: `ScannedExactly`, a whole scan leaves in use the
  files that are there, but for those beneath a directory or an entry that it could
  not read, and no others; `EveryFileEmbedded`. `OnlyMissingGoStale`, with the same
  exception; `GroupsFollowHashes`, `IdentityTellsContent`, `RunNeverStuck`; `SameImagesSound` (`CacheBookkeeping`,
  `EveryCandidateResolved`, `WaitersHaveOwner`).
- `media_index` - `StampsHonest`, `RunAccounts`, `RunEnds`, and `WalksSound`
  (`WholeAccepted`, `HeadersSuffice`, `HeadHonest`, `DamageSeen`).

**Why the bounds are enough to be interesting.** Two versions of the source allow
one replacement at any point, and the second version drops one table, shortens
the other and reuses its rowids for other images. Three rowids with a gap and
batches of two give full, partial and sparse batches; the row budget 1 cuts
batches and stops runs in the middle of a table. A message with two images, one
direct and one forwarded, distinguishes the scan modes. Two assets allow the two
groupings. In the migration up to three facts are copied in batches of two, so
there is a complete and an incomplete batch, beside a fourth occurrence that
keeps the last rowids apart. Two builds of the index give a build cut short and
one after it. Channels, queues, pools and caches have room for one or two, so that
everybody gets to wait. Three controller runs give a failed or dead run, one after
it, and a late writer of a run before. Sample files have at most a handful of
parts, laid out so that each bound of each parser falls before, on and behind a
part's end.

**Fairness.** Weak fairness of a component's own steps: a thread that was started
goes on, as it waits for nothing but channels that are modelled and locks held
for single transactions. The `*Service` specifications add that somebody starts
the task again and again, which the resumable design expects. Nothing forces a
cancel, a crash, a panic, a forced run, a replaced source or a changed grouping;
liveness properties that these could defeat for ever are implications
(`EventuallyLinked`, `PipelineConverges`, `MigrationEnds`, `PreparesInTheEnd`):
*if* they cease, the goal is reached. The service is started again with strong
fairness where an index build that runs alone disables it now and then, and so
are the runs of `preprocess` with all options. In the controller only a thread
whose flag is set is assumed to end its work. Properties name the states where
the code does stall (`LinkingEnds`, `RunsEnd`, `RunEnds`, `NothingLeaks`).

**Deadlock** is checked except where a bounded system may stop (`CHECK_DEADLOCK
FALSE`): rowids, runs, edits and panics run out, and a dead worker or thread
leaves others waiting for good, which the liveness properties describe.

### Runs that find a disagreement

Each checks one property and TLC finds it violated by what the code does.

| run | what happens |
|---|---|
| `stale_representatives` | The exact mapping is copied before the cube's transaction; a group refresh in between leaves a ready cube over the old mapping (`image_insights.rs:1054`). |
| `unvalidated` | A plain database is renamed into `prepared/pcqq/db` before it is validated, over a good copy (`preprocess.rs:836`). |
| `old_groups` | A call that computes while another one finds a new identity stores its old group in the new cache (`image_insights.rs:1621`). |

Three more configurations document races that need an overlap the passing runs
exclude, or that they have and make no claim about. They generate counterexamples:

- `MCLostOverview`: the provenance refresh of `link-chat` writes back the whole
  overview it read, over the one `build_index` stored meanwhile.
- `MCMigrationRace`: a batch linked between the comparison of rowids and the swap
  is dropped with the old table.
- `MCTableCount`: `occurrence_tables` is read before `materialize_analysis_states`
  writes a state for each table. When a linker commits the first occurrences of a
  conversation in between, or removes its last, the numbers differ
  (`StatesMatchTables`) and the `debug_assert_eq!` of `image_insights.rs:827` panics.
  Release builds go on; what they must not get wrong is `ReadySound`, which the run
  `pipeline` checks with the same linker.

Other known weaknesses are shown by the constants that the passing runs avoid:

| set | and this fails | because |
|---|---|---|
| `LegacyScan = "partial"` (linker) | `CompletedTablesAreLinked` | A half-finished scan of an earlier release is upgraded in forwarded-records mode from rowid 0: the plain messages behind its checkpoint are never linked (`image_index_link.rs:264`). |
| `LegacyScan = "complete"`, `Interruptions = TRUE` (pipeline) | `ReadyMeansExact` | The upgrade deletes the recorded identity before the first checkpoint; interrupted there and with a new source, the table is not rebuilt (`image_index_link.rs:276`). |
| `bd.halted` (builder) | `ReadyDatesLocal` | A pause during the upgrade stores the new schema version, so the dates are never normalised (`mark_build_not_ready`, `image_insights.rs:1257`). |
| a linker or an indexer beside the builder | `ReadyDatesLocal` | Either may take the ready mark of the old schema away (`invalidate_popularity_build`, `refresh_exact_groups`) before a build has upgraded on it: the old dates stay. `BuildSound` is claimed for the builder alone, `ReadySound` says nothing of dates. |
| `Indexing = "any time"` (pipeline, caches) | `ReadyCubeCurrent`, `CachesCurrent` | Mapping, reuse checks and overview are read before the transaction that uses them. |
| `Rebuilds = TRUE` (migration) | `NothingLost` | Equal last rowids after a forced run are taken for "no new occurrence row" (`image_insights.rs:635`). |
| a crash between assets and groups (`CrashSafe`) | `CachesCurrent` | Nothing repairs groups of old hashes before the next change. |

## 4. Proofs

The theorems hold for every value of the constants that satisfies the named
assumptions of the modules (`ManifestAssumption`, `LinkerAssumption`,
`BuilderAssumption`, `MigrationAssumption`, ...: types, finiteness, null values
that are not rows). TLC evaluates them in every run.

### LinkingProofs

*ChatLinker.* For every set of assets, tables and messages, batch size, budget, interruption and
unreadable message, for manifests that are new or that an earlier release had
scanned completely (`LegacyScan # "partial"`, see above): `LinkerTypeCorrect`,
`CheckpointsAreSound`, `CompletedTablesAreSound`, `OnlyForcedRunsDelete`, behind
them `LinkerInvariant`; and without any hypothesis `NothingStale`.

`CheckpointSound` is not inductive: it says nothing about the run in progress or
about states of other versions. `LinkerInv` adds

- `RunReadsSource` - the identity of a run is not newer than its connection, the
  connection not newer than the source, and the tables to do have scan states;
- `StatesAreOld` - no scan state is newer than the source or than the run that may
  rewrite it, and one of the current source fits the table it describes;
- `BatchIsNext` - the batch being resolved is what follows the run's last rowid;
- `RunIsSound` - what the run has passed is linked, and a run in forwarded-records
  mode works on a table whose plain messages are all linked;
- `StatesAreSound` - the same for the stored states, by version and mode, so that
  the next run may trust the mode it finds.

The difficult case is a run whose identity is older than its connection, because
the source was replaced in between: its checkpoints carry the old identity over
occurrences of the new version. The conjuncts speak of the current source only,
and versions never come back, so such checkpoints are harmless; that is why the
invariant orders identity, connection and source. `ReplaceSource` preserves it
because `StatesAreOld` leaves no state of a version that is still to come.

`NothingStale` needs the converse: every stored row is of the version its table is
recorded for. `ExactInv` says where a row can come from: `RowsAreRecorded` (a
table with rows has a scan state), `RunOwnsState`, `StatesAreExact` (rows of a
table recorded for the current source are of it) and `RunIsExact`. During an
upgrade only the run knows the origin, since the state was deleted: this is where
manifests of earlier releases fail, and why the property starts from an empty one.

*PopularityBuild, MaintenancePipeline.* `ReadyFactsAreKnown` states `ReadyFactsComplete`
for the composition, without hypothesis: beside a linker that adds, deletes and
relinks rows of any conversation at any moment of a build, an indexer and a source
that is replaced, whatever is paused or dies, the ready mark stands only over
messages that were looked up. `KnownInv`: a message that is not looked up is in a
table that the run still has to do (`AnalysisCovers`), and ready mark, lookup and
cube follow only known facts. The linker keeps it because it writes the facts of a
message with its row, and rows that earlier releases wrote without them only
disappear. That the states written for a build are those of its tables
(`StatesMatchTables`) is not part of it and is false there (`MCTableCount`).

`BuildIsSound` states `BuildSound` for the builder alone, with pauses and kills at
any step. `DatesInv` says that dates in UTC exist only while the old schema version
stands and no build is past normalising them, or after a pause has cut an upgrade off
(`halted`, a history variable set by that pause and by nothing else).

`ReadyCubeIsCurrent` (`Indexing # "any time"`): between its look at the mark and its
end a run works on a build that is not ready, and the copied mapping is the stored
one as long as the indexer keeps away; each linker step that touches what the cube
counts removes the mark. `PipelineCheckpointsAreSound` carries the linker's
invariant over to the composition: builder and indexer change no occurrence key
and no scan state. `ReadyBuildIsSound` joins both with `ExactInv`: the cube is the
grouped occurrences, the occurrences of completed tables are the messages of the
source. Its hypotheses are those of the run `pipeline`, and each is needed:
`Corrupt = {}`, as a skipped page counts as linked; with rows of an earlier
release, no interrupted upgrade; and no version without conversation tables,
because `link_chat` accepts such a database and leaves the old rows.

*LinkWorkers.* `CommittedRowsAreLinked` states `LinksFollowIndex` for any log, parsers,
batch, cache and changes of the index, with panics and stops. `LinkInv` needs four
facts beside the property. `OneEach`: a row that was sent is in the channel of jobs,
in the hands of one parser or in the channel of results, and in one of them only, so
a batch that has as many results as jobs has its own (`BatchRows`), and nothing of
it is left for the next one. `LookupsHold`: what `asset_id_cache` says was so at some
time of the run, which is enough because the property speaks of images that were
there all along or at some time. `Resolving`: the groups of the batch that are done
have their image, and what was tried of the current one has none that was there all
along.

### InsightsProofs

*LegacyMigration.* `RowsCopiedOnce` and `FactsKept` for any linker; `NothingIsLost` when the linker
only adds and only between builds (`QuietLinker`; the race beyond it is
`MCMigrationRace`). `MigrationInv` says for each stage what staging table, stored
progress and cursor know of the fact table: staging is a prefix of the facts in
rowid order, up to the committed cursor.

*SameImageCache.* `SameImagesAreSound` states `SameImagesSound` for any number of
readers, workers and images, any limits, any list of candidates, and a manifest
that changes at any moment. `SameInv` says of every state that the list, the
entries, the aliases and the counter of members agree (`CacheLists`; the counter
may count too many, as a group that replaces one of the same key is added without the
old one being subtracted, but never too few), that an Inflight belongs to
a call that computes its image (`FlightsOwned`) and a call that waits does so for one
that will answer (`WaitersOwned`), and that each candidate that was taken has its
result or a worker at it, while `next` is ahead of the candidates by no more than the
workers that have left (`CandidatesHeld`). While the manifest is as it was at first,
it adds that every call from its lookup to its result still has its Inflight
(`FirstVersion`; the first identity that is checked throws a cache away, but one that
nobody has used), and that each group is the whole of its exact groups and every
representative leads to it (`GroupsWhole`). From this follows that groups are disjoint
and the counter is exact: two groups with a common image would have the
representative of that image in common, and one alias cannot lead to both.
`SameCacheAssumption` has the hypothesis that this needs: in the first version a
representative is of its own group, as `refresh_exact_groups` leaves it, and the
vector index offers only such.

### CacheProofs

`CachesAreCurrent` states `CachesCurrent` and `OnlyProvenanceChanges` states
`ProvenanceOnly`, for any assets, tables, messages and processes and any number of
changes, under one hypothesis, `Sheltered`: builds of the index overlap no other
process, and do not die between their assets and their groups. The run
`reference_cache` has the same, `MCLostOverview` and the table in section 3 show
what happens without. `CacheInv`: a ready cube is the one of the occurrences and
groups (`CubeInv`); counts marked with the generation of the occurrences are theirs
(`StateInv`); what a refresh has decided to keep may be kept as long as the
generation stands, which is what its last transaction compares (`ReuseInv`); an
overview, or one being computed, describes the files as indexed, except between the
transactions of a build (`StaticInv`, `GroupingInv`). Counts that are marked with an
older generation may be wrong, and the invariant says nothing of them: this is why
every path that changes occurrences has to advance the generation.

### RankingProofs, WebProofs

- `IndexIsHonest`: `VectorInv` says that what the preparing thread has in hand was
  read since the identity it will write, and that a directory on disk carries the
  version of its files, through renames and kills.
- `TasksAreSound`, `CancelledStaysCancelled`: `RankingInv` ties runs to tasks: a run
  whose task is no longer the live one has a raised flag, and it completes nothing.
- `WebLeaksNothing`, `CounterNeverWraps`: `WebInv` names the owner of every queue
  entry, upload, connection, permit and count.
- `ControllerTypeCorrect`, `PausesReachTheirRun`, `ErrorsAreRecent` and the
  refinement `ControllerImplementsTask`: the inductive invariant says who owns a
  running task: the one request that is about to spawn its thread, the one thread
  that has not settled, or nobody because the thread died. Without ownership
  neither "at most one thread" nor "the flag of this run" is preserved by `Spawn`
  and `Settle`. Refinement mapping: `phase` from `running` and `stopping`, `working`
  the runs whose thread has not settled.

### IndexProofs

For any files, kinds of embeddings, limits, batch and queue sizes, any number of
builds, and files that change, workers, decoders and writers that die and kills
anywhere:

- `IndexTypeCorrect`: the types, unique rowids, and the bounds of the batches and the
  channel. `BuildInvariant` adds what the embedding stage has in hand (backlog,
  batches, items, errors, queue): it belongs to rows in use, and there is nothing in
  hand while a scan runs, so a scan never takes a row from under a batch.
- `OnlyMissingFilesGoStale`: `MetInv` says that a walk that ends without a hit limit
  has met whatever was there all the time and not beneath a directory or an entry
  that it could not read (`ToMeet`). Such files the code does take out of use.
- `GroupsAreCurrent`: `GroupInv` says when the groups are due to be current: nothing
  cut short, no hashes filled in, and the scan under way has touched nothing yet.
- `IdentityIsHonest`: `SnapInv` compares a kept identity with the manifest. Either its
  generation is older, or nothing it describes has changed, or this build will
  advance the generation when it closes (`touched`), or a build was cut short.
  `Regroup` clears the mark of a cut build, and is safe to: it runs because of
  `touched`, or because a row in use has no group, and then it advances itself.
- `NothingIsLeftOut`, in two halves. *Embedding* (`EmbedInv`): a path is in one place at
  a time (`OnePlace`: backlog, a batch, items, errors, the queue or a row about to lose
  its vectors), so what one part writes another part does not take back; and whatever
  lacks a vector is on its way, unless the query was truncated, a decoder panicked or
  the writer died (`Tracked`), in which cases the build does not end well or says so.
  *Scanning* (`ScanInv`): nothing holds a newer stamp than the file's, and whoever has
  the stamp of the file has its content (`HonestInv`); while no file changes, a walk
  meets only files that are there and what was read is what is there (`CalmInv`); each
  file met has its row or waits in the scan (`Accounted`), nothing waits when missing
  files are marked (`Flushed`), and from then on rows and files agree (`ExactInv`), but
  for the files that could not be reached,
  through the embedding stage, its errors, a writer behind it and an import.

### MediaProofs

For any tree of directories and order of roots, any number of walkers and workers,
any limit and sizes of channels, jobs and write batches, any number of runs, kills,
panics and edits. Assumed: directories, walkers and workers are finitely many,
every directory is reached from a root (`TreeAssumption`), and what earlier runs
left is what `StampsHonest` allows (`EarlierAssumption`).

- `MediaTypeCorrect`, `StampsAreHonest`: whatever carries a stamp (entry, result,
  pending row, row) carries what the file was at that stamp if the file still has it;
  an edit gives the file a stamp that nothing in the index has.
- `MediaInvariant` is the conjunction behind `RunsAccount`, each part needed for the
  next. `OwnThreads`, `Ends`: which threads and channels a mode has, and what is empty
  once a run has passed its listing. `WalkCounted`: `pending` is the number of queued
  and walked directories, and a walker leaves only when both are none; without it a
  pause of the walkers could be taken for the end of the tree. `Numbers`: `scanned`,
  `sent`, `received`, `lost` against jobs, entries in the hands of workers and results,
  counted by cardinalities. `Coverage`: while nothing changed and nothing failed, the
  directories listed so far are closed under subdirectories but for those that wait,
  and each of their files has a current row, is gone, or is in the hand of some part.
- `RunsAccount`: at the end nothing waits and nothing is in hand, so the listed
  directories are all of them, and each file has its row.

### PreprocessProofs

For any databases, versions and runs, with kills, refusals, timeouts and a QQ that
writes and holds files at any time. Assumed: `Nothing` is neither a database nor a
copy (`NothingAssumption`).

- `PreparationIsSound` states `PreparedSound`. `PrepInv` adds that a step owns its
  database and ends without one (`OwnDatabase`), that what is about to be reported as
  prepared is there already (`ReportedIsThere`: promotion comes before the report, in
  the same step, so a kill in between reports less than there is), and until when a
  working copy that is there is one of an earlier run (`LeftForAReason`).
- `PreparedCopiesAreFresh` states `CopiesAreFresh`: `KnowsItsVersions` says that what
  the step has read, or has in its working copy, is of versions its database had
  while the step ran, or the step took over an old working copy; and it does so only
  when it is not forced.

For any containers, questions, readers, limits and sizes of the cache, with kills and
files that are replaced at any time. Assumed: the fields of an entry have the types
that `DirEntry` gives them, and the cache has room for one item (`StreamsAssumption`);
the walk over a directory comes to an end and gives paths to entries of it
(`WalkAssumption`: `Streams` is a recursion over data, see below). TLC evaluates both
on the containers of the run.

- `StreamsInvariant`: `RunSound` is about an extraction. Its files were written in the
  order of the streams, each is on disk with what was read, and all have
  different names; the directory of a run that cleaned first holds the files of
  the run and nothing else, so a number in a name has a reason in the run itself
  (`RemoveOld` is what this rests on). That `unique_output_path` finds a free name is
  a pigeonhole argument over the files that are there. `RequestsSound` is about
  readers between two looks at the cache: what they are about to insert under an
  identity is what the file holds if it still has it, and every identity is older
  than the next write.
  `StoreSound` says the same of the cache, and that keys, order and counts agree.
- `FilesAndCacheAreSound`, under no further hypothesis: a run that ended has written
  every stream that its container lists, up to `--cfb-stream-limit`, in their order,
  each with the cells that its chain of sectors holds (`ListedAreWritten`); no two
  streams share a file (`FilesOwn`); `WrittenWhereRead`, `CacheHonest` and
  `CacheWithinBounds`. What it says of a killed run, a repeated one, a replaced
  container and a shared cache is not about the computation of a reading, which
  TLC compares with the sound containers in `StreamsWhole` and `NamesRight`.

### Model-checked only

- Liveness (`EventuallyLinked`, `LinkingEnds`, `PipelineConverges`, `MigrationEnds`,
  `PreparesInTheEnd`, `RequestsEnd`, `PauseTakesEffect`, `RunsEnd`, `RunEnds`): outside of what
  the prover does; and `RunNeverStuck`, which speaks of `ENABLED`.
- `PagesExact`, `FramesAgree`, `WalksSound`, `QueryReturnsBest`: the result of a
  computation over sequences of any length, which would need an induction over
  data; parts are `RECURSIVE`. So is the rest of `StreamsSound`: `NamesRight`, and that
  `StreamsWhole` finds in the files what a sound container was made of. Its other
  parts `FilesOwn`, `WrittenWhereRead`, `CacheHonest` and `CacheWithinBounds` are
  proved, and `WalkAssumption` is an assumption of their module.

## 5. What is abstracted, and what it hides

General:

- **Identity of the source.** `source_identity` hashes size, time and samples;
  equal identities are taken to mean the same version. A replaced file always gets
  another stamp.
- **SQLite**: transactions are atomic and durable; a writer that meets
  `SQLITE_BUSY` ends like any failing statement (`AbortLink`, `AbortBuild`).
- **One linker and one index build at a time**: guaranteed in one service
  (`ControllerImplementsTask`), not between a service and a command line.
- **Time**, progress counters and reports are left out, and so are the facts' values:
  the facts of two versions of a message are not distinguished.

Per module:

- `ChatLinker`: assets are indexed before linking starts. `LinkWorkers` has one
  table and leaves checkpoints to `ChatLinker`.
- `IndexScan`, `IndexBuild`: each change gives a file a stamp of its own. The code's
  stamp is size and time in whole seconds (`image_index.rs:7018-7024`): two versions
  of equal size within one second share it, the next scan skips the second, and
  neither `ScannedExactly` nor `OnlyMissingGoStale` is claimed for that. A directory
  that cannot be read is a set of files that the walk passes over; the bound on
  edits bounds these too. Which member represents a group is left out; metadata
  and bytes of a file are read in one step in the embedding stage; serial scans are
  parallel ones that wait for each answer; `updated_at` of the last row is not part
  of the identity, which only makes it weaker; `backfill_embedding_metadata` and
  `canonicalize_legacy_model_keys` are left out.
- `ImageQuery`: the manifest does not change during a query; scores are integers
  (1600 for 1.0), without NaN; text queries are left out.
- `MediaIndex`: all runs have one hash mode (rows written without hashes pass for
  current in a build that wants them); head and tail of a file are read in one step; panics of walkers and
  the other counters of the report are left out. `MediaWalks`: sizes are shortened,
  misaligned bytes are a part that is too long, readers of other platforms behave
  like the plain one, overflow of the details, the guess of `infer` and fill bytes of
  JPEG are left out.
- `MessageFrames`: bytes are grouped in cells, the embedded fallback is
  nondeterministic, the offset of the start is abstracted.
- `InfoStreams`: a partial file is an empty one; decryption and inflation are whether
  a chunk says something; the stamp of a file changes with every write.
- `Preprocess`: one database suffices, as databases share nothing; a torn copy is a
  mixture of two versions; temporary files belong to the run; a file that QQ has
  open cannot be removed (Windows); the key is present when rekeying is asked; what
  QQ does with a rekey is its own step.
- `PopularityViews`: ranking and comparison are one step each; labels and order of
  cards are left out; one query per behaviour. `counted`, `commits` and `mixed` are
  history variables.
- `WebRequests`: computations are left out; dropping a receiver is atomic.
- `LegacyMigration`: `MaxRowid` leaves room for every key.

Behaviour that the models keep and a reader may not expect:

- **Linker**: it waits for ever when one parser panics while another lives; images
  indexed while it runs may be missed for good, since the checkpoint passes their
  messages; a database without conversation tables is accepted.
- **Index build**: an unreadable directory or entry only counts as an error of the walk
  (`image_index.rs:5678-5694`, `5707-5710`); the scan then ends like a complete one, and
  the files beneath are marked stale (`:3791`) until a later scan can read them, where
  `docs/assets.md:142-147` speaks only of files that a complete rebuild did not see.
  Vectors of changed files are kept (`docs/assets.md:236-238` says
  otherwise); exact groups are incomplete after an embedding stage
  (`docs/assets.md:105-109`); groups stay old after a crash between assets and
  groups; a manifest stage that is cut short can delete vectors without a new
  generation, and several of them can make the counts of the overview return to
  earlier values, so that an old identity stands for other vectors
  (`IdentityTellsContent` excepts builds cut short); files failed by `record_item_error` are not retried by fast builds.
- **Queries**: an exact hit lends its fingerprint without tiles to an upload;
  vectors of stale files use up the top-k; tile candidates are cut by one order and
  scored by another; `fast` is one bucket with a cap of 8192 and no fallback. The
  relation "same image" is not transitive.
- **Vector index**: `ensure_ready` leaves its phase behind when the mapping fails
  (`sscd_vector_index.rs:171`).
- **Popularity**: growth and revival of an empty archive fail on empty dates; the
  statements of an overview are transactions of their own, and a mixed answer is
  kept, under the old identity only; overlapping groups count a member for the last
  candidate's group.
- **Media index**: 8-byte EBML sizes compute `0xffu8 >> 8` (`media_info.rs:6655`):
  release builds end the walk, checked builds panic; a build or repair spins after
  a worker died (`:1891`, `:2109`); XMP in PNG is never found (`:3905`); an ID3 tag
  longer than the window hides an MP3; a number cut at the end of an SVG window is
  taken as value; files cut exactly between parts pass as whole; `repair` always
  takes the first problem rows of its limit; rows of deleted files stay.
- **Preprocessing**: unforced runs never refresh an existing copy; a working copy
  left after promotion is not removed by them; a vanished file ends the run without
  a catalog; each run's report replaces the whole catalog; of several sources with
  one role the last one wins.
- **Names**: an unforced extraction writes `X__1` beside an old file and readers keep
  the old one; `conversation_label` prefers `system_rename` over the info storage,
  although `docs/infostorage.md:24-26` says that a rename must not override; label
  caches are never refreshed.
- **Service**: a panic of the search thread leaves counts wrong and searches dead; a
  panic in the pool loses a connection while its permit returns; a browser that
  leaves during the write of an upload leaves the file.

## 6. What is not modelled, and the plan

Next, if the project goes on:

1. Pages of messages and conversations (`msg3_log_service_messages.rs`,
   `msg3_log_service_conversations.rs`):
   cursors, time zones, filters against the whole list.
2. Credential capture (`capture.rs`, `credentials.rs`) up to the external tool.
3. Thumbnails and the reference handler of the service, `maintenance_progress.rs`.
4. `QueryReturnsBest` and `PagesExact` written with recursive functions over the
   rows, so that parts of them (a bound that never excludes a better match, a cursor
   that divides the rows) become lemmas.

Left out for good: image decoding, vector arithmetic and model inference (functions
of their input, out of TLC's reach), rendering in the browser, one-shot reports and
scripts. `PROJECT.json` lists every component with what is left out of it.
