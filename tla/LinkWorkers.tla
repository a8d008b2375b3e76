----------------------------- MODULE LinkWorkers -----------------------------
(***************************************************************************)
(* One run of link_chat over one table, seen from its threads              *)
(* (image_index_link.rs): link_table reads a batch of messages, gives each *)
(* to a pool of parsers, waits for as many results, looks the paths up in  *)
(* the manifest through asset_id_cache and commits the batch.  Indexers    *)
(* add and drop images meanwhile.  ChatLinker has checkpoints, restarts    *)
(* and the other tables; there a batch is one step.                        *)
(***************************************************************************)
EXTENDS Integers, Sequences, FiniteSets, SequencesExt

CONSTANTS
  Paths,      \* paths of images
  Log,        \* row -> its candidate groups, and whether its nodes parse
  Parsers,    \* the threads of worker_loop
  Batch,      \* options.batch_size
  CacheSize,  \* ASSET_ID_CACHE_CAPACITY
  MaxChanges, \* bound on the changes of the index
  MayPanic    \* whether a parser may panic

ASSUME LinkWorkersAssumption ==
  /\ Log \in Seq([parses : BOOLEAN, groups : Seq(Seq(Paths))])
  /\ {Batch, CacheSize} \subseteq Nat \ {0} /\ MaxChanges \in Nat
  /\ MayPanic \in BOOLEAN /\ IsFiniteSet(Parsers)

VARIABLES
  indexed,  \* paths with an image that is not stale
  kept,     \* those that have had one since the run began
  ever,     \* those that had one at some time of the run
  changes,  \* number of changes of the index
  parser,   \* what each thread does
  jobs,     \* channel of rows to parse
  parsed,   \* channel of results
  main,     \* link_table
  todo,     \* groups of the batch that are being resolved: <<row, n>>
  lookups,  \* asset_id_cache
  linked    \* committed occurrences

linkVars == <<indexed, kept, ever, changes, parser, jobs, parsed, main, todo, lookups, linked>>

Does(pc, row) == [pc |-> pc, row |-> row]
Unoccupied == Does("idle", 0)

\* last: last_rowid; sent, got: rows of the batch; found: what was resolved;
\* tried: how many candidates of the first group have no image.
LinkInit ==
  /\ indexed \in SUBSET Paths /\ kept = indexed /\ ever = indexed /\ changes = 0
  /\ parser = [w \in Parsers |-> Unoccupied] /\ jobs = <<>> /\ parsed = <<>>
  /\ main = [pc |-> "read", last |-> 0, upto |-> 0, sent |-> {}, got |-> {}, found |-> {},
             tried |-> 0]
  /\ todo = {} /\ lookups = <<>> /\ linked = {}

Capacity ==
  IF 2 * Batch > Cardinality(Parsers) THEN 2 * Batch ELSE Cardinality(Parsers)

index == <<indexed, kept, ever, changes>>
pool  == <<parser, jobs, parsed>>
store == <<todo, lookups, linked>>

MainGoes(pc) == main' = [main EXCEPT !.pc = pc]

(***************************************************************************)
(* link_table.                                                             *)
(***************************************************************************)
\* The last batch may be shorter, and the run may be cancelled before each.
FetchBatch ==
  /\ main.pc = "read" /\ main.last < Len(Log)
  /\ main' = [main EXCEPT !.pc = "send", !.sent = {}, !.got = {}, !.found = {},
                !.upto = IF main.last + Batch < Len(Log)
                           THEN main.last + Batch ELSE Len(Log)]
  /\ UNCHANGED <<index, pool, store>>

Stop ==
  /\ main.pc = "read" /\ MainGoes("join")
  /\ UNCHANGED <<index, pool, store>>

Unsent == (main.last + 1 .. main.upto) \ main.sent

Send ==
  /\ main.pc = "send" /\ Unsent # {} /\ Len(jobs) < Capacity
  /\ LET row == CHOOSE r \in Unsent : \A q \in Unsent : r <= q
     IN  jobs' = Append(jobs, row) /\ main' = [main EXCEPT !.sent = @ \cup {row}]
  /\ UNCHANGED <<index, parser, parsed, store>>

\* Bug: the last result of a batch is not waited for.
AwaitsOneLess == Cardinality(main.got) + 1 < Cardinality(main.sent)

Awaits == Cardinality(main.got) < Cardinality(main.sent)

GroupsOf(row) == IF Log[row].parses THEN Log[row].groups ELSE <<>>

Receive ==
  /\ main.pc = "send" /\ Unsent = {} /\ Awaits /\ parsed # <<>>
  /\ main' = [main EXCEPT !.got = @ \cup {Head(parsed)}] /\ parsed' = Tail(parsed)
  /\ UNCHANGED <<index, parser, jobs, store>>

\* recv fails only when every thread has dropped its end of the channel.
Disconnected ==
  /\ main.pc = "send" /\ Unsent = {} /\ Awaits /\ parsed = <<>>
  /\ \A w \in Parsers : parser[w].pc = "dead"
  /\ MainGoes("join")
  /\ UNCHANGED <<index, pool, store>>

\* The results are sorted by row before their paths are looked up.
SortResults ==
  /\ main.pc = "send" /\ Unsent = {} /\ ~Awaits
  /\ main' = [main EXCEPT !.pc = "resolve", !.tried = 0]
  /\ todo' = UNION {{row} \X DOMAIN GroupsOf(row) : row \in main.got}
  /\ UNCHANGED <<index, pool, lookups, linked>>

InOrder(g, h) == g[1] < h[1] \/ (g[1] = h[1] /\ g[2] <= h[2])
Current == CHOOSE g \in todo : \A h \in todo : InOrder(g, h)

\* resolve_asset_id_cached; the cache also keeps that a path has no image.
Cached(path) == path \in DOMAIN lookups
IsImage(path) == IF Cached(path) THEN lookups[path] ELSE path \in indexed

Remembered(path) ==
  LET full == Cardinality(DOMAIN lookups) >= CacheSize
      old == IF full THEN {} ELSE DOMAIN lookups
  IN  IF Cached(path) THEN lookups
      ELSE [p \in old \cup {path} |-> IF p = path THEN path \in indexed ELSE lookups[p]]

\* The first candidate of a group that has an image is taken.
Lookup ==
  /\ main.pc = "resolve" /\ todo # {}
  /\ LET row == Current[1]
         paths == GroupsOf(row)[Current[2]]
         path == paths[main.tried + 1]
     IN  IF main.tried = Len(paths)
           THEN /\ todo' = todo \ {Current} /\ main' = [main EXCEPT !.tried = 0]
                /\ UNCHANGED lookups
         ELSE /\ lookups' = Remembered(path)
              /\ IF IsImage(path)
                   THEN /\ main' = [main EXCEPT !.found = @ \cup {<<row, path>>}, !.tried = 0]
                        /\ todo' = todo \ {Current}
                   ELSE main' = [main EXCEPT !.tried = @ + 1] /\ UNCHANGED todo
  /\ UNCHANGED <<index, pool, linked>>

\* The last row that was dispatched becomes the checkpoint.
Commit ==
  /\ main.pc = "resolve" /\ todo = {}
  /\ linked' = linked \cup main.found
  /\ main' = [main EXCEPT !.pc = "read", !.last = main.upto]
  /\ UNCHANGED <<index, pool, todo, lookups>>

\* An error of SQLite ends the run; so does Stop.
SqlFails ==
  /\ main.pc = "resolve" /\ MainGoes("join")
  /\ UNCHANGED <<index, pool, store>>

\* Bug: the sender outlives the scope that waits for the threads.
KeptOpen == FALSE

\* job_tx goes with the closure of the scope.
JobsClosed == main.pc = "join"

\* The scope joins its threads, and panics when one of them did.
Join ==
  /\ main.pc = "join" /\ \A w \in Parsers : parser[w].pc \in {"left", "dead"}
  /\ MainGoes(IF \E w \in Parsers : parser[w].pc = "dead" THEN "panicked" ELSE "returned")
  /\ UNCHANGED <<index, pool, store>>

LinkMain ==
  \/ FetchBatch \/ Send \/ Receive \/ Disconnected \/ SortResults \/ Lookup \/ Commit \/ Join
  \/ main.last = Len(Log) /\ Stop

(***************************************************************************)
(* worker_loop.                                                            *)
(***************************************************************************)
TakeJob(w) ==
  /\ parser[w].pc = "idle" /\ jobs # <<>>
  /\ parser' = [parser EXCEPT ![w] = Does("parse", Head(jobs))] /\ jobs' = Tail(jobs)
  /\ UNCHANGED <<index, parsed, main, store>>

Deliver(w) ==
  /\ parser[w].pc = "parse" /\ Len(parsed) < Capacity
  /\ parsed' = Append(parsed, parser[w].row) /\ parser' = [parser EXCEPT ![w] = Unoccupied]
  /\ UNCHANGED <<index, jobs, main, store>>

ParserLeaves(w) ==
  /\ parser[w].pc = "idle" /\ jobs = <<>> /\ JobsClosed
  /\ parser' = [parser EXCEPT ![w] = Does("left", 0)]
  /\ UNCHANGED <<index, jobs, parsed, main, store>>

ParserPanics(w) ==
  /\ MayPanic /\ parser[w].pc = "parse"
  /\ parser' = [parser EXCEPT ![w] = Does("dead", 0)]
  /\ UNCHANGED <<index, jobs, parsed, main, store>>

ParserStep(w) == TakeJob(w) \/ Deliver(w) \/ ParserLeaves(w)

\* Indexers add images, and mark images stale whose file is gone.
ChangeIndex ==
  /\ changes < MaxChanges /\ changes' = changes + 1
  /\ \E p \in Paths :
       \/ /\ p \in indexed /\ indexed' = indexed \ {p}
          /\ kept' = kept \ {p} /\ UNCHANGED ever
       \/ /\ p \notin indexed /\ indexed' = indexed \cup {p}
          /\ ever' = ever \cup {p} /\ UNCHANGED kept
  /\ UNCHANGED <<pool, main, store>>

LinkNext ==
  \/ LinkMain \/ Stop \/ SqlFails \/ ChangeIndex
  \/ \E w \in Parsers : ParserStep(w) \/ ParserPanics(w)

LinkFairness == WF_linkVars(LinkMain) /\ \A w \in Parsers : WF_linkVars(ParserStep(w))

LinkSpec == LinkInit /\ [][LinkNext]_linkVars /\ LinkFairness

(***************************************************************************)
(* Properties.                                                             *)
(***************************************************************************)
(***************************************************************************)
(* A committed row has, for each of its groups, an image no later in the   *)
(* order of its candidates than the first one that was there all along,    *)
(* and nothing that was never there; whichever thread parsed it, in        *)
(* whichever order the results came back, and whatever asset_id_cache      *)
(* remembers of other rows. An image that came while the run was going on  *)
(* may be missed (and later runs begin behind the row).                    *)
(***************************************************************************)
HasImage(row, paths) ==
  \A n \in DOMAIN paths : paths[n] \in kept => \E k \in 1 .. n : <<row, paths[k]>> \in linked

LinksFollowIndex ==
  /\ \A row \in 1 .. main.last : \A paths \in Range(GroupsOf(row)) : HasImage(row, paths)
  /\ linked \subseteq {o \in (1 .. main.last) \X ever :
                        \E paths \in Range(GroupsOf(o[1])) : o[2] \in Range(paths)}

(***************************************************************************)
(* A run comes to its end whatever its threads do, with one exception:     *)
(* when a parser panicked and another one lives, link_table waits for the  *)
(* result that died with it, and the channel stays open.                   *)
(***************************************************************************)
WaitsForTheDead ==
  /\ main.pc = "send" /\ Unsent = {} /\ parsed = <<>> /\ jobs = <<>>
  /\ {w \in Parsers : parser[w].pc = "dead"} # {}
  /\ {w \in Parsers : parser[w].pc = "idle"} # {}

LinkingEnds == <>(main.pc \in {"returned", "panicked"} \/ WaitsForTheDead)
=============================================================================
