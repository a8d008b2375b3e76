----------------------------- MODULE InfoStreams -----------------------------
(***************************************************************************)
(* Names and profiles of QQ: cfb.rs takes the streams of a compound file   *)
(* (Info.db) apart into files, and info_storage.rs reads those files for   *)
(* the threads of the web service, through a small cache.                  *)
(*                                                                         *)
(* A container is cut into sectors of two cells, a cell being one sector   *)
(* of the mini stream.  A stream is a sequence of cells; the first holds   *)
(* its header and every other one a chunk, that is entries or, if it       *)
(* cannot be decrypted, nothing.                                           *)
(***************************************************************************)
EXTENDS Integers, Sequences, FiniteSets, SequencesExt, FiniteSetsExt, Functions, TLC

CONSTANTS
  Containers,   \* the compound files that Info.db can be, by version
  Readers,      \* threads that ask InfoStorage
  Questions,    \* what they ask: [kind, ident]
  CacheItems, CacheCells,   \* ENTRY_CHUNK_CACHE_CAPACITY and _MAX_BYTES
  None,
  StreamLimit,  \* --cfb-stream-limit of a run, or none
  MaxEvents     \* extractions, kills, changes of Info.db and requests: a bound

VARIABLES
  info,      \* Info.db: its version
  disk,      \* the extracted files: name -> [cells, stamp]
  clock,     \* the next file time
  extract,   \* the run of extract_cfb_step
  store,     \* EntryChunkCache: [items, order, cells]
  ask,       \* each thread's request
  events     \* how many of them there were

streamVars == <<info, disk, clock, extract, store, ask, events>>

----------------------------------------------------------------------------
(* CfbReader: reading a container that is held in memory.                  *)

\* Bug: a position that was met before is followed again.
FollowAgain(next, start, valid, most) ==
  LET at[n \in 0..most] ==
        IF n = 0 THEN start
        ELSE IF at[n - 1] \in DOMAIN next THEN next[at[n - 1]] ELSE None
      len == Max({n \in 0..most : \A m \in 0..(n - 1) : at[m] \in valid})
  IN [i \in 1..len |-> at[i - 1]]

\* The positions that are met on the way from `start`, as long as they are
\* valid and new, at most `most` of them.
Follow(next, start, valid, most) ==
  LET at[n \in 0..most] ==
        IF n = 0 THEN start
        ELSE IF at[n - 1] \in DOMAIN next THEN next[at[n - 1]] ELSE None
      new(n) == at[n] \in valid /\ \A m \in 0..(n - 1) : at[m] # at[n]
      len == Max({n \in 0..most : \A m \in 0..(n - 1) : new(m)})
  IN [i \in 1..len |-> at[i - 1]]

Sectors(c) == 0..c.last

\* read_difat: where the allocation table is; every sector once, and no more
\* than the header says.
Difat(c) ==
  LET chain == Follow([s \in DOMAIN c.difat |-> c.difat[s].next], c.firstDifat, Sectors(c),
                      c.numDifat)
      all == c.listed \o FlattenSeq([i \in DOMAIN chain |->
                           IF chain[i] \in DOMAIN c.difat THEN c.difat[chain[i]].ids ELSE <<>>])
      ids == FoldLeft(LAMBDA seen, s : IF s \in Sectors(c) /\ ~Contains(seen, s)
                                       THEN Append(seen, s) ELSE seen, <<>>, all)
  IN IF c.numFat > 0 THEN SubSeq(ids, 1, Min({c.numFat, Len(ids)})) ELSE ids

\* What the sectors of a table hold, numbered from 0.
Numbered(table, sectors) ==
  LET all == FlattenSeq([i \in DOMAIN sectors |->
               IF sectors[i] \in DOMAIN table THEN table[sectors[i]] ELSE <<>>])
  IN [s \in 0..(Len(all) - 1) |-> all[s + 1]]

\* read_fat: sector -> the one that follows.
Fat(c) == Numbered(c.table, Difat(c))

Chain(c, fat, start, most) == Follow(fat, start, Sectors(c), most)

CellsIn(c, chain) ==
  [i \in 1..(2 * Len(chain)) |-> <<c.version, chain[(i + 1) \div 2], 2 - (i % 2)>>]

Cut(s, len) == SubSeq(s, 1, Min({len, Len(s)}))

EmptyEntry ==
  [name |-> "", typ |-> None, left |-> None, right |-> None, child |-> None,
   start |-> None, size |-> 0]

\* read_directory: a sector that is no directory reads as empty entries.
Entries(c, fat) ==
  LET chain == Chain(c, fat, c.dirStart, c.last + 1)
  IN FlattenSeq([i \in DOMAIN chain |->
       IF chain[i] \in DOMAIN c.dirs THEN c.dirs[chain[i]] ELSE <<EmptyEntry, EmptyEntry>>])

\* read_mini_fat and read_root_mini_stream.
MiniFat(c, fat) == Numbered(c.minis, Chain(c, fat, c.miniStart, c.numMini))

MiniStream(c, fat, entries) ==
  IF entries = <<>> THEN <<>>
  ELSE Cut(CellsIn(c, Chain(c, fat, entries[1].start, c.last + 1)), entries[1].size)

\* read_stream_entry.
StreamCells(reader, entry) ==
  LET c     == Containers[reader.version]
      small == Follow(reader.minis, entry.start, DOMAIN reader.minis,
                      Cardinality(DOMAIN reader.minis))
  IN Cut(IF entry.size < c.cutoff /\ reader.root # <<>>
         THEN FlattenSeq([i \in DOMAIN small |->
                IF small[i] < Len(reader.root) THEN <<reader.root[small[i] + 1]>> ELSE <<>>])
         ELSE CellsIn(c, Chain(c, reader.fat, entry.start, c.last + 1)),
         entry.size)

\* CfbReader: the tables and the directory, and what they lead to.
Opened(v) ==
  LET c == Containers[v]
      fat == Fat(c)
      entries == Entries(c, fat)
  IN [version |-> v, fat |-> fat, entries |-> entries, minis |-> MiniFat(c, fat),
      root |-> MiniStream(c, fat, entries)]

\* walk: the tree in order, no entry twice; `found` holds <<path, index>>.
Walk(entries) ==
  LET Tour == [visited : SUBSET Int, found : Seq(Seq(STRING) \X Int)]
      walk[step \in (Int \cup {None}) \X Seq(STRING) \X Tour] ==
        LET idx == step[1]  prefix == step[2]  tour == step[3]
            entry == entries[idx + 1]
            here  == [tour EXCEPT !.visited = @ \cup {idx}]
            left  == walk[<<entry.left, prefix, here>>]
            mid   == CASE entry.typ = "storage" ->
                            walk[<<entry.child, Append(prefix, entry.name), left>>]
                       [] entry.typ = "root" -> walk[<<entry.child, prefix, left>>]
                       [] OTHER -> [left EXCEPT !.found =
                                      Append(@, <<Append(prefix, entry.name), idx>>)]
        IN IF idx \notin 0..(Len(entries) - 1) \/ idx \in tour.visited THEN tour
           ELSE IF entry.typ = None THEN here ELSE walk[<<entry.right, prefix, mid>>]
  IN walk[<<0, <<>>, [visited |-> {}, found |-> <<>>]>>].found

\* list_streams: without a tree every stream of the directory.
Streams(entries) ==
  LET tree == Walk(entries)
      flat == SelectSeq([i \in DOMAIN entries |-> <<<<entries[i].name>>, i - 1>>],
                        LAMBDA s : entries[s[2] + 1].typ = "stream")
  IN IF tree # <<>> THEN tree ELSE flat

Entry ==
  [name : STRING \cup {""}, typ : {None, "stream", "storage", "root"}, left : Int \cup {None},
   right : Int \cup {None}, child : Int \cup {None}, start : Int \cup {None}, size : Nat]

ASSUME StreamsAssumption ==
  /\ None \notin Int \cup {"clean", "next", "fill", "done", "failed"}
  /\ StreamLimit \in Nat \cup {None}
  /\ CacheItems \in Nat \ {0} /\ CacheCells \in Nat
  /\ \A q \in Questions : q.kind \in {"group", "buddy", "member", "contact"}
  /\ \A v \in DOMAIN Containers :
       LET c == Containers[v]
       IN /\ c.last \in Nat /\ c.numMini \in Nat /\ c.readable \in BOOLEAN
          /\ \A s \in DOMAIN c.dirs : c.dirs[s] \in Seq(Entry)
          /\ \A s \in DOMAIN c.minis : c.minis[s] \in Seq(Int \cup {None})

\* A walk ends, as it visits no entry twice, and finds paths to entries.
ASSUME WalkAssumption ==
  \A v \in DOMAIN Containers :
    Containers[v].readable =>
      LET entries == Opened(v).entries
      IN /\ Streams(entries) \in Seq(Seq(STRING) \X Int)
         /\ \A i \in DOMAIN Streams(entries) :
              /\ Streams(entries)[i][1] # <<>>
              /\ Streams(entries)[i][2] \in 0..(Len(entries) - 1)

----------------------------------------------------------------------------
(* extract_cfb_with_limit: one file per stream.                            *)

\* safe_part: characters that no file name may have.
SafePart(name) == IF name = "Basic:db" THEN "Basic.db" ELSE name

Safe(path) == [i \in DOMAIN path |-> SafePart(path[i])]

\* stream_prefixes.
FolderNames(streams) ==
  UNION {{SubSeq(Safe(streams[i][1]), 1, n) : n \in 1..(Len(streams[i][1]) - 1)} :
           i \in DOMAIN streams}

\* A file is named by a path and the number behind `__`, 0 for none.
Folders == UNION {{SubSeq(f[1], 1, n) : n \in 1..(Len(f[1]) - 1)} : f \in DOMAIN disk}
FileExists(file) == file \in DOMAIN disk \/ (file[2] = 0 /\ file[1] \in Folders)

\* unique_output_path.
OutputPath(path, prefixes) ==
  LET base == IF Safe(path) \in prefixes THEN Append(Safe(path), "__stream") ELSE Safe(path)
      free == {n \in 0..(Cardinality(DOMAIN disk) + 1) : ~FileExists(<<base, n>>)}
  IN <<base, Min(free)>>

NoRun == [pc |-> None, clean |-> FALSE, held |-> None, todo |-> <<>>, prefixes |-> {},
          out |-> None, files |-> <<>>]

Touch(file, cells) ==
  /\ disk' = [f \in DOMAIN disk \cup {file} |->
                IF f = file THEN [cells |-> cells, stamp |-> clock] ELSE disk[f]]
  /\ clock' = clock + 1

ExtractIs(next) == extract' = next /\ UNCHANGED <<info, store, ask>>

StartExtract ==
  /\ extract.pc \in {None, "done", "failed"} /\ events < MaxEvents
  /\ \E clean \in BOOLEAN : ExtractIs([NoRun EXCEPT !.pc = "clean", !.clean = clean])
  /\ events' = events + 1
  /\ UNCHANGED <<disk, clock>>

\* remove_dir_all takes the files one after the other.
Cleaned == extract.clean => disk = <<>>

RemoveOld ==
  /\ extract.pc = "clean" /\ ~Cleaned
  /\ \E f \in DOMAIN disk : disk' = [g \in DOMAIN disk \ {f} |-> disk[g]]
  /\ UNCHANGED <<info, clock, extract, store, ask, events>>

\* CfbReader::open: the whole file is read at once, its tables and its
\* directory are kept; what is no container, or ends inside the header, is
\* refused.
OpenContainer ==
  /\ extract.pc = "clean" /\ Cleaned
  /\ IF ~Containers[info].readable
     THEN ExtractIs([extract EXCEPT !.pc = "failed"])
     ELSE \E held \in {Opened(info)} : \E all \in {Streams(held.entries)} :
            ExtractIs([extract EXCEPT
              !.pc = "next", !.held = held, !.prefixes = FolderNames(all),
              !.todo = IF StreamLimit = None THEN all ELSE Cut(all, StreamLimit)])
  /\ UNCHANGED <<disk, clock, events>>

\* create_dir_all fails where a file has the name of a folder.
FolderBlocked(file) ==
  \E n \in 1..(Len(file[1]) - 1) : <<SubSeq(file[1], 1, n), 0>> \in DOMAIN disk

\* fs::write creates the file, or cuts it, and then fills it.
CreateFile ==
  /\ extract.pc = "next" /\ extract.todo # <<>>
  /\ LET file == OutputPath(Head(extract.todo)[1], extract.prefixes)
     IN IF FolderBlocked(file)
        THEN ExtractIs([extract EXCEPT !.pc = "failed"]) /\ UNCHANGED <<disk, clock>>
        ELSE Touch(file, <<>>) /\ ExtractIs([extract EXCEPT !.pc = "fill", !.out = file])
  /\ UNCHANGED events

FillFile ==
  /\ extract.pc = "fill"
  /\ \E stream \in {Head(extract.todo)} :
     \E cells \in {StreamCells(extract.held, extract.held.entries[stream[2] + 1])} :
        /\ Touch(extract.out, cells)
        /\ ExtractIs([extract EXCEPT !.pc = "next", !.todo = Tail(@),
                        !.files = Append(@, [stream |-> stream, out |-> extract.out,
                                             cells |-> cells])])
  /\ UNCHANGED events

EndExtract ==
  /\ extract.pc = "next" /\ extract.todo = <<>>
  /\ ExtractIs([extract EXCEPT !.pc = "done"])
  /\ UNCHANGED <<disk, clock, events>>

KillExtract ==
  /\ extract.pc \in {"clean", "next", "fill"} /\ events < MaxEvents
  /\ ExtractIs(NoRun)
  /\ events' = events + 1
  /\ UNCHANGED <<disk, clock>>

\* QQ writes another Info.db.
ReplaceInfo ==
  /\ events < MaxEvents
  /\ info' \in DOMAIN Containers \ {info}
  /\ events' = events + 1
  /\ UNCHANGED <<disk, clock, extract, store, ask>>

----------------------------------------------------------------------------
(* EntryChunkCache, under its lock.                                        *)
CellsOf(chunks) == Len(chunks)

\* retain: a key is in the order once at most.
Passed(order, key) ==
  LET position == CHOOSE i \in DOMAIN order : order[i] = key
  IN IF key \in Range(order) THEN RemoveAt(order, position) ELSE order

Without(cache, key) ==
  [items |-> Restrict(cache.items, DOMAIN cache.items \ {key}),
   order |-> Passed(cache.order, key),
   cells |-> IF key \in DOMAIN cache.items
             THEN cache.cells - CellsOf(cache.items[key].chunks) ELSE cache.cells]

\* get: what is kept under another identity is dropped.
Got(cache, key) ==
  IF key \in DOMAIN cache.items
  THEN [cache EXCEPT !.order = Append(Passed(@, key), key)]
  ELSE cache

\* The chunks of items, each with its key.
Occupied(items) == UNION {{k} \X DOMAIN items[k].chunks : k \in DOMAIN items}

\* The n oldest go.
Dropped(cache, n) ==
  LET gone == {cache.order[i] : i \in 1..n} \cap DOMAIN cache.items
  IN [items |-> Restrict(cache.items, DOMAIN cache.items \ gone),
      order |-> SubSeq(cache.order, n + 1, Len(cache.order)),
      cells |-> cache.cells - Cardinality(Occupied(Restrict(cache.items, gone)))]

HasRoom(cache, cells) ==
  Cardinality(DOMAIN cache.items) < CacheItems /\ cache.cells + cells <= CacheCells

\* The oldest go until there is room.
Evicted(cache, cells) ==
  LET fits == {n \in 0..Len(cache.order) : HasRoom(Dropped(cache, n), cells)}
  IN Dropped(cache, IF fits = {} THEN Len(cache.order) ELSE Min(fits))

\* insert.
Inserted(cache, key, value) ==
  LET rest == Without(cache, key)
      room == Evicted(rest, CellsOf(value.chunks))
  IN IF CellsOf(value.chunks) > CacheCells THEN rest
     ELSE [items |-> [k \in DOMAIN room.items \cup {key} |->
                        IF k = key THEN value ELSE room.items[k]],
           order |-> Append(room.order, key), cells |-> room.cells + CellsOf(value.chunks)]

----------------------------------------------------------------------------
(* entry_chunks: a request asks for one stream after the other.            *)
Key(stream) == <<stream, 0>>

\* The chunks of a stream: a chunk that does not decrypt is left out.
Meaning(cell) ==
  LET says == {m \in Containers[cell[1]].says : m.cell = <<cell[2], cell[3]>>}
  IN IF says = {} THEN <<>> ELSE (CHOOSE m \in says : TRUE).entries

Decoded(cells) ==
  FlattenSeq([i \in 1..(Len(cells) - 1) |->
    IF Meaning(cells[i + 1]) = <<>> THEN <<>> ELSE <<Meaning(cells[i + 1])>>])

\* entries_filtered: the fields of one name, of all its entries.
Fields(chunks, ident) ==
  FlattenSeq([i \in DOMAIN chunks |->
    IF ident \in DOMAIN chunks[i] THEN chunks[i][ident] ELSE <<>>])

\* usable_label: digits and paths are no names.
Usable(text, ident) == text \notin {"", "10001", "a/b", ident}

\* first_field_text: the fields in the order of preference.
FirstText(fields, order, ident) ==
  LET texts == FlattenSeq([i \in DOMAIN order |->
                 IF order[i] + 1 \in DOMAIN fields THEN fields[order[i] + 1].texts ELSE <<>>])
      good  == SelectSeq(texts, LAMBDA t : Usable(t, ident))
  IN IF good = <<>> THEN "" ELSE Head(good)

\* group_label_from_fields: only the first text of each name counts.
GroupNames == <<"string_long_group_name", "strGroupName", "strGroupName1">>

GroupLabel(fields, ident) ==
  LET texts(name) == FlattenSeq([i \in DOMAIN fields |->
                       IF fields[i].name = name THEN fields[i].texts ELSE <<>>])
      firsts == FlattenSeq([i \in 1..3 |-> Cut(texts(GroupNames[i]), 1)])
      good   == SelectSeq(firsts, LAMBDA t : Usable(t, ident))
  IN IF good # <<>> THEN Head(good) ELSE FirstText(fields, <<2>>, ident)

Preferred == <<0, 1, 2, 3, 4, 5>>

\* group_member_profile: the card before the other names, never the title.
\* Bug: the title counts as well.
TitleOrder == <<1, 3, 2, 4>>

CardOrder == <<3, 2, 4, 5, 6, 7, 8, 9>>

\* named_text: whatever it says.
NamedText(fields, name) ==
  LET texts == FlattenSeq([i \in DOMAIN fields |->
                 IF fields[i].name = name THEN fields[i].texts ELSE <<>>])
  IN IF texts = <<>> THEN "" ELSE Head(texts)

\* merge_contact_profile: the first of the four streams that has a head.
ContactStreams ==
  << <<"Contact", "QQInfo.db">>, <<"Contact", "NonRelationQQInfo.db">>,
     <<"Contact", "PublicInfo.db">>, <<"Contact", "Remark.db">> >>

\* What each request reads, in order.
Wanted(question) ==
  CASE question.kind = "group" -> << <<"Group", "Basic.db">> >>
    [] question.kind = "buddy" ->
         << <<"Contact", "Remark.db">>, <<"Contact", "PublicInfo.db">> >>
    [] question.kind = "member" -> << <<"User", "Group1.db">> >>
    [] question.kind = "contact" -> ContactStreams

\* The answer to what was read of them.
Answer(question, got) ==
  LET fields(i) == Fields(got[i], question.ident)
      texts == [i \in DOMAIN got |->
        CASE question.kind = "group" -> GroupLabel(fields(i), question.ident)
          [] question.kind = "member" -> FirstText(fields(i), CardOrder, question.ident)
          [] question.kind = "contact" -> NamedText(fields(i), "strCustomHeadFile")
          [] OTHER -> FirstText(fields(i), Preferred, question.ident)]
      good == SelectSeq(texts, LAMBDA t : t # "")
  IN IF good = <<>> THEN "" ELSE Head(good)

\* `label` and `labels` stop at the first stream that answers, the profiles
\* of contacts are merged from all.
Enough(question, got) ==
  \/ Len(got) = Len(Wanted(question))
  \/ question.kind = "buddy" /\ Answer(question, got) # ""

Silent == [pc |-> "idle", question |-> None, identity |-> 0, chunks |-> <<>>, got |-> <<>>]

Stream(t) == Wanted(ask[t].question)[Len(ask[t].got) + 1]

AskIs(t, next) == ask' = [ask EXCEPT ![t] = next] /\ UNCHANGED <<info, disk, clock, extract, events>>

Ask(t) ==
  /\ ask[t].pc = "idle" /\ events < MaxEvents
  /\ \E q \in Questions : ask' = [ask EXCEPT ![t] = [Silent EXCEPT !.pc = "stat", !.question = q]]
  /\ events' = events + 1
  /\ UNCHANGED <<info, disk, clock, extract, store>>

Learnt(t, chunks) ==
  LET got == Append(ask[t].got, chunks)
  IN [ask[t] EXCEPT !.got = got, !.pc = IF Enough(ask[t].question, got) THEN "answered" ELSE "stat"]

\* A file that is not there has nothing to say.
Stat(t) ==
  /\ ask[t].pc = "stat"
  /\ LET key == Key(Stream(t))
     IN AskIs(t, IF key \in DOMAIN disk
                 THEN [ask[t] EXCEPT !.pc = "get", !.identity = disk[key].stamp]
                 ELSE Learnt(t, <<>>))
  /\ UNCHANGED store

GetCached(t) ==
  /\ ask[t].pc = "get"
  /\ LET key == Stream(t)
         hit == key \in DOMAIN store.items
     IN IF hit /\ store.items[key].identity = ask[t].identity
        THEN store' = Got(store, key) /\ AskIs(t, Learnt(t, store.items[key].chunks))
        ELSE /\ store' = IF hit THEN Without(store, key) ELSE store
             /\ AskIs(t, [ask[t] EXCEPT !.pc = "read"])

ReadStream(t) ==
  /\ ask[t].pc = "read"
  /\ LET key == Key(Stream(t))
     IN AskIs(t, IF key \in DOMAIN disk
                 THEN [ask[t] EXCEPT !.pc = "insert", !.chunks = Decoded(disk[key].cells)]
                 ELSE Learnt(t, <<>>))
  /\ UNCHANGED store

\* Bug: the identity is the one the file has by now.
IdentityNow(t) ==
  IF Key(Stream(t)) \in DOMAIN disk THEN disk[Key(Stream(t))].stamp ELSE ask[t].identity

IdentityOf(t) == ask[t].identity

InsertChunks(t) ==
  /\ ask[t].pc = "insert"
  /\ store' = Inserted(store, Stream(t), [identity |-> IdentityOf(t), chunks |-> ask[t].chunks])
  /\ AskIs(t, Learnt(t, ask[t].chunks))

Answered(t) ==
  /\ ask[t].pc = "answered"
  /\ AskIs(t, Silent)
  /\ UNCHANGED store

----------------------------------------------------------------------------
NoStore == [items |-> <<>>, order |-> <<>>, cells |-> 0]

StreamsInit ==
  /\ info \in DOMAIN Containers
  /\ disk = <<>> /\ clock = 1 /\ extract = NoRun
  /\ store = NoStore
  /\ ask = [t \in Readers |-> Silent]
  /\ events = 0

Extracting ==
  \/ StartExtract \/ RemoveOld \/ OpenContainer \/ CreateFile \/ FillFile \/ EndExtract
  \/ KillExtract \/ ReplaceInfo

Reader(t) ==
  Ask(t) \/ Stat(t) \/ GetCached(t) \/ ReadStream(t) \/ InsertChunks(t) \/ Answered(t)

StreamsNext == Extracting \/ \E t \in Readers : Reader(t)

StreamsSpec == StreamsInit /\ [][StreamsNext]_streamVars

----------------------------------------------------------------------------
(* Properties.                                                             *)

\* A run writes every stream to a file of its own, and a sound container's
\* streams as they are; of a damaged one no cell is taken twice.
StreamsWhole ==
  extract.pc = "done" =>
    /\ \A i, j \in DOMAIN extract.files :
         i # j => extract.files[i].out # extract.files[j].out
    /\ \A i \in DOMAIN extract.files : IsInjective(extract.files[i].cells)
    /\ LET held == Containers[extract.held.version] IN
         held.sound /\ StreamLimit = None =>
           {<<f.stream[1], f.cells>> : f \in ToSet(extract.files)}
             = {<<p, held.truth[p]>> : p \in DOMAIN held.truth}

\* A run leaves what it read in its files, and one that cleaned first where
\* the readers look, unless two streams would have the same file.
WrittenWhereRead ==
  extract.pc = "done" =>
    \A f \in ToSet(extract.files) :
      /\ f.out \in DOMAIN disk /\ disk[f.out].cells = f.cells
      /\ /\ extract.clean
         /\ Safe(f.stream[1]) = f.stream[1] /\ f.stream[1] \notin extract.prefixes
         /\ \A g \in ToSet(extract.files) : g.out[1] = f.out[1] => g = f
         => f.out[2] = 0

\* Who reads the streams of a sound container gets the names that QQ shows.
NamesRight ==
  \A t \in Readers, v \in DOMAIN Containers :
    LET c == Containers[v]
        whole(p) == IF p \in DOMAIN c.truth THEN Decoded(c.truth[p]) ELSE <<>>
    IN /\ c.sound /\ ask[t].pc = "answered" /\ ask[t].question \in DOMAIN c.names
       /\ \A i \in DOMAIN ask[t].got : ask[t].got[i] = whole(Wanted(ask[t].question)[i])
       => Answer(ask[t].question, ask[t].got) = c.names[ask[t].question]

\* What passes for current was read of the file as it is.
CacheHonest ==
  \A key \in DOMAIN store.items :
    Key(key) \in DOMAIN disk /\ disk[Key(key)].stamp = store.items[key].identity
      => store.items[key].chunks = Decoded(disk[Key(key)].cells)

CacheWithinBounds ==
  /\ ToSet(store.order) = DOMAIN store.items /\ IsInjective(store.order)
  /\ Cardinality(DOMAIN store.items) <= CacheItems /\ store.cells <= CacheCells
  /\ store.cells = Cardinality(Occupied(store.items))

(***************************************************************************)
(* The files that hold a container's streams are its streams, each at its  *)
(* own name, however often and with whatever interruption they were taken  *)
(* apart, and the cache never passes older chunks for current ones, nor    *)
(* grows beyond its limits (extract_cfb_with_limit, CfbReader,             *)
(* EntryChunkCache, entry_chunks, label).                                  *)
(***************************************************************************)
StreamsSound ==
  StreamsWhole /\ WrittenWhereRead /\ NamesRight /\ CacheHonest /\ CacheWithinBounds
=============================================================================
