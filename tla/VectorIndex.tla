---------------------------- MODULE VectorIndex ----------------------------
(***************************************************************************)
(* The persistent nearest-neighbour index of SSCD vectors                  *)
(* (sscd_vector_index.rs): a directory beside the image manifest that one  *)
(* thread of the service loads or rebuilds after every start.  Indexers    *)
(* change the manifest meanwhile, the service can be killed between any    *)
(* two steps, and every step can fail.                                     *)
(*                                                                         *)
(* The embeddings and exact groups of the manifest are reduced to the      *)
(* version of their content, which is what manifest_identity tells apart.  *)
(***************************************************************************)
EXTENDS Naturals, FiniteSets

CONSTANTS
  MaxContent,  \* bound on the versions of the manifest content
  Points,      \* version -> number of valid SSCD vectors
  MaxStarts,   \* bound on the starts of the service
  Faults       \* whether steps may fail

ASSUME VectorAssumption ==
  /\ MaxContent \in Nat \ {0} /\ MaxStarts \in Nat
  /\ Points \in [1 .. MaxContent -> Nat]
  /\ Faults \in BOOLEAN

Contents == 1 .. MaxContent
NotYet   == 0               \* no version: not read, not written

VARIABLES
  content,  \* version of the manifest content
  dir,      \* the published index directory
  state,    \* IndexState of the running service
  prep,     \* the thread of prepare_vector_index and what it has read
  starts    \* starts of the service so far

vectorVars == <<content, dir, state, prep, starts>>

\* representatives.i64le: the version its exact groups were read from and
\* the one its rowids were read from.
Mappings  == [groups : Contents, rowids : Contents]
NoMapping == [groups |-> NotYet, rowids |-> NotYet]

\* metadata.json, the segment with its graph, and the mapping file.
IndexDirs == [identity : Contents, vectors : Contents, mapping : Mappings \cup {NoMapping}]
NoDir     == [identity |-> NotYet, vectors |-> NotYet, mapping |-> NoMapping]

Phases     == {"cold", "loading", "building", "indexing", "mapping", "ready", "failed"}
Busy       == {"loading", "building", "indexing", "mapping"}
IndexState == [phase : Phases, loaded : IndexDirs \cup {NoDir}, generation : 0 .. 1]
Cold       == [phase |-> "cold", loaded |-> NoDir, generation |-> 0]

PrepSteps == {"off", "identity", "ensure", "metadata", "scan", "index", "publish",
              "rename", "groups", "count", "rowids", "write", "load", "ended"}
PrepOff == [pc |-> "off", identity |-> NotYet, path |-> "load", work |-> NoDir,
            aside |-> NoDir]

VectorInit ==
  /\ content = 1
  /\ dir = NoDir
  /\ state = Cold
  /\ prep = PrepOff
  /\ starts = 0

----------------------------------------------------------------------------
\* What readers see of the index.
VectorReady  == state.loaded # NoDir

VectorFailed == state.phase = "failed"
Serving      == prep.pc # "off"

\* The preparation ended without the index and without saying so: nothing
\* sets the phase again before the next start.
Stalled == prep.pc = "ended" /\ state.phase \notin {"ready", "failed"}

----------------------------------------------------------------------------
\* Indexers replace vectors or regroup assets; identities never recur.
ChangeContent ==
  /\ content < MaxContent
  /\ content' = content + 1
  /\ UNCHANGED <<dir, state, prep, starts>>

StartService ==
  /\ prep.pc = "off" /\ starts < MaxStarts
  /\ starts' = starts + 1
  /\ prep' = [PrepOff EXCEPT !.pc = "identity"]
  /\ UNCHANGED <<content, dir, state>>

\* The files stay as they are; everything in memory is gone.
StopService ==
  /\ Serving
  /\ prep' = PrepOff /\ state' = Cold
  /\ UNCHANGED <<content, dir, starts>>

PrepEnds    == prep' = [PrepOff EXCEPT !.pc = "ended", !.path = prep.path]
GoTo(step)  == prep' = [prep EXCEPT !.pc = step]
Phase(name) == state' = [state EXCEPT !.phase = name]

\* An error inside the match becomes the terminal error of the index ...
Fail == /\ state' = [state EXCEPT !.phase = "failed", !.loaded = NoDir]
        /\ PrepEnds

\* ... but one that leaves ensure_ready with `?` skips the final critical
\* section and keeps the phase.
Leave == PrepEnds /\ UNCHANGED state

\* Which of the two an error while mapping is depends on the arm.
MappingError == IF prep.path = "load" THEN Leave ELSE Fail

\* manifest_identity reads the manifest; its error is only logged.
ReadIndexIdentity ==
  /\ prep.pc = "identity"
  /\ \/ prep' = [prep EXCEPT !.pc = "ensure", !.identity = content]
     \/ Faults /\ PrepEnds
  /\ UNCHANGED <<content, dir, state, starts>>

EnsureReady ==
  /\ prep.pc = "ensure"
  /\ IF state.loaded.identity = prep.identity \/ state.phase \in Busy
       THEN Leave
       ELSE GoTo("metadata") /\ Phase("loading")
  /\ UNCHANGED <<content, dir, starts>>

MetadataMatches == dir # NoDir /\ dir.identity = prep.identity

\* Unreadable metadata count as none.
ReadMetadata ==
  /\ prep.pc = "metadata"
  /\ \/ /\ MetadataMatches
        /\ prep' = [prep EXCEPT !.path = "load", !.work = dir, !.pc = "groups"]
     \/ /\ ~MetadataMatches \/ Faults
        /\ prep' = [prep EXCEPT !.path = "build", !.pc = "scan"]
  /\ UNCHANGED <<content, dir, state, starts>>

\* Bug: the identity is taken when the vectors have been read.
BuiltOfLateIdentity ==
  [identity |-> content, vectors |-> prep.work.vectors, mapping |-> NoMapping]

Built == [identity |-> prep.identity, vectors |-> prep.work.vectors, mapping |-> NoMapping]

\* One statement reads the vectors into a fresh directory building-<pid>.
ScanVectors ==
  /\ prep.pc = "scan"
  /\ \/ /\ Points[content] > 0
        /\ prep' = [prep EXCEPT !.pc = "index", !.work.vectors = content]
        /\ Phase("building")
     \/ (Faults \/ Points[content] = 0) /\ Fail
  /\ UNCHANGED <<content, dir, starts>>

\* HNSWIndex::build and metadata.json.
BuildGraph ==
  /\ prep.pc = "index"
  /\ \/ prep' = [prep EXCEPT !.pc = "publish", !.work = Built] /\ Phase("indexing")
     \/ Faults /\ Fail
  /\ UNCHANGED <<content, dir, starts>>

\* The index that is in the way is renamed first.
SetAside ==
  /\ prep.pc = "publish"
  /\ dir' = NoDir
  /\ prep' = [prep EXCEPT !.pc = "rename", !.aside = dir]
  /\ UNCHANGED <<content, state, starts>>

Renamed == prep.work

\* When the second rename fails the old one is put back, if that succeeds.
PublishIndex ==
  /\ prep.pc = "rename"
  /\ \/ dir' = Renamed /\ prep' = [prep EXCEPT !.pc = "groups", !.work = Renamed,
                                   !.aside = NoDir]
        /\ UNCHANGED state
     \/ Faults /\ Fail /\ dir' \in {NoDir, prep.aside}
  /\ UNCHANGED <<content, starts>>

\* A mapping file of the right length is kept.
MappingPresent ==
  /\ prep.work.mapping # NoMapping
  /\ Points[prep.work.mapping.rowids] = Points[prep.work.vectors]

ReadGroups ==
  /\ prep.pc = "groups"
  /\ \/ MappingPresent /\ GoTo("load") /\ UNCHANGED state
     \/ /\ ~MappingPresent /\ Phase("mapping")
        /\ prep' = [prep EXCEPT !.pc = "count", !.work.mapping.groups = content]
     \/ Faults /\ ~MappingPresent /\ MappingError
  /\ UNCHANGED <<content, dir, starts>>

\* Bug: the number of vectors is not compared with the index.
AnyCount == TRUE

CountUnchanged == Points[content] = Points[prep.work.vectors]

CheckCount ==
  /\ prep.pc = "count"
  /\ \/ CountUnchanged /\ GoTo("rowids") /\ UNCHANGED state
     \/ (Faults \/ ~CountUnchanged) /\ MappingError
  /\ UNCHANGED <<content, dir, starts>>

\* The rows are counted again while they are read.
ReadRowids ==
  /\ prep.pc = "rowids"
  /\ \/ /\ CountUnchanged
        /\ prep' = [prep EXCEPT !.pc = "write", !.work.mapping.rowids = content]
        /\ UNCHANGED state
     \/ (Faults \/ ~CountUnchanged) /\ MappingError
  /\ UNCHANGED <<content, dir, starts>>

\* Temporary file, removal of an old one, rename.
WriteMapping ==
  /\ prep.pc = "write"
  /\ \/ dir' = prep.work /\ GoTo("load") /\ UNCHANGED state
     \/ Faults /\ MappingError /\ UNCHANGED dir
  /\ UNCHANGED <<content, starts>>

\* load_index, then the critical section that makes the index visible.
LoadIndex ==
  /\ prep.pc = "load"
  /\ \/ /\ state' = [phase |-> "ready", loaded |-> prep.work,
                     generation |-> state.generation + 1]
        /\ PrepEnds
     \/ Faults /\ Fail
  /\ UNCHANGED <<content, dir, starts>>

PrepStep ==
  \/ ReadIndexIdentity \/ EnsureReady \/ ReadMetadata \/ ScanVectors \/ BuildGraph
  \/ SetAside \/ PublishIndex \/ ReadGroups \/ CheckCount \/ ReadRowids \/ WriteMapping
  \/ LoadIndex

----------------------------------------------------------------------------
VectorTypeOK ==
  /\ content \in Contents /\ starts \in 0 .. MaxStarts
  /\ dir \in IndexDirs \cup {NoDir}
  /\ state \in IndexState
  /\ prep.pc \in PrepSteps /\ prep.identity \in Contents \cup {NotYet}

\* An index that claims the present content holds it: a start that finds the
\* directory of a killed or failed run uses it without looking further.
IndexExactWhenCurrent ==
  \A index \in {dir, state.loaded} :
    index.identity = content =>
      /\ index.vectors = content
      /\ index.mapping \in {NoMapping, [groups |-> content, rowids |-> content]}

\* Offsets of the graph are positions in the mapping: whatever is loaded has
\* as many representatives as vectors.
LoadedMappingFits ==
  VectorReady =>
    /\ state.loaded.mapping # NoMapping
    /\ Points[state.loaded.mapping.rowids] = Points[state.loaded.vectors]

\* Both: what the service searches is what the manifest holds.
IndexServesContent == IndexExactWhenCurrent /\ LoadedMappingFits

----------------------------------------------------------------------------
(***************************************************************************)
(* What every step keeps, so that IndexServesContent holds.                *)
(***************************************************************************)
Versions == 0 .. MaxContent
WorkDirs == [identity : Versions, vectors : Versions,
             mapping : [groups : Versions, rowids : Versions]]
PrepState == [pc : PrepSteps, identity : Versions, path : {"load", "build"},
              work : WorkDirs, aside : IndexDirs \cup {NoDir}]

\* What an index holds was read from the manifest after its identity.
ReadSince(identity, version) ==
  version \in Contents /\ identity <= version /\ version <= content

VectorsSince(index) ==
  index.identity \in Contents /\ ReadSince(index.identity, index.vectors)

MappedSince(index) ==
  /\ ReadSince(index.identity, index.mapping.groups)
  /\ ReadSince(index.identity, index.mapping.rowids)

Honest(index) ==
  index # NoDir => VectorsSince(index) /\ (index.mapping = NoMapping \/ MappedSince(index))

MappingFits(index) ==
  /\ index.mapping # NoMapping
  /\ Points[index.mapping.rowids] = Points[index.vectors]

\* The directory that the preparing thread works on, step by step.
WorkKnown ==
  /\ prep.pc \notin {"off", "identity", "ended"} =>
       prep.identity \in Contents /\ prep.identity <= content
  /\ prep.pc = "index" => ReadSince(prep.identity, prep.work.vectors)
  /\ prep.pc \in {"publish", "rename"} =>
       VectorsSince(prep.work) /\ prep.work.mapping = NoMapping
  /\ prep.pc = "groups" => VectorsSince(prep.work) /\ Honest(prep.work)
  /\ prep.pc \in {"count", "rowids"} =>
       /\ VectorsSince(prep.work)
       /\ ReadSince(prep.work.identity, prep.work.mapping.groups)
  /\ prep.pc \in {"write", "load"} =>
       VectorsSince(prep.work) /\ MappedSince(prep.work) /\ MappingFits(prep.work)

VectorInv ==
  /\ VectorTypeOK
  /\ prep \in PrepState
  /\ Honest(dir) /\ Honest(state.loaded) /\ Honest(prep.aside)
  /\ WorkKnown
  /\ VectorReady => MappingFits(state.loaded)
  /\ prep.pc # "ended" => state.loaded = NoDir /\ state.generation = 0
============================================================================
