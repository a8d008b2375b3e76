---------------------------- MODULE RankingProofs ----------------------------
(***************************************************************************)
(* Proofs about the vector index and the ranking tasks that wait for it    *)
(* (VectorIndex, RankingTasks): what the service searches is what the      *)
(* manifest holds, one ranking is live at a time, results stay under the   *)
(* task that computed them, and cancelled tasks stay cancelled.            *)
(***************************************************************************)
EXTENDS RankingTasks, FiniteSetTheorems, WellFoundedInduction, TLAPS

----------------------------------------------------------------------------
(***************************************************************************)
(* The vector index.                                                       *)
(***************************************************************************)

\* Record types with nested records, step by step.
LEMMA GoToIs ==
  ASSUME prep \in PrepState, NEW step \in PrepSteps, GoTo(step)
  PROVE  /\ prep' \in PrepState
         /\ prep'.pc = step
         /\ prep'.identity = prep.identity /\ prep'.path = prep.path
         /\ prep'.work = prep.work /\ prep'.aside = prep.aside
  BY DEF GoTo, PrepState

LEMMA PrepEndsIs ==
  ASSUME VectorAssumption, prep \in PrepState, PrepEnds
  PROVE  /\ prep' \in PrepState
         /\ prep'.pc = "ended"
         /\ prep'.work = NoDir /\ prep'.aside = NoDir /\ prep'.identity = NotYet
<1>1. NoDir \in WorkDirs /\ NotYet \in Versions
  BY DEF VectorAssumption, NoDir, WorkDirs, NoMapping, NotYet, Versions
<1>2. prep'.pc = "ended" /\ prep'.identity = NotYet /\ prep'.path = prep.path
        /\ prep'.work = NoDir /\ prep'.aside = NoDir
        /\ prep' = [pc |-> "ended", identity |-> NotYet, path |-> prep.path, work |-> NoDir,
                    aside |-> NoDir]
  BY DEF PrepEnds, PrepOff
<1>3. QED
  BY <1>1, <1>2 DEF PrepState, PrepSteps

LEMMA PhaseIs ==
  ASSUME state \in IndexState, NEW name \in Phases, Phase(name)
  PROVE  /\ state' \in IndexState
         /\ state'.phase = name
         /\ state'.loaded = state.loaded /\ state'.generation = state.generation
  BY DEF Phase, IndexState

LEMMA FailIs ==
  ASSUME state \in IndexState, VectorAssumption, prep \in PrepState, Fail
  PROVE  /\ state' \in IndexState
         /\ state'.loaded = NoDir /\ state'.generation = state.generation
         /\ prep' \in PrepState /\ prep'.pc = "ended"
         /\ prep'.work = NoDir /\ prep'.aside = NoDir /\ prep'.identity = NotYet
<1>1. PrepEnds /\ state' = [state EXCEPT !.phase = "failed", !.loaded = NoDir]
  BY DEF Fail
<1>2. QED
  BY <1>1, PrepEndsIs DEF IndexState, Phases

\* An index is never mistaken for none, whose versions are not versions.
LEMMA DirsAreWork ==
  ASSUME VectorAssumption, NEW index \in IndexDirs \cup {NoDir}
  PROVE  index \in WorkDirs
<1>1. CASE index = NoDir
  BY <1>1 DEF VectorAssumption, NoDir, NoMapping, NotYet, WorkDirs, Versions
<1>2. CASE index \in IndexDirs
  <2>1. index.mapping \in [groups : Versions, rowids : Versions]
    BY <1>2 DEF VectorAssumption, IndexDirs, Mappings, NoMapping, Contents, Versions, NotYet
  <2>2. QED
    BY <1>2, <2>1 DEF VectorAssumption, IndexDirs, WorkDirs, Contents, Versions
<1>3. QED
  BY <1>1, <1>2

LEMMA WorkIsIndex ==
  ASSUME VectorAssumption, content \in Contents, NEW work \in WorkDirs, VectorsSince(work),
         work.mapping = NoMapping \/ MappedSince(work)
  PROVE  work \in IndexDirs /\ work # NoDir
<1>1. work.identity \in Contents /\ work.vectors \in Contents
  BY DEF VectorAssumption, VectorsSince, ReadSince, Contents, WorkDirs
<1>2. work.mapping \in [groups : Versions, rowids : Versions]
  BY DEF WorkDirs
<1>3. work.mapping \in Mappings \cup {NoMapping}
  <2>1. CASE MappedSince(work)
    <3>1. work.mapping.groups \in Contents /\ work.mapping.rowids \in Contents
      BY <2>1, <1>1 DEF VectorAssumption, MappedSince, ReadSince, Contents
    <3>2. QED
      BY <3>1, <1>2 DEF Mappings
  <2>2. QED
    BY <2>1
<1>4. work \in IndexDirs
  BY <1>1, <1>3 DEF IndexDirs, WorkDirs
<1>5. work # NoDir
  BY <1>1 DEF NoDir, Contents, NotYet
<1>6. QED
  BY <1>4, <1>5

\* Content only grows, so what was read since an identity stays so.
LEMMA HonestyStays ==
  ASSUME VectorAssumption, content \in Contents, content' \in Contents, content <= content',
         NEW index
  PROVE  /\ Honest(index) => Honest(index)'
         /\ VectorsSince(index) => VectorsSince(index)'
         /\ MappedSince(index) => MappedSince(index)'
         /\ \A low, version : ReadSince(low, version) => ReadSince(low, version)'
<1>1. \A low, version : ReadSince(low, version) => ReadSince(low, version)'
  BY DEF ReadSince, Contents, VectorAssumption
<1>2. VectorsSince(index) => VectorsSince(index)'
  BY <1>1 DEF VectorsSince
<1>3. MappedSince(index) => MappedSince(index)'
  BY <1>1 DEF MappedSince
<1>4. Honest(index) => Honest(index)'
  BY <1>2, <1>3 DEF Honest
<1>5. QED
  BY <1>1, <1>2, <1>3, <1>4


LEMMA SameContent ==
  ASSUME content' = content, NEW index
  PROVE  /\ Honest(index)' <=> Honest(index)
         /\ VectorsSince(index)' <=> VectorsSince(index)
         /\ MappedSince(index)' <=> MappedSince(index)
         /\ \A low, version : ReadSince(low, version)' <=> ReadSince(low, version)
BY DEF Honest, VectorsSince, MappedSince, ReadSince

\* A step that goes on, whatever it does to the thread and the phase.
LEMMA PrepGoesOn ==
  ASSUME VectorInv, prep.pc # "ended", content' = content, starts' = starts,
         dir' \in IndexDirs \cup {NoDir}, Honest(dir'),
         state' \in IndexState, state'.loaded = state.loaded,
         state'.generation = state.generation,
         prep' \in PrepState, Honest(prep'.aside), WorkKnown'
  PROVE  VectorInv'
<1>1. /\ VectorTypeOK /\ prep \in PrepState /\ Honest(state.loaded)
      /\ state.loaded = NoDir /\ state.generation = 0
  BY DEF VectorInv
<1>2. VectorTypeOK'
  BY <1>1 DEF VectorTypeOK, PrepState, Versions, Contents, NotYet, VectorInv
<1>3. Honest(dir)' /\ Honest(state.loaded)' /\ Honest(prep.aside)'
  <2>1. Honest(state'.loaded)
    BY <1>1
  <2>2. QED
    BY <2>1 DEF Honest, VectorsSince, MappedSince, ReadSince
<1>4. ~VectorReady'
  BY <1>1 DEF VectorReady
<1>5. QED
  BY <1>1, <1>2, <1>3, <1>4 DEF VectorInv

\* A step that ends the preparation without the index.
LEMMA PrepGivesUp ==
  ASSUME VectorAssumption, VectorInv, prep.pc # "ended", content' = content,
         starts' = starts,
         dir' \in {dir, NoDir, prep.aside}, Fail \/ Leave
  PROVE  VectorInv'
<1>1. /\ VectorTypeOK /\ prep \in PrepState /\ Honest(dir) /\ Honest(prep.aside)
      /\ state.loaded = NoDir /\ state.generation = 0
  BY DEF VectorInv
<1>2. state \in IndexState /\ dir \in IndexDirs \cup {NoDir}
  BY <1>1 DEF VectorTypeOK
<1>3. /\ state' \in IndexState /\ state'.loaded = NoDir /\ state'.generation = 0
      /\ prep' \in PrepState /\ prep'.pc = "ended"
      /\ prep'.work = NoDir /\ prep'.aside = NoDir /\ prep'.identity = NotYet
  BY <1>1, <1>2, FailIs, PrepEndsIs DEF Leave
<1>4. dir' \in IndexDirs \cup {NoDir} /\ Honest(dir') /\ Honest(prep'.aside)
  BY <1>1, <1>2, <1>3 DEF Honest, PrepState
<1>5. WorkKnown'
  BY <1>3 DEF WorkKnown
<1>6. QED
  BY <1>1, <1>3, <1>4, <1>5, PrepGoesOn


LEMMA VectorInitially == VectorAssumption /\ VectorInit => VectorInv
<1> SUFFICES ASSUME VectorAssumption, VectorInit PROVE VectorInv
  OBVIOUS
<1>1. content = 1 /\ dir = NoDir /\ state = Cold /\ prep = PrepOff /\ starts = 0
  BY DEF VectorInit
<1>2. Cold \in IndexState /\ Cold.loaded = NoDir /\ Cold.generation = 0
  BY DEF Cold, IndexState, Phases
<1>3. PrepOff \in PrepState /\ PrepOff.pc = "off" /\ PrepOff.aside = NoDir
        /\ PrepOff.identity = NotYet
  <2>1. NoDir \in WorkDirs /\ NotYet \in Versions
    BY DEF VectorAssumption, NoDir, WorkDirs, NoMapping, NotYet, Versions
  <2>2. QED
    BY <2>1 DEF PrepOff, PrepState, PrepSteps
<1>4. VectorTypeOK
  BY <1>1, <1>2, <1>3 DEF VectorTypeOK, VectorAssumption, Contents, PrepSteps, NotYet
<1>5. Honest(NoDir)
  BY DEF Honest
<1>6. WorkKnown
  BY <1>1, <1>3 DEF WorkKnown
<1>7. ~VectorReady
  BY <1>1, <1>2 DEF VectorReady
<1>8. QED
  BY <1>1, <1>2, <1>3, <1>4, <1>5, <1>6, <1>7 DEF VectorInv

LEMMA ChangeContentKeeps ==
  ASSUME VectorAssumption, VectorInv, ChangeContent
  PROVE  VectorInv'
<1>1. /\ content' = content + 1 /\ content < MaxContent
      /\ dir' = dir /\ state' = state /\ prep' = prep /\ starts' = starts
  BY DEF ChangeContent
<1>2. VectorTypeOK /\ prep \in PrepState
  BY DEF VectorInv
<1>3. content \in Contents /\ content' \in Contents /\ content <= content'
  BY <1>1, <1>2 DEF VectorTypeOK, Contents, VectorAssumption
<1>4. VectorTypeOK' /\ prep' \in PrepState
  BY <1>1, <1>2, <1>3 DEF VectorTypeOK
<1>5. Honest(dir)' /\ Honest(state.loaded)' /\ Honest(prep.aside)'
  <2>1. \A index : Honest(index) => Honest(index)'
    BY <1>3, HonestyStays
  <2>2. Honest(dir) /\ Honest(state.loaded) /\ Honest(prep.aside)
    BY DEF VectorInv
  <2>3. QED
    BY <1>1, <2>1, <2>2
<1>6. WorkKnown'
  <2>1. WorkKnown
    BY DEF VectorInv
  <2>2. \A version : version <= content /\ version \in Contents => version <= content'
    BY <1>3 DEF Contents, VectorAssumption
  <2>3. \A low, version : ReadSince(low, version) => ReadSince(low, version)'
    BY <1>3, HonestyStays
  <2>4. VectorsSince(prep.work) => VectorsSince(prep.work)'
    BY <2>3, <1>1 DEF VectorsSince
  <2>5. MappedSince(prep.work) => MappedSince(prep.work)'
    BY <2>3, <1>1 DEF MappedSince
  <2>6. QED
    BY <1>1, <2>1, <2>2, <2>3, <2>4, <2>5 DEF WorkKnown, Honest, MappingFits
<1>7. VectorReady' => MappingFits(state.loaded)'
  BY <1>1 DEF VectorInv, VectorReady, MappingFits
<1>8. prep'.pc # "ended" => state'.loaded = NoDir /\ state'.generation = 0
  BY <1>1 DEF VectorInv
<1>9. QED
  BY <1>4, <1>5, <1>6, <1>7, <1>8 DEF VectorInv

LEMMA StartStopKeep ==
  ASSUME VectorAssumption, VectorInv, StartService \/ StopService
  PROVE  VectorInv'
<1>1. content' = content /\ dir' = dir
  BY DEF StartService, StopService
<1>2. VectorTypeOK /\ prep \in PrepState /\ Honest(dir)
  BY DEF VectorInv
<1>3. NoDir \in WorkDirs /\ NotYet \in Versions
  BY DEF VectorAssumption, NoDir, WorkDirs, NoMapping, NotYet, Versions
<1>4. /\ prep' \in PrepState /\ prep'.pc \in {"off", "identity"} /\ prep'.aside = NoDir
      /\ prep'.identity = NotYet
  BY <1>3 DEF StartService, StopService, PrepOff, PrepState, PrepSteps
<1>5. state' \in IndexState /\ state'.loaded = NoDir /\ state'.generation = 0
  <2>1. CASE StartService
    BY <2>1, <1>2 DEF StartService, VectorTypeOK, VectorInv
  <2>2. CASE StopService
    BY <2>2 DEF StopService, Cold, IndexState, Phases
  <2>3. QED
    BY <2>1, <2>2
<1>6. starts' \in 0 .. MaxStarts
  BY <1>2 DEF StartService, StopService, VectorTypeOK, VectorAssumption
<1>7. VectorTypeOK'
  BY <1>1, <1>2, <1>4, <1>5, <1>6 DEF VectorTypeOK, NotYet, PrepSteps
<1>8. Honest(dir)' /\ Honest(state.loaded)' /\ Honest(prep.aside)'
  <2>1. Honest(dir')
    BY <1>1, <1>2
  <2>2. QED
    BY <2>1, <1>1, <1>4, <1>5 DEF Honest, VectorsSince, MappedSince, ReadSince
<1>9. WorkKnown'
  BY <1>4 DEF WorkKnown
<1>10. ~VectorReady'
  BY <1>5 DEF VectorReady
<1>11. QED
  BY <1>4, <1>5, <1>7, <1>8, <1>9, <1>10 DEF VectorInv


LEMMA ReadIndexIdentityKeeps ==
  ASSUME VectorAssumption, VectorInv, ReadIndexIdentity
  PROVE  VectorInv'
<1>1. /\ prep.pc = "identity" /\ prep \in PrepState /\ VectorTypeOK /\ Honest(dir)
      /\ Honest(prep.aside)
      /\ content' = content /\ dir' = dir /\ state' = state /\ starts' = starts
  BY DEF ReadIndexIdentity, VectorInv
<1>2. CASE PrepEnds
  BY <1>1, <1>2, PrepGivesUp DEF Leave
<1>3. CASE prep' = [prep EXCEPT !.pc = "ensure", !.identity = content]
  <2>1. content \in Contents /\ content \in Versions /\ content <= content
    BY <1>1 DEF VectorTypeOK, Versions, Contents, VectorAssumption
  <2>2. prep' \in PrepState /\ prep'.pc = "ensure" /\ prep'.aside = prep.aside
          /\ prep'.identity = content
    BY <1>1, <1>3, <2>1 DEF PrepState, PrepSteps
  <2>3. WorkKnown'
    BY <1>1, <2>1, <2>2 DEF WorkKnown
  <2>4. QED
    BY <1>1, <2>2, <2>3, PrepGoesOn DEF VectorTypeOK
<1>4. QED
  BY <1>2, <1>3 DEF ReadIndexIdentity

LEMMA EnsureReadyKeeps ==
  ASSUME VectorAssumption, VectorInv, EnsureReady
  PROVE  VectorInv'
<1>1. /\ prep.pc = "ensure" /\ prep \in PrepState /\ VectorTypeOK /\ Honest(dir)
      /\ Honest(prep.aside) /\ WorkKnown
      /\ content' = content /\ dir' = dir /\ starts' = starts
  BY DEF EnsureReady, VectorInv
<1>2. CASE Leave
  BY <1>1, <1>2, PrepGivesUp
<1>3. CASE GoTo("metadata") /\ Phase("loading")
  <2>1. /\ prep' \in PrepState /\ prep'.pc = "metadata" /\ prep'.aside = prep.aside
        /\ prep'.identity = prep.identity
    BY <1>1, <1>3, GoToIs DEF PrepSteps
  <2>2. /\ state' \in IndexState
        /\ state'.loaded = state.loaded /\ state'.generation = state.generation
    BY <1>1, <1>3, PhaseIs DEF Phases, VectorTypeOK
  <2>3. WorkKnown'
    BY <1>1, <2>1 DEF WorkKnown
  <2>4. QED
    BY <1>1, <2>1, <2>2, <2>3, PrepGoesOn DEF VectorTypeOK
<1>4. QED
  BY <1>2, <1>3 DEF EnsureReady

LEMMA ReadMetadataKeeps ==
  ASSUME VectorAssumption, VectorInv, ReadMetadata
  PROVE  VectorInv'
<1>1. /\ prep.pc = "metadata" /\ prep \in PrepState /\ VectorTypeOK /\ Honest(dir)
      /\ Honest(prep.aside) /\ WorkKnown
      /\ content' = content /\ dir' = dir /\ state' = state /\ starts' = starts
  BY DEF ReadMetadata, VectorInv
<1>2. PICK path \in {"load", "build"}, work \in {prep.work, dir}, step \in {"groups", "scan"} :
        /\ prep' = [prep EXCEPT !.path = path, !.work = work, !.pc = step]
        /\ step = "groups" => dir # NoDir /\ work = dir
  <2>1. prep' = [prep EXCEPT !.path = "build", !.pc = "scan"] =>
          prep' = [prep EXCEPT !.path = "build", !.work = prep.work, !.pc = "scan"]
    BY <1>1 DEF PrepState
  <2>2. QED
    BY <2>1 DEF ReadMetadata, MetadataMatches
<1>3. work \in WorkDirs
  BY <1>1, <1>2, DirsAreWork DEF VectorTypeOK, PrepState
<1>4. /\ prep' \in PrepState /\ prep'.pc = step /\ prep'.aside = prep.aside
      /\ prep'.identity = prep.identity /\ prep'.work = work
  BY <1>1, <1>2, <1>3 DEF PrepState, PrepSteps
<1>5. WorkKnown'
  <2>1. step = "groups" => Honest(work) /\ VectorsSince(work)
    BY <1>1, <1>2 DEF Honest
  <2>2. step = "groups" => (VectorsSince(prep.work) /\ Honest(prep.work))'
    BY <1>1, <1>4, <2>1 DEF Honest, VectorsSince, MappedSince, ReadSince
  <2>3. QED
    BY <1>1, <1>2, <1>4, <2>2 DEF WorkKnown
<1>6. QED
  BY <1>1, <1>4, <1>5, PrepGoesOn DEF VectorTypeOK

LEMMA ScanVectorsKeeps ==
  ASSUME VectorAssumption, VectorInv, ScanVectors
  PROVE  VectorInv'
<1>1. /\ prep.pc = "scan" /\ prep \in PrepState /\ VectorTypeOK /\ Honest(dir)
      /\ Honest(prep.aside) /\ WorkKnown
      /\ content' = content /\ dir' = dir /\ starts' = starts
  BY DEF ScanVectors, VectorInv
<1>2. CASE Fail
  BY <1>1, <1>2, PrepGivesUp
<1>3. CASE prep' = [prep EXCEPT !.pc = "index", !.work.vectors = content] /\ Phase("building")
  <2>1. content \in Contents /\ content \in Versions /\ content <= content
    BY <1>1 DEF VectorTypeOK, Versions, Contents, VectorAssumption
  <2>2. [prep.work EXCEPT !.vectors = content] \in WorkDirs
    BY <1>1, <2>1 DEF PrepState, WorkDirs
  <2>3. /\ prep' \in PrepState /\ prep'.pc = "index" /\ prep'.aside = prep.aside
        /\ prep'.identity = prep.identity
        /\ prep'.work = [prep.work EXCEPT !.vectors = content]
    BY <1>1, <1>3, <2>2 DEF PrepState, PrepSteps
  <2>4. prep'.work.vectors = content
    BY <1>1, <2>3 DEF PrepState, WorkDirs
  <2>5. WorkKnown'
    BY <1>1, <2>1, <2>3, <2>4 DEF WorkKnown, ReadSince
  <2>6. /\ state' \in IndexState
        /\ state'.loaded = state.loaded /\ state'.generation = state.generation
    BY <1>1, <1>3, PhaseIs DEF Phases, VectorTypeOK
  <2>7. QED
    BY <1>1, <2>3, <2>5, <2>6, PrepGoesOn DEF VectorTypeOK
<1>4. QED
  BY <1>2, <1>3 DEF ScanVectors

LEMMA BuildGraphKeeps ==
  ASSUME VectorAssumption, VectorInv, BuildGraph
  PROVE  VectorInv'
<1>1. /\ prep.pc = "index" /\ prep \in PrepState /\ VectorTypeOK /\ Honest(dir)
      /\ Honest(prep.aside) /\ WorkKnown
      /\ content' = content /\ dir' = dir /\ starts' = starts
  BY DEF BuildGraph, VectorInv
<1>2. CASE Fail
  BY <1>1, <1>2, PrepGivesUp
<1>3. CASE prep' = [prep EXCEPT !.pc = "publish", !.work = Built] /\ Phase("indexing")
  <2>1. Built \in WorkDirs
    <3>1. NoMapping \in [groups : Versions, rowids : Versions]
      BY DEF VectorAssumption, NoMapping, NotYet, Versions
    <3>2. QED
      BY <1>1, <3>1 DEF Built, WorkDirs, PrepState
  <2>2. /\ prep' \in PrepState /\ prep'.pc = "publish" /\ prep'.aside = prep.aside
        /\ prep'.identity = prep.identity /\ prep'.work = Built
    BY <1>1, <1>3, <2>1 DEF PrepState, PrepSteps
  <2>3. /\ Built.identity = prep.identity /\ Built.vectors = prep.work.vectors
        /\ Built.mapping = NoMapping
    BY DEF Built
  <2>4. WorkKnown'
    BY <1>1, <2>2, <2>3 DEF WorkKnown, ReadSince, VectorsSince
  <2>5. /\ state' \in IndexState
        /\ state'.loaded = state.loaded /\ state'.generation = state.generation
    BY <1>1, <1>3, PhaseIs DEF Phases, VectorTypeOK
  <2>6. QED
    BY <1>1, <2>2, <2>4, <2>5, PrepGoesOn DEF VectorTypeOK
<1>4. QED
  BY <1>2, <1>3 DEF BuildGraph

LEMMA SetAsideKeeps ==
  ASSUME VectorAssumption, VectorInv, SetAside
  PROVE  VectorInv'
<1>1. /\ prep.pc = "publish" /\ prep \in PrepState /\ VectorTypeOK /\ Honest(dir)
      /\ WorkKnown
      /\ prep' = [prep EXCEPT !.pc = "rename", !.aside = dir]
      /\ content' = content /\ dir' = NoDir /\ starts' = starts /\ state' = state
  BY DEF SetAside, VectorInv
<1>2. /\ prep' \in PrepState /\ prep'.pc = "rename" /\ prep'.aside = dir
      /\ prep'.identity = prep.identity /\ prep'.work = prep.work
  BY <1>1 DEF PrepState, PrepSteps, VectorTypeOK
<1>3. WorkKnown'
  BY <1>1, <1>2 DEF WorkKnown, VectorsSince, ReadSince
<1>4. Honest(NoDir)
  BY DEF Honest
<1>5. QED
  BY <1>1, <1>2, <1>3, <1>4, PrepGoesOn DEF VectorTypeOK


LEMMA PublishIndexKeeps ==
  ASSUME VectorAssumption, VectorInv, PublishIndex
  PROVE  VectorInv'
<1>1. /\ prep.pc = "rename" /\ prep \in PrepState /\ VectorTypeOK /\ Honest(dir)
      /\ WorkKnown /\ content' = content /\ starts' = starts
  BY DEF PublishIndex, VectorInv
<1>2. CASE Fail /\ dir' \in {NoDir, prep.aside}
  BY <1>1, <1>2, PrepGivesUp
<1>3. CASE /\ dir' = Renamed /\ state' = state
           /\ prep' = [prep EXCEPT !.pc = "groups", !.work = Renamed, !.aside = NoDir]
  <2>1. Renamed = prep.work /\ VectorsSince(prep.work) /\ prep.work.mapping = NoMapping
    BY <1>1 DEF WorkKnown, Renamed
  <2>2. prep.work \in IndexDirs
    BY <1>1, <2>1, WorkIsIndex DEF VectorTypeOK, PrepState
  <2>3. /\ prep' \in PrepState /\ prep'.pc = "groups" /\ prep'.aside = NoDir
        /\ prep'.identity = prep.identity /\ prep'.work = prep.work
    BY <1>1, <1>3, <2>1 DEF PrepState, PrepSteps
  <2>4. Honest(prep.work)
    BY <2>1 DEF Honest
  <2>5. (VectorsSince(prep.work) /\ Honest(prep.work))'
    BY <1>1, <2>1, <2>3, <2>4 DEF Honest, VectorsSince, MappedSince, ReadSince
  <2>6. WorkKnown'
    BY <1>1, <2>3, <2>5 DEF WorkKnown
  <2>7. Honest(NoDir)
    BY DEF Honest
  <2>8. QED
    BY <1>1, <1>3, <2>1, <2>2, <2>3, <2>4, <2>6, <2>7, PrepGoesOn DEF VectorTypeOK
<1>4. QED
  BY <1>2, <1>3 DEF PublishIndex

LEMMA ReadGroupsKeeps ==
  ASSUME VectorAssumption, VectorInv, ReadGroups
  PROVE  VectorInv'
<1>1. /\ prep.pc = "groups" /\ prep \in PrepState /\ VectorTypeOK /\ Honest(dir)
      /\ Honest(prep.aside) /\ WorkKnown
      /\ content' = content /\ dir' = dir /\ starts' = starts
  BY DEF ReadGroups, VectorInv
<1>2. CASE MappingError
  BY <1>1, <1>2, PrepGivesUp DEF MappingError
<1>3. CASE MappingPresent /\ GoTo("load") /\ state' = state
  <2>1. /\ prep' \in PrepState /\ prep'.pc = "load" /\ prep'.aside = prep.aside
        /\ prep'.identity = prep.identity /\ prep'.work = prep.work
    BY <1>1, <1>3, GoToIs DEF PrepSteps
  <2>2. MappedSince(prep.work) /\ MappingFits(prep.work) /\ VectorsSince(prep.work)
    BY <1>1, <1>3 DEF WorkKnown, MappingPresent, MappingFits, Honest, NoDir
  <2>3. (MappedSince(prep.work) /\ MappingFits(prep.work) /\ VectorsSince(prep.work))'
    BY <1>1, <2>1, <2>2 DEF VectorsSince, MappedSince, ReadSince, MappingFits
  <2>4. WorkKnown'
    BY <1>1, <2>1, <2>3 DEF WorkKnown
  <2>5. QED
    BY <1>1, <1>3, <2>1, <2>4, PrepGoesOn DEF VectorTypeOK
<1>4. CASE /\ Phase("mapping")
           /\ prep' = [prep EXCEPT !.pc = "count", !.work.mapping.groups = content]
  <2> DEFINE mapped == [prep.work.mapping EXCEPT !.groups = content]
             work == [prep.work EXCEPT !.mapping = mapped]
  <2>1. content \in Contents /\ content \in Versions /\ content <= content
    BY <1>1 DEF VectorTypeOK, Versions, Contents, VectorAssumption
  <2>2. prep.work.mapping \in [groups : Versions, rowids : Versions] /\ prep.work \in WorkDirs
    BY <1>1 DEF PrepState, WorkDirs
  <2>3. mapped \in [groups : Versions, rowids : Versions] /\ mapped.groups = content
    BY <2>1, <2>2
  <2>4. /\ work \in WorkDirs /\ work.identity = prep.work.identity
        /\ work.vectors = prep.work.vectors /\ work.mapping = mapped
    BY <2>2, <2>3 DEF WorkDirs
  <2>5. prep' = [prep EXCEPT !.pc = "count", !.work = work]
    BY <1>1, <1>4
  <2>6. /\ prep' \in PrepState /\ prep'.pc = "count" /\ prep'.aside = prep.aside
        /\ prep'.identity = prep.identity /\ prep'.work = work
    BY <1>1, <2>4, <2>5 DEF PrepState, PrepSteps
  <2>7. VectorsSince(prep.work) /\ prep.work.identity <= content
    BY <1>1, <2>1 DEF WorkKnown, VectorsSince, ReadSince, Contents, VectorAssumption
  <2> HIDE DEF mapped, work
  <2>8. (VectorsSince(prep.work) /\ ReadSince(prep.work.identity, prep.work.mapping.groups))'
    BY <1>1, <2>1, <2>3, <2>4, <2>6, <2>7 DEF VectorsSince, ReadSince
  <2>9. WorkKnown'
    BY <1>1, <2>6, <2>8 DEF WorkKnown
  <2>10. /\ state' \in IndexState
         /\ state'.loaded = state.loaded /\ state'.generation = state.generation
    BY <1>1, <1>4, PhaseIs DEF Phases, VectorTypeOK
  <2>11. QED
    BY <1>1, <2>6, <2>9, <2>10, PrepGoesOn DEF VectorTypeOK
<1>5. QED
  BY <1>2, <1>3, <1>4 DEF ReadGroups

LEMMA CheckCountKeeps ==
  ASSUME VectorAssumption, VectorInv, CheckCount
  PROVE  VectorInv'
<1>1. /\ prep.pc = "count" /\ prep \in PrepState /\ VectorTypeOK /\ Honest(dir)
      /\ Honest(prep.aside) /\ WorkKnown
      /\ content' = content /\ dir' = dir /\ starts' = starts
  BY DEF CheckCount, VectorInv
<1>2. CASE MappingError
  BY <1>1, <1>2, PrepGivesUp DEF MappingError
<1>3. CASE GoTo("rowids") /\ state' = state
  <2>1. /\ prep' \in PrepState /\ prep'.pc = "rowids" /\ prep'.aside = prep.aside
        /\ prep'.identity = prep.identity /\ prep'.work = prep.work
    BY <1>1, <1>3, GoToIs DEF PrepSteps
  <2>2. WorkKnown'
    BY <1>1, <2>1 DEF WorkKnown, VectorsSince, ReadSince
  <2>3. QED
    BY <1>1, <1>3, <2>1, <2>2, PrepGoesOn DEF VectorTypeOK
<1>4. QED
  BY <1>2, <1>3 DEF CheckCount

LEMMA ReadRowidsKeeps ==
  ASSUME VectorAssumption, VectorInv, ReadRowids
  PROVE  VectorInv'
<1>1. /\ prep.pc = "rowids" /\ prep \in PrepState /\ VectorTypeOK /\ Honest(dir)
      /\ Honest(prep.aside) /\ WorkKnown
      /\ content' = content /\ dir' = dir /\ starts' = starts
  BY DEF ReadRowids, VectorInv
<1>2. CASE MappingError
  BY <1>1, <1>2, PrepGivesUp DEF MappingError
<1>3. CASE /\ CountUnchanged /\ state' = state
           /\ prep' = [prep EXCEPT !.pc = "write", !.work.mapping.rowids = content]
  <2> DEFINE mapped == [prep.work.mapping EXCEPT !.rowids = content]
             work == [prep.work EXCEPT !.mapping = mapped]
  <2>1. content \in Contents /\ content \in Versions /\ content <= content
    BY <1>1 DEF VectorTypeOK, Versions, Contents, VectorAssumption
  <2>2. prep.work.mapping \in [groups : Versions, rowids : Versions] /\ prep.work \in WorkDirs
    BY <1>1 DEF PrepState, WorkDirs
  <2>3. /\ mapped \in [groups : Versions, rowids : Versions]
        /\ mapped.rowids = content /\ mapped.groups = prep.work.mapping.groups
    BY <2>1, <2>2
  <2>4. /\ work \in WorkDirs /\ work.identity = prep.work.identity
        /\ work.vectors = prep.work.vectors /\ work.mapping = mapped
    BY <2>2, <2>3 DEF WorkDirs
  <2>5. prep' = [prep EXCEPT !.pc = "write", !.work = work]
    BY <1>1, <1>3
  <2>6. /\ prep' \in PrepState /\ prep'.pc = "write" /\ prep'.aside = prep.aside
        /\ prep'.identity = prep.identity /\ prep'.work = work
    BY <1>1, <2>4, <2>5 DEF PrepState, PrepSteps
  <2>7. /\ VectorsSince(prep.work) /\ prep.work.identity <= content
        /\ ReadSince(prep.work.identity, prep.work.mapping.groups)
    <3>1. /\ VectorsSince(prep.work)
          /\ ReadSince(prep.work.identity, prep.work.mapping.groups)
      BY <1>1 DEF WorkKnown
    <3>2. prep.work.identity <= content
      BY <2>1, <3>1 DEF VectorsSince, ReadSince, Contents, VectorAssumption
    <3>3. QED
      BY <3>1, <3>2
  <2>8. mapped # NoMapping
    BY <2>1, <2>3 DEF NoMapping, NotYet, Contents
  <2> HIDE DEF mapped, work
  <2>9. (VectorsSince(prep.work) /\ MappedSince(prep.work))'
    BY <1>1, <2>1, <2>3, <2>4, <2>6, <2>7 DEF VectorsSince, MappedSince, ReadSince
  <2>10. MappingFits(prep.work)'
    BY <1>3, <2>3, <2>4, <2>6, <2>8 DEF MappingFits, CountUnchanged
  <2>11. WorkKnown'
    BY <1>1, <2>6, <2>9, <2>10 DEF WorkKnown
  <2>12. QED
    BY <1>1, <1>3, <2>6, <2>11, PrepGoesOn DEF VectorTypeOK
<1>4. QED
  BY <1>2, <1>3 DEF ReadRowids

LEMMA WriteMappingKeeps ==
  ASSUME VectorAssumption, VectorInv, WriteMapping
  PROVE  VectorInv'
<1>1. /\ prep.pc = "write" /\ prep \in PrepState /\ VectorTypeOK /\ Honest(dir)
      /\ Honest(prep.aside) /\ WorkKnown
      /\ content' = content /\ starts' = starts
  BY DEF WriteMapping, VectorInv
<1>2. CASE MappingError /\ dir' = dir
  BY <1>1, <1>2, PrepGivesUp DEF MappingError
<1>3. CASE dir' = prep.work /\ GoTo("load") /\ state' = state
  <2>1. /\ prep' \in PrepState /\ prep'.pc = "load" /\ prep'.aside = prep.aside
        /\ prep'.identity = prep.identity /\ prep'.work = prep.work
    BY <1>1, <1>3, GoToIs DEF PrepSteps
  <2>2. VectorsSince(prep.work) /\ MappedSince(prep.work) /\ MappingFits(prep.work)
    BY <1>1 DEF WorkKnown
  <2>3. (VectorsSince(prep.work) /\ MappedSince(prep.work) /\ MappingFits(prep.work))'
    BY <1>1, <2>1, <2>2 DEF VectorsSince, MappedSince, ReadSince, MappingFits
  <2>4. WorkKnown'
    BY <1>1, <2>1, <2>3 DEF WorkKnown
  <2>5. prep.work \in IndexDirs /\ Honest(prep.work)
    BY <1>1, <2>2, WorkIsIndex DEF VectorTypeOK, PrepState, Honest
  <2>6. QED
    BY <1>1, <1>3, <2>1, <2>4, <2>5, PrepGoesOn DEF VectorTypeOK
<1>4. QED
  BY <1>2, <1>3 DEF WriteMapping

LEMMA LoadIndexKeeps ==
  ASSUME VectorAssumption, VectorInv, LoadIndex
  PROVE  VectorInv'
<1>1. /\ prep.pc = "load" /\ prep \in PrepState /\ VectorTypeOK /\ Honest(dir)
      /\ Honest(prep.aside) /\ WorkKnown /\ state.generation = 0
      /\ content' = content /\ dir' = dir /\ starts' = starts
  BY DEF LoadIndex, VectorInv
<1>2. CASE Fail
  BY <1>1, <1>2, PrepGivesUp
<1>3. CASE /\ PrepEnds
           /\ state' = [phase |-> "ready", loaded |-> prep.work,
                        generation |-> state.generation + 1]
  <2>1. /\ prep' \in PrepState /\ prep'.pc = "ended" /\ prep'.aside = NoDir
        /\ prep'.identity = NotYet
    BY <1>1, <1>3, PrepEndsIs
  <2>2. VectorsSince(prep.work) /\ MappedSince(prep.work) /\ MappingFits(prep.work)
    BY <1>1 DEF WorkKnown
  <2>3. prep.work \in IndexDirs /\ Honest(prep.work)
    BY <1>1, <2>2, WorkIsIndex DEF VectorTypeOK, PrepState, Honest
  <2>4. state' \in IndexState /\ state'.loaded = prep.work
    BY <1>1, <1>3, <2>3 DEF IndexState, Phases
  <2>5. VectorTypeOK'
    BY <1>1, <2>1, <2>4 DEF VectorTypeOK, PrepSteps
  <2>6. Honest(NoDir)
    BY DEF Honest
  <2>7. Honest(dir)' /\ Honest(state.loaded)' /\ Honest(prep.aside)'
    BY <1>1, <2>1, <2>3, <2>4, <2>6 DEF Honest, VectorsSince, MappedSince, ReadSince
  <2>8. WorkKnown'
    BY <2>1 DEF WorkKnown
  <2>9. MappingFits(state.loaded)'
    BY <2>2, <2>4 DEF MappingFits
  <2>10. QED
    BY <2>1, <2>5, <2>7, <2>8, <2>9 DEF VectorInv
<1>4. QED
  BY <1>2, <1>3 DEF LoadIndex

LEMMA PrepKeeps ==
  ASSUME VectorAssumption, VectorInv, PrepStep
  PROVE  VectorInv'
BY ReadIndexIdentityKeeps, EnsureReadyKeeps, ReadMetadataKeeps, ScanVectorsKeeps,
   BuildGraphKeeps, SetAsideKeeps, PublishIndexKeeps, ReadGroupsKeeps, CheckCountKeeps,
   ReadRowidsKeeps, WriteMappingKeeps, LoadIndexKeeps DEF PrepStep

LEMMA ServesContent ==
  ASSUME VectorAssumption, VectorInv
  PROVE  IndexServesContent
<1>1. content \in Contents /\ Honest(dir) /\ Honest(state.loaded) /\ VectorTypeOK
        /\ dir \in IndexDirs \cup {NoDir} /\ state.loaded \in IndexDirs \cup {NoDir}
  BY DEF VectorInv, VectorTypeOK, IndexState
<1>2. ASSUME NEW index \in IndexDirs \cup {NoDir}, Honest(index), index.identity = content
      PROVE  /\ index.vectors = content
             /\ index.mapping \in {NoMapping, [groups |-> content, rowids |-> content]}
  <2>1. index # NoDir
    BY <1>1, <1>2 DEF NoDir, NotYet, Contents
  <2>2. index \in IndexDirs /\ VectorsSince(index)
    BY <1>2, <2>1 DEF Honest
  <2>3. index.vectors = content
    BY <1>1, <1>2, <2>2 DEF VectorsSince, ReadSince, Contents, VectorAssumption
  <2>4. CASE index.mapping # NoMapping
    <3>1. MappedSince(index) /\ index.mapping \in Mappings
      BY <1>2, <2>1, <2>2, <2>4 DEF Honest, IndexDirs
    <3>2. index.mapping.groups = content /\ index.mapping.rowids = content
      BY <1>1, <1>2, <3>1 DEF MappedSince, ReadSince, Contents, VectorAssumption
    <3>3. index.mapping = [groups |-> content, rowids |-> content]
      BY <3>1, <3>2 DEF Mappings
    <3>4. QED
      BY <2>3, <3>3
  <2>5. QED
    BY <2>3, <2>4
<1>3. IndexExactWhenCurrent
  BY <1>1, <1>2 DEF IndexExactWhenCurrent
<1>4. LoadedMappingFits
  BY DEF VectorInv, LoadedMappingFits, MappingFits
<1>5. QED
  BY <1>3, <1>4 DEF IndexServesContent


----------------------------------------------------------------------------
(***************************************************************************)
(* The cache of tasks.                                                     *)
(***************************************************************************)

\* A finite nonempty set of numbered things has one with the least number.
LEMMA LeastNumbered ==
  ASSUME NEW S, S # {}, NEW num, \A x \in S : num[x] \in Nat
  PROVE  \E least \in S : \A x \in S : num[least] <= num[x]
<1> DEFINE Nums == {num[x] : x \in S}
<1>1. Nums # {} /\ Nums \subseteq Nat
  OBVIOUS
<1>2. \E n \in Nums : \A m \in Nums : <<m, n>> \notin OpToRel(<, Nat)
  BY <1>1, NatLessThanWellFounded, WFMin
<1>3. PICK n \in Nums : \A m \in Nums : ~(m < n)
  BY <1>1, <1>2 DEF OpToRel
<1>4. PICK least \in S : num[least] = n
  OBVIOUS
<1>5. \A x \in S : num[least] <= num[x]
  BY <1>3, <1>4
<1>6. QED
  BY <1>5

\* Trimming leaves a cache within its limit, and what it keeps untouched.
LEMMA TrimmedIs ==
  ASSUME NEW cache
  PROVE  /\ DOMAIN Trimmed(cache) \subseteq DOMAIN cache
         /\ \A k \in DOMAIN Trimmed(cache) : Trimmed(cache)[k] = cache[k]
BY DEF Trimmed

LEMMA TrimmedBounded ==
  ASSUME RankingAssumption, NEW cache, IsFiniteSet(DOMAIN cache),
         \A k \in DOMAIN cache : cache[k].sequence \in Nat,
         Cardinality(DOMAIN cache) <= CacheLimit + 1,
         NEW kept, \A k \in DOMAIN cache : k # kept => cache[k].state \notin Live
  PROVE  IsFiniteSet(DOMAIN Trimmed(cache)) /\ Cardinality(DOMAIN Trimmed(cache)) <= CacheLimit
<1> DEFINE excess == Cardinality(DOMAIN cache) - CacheLimit
           older(k) == {o \in Removable(cache) : cache[o].sequence < cache[k].sequence}
           gone == {k \in Removable(cache) : Cardinality(older(k)) < excess}
           left == DOMAIN cache \ gone
<1>1. DOMAIN Trimmed(cache) = left
  BY DEF Trimmed
<1>2. IsFiniteSet(left) /\ Cardinality(left) <= Cardinality(DOMAIN cache)
        /\ Cardinality(DOMAIN cache) \in Nat /\ Cardinality(left) \in Nat
  BY FS_Subset, FS_CardinalityType
<1>3. CacheLimit \in Nat \ {0}
  BY DEF RankingAssumption
<1>4. CASE Cardinality(DOMAIN cache) <= CacheLimit
  BY <1>1, <1>2, <1>3, <1>4
<1>5. CASE Cardinality(DOMAIN cache) = CacheLimit + 1
  <2>1. Removable(cache) # {}
    <3>1. SUFFICES ASSUME Removable(cache) = {} PROVE FALSE
      OBVIOUS
    <3>2. \A k \in DOMAIN cache : k = kept
      BY <3>1 DEF Removable
    <3>3. DOMAIN cache \subseteq {kept} /\ IsFiniteSet({kept}) /\ Cardinality({kept}) = 1
      BY <3>2, FS_Singleton
    <3>4. Cardinality(DOMAIN cache) <= 1
      BY <3>3, FS_Subset
    <3>5. QED
      BY <3>4, <1>3, <1>5
  <2> DEFINE num == [k \in Removable(cache) |-> cache[k].sequence]
  <2>2. \A k \in Removable(cache) : num[k] \in Nat /\ num[k] = cache[k].sequence
    BY DEF Removable
  <2> HIDE DEF num
  <2>3. PICK least \in Removable(cache) : \A k \in Removable(cache) : num[least] <= num[k]
    BY <2>1, <2>2, LeastNumbered
  <2>4. older(least) = {}
    BY <2>2, <2>3
  <2>5. Cardinality(older(least)) = 0
    BY <2>4, FS_EmptySet
  <2>6. excess = 1
    BY <1>3, <1>5
  <2>7. least \in gone
    BY <2>5, <2>6
  <2>8. least \in DOMAIN cache /\ left \subseteq DOMAIN cache \ {least}
    BY <2>7 DEF Removable
  <2> HIDE DEF left
  <2>9. Cardinality(DOMAIN cache \ {least}) = Cardinality(DOMAIN cache) - 1
          /\ IsFiniteSet(DOMAIN cache \ {least})
    BY <2>8, FS_RemoveElement
  <2>10. Cardinality(left) <= Cardinality(DOMAIN cache \ {least})
    BY <2>8, <2>9, FS_Subset
  <2>11. QED
    BY <1>1, <1>2, <1>3, <1>5, <2>9, <2>10
<1>6. QED
  BY <1>2, <1>3, <1>4, <1>5

\* What the parts of Start do to a task.
LEMMA CancelledIs ==
  ASSUME NEW stopped, stopped \subseteq DOMAIN tasks
  PROVE  /\ DOMAIN Cancelled(stopped) = DOMAIN tasks
         /\ \A k \in DOMAIN tasks \ stopped : Cancelled(stopped)[k] = tasks[k]
         /\ \A k \in stopped : Cancelled(stopped)[k] = [tasks[k] EXCEPT !.state = "cancelled"]
BY DEF Cancelled

\* Readers never lose the index while the service runs.
LEMMA ReadyStays ==
  ASSUME VectorAssumption, VectorInv, VectorReady, ChangeContent \/ StartService \/ PrepStep
  PROVE  VectorReady'
<1>1. prep.pc = "ended"
  BY DEF VectorInv, VectorReady
<1>2. ~PrepStep /\ ~StartService
  BY <1>1 DEF PrepStep, StartService, ReadIndexIdentity, EnsureReady, ReadMetadata, ScanVectors,
     BuildGraph, SetAside, PublishIndex, ReadGroups, CheckCount, ReadRowids, WriteMapping,
     LoadIndex
<1>3. QED
  BY <1>2 DEF ChangeContent, VectorReady

LEMMA KeysAreNotNone ==
  ASSUME VectorAssumption
  PROVE  NoKey \notin Keys /\ \A k \in Keys : k.version \in Contents /\ k.version \in Nat
BY DEF NoKey, Keys, NotYet, Contents, VectorAssumption

LEMMA DoneRunIs ==
  DoneRun \in RankingRun /\ DoneRun.pc = "done" /\ NoRun \in RankingRun /\ NoRun.pc = "none"
BY DEF DoneRun, NoRun, RankingRun, RunSteps

(***************************************************************************)
(* One run moves on, and with it its task if it still has one.             *)
(***************************************************************************)
LEMMA RunMoves ==
  ASSUME VectorAssumption, RankingAssumption, RankingInv,
         UNCHANGED <<rest, sequence, requests>>,
         NEW r \in Runs, Active(r), NEW new \in RankingRun,
         runs' = [runs EXCEPT ![r] = new],
         NEW task \in RankingTask,
         tasks' = tasks \/ (Mine(r) /\ tasks' = [tasks EXCEPT ![runs[r].of] = task]),
         task.sequence = r,
         task.state \in Live => Mine(r) /\ tasks[runs[r].of].state \in Live,
         task.state = "complete" =>
           VectorReady /\ task.result.by = r /\ task.result.version >= runs[r].of.version,
         new.pc \notin {"none", "done"} =>
           /\ new.of = runs[r].of /\ new.flag = runs[r].flag
           /\ tasks' # tasks => task.state \in Live \/ runs[r].flag,
         new.pc \in {"open", "settle"} => VectorReady,
         new.pc = "settle" /\ new.outcome = "done" =>
           new.version \in Contents /\ new.version >= runs[r].of.version
  PROVE  RankingInv'
<1> DEFINE key == runs[r].of
<1>1. /\ VectorInv /\ RankingTypeOK /\ StartedInOrder /\ OneLive /\ CacheBounded
      /\ FlagTellsCancelled /\ RunKnows /\ ResultOfItsTask
      /\ \A b \in Browsers : requests[b] # NoKey =>
           requests[b] \in Keys /\ requests[b].version <= content
  BY DEF RankingInv
<1>2. /\ content' = content /\ dir' = dir /\ state' = state /\ prep' = prep
      /\ starts' = starts /\ requests' = requests /\ sequence' = sequence
  BY DEF rest, vectorVars
<1>3. VectorInv'
  BY <1>1, <1>2 DEF VectorInv, VectorTypeOK, Honest, VectorsSince, MappedSince, ReadSince,
     WorkKnown, VectorReady, MappingFits
<1>4. VectorReady' = VectorReady
  BY <1>2 DEF VectorReady
<1>5. /\ DOMAIN tasks' = DOMAIN tasks
      /\ \A k \in DOMAIN tasks :
           tasks'[k] = tasks[k] \/ (k = key /\ Mine(r) /\ tasks'[k] = task)
      /\ tasks' = tasks => \A k \in DOMAIN tasks : tasks'[k] = tasks[k]
  <2>1. CASE tasks' = tasks
    BY <2>1
  <2>2. CASE Mine(r) /\ tasks' = [tasks EXCEPT ![key] = task]
    <3>1. key \in DOMAIN tasks /\ tasks' = [tasks EXCEPT ![key] = task]
      BY <2>2 DEF Mine
    <3>2. \A k \in DOMAIN tasks : tasks'[k] = IF k = key THEN task ELSE tasks[k]
      BY <3>1
    <3>3. DOMAIN tasks' = DOMAIN tasks
      BY <3>1
    <3>4. QED
      BY <2>2, <3>2, <3>3
  <2>3. QED
    BY <2>1, <2>2
<1>6. /\ runs \in [Runs -> RankingRun]
      /\ \A x \in Runs : runs'[x] = IF x = r THEN new ELSE runs[x]
  BY <1>1 DEF RankingTypeOK
<1>7. RankingTypeOK'
  <2>1. runs' \in [Runs -> RankingRun]
    BY <1>6
  <2>2. DOMAIN tasks' \subseteq Keys /\ \A k \in DOMAIN tasks' : tasks'[k] \in RankingTask
    BY <1>1, <1>5 DEF RankingTypeOK
  <2>3. VectorTypeOK'
    BY <1>3 DEF VectorInv
  <2>4. requests' \in [Browsers -> Request]
    BY <1>1, <1>2 DEF RankingTypeOK
  <2>5. QED
    BY <2>1, <2>2, <2>3, <2>4 DEF RankingTypeOK
<1>8. StartedInOrder'
  <2>1. sequence' \in 0 .. MaxRuns
    BY <1>1, <1>2 DEF StartedInOrder
  <2>2. \A x \in Runs : Active(x)' => x <= sequence'
    BY <1>1, <1>2, <1>6 DEF StartedInOrder, Active
  <2>3. \A k \in DOMAIN tasks' : tasks'[k].sequence = tasks[k].sequence
    BY <1>5 DEF Mine
  <2>4. QED
    BY <1>1, <1>2, <1>5, <2>1, <2>2, <2>3 DEF StartedInOrder
<1>9. OneLive'
  <2>1. \A k \in DOMAIN tasks : tasks'[k].state \in Live => tasks[k].state \in Live
    BY <1>5
  <2>2. QED
    BY <1>1, <1>5, <2>1 DEF OneLive
<1>10. CacheBounded'
  BY <1>1, <1>5 DEF CacheBounded
<1>11. FlagTellsCancelled'
  <2> SUFFICES ASSUME NEW x \in Runs, Active(x)', Mine(x)'
               PROVE  tasks'[runs'[x].of].state \in Live \/ runs'[x].flag
    BY DEF FlagTellsCancelled
  <2>1. CASE x = r
    <3>1. new.pc \notin {"none", "done"} /\ runs'[x].of = key /\ runs'[x].flag = runs[r].flag
      BY <1>6, <2>1 DEF Active
    <3>2. Mine(r)
      BY <1>5, <2>1, <3>1 DEF Mine
    <3>3. CASE tasks' = tasks
      BY <1>1, <2>1, <3>1, <3>2, <3>3 DEF FlagTellsCancelled
    <3>4. CASE tasks' # tasks
      <4>1. tasks' = [tasks EXCEPT ![key] = task] /\ key \in DOMAIN tasks
        BY <3>4 DEF Mine
      <4>2. tasks'[key] = task
        BY <4>1
      <4>3. QED
        BY <3>1, <3>4, <4>2
    <3>5. QED
      BY <3>3, <3>4
  <2>2. CASE x # r
    <3>1. runs'[x] = runs[x] /\ Active(x)
      BY <1>6, <2>2 DEF Active
    <3>2. runs[x].of \in DOMAIN tasks /\ tasks'[runs[x].of].sequence = x
      BY <1>5, <3>1 DEF Mine
    <3>3. tasks'[runs[x].of] = tasks[runs[x].of]
      BY <1>5, <2>2, <3>2
    <3>4. Mine(x)
      BY <3>2, <3>3 DEF Mine
    <3>5. QED
      BY <1>1, <3>1, <3>3, <3>4 DEF FlagTellsCancelled
  <2>3. QED
    BY <2>1, <2>2
<1>12. RunKnows'
  <2> SUFFICES ASSUME NEW x \in Runs
               PROVE  /\ Active(x)' => runs'[x].of \in Keys /\ runs'[x].of.version <= content'
                      /\ runs'[x].pc \in {"open", "settle"} => VectorReady'
                      /\ runs'[x].pc = "settle" /\ runs'[x].outcome = "done" =>
                           /\ runs'[x].version \in Contents
                           /\ runs'[x].version >= runs'[x].of.version
    BY DEF RunKnows
  <2>1. CASE x = r
    <3>1. runs'[x] = new
      BY <1>6, <2>1
    <3>2. key \in Keys /\ key.version <= content
      BY <1>1 DEF RunKnows
    <3>3. QED
      BY <1>2, <1>4, <3>1, <3>2 DEF Active
  <2>2. CASE x # r
    <3>1. runs'[x] = runs[x]
      BY <1>6, <2>2
    <3>2. QED
      BY <1>1, <1>2, <1>4, <3>1 DEF RunKnows, Active
  <2>3. QED
    BY <2>1, <2>2
<1>13. ResultOfItsTask'
  <2> SUFFICES ASSUME NEW k \in DOMAIN tasks', tasks'[k].state = "complete"
               PROVE  /\ tasks'[k].result.by = tasks'[k].sequence
                      /\ tasks'[k].result.version >= k.version
                      /\ VectorReady'
    BY DEF ResultOfItsTask
  <2>1. CASE tasks'[k] = tasks[k]
    BY <1>1, <1>4, <1>5, <2>1 DEF ResultOfItsTask
  <2>2. CASE k = key /\ tasks'[k] = task
    BY <1>4, <2>2
  <2>3. QED
    BY <1>5, <2>1, <2>2
<1>14. QED
  BY <1>1, <1>2, <1>3, <1>7, <1>8, <1>9, <1>10, <1>11, <1>12, <1>13 DEF RankingInv


\* What a run that is on its way knows, in one place.
LEMMA RunOnItsWay ==
  ASSUME VectorAssumption, RankingInv, NEW r \in Runs, Active(r)
  PROVE  /\ runs[r] \in RankingRun /\ runs[r].of \in Keys /\ runs[r].of.version \in Nat
         /\ runs[r].of.version <= content /\ content \in Contents
         /\ Mine(r) => /\ tasks[runs[r].of] \in RankingTask
                       /\ tasks[runs[r].of].sequence = r
                       /\ tasks[runs[r].of].state \in Live \/ runs[r].flag
BY KeysAreNotNone DEF RankingInv, RankingTypeOK, VectorTypeOK, RunKnows, FlagTellsCancelled, Mine

\* The run ends, and its task with it, but never as complete.
LEMMA EndKeeps ==
  ASSUME VectorAssumption, RankingAssumption, RankingInv,
         UNCHANGED <<rest, sequence, requests>>,
         NEW r \in Runs, Active(r), NEW mark \in {"cancelled", "failed"}, EndAs(r, mark)
  PROVE  RankingInv'
<1> DEFINE key == runs[r].of
<1>1. runs' = [runs EXCEPT ![r] = DoneRun]
  BY DEF EndAs
<1>2. CASE Mine(r)
  <2> DEFINE task == [tasks[key] EXCEPT !.state = mark]
  <2>1. tasks[key] \in RankingTask /\ tasks[key].sequence = r
    BY <1>2, RunOnItsWay
  <2>2. task \in RankingTask /\ task.sequence = r /\ task.state = mark
    BY <2>1 DEF RankingTask, TaskStates
  <2>3. tasks' = [tasks EXCEPT ![key] = task]
    BY <1>2 DEF EndAs, Marked
  <2>4. task.state \notin Live /\ task.state # "complete"
    BY <2>2 DEF Live
  <2> HIDE DEF task
  <2>5. QED
    BY <1>1, <1>2, <2>2, <2>3, <2>4, DoneRunIs, RunMoves
<1>3. CASE ~Mine(r)
  <2> DEFINE task == [state |-> "failed", result |-> NoResult, sequence |-> r, token |-> NoToken]
  <2>1. task \in RankingTask /\ task.sequence = r /\ task.state = "failed"
    BY DEF RankingTask, TaskStates, Tokens
  <2>2. tasks' = tasks
    BY <1>3 DEF EndAs
  <2>3. task.state \notin Live /\ task.state # "complete"
    BY <2>1 DEF Live
  <2> HIDE DEF task
  <2>4. QED
    BY <1>1, <2>1, <2>2, <2>3, DoneRunIs, RunMoves
<1>4. QED
  BY <1>2, <1>3

\* The run goes on and its task stays as it is.
LEMMA MoveKeeps ==
  ASSUME VectorAssumption, RankingAssumption, RankingInv,
         UNCHANGED <<rest, sequence, requests>>, tasks' = tasks,
         NEW r \in Runs, Active(r), NEW new \in RankingRun,
         runs' = [runs EXCEPT ![r] = new],
         new.pc \notin {"none", "done"} => new.of = runs[r].of /\ new.flag = runs[r].flag,
         new.pc \in {"open", "settle"} => VectorReady,
         new.pc = "settle" /\ new.outcome = "done" =>
           new.version \in Contents /\ new.version >= runs[r].of.version
  PROVE  RankingInv'
<1> DEFINE task == [state |-> "failed", result |-> NoResult, sequence |-> r, token |-> NoToken]
<1>1. task \in RankingTask /\ task.sequence = r /\ task.state = "failed"
  BY DEF RankingTask, TaskStates, Tokens
<1>2. task.state \notin Live /\ task.state # "complete"
  BY <1>1 DEF Live
<1> HIDE DEF task
<1>3. QED
  BY <1>1, <1>2, RunMoves

LEMMA BeginKeeps ==
  ASSUME VectorAssumption, RankingAssumption, RankingInv, NEW r \in Runs, Begin(r)
  PROVE  RankingInv'
<1> DEFINE key == runs[r].of
<1>1. runs[r].pc = "permit" /\ Active(r) /\ UNCHANGED <<rest, sequence, requests>>
  BY DEF Begin, Active
<1>2. CASE EndAs(r, "cancelled")
  BY <1>1, <1>2, EndKeeps
<1>3. CASE Mine(r) /\ NotCancelled(r) /\ Marked(r, "running") /\ RunGoesTo(r, "index")
  <2> DEFINE task == [tasks[key] EXCEPT !.state = "running"]
             new == [runs[r] EXCEPT !.pc = "index"]
  <2>1. /\ tasks[key] \in RankingTask /\ tasks[key].sequence = r /\ ~runs[r].flag
        /\ tasks[key].state \in Live \/ runs[r].flag
        /\ runs[r] \in RankingRun
    BY <1>1, <1>3, RunOnItsWay DEF NotCancelled
  <2>2. /\ task \in RankingTask /\ task.sequence = r /\ task.state = "running"
        /\ task.state \in Live
    BY <2>1 DEF RankingTask, TaskStates, Live
  <2>3. /\ new \in RankingRun /\ new.pc = "index" /\ new.of = key
        /\ new.flag = runs[r].flag
    BY <2>1 DEF RankingRun, RunSteps
  <2>4. tasks' = [tasks EXCEPT ![key] = task] /\ runs' = [runs EXCEPT ![r] = new]
    BY <1>3 DEF Marked, RunGoesTo
  <2> HIDE DEF task, new
  <2>5. QED
    BY <1>1, <1>3, <2>1, <2>2, <2>3, <2>4, RunMoves
<1>4. QED
  BY <1>2, <1>3 DEF Begin

LEMMA IndexReadyKeeps ==
  ASSUME VectorAssumption, RankingAssumption, RankingInv, NEW r \in Runs, IndexReady(r)
  PROVE  RankingInv'
<1>1. /\ runs[r].pc = "index" /\ Active(r) /\ UNCHANGED <<rest, sequence, requests>>
      /\ tasks' = tasks /\ VectorReady
  BY DEF IndexReady, IndexIsReady, Active
<1>2. CASE runs' = [runs EXCEPT ![r] = DoneRun]
  BY <1>1, <1>2, MoveKeeps, DoneRunIs
<1>3. CASE RunGoesTo(r, "open")
  <2> DEFINE new == [runs[r] EXCEPT !.pc = "open"]
  <2>1. /\ new \in RankingRun /\ new.pc = "open" /\ new.of = runs[r].of
        /\ new.flag = runs[r].flag
    BY <1>1, RunOnItsWay DEF RankingRun, RunSteps
  <2>2. runs' = [runs EXCEPT ![r] = new]
    BY <1>3 DEF RunGoesTo
  <2> HIDE DEF new
  <2>3. QED
    BY <1>1, <2>1, <2>2, MoveKeeps
<1>4. QED
  BY <1>2, <1>3 DEF IndexReady

LEMMA ComputeKeeps ==
  ASSUME VectorAssumption, RankingAssumption, RankingInv, NEW r \in Runs, Compute(r)
  PROVE  RankingInv'
<1>1. /\ runs[r].pc = "open" /\ Active(r) /\ UNCHANGED <<rest, sequence, requests>>
      /\ tasks' = tasks
  BY DEF Compute, Active
<1>2. /\ VectorReady /\ runs[r] \in RankingRun /\ runs[r].of.version \in Nat
      /\ runs[r].of.version <= content /\ content \in Contents
  BY <1>1, RunOnItsWay DEF RankingInv, RunKnows
<1>3. CASE runs' = [runs EXCEPT ![r].pc = "settle", ![r].outcome = "done",
                               ![r].version = content]
  <2> DEFINE settled == [runs[r] EXCEPT !.pc = "settle"]
             done == [settled EXCEPT !.outcome = "done"]
             new == [done EXCEPT !.version = content]
  <2>1. /\ settled \in RankingRun /\ settled.pc = "settle" /\ settled.of = runs[r].of
        /\ settled.flag = runs[r].flag
    BY <1>2 DEF RankingRun, RunSteps
  <2>2. /\ done \in RankingRun /\ done.pc = "settle" /\ done.of = runs[r].of
        /\ done.flag = runs[r].flag
    BY <2>1 DEF RankingRun, RunSteps
  <2>3. /\ new \in RankingRun /\ new.pc = "settle" /\ new.of = runs[r].of
        /\ new.flag = runs[r].flag /\ new.version = content
    BY <1>2, <2>2 DEF RankingRun, RunSteps
  <2>4. runs' = [runs EXCEPT ![r] = new]
    BY <1>3
  <2>5. new.version \in Contents /\ new.version >= runs[r].of.version
    BY <1>2, <2>3 DEF Contents, VectorAssumption
  <2> HIDE DEF new
  <2>6. QED
    BY <1>1, <1>2, <2>3, <2>4, <2>5, MoveKeeps
<1>4. CASE runs' = [runs EXCEPT ![r].pc = "settle", ![r].outcome = "error"]
  <2> DEFINE settled == [runs[r] EXCEPT !.pc = "settle"]
             new == [settled EXCEPT !.outcome = "error"]
  <2>1. /\ settled \in RankingRun /\ settled.pc = "settle" /\ settled.of = runs[r].of
        /\ settled.flag = runs[r].flag
    BY <1>2 DEF RankingRun, RunSteps
  <2>2. /\ new \in RankingRun /\ new.pc = "settle" /\ new.of = runs[r].of
        /\ new.flag = runs[r].flag /\ new.outcome = "error"
    BY <2>1 DEF RankingRun, RunSteps
  <2>3. runs' = [runs EXCEPT ![r] = new]
    BY <1>4
  <2> HIDE DEF new
  <2>4. QED
    BY <1>1, <1>2, <2>2, <2>3, MoveKeeps
<1>5. QED
  BY <1>3, <1>4 DEF Compute

LEMMA SettleKeeps ==
  ASSUME VectorAssumption, RankingAssumption, RankingInv, NEW r \in Runs, Settle(r)
  PROVE  RankingInv'
<1> DEFINE key == runs[r].of
<1>1. /\ runs[r].pc = "settle" /\ Active(r) /\ UNCHANGED <<rest, sequence, requests>>
      /\ runs' = [runs EXCEPT ![r] = DoneRun]
  BY DEF Settle, Active
<1>2. CASE ~Mine(r)
  BY <1>1, <1>2, MoveKeeps, DoneRunIs DEF Settle
<1>3. CASE Mine(r)
  <2> DEFINE result == IF Settled(r) = "complete"
                         THEN [by |-> r, version |-> runs[r].version]
                         ELSE tasks[key].result
             marked == [tasks[key] EXCEPT !.state = Settled(r)]
             task == [marked EXCEPT !.result = result]
  <2>1. /\ tasks[key] \in RankingTask /\ tasks[key].sequence = r
        /\ runs[r] \in RankingRun
    BY <1>1, <1>3, RunOnItsWay
  <2>2. Settled(r) \in {"cancelled", "complete", "failed"}
    BY DEF Settled
  <2>3. Settled(r) = "complete" =>
          /\ VectorReady /\ runs[r].version \in Contents
          /\ runs[r].version >= key.version
    BY <1>1 DEF Settled, RankingInv, RunKnows
  <2>4. result \in Results \cup {NoResult}
    BY <2>1, <2>3 DEF Results, RankingTask
  <2> HIDE DEF result
  <2>5. marked \in RankingTask /\ marked.sequence = r /\ marked.state = Settled(r)
          /\ marked.result = tasks[key].result
    BY <2>1, <2>2 DEF RankingTask, TaskStates
  <2> HIDE DEF marked
  <2>6. /\ task \in RankingTask /\ task.sequence = r /\ task.state = Settled(r)
        /\ task.result = result
    BY <2>4, <2>5 DEF RankingTask, TaskStates
  <2>7. tasks' = [tasks EXCEPT ![key] = task]
    BY <1>3 DEF Settle, result, marked
  <2>8. task.state \notin Live
    BY <2>2, <2>6 DEF Live
  <2>9. task.state = "complete" =>
          VectorReady /\ task.result.by = r /\ task.result.version >= key.version
    BY <2>3, <2>6 DEF result
  <2> HIDE DEF task
  <2>10. QED
    BY <1>1, <1>3, <2>6, <2>7, <2>8, <2>9, DoneRunIs, RunMoves
<1>4. QED
  BY <1>2, <1>3

LEMMA RunKeeps ==
  ASSUME VectorAssumption, RankingAssumption, RankingInv, NEW r \in Runs, RunStep(r)
  PROVE  RankingInv'
<1>1. CASE Unavailable(r)
  BY <1>1, EndKeeps DEF Unavailable, Active
<1>2. CASE IndexFailed(r)
  BY <1>2, EndKeeps DEF IndexFailed, Active
<1>3. CASE WaitCancelled(r)
  BY <1>3, EndKeeps DEF WaitCancelled, Active
<1>4. QED
  BY <1>1, <1>2, <1>3, BeginKeeps, IndexReadyKeeps, ComputeKeeps, SettleKeeps DEF RunStep


(***************************************************************************)
(* Requests, the preparing thread and the end of the service.              *)
(***************************************************************************)
LEMMA VectorStepsKeep ==
  ASSUME VectorAssumption, RankingAssumption, RankingInv, VectorSteps
  PROVE  RankingInv'
<1>1. /\ VectorInv /\ RankingTypeOK /\ StartedInOrder /\ OneLive /\ CacheBounded
      /\ FlagTellsCancelled /\ RunKnows /\ ResultOfItsTask
      /\ \A b \in Browsers : requests[b] # NoKey =>
           requests[b] \in Keys /\ requests[b].version <= content
  BY DEF RankingInv
<1>2. /\ ChangeContent \/ StartService \/ PrepStep
      /\ tasks' = tasks /\ runs' = runs /\ sequence' = sequence /\ requests' = requests
  BY DEF VectorSteps, taskVars
<1>3. VectorInv'
  BY <1>1, <1>2, ChangeContentKeeps, StartStopKeep, PrepKeeps
<1>4. VectorReady => VectorReady'
  BY <1>1, <1>2, ReadyStays
<1>5. content \in Nat /\ content' \in Nat /\ content <= content'
  <2>1. content \in Contents
    BY <1>1 DEF RankingTypeOK, VectorTypeOK
  <2>2. content' = content \/ content' = content + 1
    BY <1>2 DEF ChangeContent, StartService, PrepStep, ReadIndexIdentity, EnsureReady,
       ReadMetadata, ScanVectors, BuildGraph, SetAside, PublishIndex, ReadGroups, CheckCount,
       ReadRowids, WriteMapping, LoadIndex
  <2>3. QED
    BY <2>1, <2>2 DEF Contents, VectorAssumption
<1>6. RankingTypeOK'
  BY <1>1, <1>2, <1>3 DEF RankingTypeOK, VectorInv
<1>7. \A k \in Keys : k.version \in Nat
  BY KeysAreNotNone
<1>8. RunKnows'
  BY <1>1, <1>2, <1>4, <1>5, <1>7 DEF RunKnows, Active
<1>9. ResultOfItsTask'
  BY <1>1, <1>2, <1>4 DEF ResultOfItsTask
<1>10. \A b \in Browsers : requests'[b] # NoKey =>
         requests'[b] \in Keys /\ requests'[b].version <= content'
  BY <1>1, <1>2, <1>5, <1>7
<1>11. StartedInOrder' /\ OneLive' /\ CacheBounded' /\ FlagTellsCancelled'
  BY <1>1, <1>2 DEF StartedInOrder, OneLive, CacheBounded, FlagTellsCancelled, Active, Mine
<1>12. QED
  BY <1>3, <1>6, <1>8, <1>9, <1>10, <1>11 DEF RankingInv

\* A step of the cache leaves the vector index alone.
LEMMA RestStays ==
  ASSUME UNCHANGED rest
  PROVE  /\ VectorInv' <=> VectorInv
         /\ VectorTypeOK' <=> VectorTypeOK
         /\ VectorReady' <=> VectorReady
         /\ content' = content
<1>1. /\ content' = content /\ dir' = dir /\ state' = state /\ prep' = prep
      /\ starts' = starts
  BY DEF rest, vectorVars
<1>2. QED
  BY <1>1 DEF VectorInv, VectorTypeOK, Honest, VectorsSince, MappedSince, ReadSince,
     WorkKnown, VectorReady, MappingFits

LEMMA AskKeeps ==
  ASSUME VectorAssumption, RankingAssumption, RankingInv,
         NEW b \in Browsers, NEW query \in Queries, Ask(b, query)
  PROVE  RankingInv'
<1> DEFINE key == [version |-> content, ann |-> state.generation, query |-> query]
<1>1. /\ VectorInv /\ RankingTypeOK /\ StartedInOrder /\ OneLive /\ CacheBounded
      /\ FlagTellsCancelled /\ RunKnows /\ ResultOfItsTask
      /\ \A c \in Browsers : requests[c] # NoKey =>
           requests[c] \in Keys /\ requests[c].version <= content
  BY DEF RankingInv
<1>2. /\ UNCHANGED rest /\ tasks' = tasks /\ runs' = runs /\ sequence' = sequence
      /\ requests' = [requests EXCEPT ![b] = key]
  BY DEF Ask
<1>3. /\ VectorInv' /\ VectorTypeOK' /\ (VectorReady' <=> VectorReady) /\ content' = content
  BY <1>1, <1>2, RestStays DEF RankingTypeOK
<1>4. key \in Keys /\ key.version = content /\ content <= content
  BY <1>1 DEF Keys, RankingTypeOK, VectorTypeOK, IndexState, Contents, VectorAssumption
<1> HIDE DEF key
<1>5. RankingTypeOK'
  BY <1>1, <1>2, <1>3, <1>4 DEF RankingTypeOK, Request
<1>6. \A c \in Browsers : requests'[c] # NoKey =>
        requests'[c] \in Keys /\ requests'[c].version <= content'
  BY <1>1, <1>2, <1>3, <1>4 DEF RankingTypeOK
<1>7. StartedInOrder' /\ OneLive' /\ CacheBounded' /\ FlagTellsCancelled'
  BY <1>1, <1>2 DEF StartedInOrder, OneLive, CacheBounded, FlagTellsCancelled, Active, Mine
<1>8. RunKnows' /\ ResultOfItsTask'
  BY <1>1, <1>2, <1>3 DEF RunKnows, ResultOfItsTask, Active
<1>9. QED
  BY <1>3, <1>5, <1>6, <1>7, <1>8 DEF RankingInv

LEMMA OneMore ==
  ASSUME NEW S, IsFiniteSet(S), NEW x, NEW limit \in Nat, Cardinality(S) <= limit
  PROVE  IsFiniteSet(S \cup {x}) /\ Cardinality(S \cup {x}) <= limit + 1
<1>1. IsFiniteSet(S \cup {x}) /\ Cardinality(S) \in Nat
  BY FS_AddElement, FS_CardinalityType
<1>2. Cardinality(S \cup {x}) = Cardinality(S) + 1 \/ Cardinality(S \cup {x}) = Cardinality(S)
  <2>1. CASE x \in S
    <3>1. S \cup {x} = S
      BY <2>1
    <3>2. QED
      BY <3>1
  <2>2. CASE x \notin S
    BY <2>2, FS_AddElement
  <2>3. QED
    BY <2>1, <2>2
<1>3. QED
  BY <1>1, <1>2

\* What a start leaves in the cache: the new task and, of the others, none
\* that is live.
LEMMA StartIs ==
  ASSUME VectorAssumption, RankingAssumption, RankingInv, NEW b \in Browsers,
         Start(b)
  PROVE  /\ sequence + 1 \in Runs /\ sequence' = sequence + 1
         /\ DOMAIN tasks' \subseteq DOMAIN tasks \cup {requests[b]}
         /\ requests[b] \in DOMAIN tasks' =>
              tasks'[requests[b]] = [state |-> "queued", result |-> NoResult,
                                     sequence |-> sequence + 1, token |-> TokenOf[b]]
         /\ \A k \in DOMAIN tasks' : k # requests[b] =>
              tasks'[k] = IF k \in ToCancel THEN [tasks[k] EXCEPT !.state = "cancelled"]
                                            ELSE tasks[k]
         /\ CacheBounded'
         /\ \A r \in Runs :
              runs'[r] = IF r = sequence + 1
                           THEN [NoRun EXCEPT !.pc = "permit", !.of = requests[b]]
                           ELSE [runs[r] EXCEPT
                                   !.flag = @ \/ \E k \in ToCancel : tasks[k].sequence = r]
         /\ DOMAIN runs' = Runs
<1> DEFINE key == requests[b]
           fresh == [state |-> "queued", result |-> NoResult, sequence |-> sequence + 1,
                     token |-> TokenOf[b]]
           cache == Cancelled(ToCancel)
           full == Inserted(cache, key, TokenOf[b])
<1>1. /\ sequence \in 0 .. MaxRuns /\ sequence < MaxRuns /\ MaxRuns \in Nat
      /\ CacheBounded /\ RankingTypeOK /\ CacheLimit \in Nat
  BY DEF Start, RankingInv, StartedInOrder, RankingAssumption
<1>2. sequence + 1 \in Runs /\ sequence' = sequence + 1 /\ sequence + 1 \in Nat
  BY <1>1 DEF Start, Runs
<1>3. /\ DOMAIN cache = DOMAIN tasks
      /\ \A k \in DOMAIN tasks : cache[k] = IF k \in ToCancel
           THEN [tasks[k] EXCEPT !.state = "cancelled"] ELSE tasks[k]
  BY CancelledIs DEF ToCancel
<1>4. /\ DOMAIN full = DOMAIN tasks \cup {key} /\ full[key] = fresh
      /\ \A k \in DOMAIN tasks : k # key => full[k] = IF k \in ToCancel
           THEN [tasks[k] EXCEPT !.state = "cancelled"] ELSE tasks[k]
  <2> HIDE DEF cache
  <2>1. /\ DOMAIN full = DOMAIN cache \cup {key} /\ full[key] = fresh
        /\ \A k \in DOMAIN cache : k # key => full[k] = cache[k]
    BY DEF Inserted
  <2> HIDE DEF full, fresh
  <2>2. QED
    BY <1>3, <2>1
<1>5. tasks' = Trimmed(full)
  BY DEF Start
<1>6. \A k \in DOMAIN tasks : /\ tasks[k].sequence \in Nat
                              /\ tasks[k].state \in TaskStates
                              /\ tasks[k] \in RankingTask
  BY <1>1 DEF RankingTypeOK, RankingTask, Runs
<1>7. \A k \in DOMAIN full : full[k].sequence \in Nat /\ (k # key => full[k].state \notin Live)
  <2> SUFFICES ASSUME NEW k \in DOMAIN full
               PROVE  full[k].sequence \in Nat /\ (k # key => full[k].state \notin Live)
    OBVIOUS
  <2> HIDE DEF full
  <2>1. CASE k = key
    BY <1>2, <1>4, <2>1
  <2>2. CASE k # key /\ k \in ToCancel
    <3>1. full[k] = [tasks[k] EXCEPT !.state = "cancelled"] /\ tasks[k] \in RankingTask
      BY <1>4, <1>6, <2>2
    <3>2. full[k].sequence = tasks[k].sequence /\ full[k].state = "cancelled"
      BY <3>1 DEF RankingTask
    <3>3. QED
      BY <1>4, <1>6, <2>2, <3>2 DEF Live
  <2>3. CASE k # key /\ k \notin ToCancel
    BY <1>4, <1>6, <2>3 DEF ToCancel
  <2>4. QED
    BY <2>1, <2>2, <2>3
<1> HIDE DEF full, fresh
<1>8. /\ IsFiniteSet(DOMAIN full)
      /\ Cardinality(DOMAIN full) <= CacheLimit + 1
  <2>1. IsFiniteSet(DOMAIN tasks) /\ Cardinality(DOMAIN tasks) <= CacheLimit
    BY <1>1 DEF CacheBounded
  <2>2. /\ IsFiniteSet(DOMAIN tasks \cup {key})
        /\ Cardinality(DOMAIN tasks \cup {key}) <= CacheLimit + 1
    BY <1>1, <2>1, OneMore
  <2>3. QED
    BY <1>4, <2>2
<1>9. CacheBounded'
  BY <1>5, <1>7, <1>8, TrimmedBounded DEF CacheBounded
<1>10. /\ DOMAIN tasks' \subseteq DOMAIN full
       /\ \A k \in DOMAIN tasks' : tasks'[k] = full[k]
  BY <1>5, TrimmedIs
<1>11. /\ key \in DOMAIN tasks' => tasks'[key] = fresh
       /\ \A k \in DOMAIN tasks' : k # key =>
            tasks'[k] = IF k \in ToCancel THEN [tasks[k] EXCEPT !.state = "cancelled"]
                                          ELSE tasks[k]
  BY <1>4, <1>10
<1>12. /\ DOMAIN runs' = Runs
       /\ \A r \in Runs :
            runs'[r] = IF r = sequence + 1
                         THEN [NoRun EXCEPT !.pc = "permit", !.of = key]
                         ELSE [runs[r] EXCEPT
                                 !.flag = @ \/ \E k \in ToCancel : tasks[k].sequence = r]
  BY <1>2 DEF Start, FlagsRaised
<1>13. QED
  BY <1>2, <1>4, <1>9, <1>10, <1>11, <1>12 DEF fresh


LEMMA StartKeeps ==
  ASSUME VectorAssumption, RankingAssumption, RankingInv, NEW b \in Browsers,
         requests[b] # NoKey, Start(b), requests' = [requests EXCEPT ![b] = NoKey],
         UNCHANGED rest
  PROVE  RankingInv'
<1> DEFINE key == requests[b]
           fresh == [state |-> "queued", result |-> NoResult, sequence |-> sequence + 1,
                     token |-> TokenOf[b]]
           begun == [NoRun EXCEPT !.pc = "permit", !.of = key]
           Raised(r) == \E k \in ToCancel : tasks[k].sequence = r
<1>1. /\ VectorInv /\ RankingTypeOK /\ StartedInOrder /\ OneLive /\ CacheBounded
      /\ FlagTellsCancelled /\ RunKnows /\ ResultOfItsTask
      /\ \A c \in Browsers : requests[c] # NoKey =>
           requests[c] \in Keys /\ requests[c].version <= content
  BY DEF RankingInv
<1>2. /\ VectorInv' /\ VectorTypeOK' /\ (VectorReady' <=> VectorReady) /\ content' = content
  BY <1>1, RestStays DEF RankingTypeOK
<1>3. /\ sequence + 1 \in Runs /\ sequence' = sequence + 1 /\ sequence \in Nat
      /\ DOMAIN tasks' \subseteq DOMAIN tasks \cup {key}
      /\ \A k \in DOMAIN tasks' : k = key => tasks'[k] = fresh
      /\ CacheBounded' /\ DOMAIN runs' = Runs
      /\ key \in Keys /\ key.version <= content
  <2>1. key \in Keys /\ key.version <= content /\ sequence \in Nat
    BY <1>1 DEF StartedInOrder, RankingAssumption
  <2>2. key \in DOMAIN tasks' => tasks'[key] = fresh
    BY StartIs
  <2> HIDE DEF fresh, begun, Raised
  <2>3. /\ sequence + 1 \in Runs /\ sequence' = sequence + 1
        /\ DOMAIN tasks' \subseteq DOMAIN tasks \cup {key}
    BY StartIs
  <2>4. CacheBounded' /\ DOMAIN runs' = Runs
    <3>1. CacheBounded'
      BY StartIs
    <3>2. DOMAIN runs' = Runs
      BY StartIs
    <3>3. QED
      BY <3>1, <3>2
  <2>5. QED
    BY <2>1, <2>2, <2>3, <2>4
<1>4. \A k \in DOMAIN tasks' : k # key =>
        /\ k \in DOMAIN tasks /\ tasks'[k] \in RankingTask
        /\ tasks'[k].sequence = tasks[k].sequence /\ tasks'[k].result = tasks[k].result
        /\ tasks'[k].state = IF k \in ToCancel THEN "cancelled" ELSE tasks[k].state
  <2> SUFFICES ASSUME NEW k \in DOMAIN tasks', k # key
               PROVE  /\ k \in DOMAIN tasks /\ tasks'[k] \in RankingTask
                      /\ tasks'[k].sequence = tasks[k].sequence
                      /\ tasks'[k].result = tasks[k].result
                      /\ tasks'[k].state = IF k \in ToCancel THEN "cancelled" ELSE tasks[k].state
    OBVIOUS
  <2>1. /\ k \in DOMAIN tasks
        /\ tasks'[k] = IF k \in ToCancel THEN [tasks[k] EXCEPT !.state = "cancelled"] ELSE tasks[k]
    BY <1>3, StartIs
  <2>2. tasks[k] \in RankingTask
    BY <1>1, <2>1 DEF RankingTypeOK
  <2>3. QED
    BY <2>1, <2>2 DEF RankingTask, TaskStates
<1>5. \A k \in DOMAIN tasks' : k # key => tasks'[k].state \notin Live
  BY <1>4 DEF ToCancel, Live
<1>6. /\ fresh \in RankingTask /\ fresh.sequence = sequence + 1 /\ fresh.state = "queued"
      /\ fresh.state \in Live
  BY <1>3 DEF RankingTask, TaskStates, Tokens, Live
<1>7. /\ begun \in RankingRun /\ begun.pc = "permit" /\ begun.of = key
  BY <1>3, DoneRunIs DEF RankingRun, RunSteps
<1>8. \A r \in Runs : r = sequence + 1 => runs'[r] = begun
  BY StartIs
<1>9. \A r \in Runs : r # sequence + 1 =>
        /\ runs'[r] \in RankingRun /\ runs[r] \in RankingRun
        /\ runs'[r].pc = runs[r].pc /\ runs'[r].of = runs[r].of
        /\ runs'[r].outcome = runs[r].outcome /\ runs'[r].version = runs[r].version
        /\ runs'[r].flag <=> (runs[r].flag \/ Raised(r))
  <2> SUFFICES ASSUME NEW r \in Runs, r # sequence + 1
               PROVE  /\ runs'[r] \in RankingRun /\ runs[r] \in RankingRun
                      /\ runs'[r].pc = runs[r].pc /\ runs'[r].of = runs[r].of
                      /\ runs'[r].outcome = runs[r].outcome /\ runs'[r].version = runs[r].version
                      /\ runs'[r].flag <=> (runs[r].flag \/ Raised(r))
    OBVIOUS
  <2> DEFINE flag == runs[r].flag \/ Raised(r)
  <2>1. flag \in BOOLEAN
    OBVIOUS
  <2>2. runs'[r] = [runs[r] EXCEPT !.flag = flag]
    BY StartIs
  <2>3. runs[r] \in RankingRun
    BY <1>1 DEF RankingTypeOK
  <2> HIDE DEF flag
  <2>4. /\ runs'[r] \in RankingRun
        /\ runs'[r].pc = runs[r].pc /\ runs'[r].of = runs[r].of
        /\ runs'[r].outcome = runs[r].outcome /\ runs'[r].version = runs[r].version
        /\ runs'[r].flag = flag
    BY <2>1, <2>2, <2>3 DEF RankingRun
  <2>5. runs'[r].flag <=> flag
    BY <2>4
  <2>6. QED
    BY <2>3, <2>4, <2>5 DEF flag
<1> HIDE DEF fresh, begun, Raised
<1>10. RankingTypeOK'
  <2>1. DOMAIN tasks' \subseteq Keys
    BY <1>1, <1>3 DEF RankingTypeOK
  <2>2. \A k \in DOMAIN tasks' : tasks'[k] \in RankingTask
    BY <1>3, <1>4, <1>6
  <2>3. \A r \in Runs : runs'[r] \in RankingRun
    BY <1>7, <1>8, <1>9
  <2>4. runs' = [r \in Runs |-> runs'[r]]
    BY <1>3 DEF Start
  <2>5. runs' \in [Runs -> RankingRun]
    BY <2>3, <2>4
  <2>6. requests' \in [Browsers -> Request]
    BY <1>1 DEF RankingTypeOK, Request
  <2>7. QED
    BY <1>2, <2>1, <2>2, <2>5, <2>6 DEF RankingTypeOK
<1>11. \A c \in Browsers : requests'[c] # NoKey =>
         requests'[c] \in Keys /\ requests'[c].version <= content'
  BY <1>1, <1>2 DEF RankingTypeOK
<1>12. StartedInOrder'
  <2>1. sequence + 1 \in 0 .. MaxRuns
    BY <1>3 DEF Runs
  <2>2. \A r \in Runs : Active(r)' => r <= sequence + 1
    <3> SUFFICES ASSUME NEW r \in Runs, Active(r)', r # sequence + 1
                 PROVE  r <= sequence
      BY <1>3 DEF Runs
    <3>1. Active(r)
      BY <1>9 DEF Active
    <3>2. QED
      BY <1>1, <3>1 DEF StartedInOrder
  <2>3. \A k \in DOMAIN tasks' : tasks'[k].sequence <= sequence + 1
    <3> SUFFICES ASSUME NEW k \in DOMAIN tasks' PROVE tasks'[k].sequence <= sequence + 1
      OBVIOUS
    <3>1. CASE k = key
      BY <1>3, <1>6, <3>1
    <3>2. CASE k # key
      <4>1. tasks'[k].sequence \in Nat
        BY <1>4, <3>2 DEF RankingTask, Runs
      <4>2. tasks'[k].sequence <= sequence
        BY <1>1, <1>4, <3>2 DEF StartedInOrder
      <4>3. QED
        BY <1>3, <4>1, <4>2
    <3>3. QED
      BY <3>1, <3>2
  <2>4. QED
    BY <1>3, <2>1, <2>2, <2>3 DEF StartedInOrder
<1>13. OneLive'
  BY <1>5 DEF OneLive
<1>14. FlagTellsCancelled'
  <2> SUFFICES ASSUME NEW r \in Runs, Active(r)', Mine(r)'
               PROVE  tasks'[runs'[r].of].state \in Live \/ runs'[r].flag
    BY DEF FlagTellsCancelled
  <2>1. runs'[r].of \in DOMAIN tasks' /\ tasks'[runs'[r].of].sequence = r
    BY DEF Mine
  <2>2. CASE r = sequence + 1
    BY <1>3, <1>6, <1>7, <1>8, <2>1, <2>2
  <2>3. CASE r # sequence + 1
    <3>1. runs'[r].of # key
      BY <1>3, <1>6, <2>1, <2>3
    <3>2. /\ runs'[r].of = runs[r].of /\ runs[r].of \in DOMAIN tasks
          /\ tasks[runs[r].of].sequence = r /\ Active(r)
      BY <1>4, <1>9, <2>1, <2>3, <3>1 DEF Active
    <3>3. tasks[runs[r].of].state \in Live \/ runs[r].flag
      BY <1>1, <3>2 DEF FlagTellsCancelled, Mine
    <3>4. CASE tasks[runs[r].of].state \in Live
      <4>1. Raised(r)
        BY <3>2, <3>4 DEF Raised, ToCancel
      <4>2. QED
        BY <1>9, <2>3, <4>1
    <3>5. CASE runs[r].flag
      BY <1>9, <2>3, <3>5
    <3>6. QED
      BY <3>3, <3>4, <3>5
  <2>4. QED
    BY <2>2, <2>3
<1>15. RunKnows'
  <2> SUFFICES ASSUME NEW r \in Runs
               PROVE  /\ Active(r)' => runs'[r].of \in Keys /\ runs'[r].of.version <= content'
                      /\ runs'[r].pc \in {"open", "settle"} => VectorReady'
                      /\ runs'[r].pc = "settle" /\ runs'[r].outcome = "done" =>
                           /\ runs'[r].version \in Contents
                           /\ runs'[r].version >= runs'[r].of.version
    BY DEF RunKnows
  <2>1. CASE r = sequence + 1
    BY <1>2, <1>3, <1>7, <1>8, <2>1
  <2>2. CASE r # sequence + 1
    BY <1>1, <1>2, <1>9, <2>2 DEF RunKnows, Active
  <2>3. QED
    BY <2>1, <2>2
<1>16. ResultOfItsTask'
  <2> SUFFICES ASSUME NEW k \in DOMAIN tasks', tasks'[k].state = "complete"
               PROVE  /\ tasks'[k].result.by = tasks'[k].sequence
                      /\ tasks'[k].result.version >= k.version
                      /\ VectorReady'
    BY DEF ResultOfItsTask
  <2>1. k # key
    BY <1>3, <1>6
  <2>2. tasks[k].state = "complete"
    BY <1>4, <2>1
  <2>3. QED
    BY <1>1, <1>2, <1>4, <2>1, <2>2 DEF ResultOfItsTask
<1>17. QED
  BY <1>2, <1>3, <1>10, <1>11, <1>12, <1>13, <1>14, <1>15, <1>16 DEF RankingInv

LEMMA EnterKeeps ==
  ASSUME VectorAssumption, RankingAssumption, RankingInv, NEW b \in Browsers, Enter(b)
  PROVE  RankingInv'
<1>1. requests[b] # NoKey /\ UNCHANGED rest /\ requests' = [requests EXCEPT ![b] = NoKey]
  BY DEF Enter
<1>2. CASE Start(b)
  BY <1>1, <1>2, StartKeeps
<1>3. CASE Join(b)
  <2>1. /\ VectorInv /\ RankingTypeOK /\ StartedInOrder /\ OneLive /\ CacheBounded
        /\ FlagTellsCancelled /\ RunKnows /\ ResultOfItsTask
        /\ \A c \in Browsers : requests[c] # NoKey =>
             requests[c] \in Keys /\ requests[c].version <= content
    BY DEF RankingInv
  <2>2. tasks' = tasks /\ runs' = runs /\ sequence' = sequence
    BY <1>3 DEF Join
  <2>3. /\ VectorInv' /\ VectorTypeOK' /\ (VectorReady' <=> VectorReady) /\ content' = content
    BY <1>1, <2>1, RestStays DEF RankingTypeOK
  <2>4. RankingTypeOK'
    BY <1>1, <2>1, <2>2, <2>3 DEF RankingTypeOK, Request
  <2>5. \A c \in Browsers : requests'[c] # NoKey =>
          requests'[c] \in Keys /\ requests'[c].version <= content'
    BY <1>1, <2>1, <2>3 DEF RankingTypeOK
  <2>6. StartedInOrder' /\ OneLive' /\ CacheBounded' /\ FlagTellsCancelled'
    BY <2>1, <2>2 DEF StartedInOrder, OneLive, CacheBounded, FlagTellsCancelled, Active, Mine
  <2>7. RunKnows' /\ ResultOfItsTask'
    BY <2>1, <2>2, <2>3 DEF RunKnows, ResultOfItsTask, Active
  <2>8. QED
    BY <2>3, <2>4, <2>5, <2>6, <2>7 DEF RankingInv
<1>4. QED
  BY <1>2, <1>3 DEF Enter

\* A cache of nothing.
LEMMA EmptyCache ==
  ASSUME RankingAssumption, tasks = <<>>
  PROVE  DOMAIN tasks = {} /\ CacheBounded
<1>1. DOMAIN tasks = {}
  OBVIOUS
<1>2. IsFiniteSet({}) /\ Cardinality({}) = 0
  BY FS_EmptySet
<1>3. QED
  BY <1>1, <1>2 DEF CacheBounded, RankingAssumption

LEMMA RankingInitially == VectorAssumption /\ RankingAssumption /\ RankingInit => RankingInv
<1> SUFFICES ASSUME VectorAssumption, RankingAssumption, RankingInit PROVE RankingInv
  OBVIOUS
<1>1. VectorInv /\ VectorTypeOK
  BY VectorInitially DEF RankingInit, VectorInv
<1>2. DOMAIN tasks = {} /\ CacheBounded
  BY EmptyCache DEF RankingInit
<1>3. /\ runs = [r \in Runs |-> NoRun] /\ sequence = 0
      /\ requests = [b \in Browsers |-> NoKey]
  BY DEF RankingInit
<1>4. RankingTypeOK
  BY <1>1, <1>2, <1>3, DoneRunIs DEF RankingTypeOK, Request
<1>5. \A r \in Runs : runs[r].pc = "none" /\ ~Active(r)
  BY <1>3, DoneRunIs DEF Active
<1>6. StartedInOrder
  BY <1>2, <1>3, <1>5 DEF StartedInOrder, RankingAssumption
<1>7. OneLive /\ ResultOfItsTask
  BY <1>2 DEF OneLive, ResultOfItsTask
<1>8. FlagTellsCancelled /\ RunKnows
  BY <1>5 DEF FlagTellsCancelled, RunKnows
<1>9. QED
  BY <1>1, <1>2, <1>3, <1>4, <1>6, <1>7, <1>8 DEF RankingInv

LEMMA KilledKeeps ==
  ASSUME VectorAssumption, RankingAssumption, RankingInv, Killed
  PROVE  RankingInv'
<1>1. /\ VectorInv /\ RankingTypeOK /\ StartedInOrder
      /\ StopService /\ tasks' = <<>> /\ sequence' = sequence
      /\ runs' = [r \in Runs |-> IF r <= sequence THEN DoneRun ELSE NoRun]
      /\ requests' = [b \in Browsers |-> NoKey]
  BY DEF Killed, RankingInv
<1>2. VectorInv' /\ VectorTypeOK'
  BY <1>1, StartStopKeep DEF VectorInv
<1>3. DOMAIN tasks' = {} /\ CacheBounded'
  <2>1. DOMAIN tasks' = {}
    BY <1>1
  <2>2. IsFiniteSet({}) /\ Cardinality({}) = 0
    BY FS_EmptySet
  <2>3. QED
    BY <2>1, <2>2 DEF CacheBounded, RankingAssumption
<1>4. RankingTypeOK'
  BY <1>1, <1>2, <1>3, DoneRunIs DEF RankingTypeOK, Request
<1>5. \A r \in Runs : runs'[r].pc \in {"none", "done"}
  BY <1>1, DoneRunIs
<1>6. StartedInOrder'
  BY <1>1, <1>3, <1>5 DEF StartedInOrder, Active
<1>7. OneLive' /\ ResultOfItsTask'
  BY <1>3 DEF OneLive, ResultOfItsTask
<1>8. FlagTellsCancelled' /\ RunKnows'
  BY <1>5 DEF FlagTellsCancelled, RunKnows, Active
<1>9. QED
  BY <1>1, <1>2, <1>3, <1>4, <1>6, <1>7, <1>8 DEF RankingInv

(***************************************************************************)
(* RankingInv is kept by every step of the service, the indexers and the   *)
(* browsers, for any number of browsers, queries and runs, any vectors and *)
(* any limit of the cache.                                                 *)
(***************************************************************************)
THEOREM RankingInvariant == RankingSpec => []RankingInv
<1>1. RankingInit => RankingInv
  BY RankingInitially, VectorAssumption, RankingAssumption
<1>2. RankingInv /\ [RankingNext]_rankingVars => RankingInv'
  <2> SUFFICES ASSUME RankingInv, [RankingNext]_rankingVars PROVE RankingInv'
    OBVIOUS
  <2>1. CASE RankingNext
    BY <2>1, VectorStepsKeep, KilledKeeps, AskKeeps, EnterKeeps, RunKeeps,
       VectorAssumption, RankingAssumption DEF RankingNext
  <2>2. CASE UNCHANGED rankingVars
    <3>1. UNCHANGED rest /\ tasks' = tasks /\ runs' = runs /\ sequence' = sequence
            /\ requests' = requests
      BY <2>2 DEF rankingVars, rest
    <3>2. /\ VectorInv' <=> VectorInv
          /\ VectorTypeOK' <=> VectorTypeOK
          /\ VectorReady' <=> VectorReady
          /\ content' = content
      BY <3>1, RestStays
    <3>3. QED
      BY <3>1, <3>2 DEF RankingInv, RankingTypeOK, StartedInOrder, OneLive, CacheBounded,
         FlagTellsCancelled, RunKnows, ResultOfItsTask, Active, Mine
  <2>3. QED
    BY <2>1, <2>2
<1>3. QED
  BY <1>1, <1>2, PTL DEF RankingSpec

(***************************************************************************)
(* An index that claims the present content was read from it, and what is  *)
(* loaded maps as many rows as it has vectors, whatever changes the        *)
(* manifest, fails or is killed while the index is built.                  *)
(***************************************************************************)
THEOREM IndexIsHonest == RankingSpec => []IndexServesContent
<1>1. RankingInv => IndexServesContent
  BY ServesContent, VectorAssumption DEF RankingInv
<1>2. QED
  BY <1>1, RankingInvariant, PTL

(***************************************************************************)
(* One ranking at most is live, the cache keeps its limit, and a result    *)
(* that is served was computed by the run of its task from content no      *)
(* older than its key.                                                     *)
(***************************************************************************)
THEOREM TasksAreSound == RankingSpec => []TasksSound
<1>1. ASSUME RankingInv PROVE TasksSound
  <2>1. RankingTypeOK /\ OneLive /\ CacheBounded /\ ResultOfItsTask
    BY <1>1 DEF RankingInv
  <2> DEFINE live == {k \in DOMAIN tasks : tasks[k].state \in Live}
  <2>2. Cardinality(live) <= 1
    <3>1. \A k, other \in live : k = other
      BY <2>1 DEF OneLive
    <3> HIDE DEF live
    <3>2. CASE live = {}
      BY <3>2, FS_EmptySet
    <3>3. CASE live # {}
      <4>1. PICK k : live = {k}
        BY <3>1, <3>3
      <4>2. QED
        BY <4>1, FS_Singleton
    <3>4. QED
      BY <3>2, <3>3
  <2>3. QED
    BY <2>1, <2>2 DEF TasksSound, OneLiveTask, CacheBounded
<1>2. QED
  BY <1>1, RankingInvariant, PTL


(***************************************************************************)
(* A cancelled task stays so, but for a failed index that marks it failed: *)
(* no run that was cancelled too late completes it.                        *)
(***************************************************************************)
LEMMA CancelledStep ==
  ASSUME VectorAssumption, RankingAssumption, RankingInv, RankingNext,
         NEW k \in DOMAIN tasks, k \in DOMAIN tasks', tasks[k].state = "cancelled",
         tasks'[k].sequence = tasks[k].sequence
  PROVE  tasks'[k].state \in {"cancelled", "failed"}
<1>1. tasks[k] \in RankingTask /\ tasks[k].sequence <= sequence /\ tasks[k].sequence \in Nat
        /\ sequence \in Nat /\ tasks[k].state \notin Live
  BY DEF RankingInv, RankingTypeOK, StartedInOrder, RankingTask, Runs, RankingAssumption, Live
<1>2. CASE tasks' = tasks
  BY <1>2
<1>3. CASE Killed
  <2>1. DOMAIN tasks' = {}
    BY <1>3 DEF Killed
  <2>2. QED
    BY <2>1
<1>4. CASE \E b \in Browsers : Enter(b) /\ Start(b)
  <2>1. PICK b \in Browsers : Start(b)
    BY <1>4
  <2>2. k # requests[b]
    <3>1. SUFFICES ASSUME k = requests[b] PROVE FALSE
      OBVIOUS
    <3>2. tasks'[k] = [state |-> "queued", result |-> NoResult, sequence |-> sequence + 1,
                       token |-> TokenOf[b]]
      BY <2>1, <3>1, StartIs
    <3>3. tasks'[k].sequence = sequence + 1
      BY <3>2
    <3>4. QED
      BY <1>1, <3>3
  <2>3. tasks'[k] = IF k \in ToCancel THEN [tasks[k] EXCEPT !.state = "cancelled"] ELSE tasks[k]
    BY <2>1, <2>2, StartIs
  <2>4. k \notin ToCancel
    BY <1>1 DEF ToCancel
  <2>5. QED
    BY <2>3, <2>4
<1>5. CASE \E r \in Runs : RunStep(r)
  <2>1. PICK r \in Runs : RunStep(r)
    BY <1>5
  <2>2. CASE tasks' = tasks
    BY <2>2
  <2>3. CASE tasks' # tasks
    <3>1. /\ Active(r) /\ Mine(r)
          /\ \/ Marked(r, "cancelled") \/ Marked(r, "failed")
             \/ runs[r].pc = "permit" /\ ~runs[r].flag /\ Marked(r, "running")
             \/ Settle(r)
      BY <2>1, <2>3 DEF RunStep, Begin, Unavailable, IndexReady, IndexFailed, WaitCancelled,
         Compute, Settle, EndAs, NotCancelled, Active
    <3>2. runs[r].of = k => runs[r].flag
      BY <1>1, <3>1, RunOnItsWay
    <3>3. CASE runs[r].of # k
      <4>1. tasks'[k] = tasks[k]
        BY <3>1, <3>3 DEF Marked, Settle
      <4>2. QED
        BY <4>1
    <3>4. CASE runs[r].of = k
      <4>1. CASE Marked(r, "cancelled") \/ Marked(r, "failed")
        BY <1>1, <3>4, <4>1 DEF Marked, RankingTask
      <4>2. CASE Settle(r)
        <5>1. Settled(r) = "cancelled"
          BY <3>2, <3>4 DEF Settled
        <5>2. tasks' = [tasks EXCEPT ![k].state = "cancelled", ![k].result = @]
          BY <3>1, <3>4, <4>2, <5>1 DEF Settle
        <5>3. tasks'[k] = [[tasks[k] EXCEPT !.state = "cancelled"] EXCEPT !.result = @]
          BY <5>2
        <5>4. tasks'[k].state = "cancelled"
          BY <1>1, <5>3 DEF RankingTask
        <5>5. QED
          BY <5>4
      <4>3. QED
        BY <3>1, <3>2, <3>4, <4>1, <4>2
    <3>5. QED
      BY <3>3, <3>4
  <2>4. QED
    BY <2>2, <2>3
<1>6. QED
  BY <1>2, <1>3, <1>4, <1>5 DEF RankingNext, VectorSteps, taskVars, Ask, Enter, Join

THEOREM CancelledStaysCancelled == RankingSpec => CancelledStays
<1> DEFINE Stays == \A k \in DOMAIN tasks \cap DOMAIN tasks' :
       tasks[k].state = "cancelled" /\ tasks'[k].sequence = tasks[k].sequence /\ Serving
         => tasks'[k].state \in {"cancelled", "failed"}
<1>1. RankingInv /\ [RankingNext]_rankingVars => [Stays]_rankingVars
  BY CancelledStep, VectorAssumption, RankingAssumption
<1>2. RankingSpec => [][Stays]_rankingVars
  BY <1>1, RankingInvariant, PTL DEF RankingSpec
<1>3. QED
  BY <1>2 DEF CancelledStays
=============================================================================
