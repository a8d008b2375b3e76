---------------------------- MODULE LinkingProofs ----------------------------
(***************************************************************************)
(* Proofs about the linking of messages to assets: ChatLinker and its      *)
(* composition with the popularity builder, for every set of assets,       *)
(* tables and messages, every number of versions of the chat database and  *)
(* every batch size; and LinkWorkers, for every log, every number of       *)
(* parsers and every size of a batch and of the cache.                     *)
(***************************************************************************)
EXTENDS MaintenancePipeline, LinkWorkers, FiniteSetTheorems, TLAPS

(***************************************************************************)
(* Bounded sets of rowids: max(rowid) and the smaller of two numbers.      *)
(***************************************************************************)

\* A bounded set of naturals has a least upper bound, and a non-empty one
\* attains it.
LEMMA BoundedSetHasMax ==
  ASSUME NEW n \in Nat, NEW S \in SUBSET (1 .. n), S # {}
  PROVE  \E m \in S : \A r \in S : m >= r
<1> DEFINE Up(m) == {r \in S : r >= m}
           T == {Up(m) : m \in S}
           R == StrictSubsetOrdering(S)
<1>1. IsFiniteSet(S)
  <2>1. IsFiniteSet(1 .. n)
    BY FS_Interval
  <2> QED BY <2>1, FS_Subset
<1>2. T \subseteq FiniteSubsetsOf(S)
  <2>1. \A m \in S : Up(m) \subseteq S /\ IsFiniteSet(Up(m))
    BY <1>1, FS_Subset
  <2> QED BY <2>1 DEF FiniteSubsetsOf
<1>3. PICK x \in T : \A y \in T : ~ (<<y, x>> \in R)
  <2> HIDE DEF R, T
  <2>1. IsWellFoundedOn(R, FiniteSubsetsOf(S))
    BY FS_StrictSubsetOrderingWellFounded DEF R
  <2>2. T # {}
    BY DEF T
  <2> QED BY <1>2, <2>1, <2>2, WFMin
<1>4. PICK m \in S : x = Up(m)
  OBVIOUS
<1>5. \A r \in S : m >= r
  <2> SUFFICES ASSUME NEW r \in S, r > m PROVE FALSE
    OBVIOUS
  <2>a. \A q \in S : q \in Nat
    OBVIOUS
  <2>b. m \in Up(m) /\ m \notin Up(r)
    BY <2>a
  <2>c. \A q \in Up(r) : q \in S /\ q >= m
    BY <2>a
  <2>1. Up(r) \subseteq Up(m) /\ Up(r) # Up(m)
    BY <2>b, <2>c
  <2>2. <<Up(r), Up(m)>> \in R
    BY <2>1 DEF StrictSubsetOrdering
  <2> QED BY <1>3, <1>4, <2>2
<1> QED BY <1>5

\* max(rowid) of a non-empty set of messages is one of them and the largest.
LEMMA MaxOfRowids ==
  ASSUME NEW S \in SUBSET Rowids, S # {}
  PROVE  Max(S) \in S /\ \A r \in S : r <= Max(S)
BY BoundedSetHasMax, ManifestAssumption DEF Rowids, Max

\* Min of a pair, as the linker uses it for take and for the skipped range.
LEMMA MinOfPair ==
  ASSUME NEW a \in Int, NEW b \in Int
  PROVE  Min({a, b}) = IF a <= b THEN a ELSE b
BY DEF Min

\* LastRowid is a bound of the messages of a table, and one of them if there
\* are any.
LEMMA LastRowidBound ==
  ASSUME NEW s \in Sources, NEW t \in Tables
  PROVE  /\ LastRowid(s, t) \in 0 .. MaxRowid
         /\ \A r \in RowsOf(s, t) : r <= LastRowid(s, t)
         /\ LastRowid(s, t) > 0 => LastRowid(s, t) \in RowsOf(s, t)
<1>1. RowsOf(s, t) \in SUBSET Rowids
  BY DEF RowsOf
<1>2. CASE RowsOf(s, t) = {}
  BY <1>2, ManifestAssumption DEF LastRowid
<1>3. CASE RowsOf(s, t) # {}
  <2>1. LastRowid(s, t) = Max(RowsOf(s, t))
    BY <1>3 DEF LastRowid
  <2> QED BY <1>1, <1>3, <2>1, MaxOfRowids DEF Rowids
<1> QED BY <1>2, <1>3

(***************************************************************************)
(* The inductive invariant.  It ties the run to the source it reads, what  *)
(* the run has committed so far to the occurrences, and each scan state to *)
(* what may be skipped when it is resumed.                                 *)
(***************************************************************************)
Opened == {"materialize", "table", "batch", "commit"}

\* source_identity is taken before the database is opened, and versions only
\* increase: a run whose identity is still the current one reads that version.
RunReadsSource ==
  /\ lk.pc \notin {"idle", "identity"} => lk.id <= source
  /\ lk.pc \in Opened => lk.id <= lk.chat /\ lk.chat <= source
  /\ lk.pc = "materialize" => lk.todo = TablesOf(lk.chat)
  /\ lk.pc \in {"table", "batch", "commit"} =>
       lk.todo \subseteq TablesOf(lk.chat) /\ \A t \in lk.todo : scan[t] # NoRow
  /\ lk.pc \in {"batch", "commit"} => lk.table \in TablesOf(lk.chat) /\ lk.table \notin lk.todo

\* No scan state is newer than the run that may rewrite it, and one of the
\* current source describes a table the source has.
StatesAreOld ==
  \A t \in Tables : scan[t] # NoRow =>
    /\ scan[t].id <= source
    /\ lk.pc \notin {"idle", "identity"} => scan[t].id <= lk.id
    /\ scan[t].id = source =>
         /\ t \in TablesOf(source)
         /\ scan[t].last <= LastRowid(source, t)
         /\ scan[t].completed => scan[t].last >= LastRowid(source, t)

\* The batch being resolved holds the next messages of the table.
BatchIsNext ==
  lk.pc = "commit" =>
    /\ lk.batch # {}
    /\ Cardinality(lk.batch) <= lk.remaining
    /\ \A r \in lk.batch : r > lk.last
    /\ lk.batch \subseteq RowsOf(lk.chat, lk.table)
    /\ \A q \in RowsOf(lk.chat, lk.table) :
         q > lk.last => q \in lk.batch \/ \A r \in lk.batch : r < q

PlainLinked(t) ==
  \A r \in RowsOf(source, t), a \in Assets :
    <<source, t, r, a>> \in Plain => occ[<<a, t, r>>] # Absent

LinkedUpTo(t, last) == \A r \in RowsOf(source, t) : r <= last => Linked(t, r)

\* What the run has committed of the table it scans; an mmp run relies on the
\* plain images an earlier scan linked.
RunIsSound ==
  lk.pc \in {"batch", "commit"} /\ lk.id = source /\ Readable(lk.table) =>
    LinkedUpTo(lk.table, lk.last) /\ (lk.mmp => PlainLinked(lk.table))

StatesAreSound ==
  \A t \in Tables : scan[t] # NoRow /\ scan[t].id = source /\ Readable(t) =>
    /\ scan[t].version = LINKER_VERSION => LinkedUpTo(t, scan[t].last)
    /\ scan[t].version = 1 \/ scan[t].mode = "mmp" => PlainLinked(t)

LinkerInv ==
  /\ LinkerTypeOK
  /\ RunReadsSource
  /\ StatesAreOld
  /\ BatchIsNext
  /\ RunIsSound
  /\ StatesAreSound

(***************************************************************************)
(* Steps that change nothing but the run.                                  *)
(***************************************************************************)
LEMMA RunOnlyStep ==
  ASSUME LinkerInv, UNCHANGED <<manifestVars, scan>>, lk' \in LinkerRun,
         RunReadsSource', BatchIsNext', RunIsSound',
         \A t \in Tables : scan[t] # NoRow /\ lk'.pc \notin {"idle", "identity"} =>
           scan[t].id <= lk'.id
  PROVE  LinkerInv'
<1> USE DEF LinkerInv, manifestVars
<1>1. LinkerTypeOK'
  BY DEF LinkerTypeOK, ManifestTypeOK
<1>2. StatesAreOld'
  BY DEF StatesAreOld
<1>3. StatesAreSound'
  BY DEF StatesAreSound, LinkedUpTo, Linked, PlainLinked, Readable
<1> QED BY <1>1, <1>2, <1>3

LEMMA IdleIsRun == LinkerIdle \in LinkerRun /\ LinkerIdle.pc = "idle"
BY ManifestAssumption DEF LinkerRun, LinkerIdle, LinkerPcs, Sources

LEMMA StartLinkStep == LinkerInv /\ StartLink => LinkerInv'
<1> SUFFICES ASSUME LinkerInv, StartLink PROVE LinkerInv'
  OBVIOUS
<1>1. PICK f \in Forces, n \in RowBudgets :
        lk' = [LinkerIdle EXCEPT !.pc = "identity", !.force = f, !.remaining = n]
  BY DEF StartLink
<1>2. f \in BOOLEAN /\ n \in Nat
  BY LinkerAssumption
<1>3. lk' \in LinkerRun /\ lk'.pc = "identity"
  <2> QED BY <1>1, <1>2, IdleIsRun DEF LinkerRun, LinkerPcs
<1> QED BY <1>3, RunOnlyStep DEF StartLink, RunReadsSource, BatchIsNext, RunIsSound, Opened

LEMMA ReadIdentityStep == LinkerInv /\ ReadIdentity => LinkerInv'
<1> SUFFICES ASSUME LinkerInv, ReadIdentity PROVE LinkerInv'
  OBVIOUS
<1>1. lk \in LinkerRun /\ source \in Sources
  BY DEF LinkerInv, LinkerTypeOK, ManifestTypeOK
<1>2. lk' \in LinkerRun /\ lk'.pc = "open" /\ lk'.id = source
  BY <1>1 DEF ReadIdentity, LinkerRun, LinkerPcs
<1>3. source' = source /\ source <= source
  BY <1>1 DEF ReadIdentity, manifestVars, Sources
<1>4. \A t \in Tables : scan[t] # NoRow => scan[t].id <= source
  BY DEF LinkerInv, StatesAreOld
<1> QED BY <1>2, <1>3, <1>4, RunOnlyStep
      DEF ReadIdentity, RunReadsSource, BatchIsNext, RunIsSound, Opened

LEMMA OpenChatStep == LinkerInv /\ OpenChat => LinkerInv'
<1> SUFFICES ASSUME LinkerInv, OpenChat PROVE LinkerInv'
  OBVIOUS
<1>1. lk \in LinkerRun /\ source \in Sources /\ source' = source /\ scan' = scan
  BY DEF LinkerInv, LinkerTypeOK, ManifestTypeOK, OpenChat, manifestVars
<1>2. /\ lk' \in LinkerRun /\ lk'.pc = "materialize" /\ lk'.id = lk.id
      /\ lk'.chat = source /\ lk'.todo = TablesOf(source)
  BY <1>1 DEF OpenChat, LinkerRun, LinkerPcs, TablesOf
<1>3. lk.id <= source /\ \A t \in Tables : scan[t] # NoRow => scan[t].id <= lk.id
  BY DEF LinkerInv, StatesAreOld, RunReadsSource, OpenChat
<1>4. RunReadsSource'
  BY <1>1, <1>2, <1>3 DEF RunReadsSource, Opened, Sources
<1> QED BY <1>1, <1>2, <1>3, <1>4, RunOnlyStep DEF OpenChat, BatchIsNext, RunIsSound

LEMMA FinishLinkStep == LinkerInv /\ lk' = LinkerIdle /\ UNCHANGED <<manifestVars, scan>> => LinkerInv'
<1> SUFFICES ASSUME LinkerInv, lk' = LinkerIdle, UNCHANGED <<manifestVars, scan>>
             PROVE  LinkerInv'
  OBVIOUS
<1>1. lk' \in LinkerRun /\ lk'.pc = "idle"
  BY IdleIsRun
<1> QED BY <1>1, RunOnlyStep DEF RunReadsSource, BatchIsNext, RunIsSound, Opened

LEMMA CancelLinkStep == LinkerInv /\ CancelLink => LinkerInv'
<1> SUFFICES ASSUME LinkerInv, CancelLink PROVE LinkerInv'
  OBVIOUS
<1>1. lk \in LinkerRun
  BY DEF LinkerInv, LinkerTypeOK
<1>2. /\ lk' \in LinkerRun
      /\ lk'.pc = lk.pc /\ lk'.id = lk.id /\ lk'.chat = lk.chat /\ lk'.todo = lk.todo
      /\ lk'.table = lk.table /\ lk'.mmp = lk.mmp /\ lk'.last = lk.last
      /\ lk'.batch = lk.batch /\ lk'.remaining = lk.remaining
  BY <1>1 DEF CancelLink, LinkerRun
<1>3. source' = source /\ occ' = occ /\ scan' = scan
  BY DEF CancelLink, manifestVars
<1>4. RunReadsSource' /\ BatchIsNext'
  BY <1>2, <1>3 DEF LinkerInv, RunReadsSource, BatchIsNext
<1>5. RunIsSound'
  BY <1>2, <1>3 DEF LinkerInv, RunIsSound, LinkedUpTo, Linked, PlainLinked, Readable
<1>6. \A t \in Tables : scan[t] # NoRow /\ lk'.pc \notin {"idle", "identity"} =>
        scan[t].id <= lk'.id
  BY <1>2 DEF LinkerInv, StatesAreOld
<1> QED BY <1>2, <1>4, <1>5, <1>6, RunOnlyStep DEF CancelLink

LEMMA EndTableStep == LinkerInv /\ EndTable => LinkerInv'
<1> SUFFICES ASSUME LinkerInv, EndTable PROVE LinkerInv'
  OBVIOUS
<1>1. lk \in LinkerRun
  BY DEF LinkerInv, LinkerTypeOK
<1>2. /\ lk' \in LinkerRun /\ lk'.pc = "table" /\ lk.pc = "batch"
      /\ lk'.id = lk.id /\ lk'.chat = lk.chat /\ lk'.todo = lk.todo
  <2>1. 0 \in 0 .. MaxRowid
    BY ManifestAssumption
  <2> QED BY <1>1, <2>1 DEF EndTable, LinkerRun, LinkerPcs
<1>3. source' = source /\ scan' = scan
  BY DEF EndTable, manifestVars
<1>4. RunReadsSource'
  BY <1>2, <1>3 DEF LinkerInv, RunReadsSource, Opened
<1>5. \A t \in Tables : scan[t] # NoRow /\ lk'.pc \notin {"idle", "identity"} =>
        scan[t].id <= lk'.id
  BY <1>2 DEF LinkerInv, StatesAreOld
<1> QED BY <1>2, <1>4, <1>5, RunOnlyStep DEF EndTable, BatchIsNext, RunIsSound

(***************************************************************************)
(* The batches.                                                            *)
(***************************************************************************)
LEMMA RowidSetsAreFinite ==
  ASSUME NEW b \in SUBSET Rowids
  PROVE  IsFiniteSet(b) /\ Cardinality(b) \in Nat
<1>1. IsFiniteSet(Rowids)
  BY FS_Interval, ManifestAssumption DEF Rowids
<1>2. IsFiniteSet(b)
  BY <1>1, FS_Subset
<1> QED BY <1>2, FS_CardinalityType

LEMMA TakeBound ==
  ASSUME LinkerInv, MoreToScan
  PROVE  Take \in Nat /\ Take >= 1 /\ Take <= lk.remaining
BY LinkerAssumption, MinOfPair DEF LinkerInv, LinkerTypeOK, LinkerRun, MoreToScan, Take

\* A batch is never empty: last_rowid is below max(rowid), so the query finds a
\* row (the code's early exit on an empty batch cannot happen).
LEMMA NextBatchProps ==
  ASSUME LinkerInv, MoreToScan, NEW b \in SUBSET Rowids, IsNextBatch(b)
  PROVE  /\ b # {}
         /\ Cardinality(b) \in Nat /\ Cardinality(b) <= lk.remaining
         /\ \A r \in b : r > lk.last
         /\ b \subseteq RowsOf(lk.chat, lk.table)
         /\ \A q \in RowsOf(lk.chat, lk.table) :
              q > lk.last => q \in b \/ \A r \in b : r < q
<1> DEFINE rest == {r \in RowsOf(lk.chat, lk.table) : r > lk.last}
<1>1. lk \in LinkerRun /\ lk.chat \in Sources /\ lk.table \in Tables /\ lk.last \in Nat
  BY ManifestAssumption
     DEF LinkerInv, LinkerTypeOK, LinkerRun, MoreToScan, RunReadsSource, TablesOf
<1>2. LastRowid(lk.chat, lk.table) \in RowsOf(lk.chat, lk.table)
  BY <1>1, LastRowidBound DEF MoreToScan
<1>3. LastRowid(lk.chat, lk.table) \in rest
  BY <1>2 DEF MoreToScan
<1>4. rest \in SUBSET Rowids
  BY DEF RowsOf
<1>5. IsFiniteSet(rest) /\ Cardinality(rest) \in Nat
  BY <1>4, RowidSetsAreFinite
<1>6. Cardinality(rest) # 0
  <2> HIDE DEF rest
  <2> QED BY <1>3, <1>5, FS_EmptySet
<1>7. Cardinality(b) = Min({Take, Cardinality(rest)}) /\ b \subseteq rest
      /\ \A r \in b, q \in rest \ b : r < q
  BY DEF IsNextBatch
<1>8. Cardinality(b) = IF Take <= Cardinality(rest) THEN Take ELSE Cardinality(rest)
  <2> HIDE DEF rest
  <2> QED BY <1>5, <1>7, TakeBound, MinOfPair
<1>9. Cardinality(b) \in Nat /\ Cardinality(b) # 0 /\ Cardinality(b) <= lk.remaining
  <2>1. lk.remaining \in Nat
    BY <1>1 DEF LinkerRun
  <2> HIDE DEF rest
  <2> QED BY <1>5, <1>6, <1>8, <2>1, TakeBound
<1>10. b # {}
  BY <1>9, FS_EmptySet
<1> QED BY <1>7, <1>9, <1>10

LEMMA ReadBatchStep == LinkerInv /\ ReadBatch => LinkerInv'
<1> SUFFICES ASSUME LinkerInv, ReadBatch PROVE LinkerInv'
  OBVIOUS
<1>1. PICK b \in SUBSET Rowids :
        IsNextBatch(b) /\ lk' = [lk EXCEPT !.pc = "commit", !.batch = b]
  BY DEF ReadBatch
<1>2. lk \in LinkerRun /\ lk.pc = "batch" /\ MoreToScan
  BY DEF LinkerInv, LinkerTypeOK, ReadBatch, MoreToScan
<1>3. /\ lk' \in LinkerRun /\ lk'.pc = "commit" /\ lk'.batch = b
      /\ lk'.id = lk.id /\ lk'.chat = lk.chat /\ lk'.todo = lk.todo
      /\ lk'.table = lk.table /\ lk'.mmp = lk.mmp /\ lk'.last = lk.last
      /\ lk'.remaining = lk.remaining
  BY <1>1, <1>2 DEF LinkerRun, LinkerPcs
<1>4. source' = source /\ occ' = occ /\ scan' = scan
  BY DEF ReadBatch, manifestVars
<1>5. RunReadsSource'
  BY <1>2, <1>3, <1>4 DEF LinkerInv, RunReadsSource, Opened
<1>6. BatchIsNext'
  BY <1>1, <1>2, <1>3, NextBatchProps DEF BatchIsNext
<1>7. RunIsSound'
  BY <1>2, <1>3, <1>4 DEF LinkerInv, RunIsSound, LinkedUpTo, Linked, PlainLinked, Readable
<1>8. \A t \in Tables : scan[t] # NoRow /\ lk'.pc \notin {"idle", "identity"} =>
        scan[t].id <= lk'.id
  BY <1>2, <1>3 DEF LinkerInv, StatesAreOld
<1> QED BY <1>3, <1>5, <1>6, <1>7, <1>8, RunOnlyStep DEF ReadBatch

(***************************************************************************)
(* A new version of the source: nothing recorded is about it yet.          *)
(***************************************************************************)
LEMMA ReplaceSourceStep ==
  LinkerInv /\ ReplaceSource /\ UNCHANGED <<scan, lk>> => LinkerInv'
<1> SUFFICES ASSUME LinkerInv, ReplaceSource, UNCHANGED <<scan, lk>> PROVE LinkerInv'
  OBVIOUS
<1>1. source \in Sources /\ source' \in Sources /\ source' = source + 1
  BY ManifestAssumption DEF LinkerInv, LinkerTypeOK, ManifestTypeOK, ReplaceSource, Sources
<1>2. LinkerTypeOK'
  BY <1>1 DEF LinkerInv, LinkerTypeOK, ManifestTypeOK, ReplaceSource
<1>3. \A t \in Tables : scan[t] # NoRow => scan[t].id \in Int /\ scan[t].id <= source
  BY DEF LinkerInv, StatesAreOld, LinkerTypeOK, ScanState, Sources
<1>4. lk.id \in Int /\ lk.chat \in Int /\ source \in Int
  BY <1>1 DEF LinkerInv, LinkerTypeOK, LinkerRun, Sources
<1>5. RunReadsSource'
  BY <1>1, <1>4 DEF LinkerInv, RunReadsSource, Opened
<1>6. StatesAreOld'
  BY <1>1, <1>3, <1>4 DEF LinkerInv, StatesAreOld
<1>7. BatchIsNext'
  BY DEF LinkerInv, BatchIsNext
<1>8. lk.pc \in {"batch", "commit"} => lk.id <= source
  BY DEF LinkerInv, RunReadsSource
<1>9. RunIsSound'
  BY <1>1, <1>4, <1>8 DEF RunIsSound
<1>10. StatesAreSound'
  BY <1>1, <1>3, <1>4 DEF StatesAreSound
<1> QED BY <1>2, <1>5, <1>6, <1>7, <1>9, <1>10 DEF LinkerInv

(***************************************************************************)
(* The transactions that move a checkpoint.                                *)
(***************************************************************************)
LEMMA InvalidatedType == Invalidated \in BuildRow
BY DEF Invalidated, BuildRow

\* While a table is scanned, the run's fields have their types and the table
\* is one of the version it reads.
LEMMA ScanningTypes ==
  ASSUME LinkerInv, lk.pc \in {"batch", "commit"}
  PROVE  /\ lk \in LinkerRun /\ lk.id \in Sources /\ lk.chat \in Sources
         /\ lk.table \in Tables /\ lk.table \in TablesOf(lk.chat)
         /\ lk.last \in Nat /\ lk.remaining \in Nat
         /\ lk.id <= lk.chat /\ lk.chat <= source /\ source \in Sources
         /\ lk.id = source => lk.chat = source
BY ManifestAssumption DEF LinkerInv, LinkerTypeOK, ManifestTypeOK, RunReadsSource,
  Opened, LinkerRun, Sources, TablesOf

LEMMA CheckpointType ==
  ASSUME LinkerInv, lk.pc \in {"batch", "commit"},
         NEW last \in 0 .. LastRowid(lk.chat, lk.table)
  PROVE  Checkpoint(last) \in ScanState /\ last \in 0 .. MaxRowid
BY ScanningTypes, LastRowidBound, ManifestAssumption DEF Checkpoint, ScanState,
  LINKER_VERSION

\* What a checkpoint of this run and table needs of StatesAreOld.
LEMMA CheckpointIsOld ==
  ASSUME LinkerInv, lk.pc \in {"batch", "commit"}, source' = source,
         NEW last \in 0 .. LastRowid(lk.chat, lk.table),
         scan' = [scan EXCEPT ![lk.table] = Checkpoint(last)],
         lk'.id = lk.id, lk'.pc = "batch"
  PROVE  StatesAreOld'
<1> SUFFICES ASSUME NEW t \in Tables, scan'[t] # NoRow
             PROVE  /\ scan'[t].id <= source
                    /\ scan'[t].id <= lk.id
                    /\ scan'[t].id = source =>
                         /\ t \in TablesOf(source)
                         /\ scan'[t].last <= LastRowid(source, t)
                         /\ scan'[t].completed => scan'[t].last >= LastRowid(source, t)
  BY DEF StatesAreOld
<1>1. scan \in [Tables -> ScanState \cup {NoRow}]
  BY DEF LinkerInv, LinkerTypeOK
<1>2. CASE t = lk.table
  <2>1. scan'[t] = Checkpoint(last)
    BY <1>1, <1>2
  <2>2. /\ scan'[t].id = lk.id /\ scan'[t].last = last
        /\ scan'[t].completed = (last >= LastRowid(lk.chat, lk.table))
    BY <2>1 DEF Checkpoint
  <2>3. last <= LastRowid(lk.chat, lk.table)
    OBVIOUS
  <2>4. lk.id <= source /\ lk.id <= lk.id
    BY ScanningTypes DEF Sources
  <2> QED BY <1>2, <2>2, <2>3, <2>4, ScanningTypes
<1>3. CASE t # lk.table
  <2>1. scan'[t] = scan[t]
    BY <1>1, <1>3
  <2> QED BY <2>1 DEF LinkerInv, StatesAreOld
<1> QED BY <1>2, <1>3

\* An unreadable batch is skipped within the table.
LEMMA SkippedRange ==
  ASSUME LinkerInv, SkipCorrupt
  PROVE  SkippedTo \in 0 .. LastRowid(lk.chat, lk.table)
<1> DEFINE max == LastRowid(lk.chat, lk.table)
<1>1. MoreToScan /\ lk.pc = "batch" /\ lk.last < max
  BY DEF SkipCorrupt, MoreToScan
<1>2. lk.last \in Nat /\ Take \in Nat /\ max \in 0 .. MaxRowid
  BY <1>1, ScanningTypes, TakeBound, LastRowidBound
<1>3. lk.last + Take \in Nat /\ max \in Nat
  BY <1>2, ManifestAssumption
<1>4. SkippedTo = Min({lk.last + Take, max})
  BY DEF SkippedTo
<1> HIDE DEF max
<1>5. SkippedTo = IF lk.last + Take <= max THEN lk.last + Take ELSE max
  BY <1>3, <1>4, MinOfPair
<1>6. SkippedTo \in 0 .. max
  BY <1>3, <1>5
<1> QED BY <1>6 DEF max

LEMMA SkippedIsUnreadable ==
  ASSUME LinkerInv, SkipCorrupt, lk.id = source
  PROVE  ~ Readable(lk.table)
<1>1. PICK b \in SUBSET Rowids : IsNextBatch(b) /\ IsCorrupt(b)
  BY DEF SkipCorrupt
<1>2. PICK r \in b : <<lk.chat, lk.table, r>> \in Corrupt
  BY <1>1 DEF IsCorrupt
<1>3. MoreToScan /\ lk.pc = "batch"
  BY DEF SkipCorrupt, MoreToScan
<1>4. r \in RowsOf(lk.chat, lk.table) /\ lk.chat = source
  BY <1>1, <1>2, <1>3, NextBatchProps, ScanningTypes
<1> QED BY <1>2, <1>4 DEF Readable

LEMMA SkipCorruptStep == LinkerInv /\ SkipCorrupt => LinkerInv'
<1> SUFFICES ASSUME LinkerInv, SkipCorrupt PROVE LinkerInv'
  OBVIOUS
<1> DEFINE max == LastRowid(lk.chat, lk.table)
           last == Min({lk.last + Take, max})
<1>1. MoreToScan /\ lk.pc = "batch" /\ lk.last < max
  BY DEF SkipCorrupt, MoreToScan
<1>2. /\ lk \in LinkerRun /\ lk.last \in Nat /\ lk.remaining \in Nat
      /\ Take \in Nat /\ Take <= lk.remaining /\ max \in 0 .. MaxRowid
  BY <1>1, ScanningTypes, TakeBound, LastRowidBound
<1>3. last \in 0 .. max
  BY SkippedRange DEF SkippedTo
<1>4. /\ scan' = [scan EXCEPT ![lk.table] = Checkpoint(last)]
      /\ lk' = [lk EXCEPT !.last = last, !.remaining = @ - Take]
  BY DEF SkipCorrupt, SkippedTo
<1>5. UNCHANGED <<source, occ, groups, cube, build, analysis>>
  BY DEF SkipCorrupt, manifestVars
<1>6. Checkpoint(last) \in ScanState /\ last \in 0 .. MaxRowid
  <2> HIDE DEF last
  <2> QED BY <1>1, <1>3, CheckpointType
<1> HIDE DEF last
<1>7. /\ lk' \in LinkerRun /\ lk'.pc = "batch" /\ lk'.id = lk.id /\ lk'.chat = lk.chat
      /\ lk'.todo = lk.todo /\ lk'.table = lk.table
  <2>1. lk.remaining - Take \in Nat
    BY <1>2
  <2> HIDE DEF max
  <2> QED BY <1>1, <1>2, <1>4, <1>6, <2>1 DEF LinkerRun
<1>8. scan \in [Tables -> ScanState \cup {NoRow}] /\ lk.table \in Tables
  BY <1>1, ScanningTypes DEF LinkerInv, LinkerTypeOK
<1>9. LinkerTypeOK'
  BY <1>4, <1>5, <1>6, <1>7, <1>8 DEF LinkerInv, LinkerTypeOK, ManifestTypeOK
<1>10. RunReadsSource'
  BY <1>1, <1>4, <1>8, <1>2, <1>5, <1>7 DEF LinkerInv, RunReadsSource, LinkerRun, Opened
<1>11. StatesAreOld'
  BY <1>1, <1>3, <1>4, <1>5, <1>7, CheckpointIsOld
<1>12. BatchIsNext'
  BY <1>7 DEF BatchIsNext
<1>13. lk.id = source => ~ Readable(lk.table)
  BY SkippedIsUnreadable
<1>14. RunIsSound'
  BY <1>5, <1>7, <1>13 DEF RunIsSound, Readable
<1>15. StatesAreSound'
  <2> SUFFICES ASSUME NEW t \in Tables, scan'[t] # NoRow, scan'[t].id = source, Readable(t)
               PROVE  /\ scan'[t].version = LINKER_VERSION => LinkedUpTo(t, scan'[t].last)
                      /\ scan'[t].version = 1 \/ scan'[t].mode = "mmp" => PlainLinked(t)
    BY <1>5 DEF StatesAreSound, LinkedUpTo, Linked, PlainLinked, Readable
  <2>1. CASE t = lk.table
    <3>1. scan'[t].id = lk.id
      BY <1>4, <1>8, <2>1 DEF Checkpoint
    <3> QED BY <1>13, <2>1, <3>1
  <2>2. CASE t # lk.table
    <3>1. scan'[t] = scan[t]
      BY <1>4, <1>8, <2>2
    <3> QED BY <3>1 DEF LinkerInv, StatesAreSound
  <2> QED BY <2>1, <2>2
<1> QED BY <1>9, <1>10, <1>11, <1>12, <1>14, <1>15 DEF LinkerInv

\* No row disappears, and whatever the messages of the batch show is linked
\* afterwards, if what an mmp run skips was linked before.
LEMMA CommittedRows ==
  ASSUME LinkerInv, CommitBatch, lk.id = source, Readable(lk.table)
  PROVE  \A r \in lk.batch : \A a \in References(source, lk.table, r) :
           occ'[<<a, lk.table, r>>] # Absent
<1> SUFFICES ASSUME NEW r \in lk.batch, NEW a \in References(source, lk.table, r)
             PROVE  occ'[<<a, lk.table, r>>] # Absent
  OBVIOUS
<1> DEFINE k == <<a, lk.table, r>>
<1>1. lk.pc = "commit" /\ lk.chat = source /\ lk.table \in Tables
  BY ScanningTypes DEF CommitBatch
<1>2. a \in Assets /\ r \in RowsOf(source, lk.table) /\ r \in Rowids
  BY <1>1 DEF References, RowsOf, LinkerInv, BatchIsNext
<1>3. k \in Keys
  BY <1>1, <1>2 DEF Keys
<1>4. occ'[k] = LinkedRow(k)
  BY <1>3 DEF CommitBatch
<1>5. CASE occ[k] # Absent
  <2>1. LinkedRow(k) = "local" \/ LinkedRow(k) = occ[k]
    BY <1>5 DEF LinkedRow
  <2> QED BY <1>4, <1>5, <2>1, NullAssumption DEF Facts
<1>6. CASE occ[k] = Absent
  <2>1. a \in Found(source, lk.table, r, lk.mmp)
    <3>1. CASE lk.mmp /\ ~ HasForwardNode(source, lk.table, r)
      BY <1>2, <3>1, <1>1, <1>6 DEF HasForwardNode, References, LinkerInv, RunIsSound,
        PlainLinked
    <3>2. CASE ~ (lk.mmp /\ ~ HasForwardNode(source, lk.table, r))
      BY <3>2 DEF Found
    <3> QED BY <3>1, <3>2
  <2>2. k[1] = a /\ k[2] = lk.table /\ k[3] = r
    OBVIOUS
  <2>3. LinkedRow(k) = "local"
    <3> HIDE DEF k
    <3> QED BY <1>1, <1>6, <2>1, <2>2 DEF LinkedRow
  <2> QED BY <1>4, <2>3, NullAssumption DEF Facts
<1> QED BY <1>5, <1>6

\* The last rowid of a batch is one of the table's.
LEMMA BatchLastRange ==
  ASSUME LinkerInv, CommitBatch
  PROVE  /\ BatchLast \in lk.batch /\ \A r \in lk.batch : r <= BatchLast
         /\ BatchLast \in 0 .. LastRowid(lk.chat, lk.table)
BY ScanningTypes, MaxOfRowids, LastRowidBound DEF CommitBatch, LinkerInv, BatchIsNext,
  LinkerRun, BatchLast, Rowids

LEMMA CommitBatchStep == LinkerInv /\ CommitBatch => LinkerInv'
<1> SUFFICES ASSUME LinkerInv, CommitBatch PROVE LinkerInv'
  OBVIOUS
<1> DEFINE last == BatchLast
<1>1. lk.pc = "commit"
  BY DEF CommitBatch
<1>2. /\ lk \in LinkerRun /\ lk.table \in Tables /\ lk.chat \in Sources
      /\ lk.batch \in SUBSET Rowids /\ lk.batch # {}
      /\ Cardinality(lk.batch) <= lk.remaining /\ lk.remaining \in Nat
  BY <1>1, ScanningTypes DEF LinkerInv, BatchIsNext, LinkerRun
<1>3. last \in lk.batch /\ \A r \in lk.batch : r <= last
  BY BatchLastRange
<1>4. last \in 0 .. LastRowid(lk.chat, lk.table)
  BY BatchLastRange
<1> HIDE DEF last
<1>5. /\ scan' = [scan EXCEPT ![lk.table] = Checkpoint(last)]
      /\ lk' = [lk EXCEPT !.pc = "batch", !.last = last, !.batch = {},
                          !.remaining = @ - Cardinality(lk.batch)]
      /\ occ' = [k \in Keys |-> LinkedRow(k)]
      /\ build' = IF occ' # occ \/ RefreshesFacts THEN Invalidated ELSE build
      /\ UNCHANGED <<source, groups, cube, analysis>>
  BY DEF CommitBatch, InvalidatedWhen, last
<1>6. Checkpoint(last) \in ScanState /\ last \in 0 .. MaxRowid
  BY <1>1, <1>4, CheckpointType
<1>7. /\ lk' \in LinkerRun /\ lk'.pc = "batch" /\ lk'.id = lk.id /\ lk'.chat = lk.chat
      /\ lk'.todo = lk.todo /\ lk'.table = lk.table /\ lk'.last = last
      /\ lk'.mmp = lk.mmp
  <2>1. lk.remaining - Cardinality(lk.batch) \in Nat
    BY <1>2, RowidSetsAreFinite
  <2> QED BY <1>2, <1>5, <1>6, <2>1 DEF LinkerRun, LinkerPcs
<1>8. occ \in [Keys -> Facts \cup {Absent}] /\ scan \in [Tables -> ScanState \cup {NoRow}]
  BY DEF LinkerInv, LinkerTypeOK, ManifestTypeOK
<1>9. \A k \in Keys : LinkedRow(k) \in Facts \cup {Absent}
  BY <1>8 DEF LinkedRow, Facts
<1>10. LinkerTypeOK'
  BY <1>5, <1>9, InvalidatedType, <1>6, <1>8, <1>7 DEF LinkerInv, LinkerTypeOK,
    ManifestTypeOK
<1>11. \A k \in Keys : occ[k] # Absent => occ'[k] # Absent
  BY <1>5, NullAssumption DEF LinkedRow, Facts
<1>12. RunReadsSource'
  BY <1>1, <1>2, <1>5, <1>8, <1>7 DEF LinkerInv, RunReadsSource, LinkerRun, Opened
<1>13. StatesAreOld'
  BY <1>1, <1>4, <1>5, <1>7, CheckpointIsOld
<1>14. BatchIsNext'
  BY <1>7 DEF BatchIsNext
<1>15. ASSUME NEW t \in Tables, PlainLinked(t) PROVE PlainLinked(t)'
  BY <1>5, <1>11, <1>15 DEF PlainLinked, Keys, RowsOf
<1>16. ASSUME NEW t \in Tables, NEW n, LinkedUpTo(t, n)
       PROVE  \A r \in RowsOf(source, t) : r <= n =>
                \A a \in References(source, t, r) : occ'[<<a, t, r>>] # Absent
  BY <1>11, <1>16 DEF LinkedUpTo, Linked, Keys, RowsOf, References
<1>17. ASSUME lk.id = source, Readable(lk.table)
       PROVE  \A r \in RowsOf(source, lk.table) : r <= last =>
                \A a \in References(source, lk.table, r) : occ'[<<a, lk.table, r>>] # Absent
  <2> SUFFICES ASSUME NEW r \in RowsOf(source, lk.table), r <= last
               PROVE  \A a \in References(source, lk.table, r) :
                        occ'[<<a, lk.table, r>>] # Absent
    OBVIOUS
  <2>0. LinkedUpTo(lk.table, lk.last) /\ lk.chat = source
    BY <1>1, <1>17, ScanningTypes DEF LinkerInv, RunIsSound
  <2>1. CASE r <= lk.last
    BY <1>2, <1>16, <2>0, <2>1
  <2>2. CASE r > lk.last
    BY <1>1, <2>0, <2>2, <1>6, <1>3, <1>17, CommittedRows DEF LinkerInv, BatchIsNext,
      RowsOf, Rowids
  <2>3. r \in Int /\ lk.last \in Int
    BY <1>1, ScanningTypes DEF RowsOf, Rowids
  <2> QED BY <2>1, <2>2, <2>3
<1>18. RunIsSound'
  <2>1. ASSUME lk.id = source, Readable(lk.table)
        PROVE  lk.mmp => PlainLinked(lk.table)'
    <3>1. lk.mmp => PlainLinked(lk.table)
      BY <1>1, <2>1 DEF LinkerInv, RunIsSound
    <3> QED BY <1>2, <1>5, <1>7, <1>15, <3>1 DEF PlainLinked
  <2> QED BY <1>5, <1>7, <1>17, <2>1
        DEF RunIsSound, Readable, LinkedUpTo, Linked, PlainLinked
<1>19. StatesAreSound'
  <2> SUFFICES ASSUME NEW t \in Tables, scan'[t] # NoRow, scan'[t].id = source, Readable(t)
               PROVE  /\ scan'[t].version = LINKER_VERSION =>
                           \A r \in RowsOf(source, t) : r <= scan'[t].last =>
                             \A a \in References(source, t, r) : occ'[<<a, t, r>>] # Absent
                      /\ scan'[t].version = 1 \/ scan'[t].mode = "mmp" => PlainLinked(t)'
    BY <1>5 DEF StatesAreSound, LinkedUpTo, Linked, Readable
  <2>1. CASE t = lk.table
    BY <1>5, <1>8, <2>1, <1>1, <1>15, <1>17 DEF Checkpoint, LINKER_VERSION, LinkerInv,
      RunIsSound
  <2>2. CASE t # lk.table
    <3>1. scan'[t] = scan[t]
      BY <1>5, <1>8, <2>2
    <3> QED BY <1>15, <1>16, <3>1 DEF LinkerInv, StatesAreSound
  <2> QED BY <2>1, <2>2
<1> QED BY <1>10, <1>12, <1>13, <1>14, <1>18, <1>19 DEF LinkerInv

(***************************************************************************)
(* Registering the tables of the source and starting one of them.          *)
(***************************************************************************)
LEMMA MaterializeScanStatesStep == LinkerInv /\ MaterializeScanStates => LinkerInv'
<1> SUFFICES ASSUME LinkerInv, MaterializeScanStates PROVE LinkerInv'
  OBVIOUS
<1> DEFINE vanished == {t \in Tables \ lk.todo : scan[t] # NoRow}
<1>1. /\ lk.pc = "materialize" /\ lk.todo = TablesOf(lk.chat)
      /\ lk \in LinkerRun /\ lk.id \in Sources /\ lk.chat \in Sources
      /\ source \in Sources /\ lk.id <= lk.chat /\ lk.chat <= source
      /\ lk.id <= source /\ (lk.id = source => lk.chat = source)
  BY DEF MaterializeScanStates, LinkerInv, LinkerTypeOK, ManifestTypeOK, RunReadsSource,
         Opened, LinkerRun, Sources
<1>2. /\ occ' = [k \in Keys |-> IF k[2] \in vanished THEN Absent ELSE occ[k]]
      /\ cube' = {c \in cube : c[2] \notin vanished}
      /\ analysis' = [t \in Tables |-> IF t \in vanished THEN NoRow ELSE analysis[t]]
      /\ build' = IF occ' # occ \/ cube' # cube THEN Invalidated ELSE build
      /\ scan' = [t \in Tables |-> IF t \in lk.todo THEN MaterializedState(t) ELSE NoRow]
      /\ lk' = [lk EXCEPT !.pc = "table"]
      /\ UNCHANGED <<source, groups>>
  BY DEF MaterializeScanStates, InvalidatedWhen
<1>3. /\ lk' \in LinkerRun /\ lk'.pc = "table" /\ lk'.id = lk.id /\ lk'.chat = lk.chat
      /\ lk'.todo = lk.todo
  BY <1>1, <1>2 DEF LinkerRun, LinkerPcs
<1>4. scan \in [Tables -> ScanState \cup {NoRow}] /\ occ \in [Keys -> Facts \cup {Absent}]
  BY DEF LinkerInv, LinkerTypeOK, ManifestTypeOK
<1>5. ASSUME NEW t \in Tables, t \in lk.todo
      PROVE  /\ MaterializedState(t) \in ScanState
             /\ \/ /\ scan[t] = NoRow \/ scan[t].id = lk.id
                   /\ MaterializedState(t).id = lk.id
                   /\ MaterializedState(t).completed =>
                        MaterializedState(t).last >= LastRowid(lk.chat, t)
                   /\ scan[t] = NoRow =>
                        /\ MaterializedState(t).last = 0
                        /\ MaterializedState(t).version = 2
                        /\ MaterializedState(t).mode = "full"
                   /\ scan[t] # NoRow =>
                        /\ MaterializedState(t).last = scan[t].last
                        /\ MaterializedState(t).version = scan[t].version
                        /\ MaterializedState(t).mode = scan[t].mode
                \/ scan[t] # NoRow /\ MaterializedState(t) = scan[t] /\ scan[t].id # lk.id
  <2>1. LastRowid(lk.chat, t) \in 0 .. MaxRowid /\ 0 \in 0 .. MaxRowid
    BY <1>1, LastRowidBound, ManifestAssumption
  <2>2. CASE scan[t] = NoRow
    <3> DEFINE max == LastRowid(lk.chat, t)
               b == (max = 0)
    <3>1. MaterializedState(t) =
            [id |-> lk.id, last |-> 0, max |-> max, completed |-> b, version |-> 2,
             mode |-> "full"]
      BY <2>2 DEF MaterializedState, LINKER_VERSION
    <3>2. b \in BOOLEAN /\ (b => 0 >= max)
      OBVIOUS
    <3>3. max \in 0 .. MaxRowid
      BY <2>1
    <3> HIDE DEF max, b
    <3>4. MaterializedState(t) \in ScanState
      BY <1>1, <2>1, <3>1, <3>2, <3>3 DEF ScanState, LINKER_VERSION
    <3>5. /\ MaterializedState(t).id = lk.id /\ MaterializedState(t).completed = b
          /\ MaterializedState(t).last = 0 /\ MaterializedState(t).version = 2
          /\ MaterializedState(t).mode = "full"
      BY <3>1
    <3> QED BY <2>2, <3>2, <3>4, <3>5 DEF max
  <2>3. CASE scan[t] # NoRow /\ scan[t].id = lk.id
    <3>1. scan[t] \in ScanState
      BY <1>4, <2>3
    <3> DEFINE max == LastRowid(lk.chat, t)
               b == (scan[t].last >= max)
    <3>2. MaterializedState(t) = [scan[t] EXCEPT !.max = max, !.completed = b]
      BY <2>3 DEF MaterializedState
    <3>3. b \in BOOLEAN /\ max \in 0 .. MaxRowid
      BY <2>1
    <3>4. b => scan[t].last >= max
      OBVIOUS
    <3> HIDE DEF max, b
    <3>5. MaterializedState(t) \in ScanState
      BY <3>1, <3>2, <3>3 DEF ScanState
    <3>6. /\ MaterializedState(t).id = scan[t].id /\ MaterializedState(t).completed = b
          /\ MaterializedState(t).last = scan[t].last
          /\ MaterializedState(t).version = scan[t].version
          /\ MaterializedState(t).mode = scan[t].mode
      BY <3>1, <3>2 DEF ScanState
    <3> QED BY <2>3, <3>4, <3>5, <3>6 DEF max
  <2>4. CASE scan[t] # NoRow /\ scan[t].id # lk.id
    BY <1>4, <2>4 DEF MaterializedState
  <2> QED BY <2>2, <2>3, <2>4
<1>6. \A k \in Keys : occ'[k] = IF k[2] \in vanished THEN Absent ELSE occ[k]
  BY <1>2
<1> HIDE DEF vanished
<1>7. LinkerTypeOK'
  BY <1>2, <1>4, InvalidatedType, <1>5, <1>3 DEF LinkerInv, LinkerTypeOK, ManifestTypeOK
<1>8. RunReadsSource'
  <2>1. \A t \in lk.todo : scan'[t] # NoRow
    BY <1>1, <1>2, <1>5, ScanNullAssumption DEF TablesOf
  <2> QED BY <1>1, <1>2, <1>3, <2>1 DEF RunReadsSource, Opened
<1>9. StatesAreOld'
  <2> SUFFICES ASSUME NEW t \in Tables, scan'[t] # NoRow
               PROVE  /\ scan'[t].id <= source
                      /\ scan'[t].id <= lk.id
                      /\ scan'[t].id = source =>
                           /\ t \in TablesOf(source)
                           /\ scan'[t].last <= LastRowid(source, t)
                           /\ scan'[t].completed => scan'[t].last >= LastRowid(source, t)
    BY <1>2, <1>3 DEF StatesAreOld
  <2>1. t \in lk.todo /\ scan'[t] = MaterializedState(t)
    BY <1>2
  <2>2. LastRowid(source, t) >= 0
    BY <1>1, LastRowidBound, ManifestAssumption
  <2>3. scan[t] # NoRow =>
          /\ scan[t].id <= source /\ scan[t].id <= lk.id
          /\ scan[t].id = source =>
               /\ scan[t].last <= LastRowid(source, t)
               /\ scan[t].completed => scan[t].last >= LastRowid(source, t)
    BY <1>1 DEF LinkerInv, StatesAreOld
  <2>4. lk.id <= lk.id
    BY <1>1 DEF Sources
  <2>5. scan'[t].id = source => lk.id = source
    BY <1>1, <1>4, <1>5, <2>1, <2>3 DEF Sources, ScanState
  <2> QED BY <1>1, <1>5, <2>1, <2>2, <2>3, <2>4, <2>5
<1>10. BatchIsNext' /\ RunIsSound'
  BY <1>3 DEF BatchIsNext, RunIsSound
<1>11. StatesAreSound'
  <2> SUFFICES ASSUME NEW t \in Tables, scan'[t] # NoRow, scan'[t].id = source, Readable(t)
               PROVE  /\ scan'[t].version = LINKER_VERSION =>
                           \A r \in RowsOf(source, t) : r <= scan'[t].last =>
                             \A a \in References(source, t, r) : occ'[<<a, t, r>>] # Absent
                      /\ scan'[t].version = 1 \/ scan'[t].mode = "mmp" =>
                           \A r \in RowsOf(source, t), a \in Assets :
                             <<source, t, r, a>> \in Plain => occ'[<<a, t, r>>] # Absent
    BY <1>2 DEF StatesAreSound, LinkedUpTo, Linked, Readable, PlainLinked
  <2>1. t \in lk.todo /\ scan'[t] = MaterializedState(t)
    BY <1>2
  <2>2. \A r \in RowsOf(source, t), a \in Assets : occ'[<<a, t, r>>] = occ[<<a, t, r>>]
    <3>1. t \notin vanished
      BY <2>1 DEF vanished
    <3> QED BY <1>6, <3>1 DEF Keys, RowsOf
  <2>3. CASE scan[t] = NoRow
    BY <1>5, <2>1, <2>3 DEF RowsOf, Rowids
  <2>4. CASE scan[t] # NoRow
    BY <1>5, <2>1, <2>4, <2>2 DEF LinkerInv, StatesAreSound, LinkedUpTo, Linked,
      PlainLinked, References
  <2> QED BY <2>3, <2>4
<1> QED BY <1>7, <1>8, <1>9, <1>10, <1>11 DEF LinkerInv

LEMMA BeginTableStep == LinkerInv /\ BeginTable => LinkerInv'
<1> SUFFICES ASSUME LinkerInv, BeginTable PROVE LinkerInv'
  OBVIOUS
<1>0. PICK t \in lk.todo :
        LET restart == MustRebuild(t) \/ Upgrade(t)
        IN  /\ occ' = [k \in Keys |-> IF MustRebuild(t) /\ k[2] = t THEN Absent ELSE occ[k]]
            /\ build' = InvalidatedWhen(occ' # occ)
            /\ scan' = [scan EXCEPT ![t] = IF restart THEN NoRow ELSE @]
            /\ lk' = [lk EXCEPT !.pc = "batch", !.table = t, !.todo = @ \ {t},
                                !.mmp = MmpOnly(t),
                                !.last = IF restart THEN 0 ELSE scan[t].last]
  BY DEF BeginTable
<1> DEFINE rebuilt == MustRebuild(t)
           upgrade == Upgrade(t)
           mmp == MmpOnly(t)
           start == IF rebuilt \/ upgrade THEN 0 ELSE scan[t].last
<1>1. /\ lk.pc = "table" /\ lk \in LinkerRun /\ lk.id \in Sources /\ lk.chat \in Sources
      /\ t \in TablesOf(lk.chat) /\ t \in Tables /\ scan[t] # NoRow /\ source \in Sources
      /\ lk.todo \subseteq TablesOf(lk.chat)
      /\ lk.id <= lk.chat /\ lk.chat <= source /\ lk.id <= source
      /\ (lk.id = source => lk.chat = source)
  BY DEF BeginTable, LinkerInv, LinkerTypeOK, ManifestTypeOK, RunReadsSource,
         Opened, LinkerRun, Sources
<1>2. scan[t] \in ScanState /\ scan \in [Tables -> ScanState \cup {NoRow}]
      /\ occ \in [Keys -> Facts \cup {Absent}]
  BY <1>1 DEF LinkerInv, LinkerTypeOK, ManifestTypeOK
<1>3. start \in 0 .. MaxRowid /\ mmp \in BOOLEAN
  BY ManifestAssumption, <1>2 DEF ScanState, MmpOnly
<1>4. /\ lk' = [lk EXCEPT !.pc = "batch", !.table = t, !.todo = @ \ {t},
                          !.mmp = mmp, !.last = start]
      /\ occ' = [k \in Keys |-> IF rebuilt /\ k[2] = t THEN Absent ELSE occ[k]]
      /\ build' = IF occ' # occ THEN Invalidated ELSE build
      /\ scan' = [scan EXCEPT ![t] = IF rebuilt \/ upgrade THEN NoRow ELSE @]
      /\ UNCHANGED <<source, groups, cube, analysis>>
  BY <1>0 DEF BeginTable, InvalidatedWhen
<1>5. /\ ~rebuilt => scan[t].id = lk.id
      /\ ~rebuilt /\ ~upgrade => scan[t].version = 2
      /\ upgrade => scan[t].version = 1
  BY <1>2 DEF MustRebuild, Upgrade, LINKER_VERSION, ScanState
<1> HIDE DEF rebuilt, upgrade, mmp, start
<1>6. /\ lk' \in LinkerRun /\ lk'.pc = "batch" /\ lk'.id = lk.id /\ lk'.chat = lk.chat
      /\ lk'.todo = lk.todo \ {t} /\ lk'.table = t /\ lk'.mmp = mmp /\ lk'.last = start
  BY <1>1, <1>3, <1>4 DEF LinkerRun, LinkerPcs
<1>7. \A s \in Tables : s # t => scan'[s] = scan[s]
  BY <1>2, <1>4
<1>8. scan'[t] # NoRow => scan'[t] = scan[t] /\ ~rebuilt /\ ~upgrade
  BY <1>1, <1>2, <1>4
<1>9. \A s \in Tables, r \in Rowids, a \in Assets :
        s # t \/ ~rebuilt => occ'[<<a, s, r>>] = occ[<<a, s, r>>]
  BY <1>4 DEF Keys
<1>10. LinkerTypeOK'
  BY <1>2, <1>4, InvalidatedType, <1>6 DEF LinkerInv, LinkerTypeOK, ManifestTypeOK
<1>11. RunReadsSource'
  BY <1>1, <1>6, <1>7, <1>4 DEF LinkerInv, RunReadsSource, TablesOf, Opened
<1>12. StatesAreOld'
  <2>1. \A s \in Tables : scan'[s] # NoRow => scan'[s] = scan[s]
    BY <1>7, <1>8
  <2> QED BY <1>1, <1>4, <1>6, <2>1 DEF LinkerInv, StatesAreOld
<1>13. BatchIsNext'
  BY <1>6 DEF BatchIsNext
<1>14. RunIsSound'
  <2> SUFFICES ASSUME lk.id = source, Readable(t)
               PROVE  /\ \A r \in RowsOf(source, t) : r <= start =>
                           \A a \in References(source, t, r) : occ'[<<a, t, r>>] # Absent
                      /\ mmp => \A r \in RowsOf(source, t), a \in Assets :
                           <<source, t, r, a>> \in Plain => occ'[<<a, t, r>>] # Absent
    BY <1>4, <1>6 DEF RunIsSound, Readable, LinkedUpTo, Linked, PlainLinked
  <2>1. CASE rebuilt
    BY <2>1 DEF start, mmp, rebuilt, MmpOnly, RowsOf, Rowids
  <2>2. CASE ~rebuilt
    <3>1. /\ scan[t].version = LINKER_VERSION => LinkedUpTo(t, scan[t].last)
          /\ scan[t].version = 1 \/ scan[t].mode = "mmp" => PlainLinked(t)
      BY <1>1, <1>5, <2>2 DEF LinkerInv, StatesAreSound
    <3>2. \A r \in RowsOf(source, t), a \in Assets : occ'[<<a, t, r>>] = occ[<<a, t, r>>]
      BY <1>1, <1>9, <2>2 DEF RowsOf
    <3>3. mmp => PlainLinked(t)
      BY <1>5, <3>1 DEF mmp, upgrade, MmpOnly
    <3>4. \A r \in RowsOf(source, t) : r <= start => Linked(t, r)
      <4>1. CASE upgrade
        <5>1. start = 0
          BY <4>1 DEF start
        <5> QED BY <5>1 DEF RowsOf, Rowids
      <4>2. CASE ~upgrade
        BY <1>5, <2>2, <3>1, <4>2 DEF start, LINKER_VERSION, LinkedUpTo
      <4> QED BY <4>1, <4>2
    <3> QED BY <3>2, <3>3, <3>4 DEF Linked, PlainLinked, References
  <2> QED BY <2>1, <2>2
<1>15. StatesAreSound'
  <2> SUFFICES ASSUME NEW s \in Tables, scan'[s] # NoRow, scan'[s].id = source, Readable(s)
               PROVE  /\ scan'[s].version = LINKER_VERSION =>
                           \A r \in RowsOf(source, s) : r <= scan'[s].last =>
                             \A a \in References(source, s, r) : occ'[<<a, s, r>>] # Absent
                      /\ scan'[s].version = 1 \/ scan'[s].mode = "mmp" =>
                           \A r \in RowsOf(source, s), a \in Assets :
                             <<source, s, r, a>> \in Plain => occ'[<<a, s, r>>] # Absent
    BY <1>4 DEF StatesAreSound, LinkedUpTo, Linked, Readable, PlainLinked
  <2>1. scan'[s] = scan[s] /\ (s # t \/ ~rebuilt)
    BY <1>7, <1>8
  <2>2. \A r \in RowsOf(source, s), a \in Assets : occ'[<<a, s, r>>] = occ[<<a, s, r>>]
    BY <1>9, <2>1 DEF RowsOf
  <2> QED BY <2>1, <2>2
        DEF LinkerInv, StatesAreSound, LinkedUpTo, Linked, PlainLinked, References
<1> QED BY <1>10, <1>11, <1>12, <1>13, <1>14, <1>15 DEF LinkerInv

(***************************************************************************)
(* The initial manifest.                                                   *)
(***************************************************************************)
LEMMA KeySetsAreFinite ==
  ASSUME NEW S, S \subseteq Keys
  PROVE  Cardinality(S) \in Nat
<1> DEFINE Pairs == (Assets \X Tables) \X Rowids
           f == [p \in Pairs |-> <<p[1][1], p[1][2], p[2]>>]
<1>1. IsFiniteSet(Rowids) /\ IsFiniteSet(Assets) /\ IsFiniteSet(Tables)
  BY RowidSetsAreFinite, ManifestAssumption
<1>2. IsFiniteSet(Assets \X Tables)
  BY <1>1, FS_Product
<1>3. IsFiniteSet(Pairs)
  BY <1>1, <1>2, FS_Product
<1>4. f \in Surjection(Pairs, Keys)
  <2>1. f \in [Pairs -> Keys]
    BY DEF Keys
  <2>2. ASSUME NEW k \in Keys PROVE \E p \in Pairs : f[p] = k
    <3>1. <<<<k[1], k[2]>>, k[3]>> \in Pairs
      BY DEF Keys
    <3>2. f[<<<<k[1], k[2]>>, k[3]>>] = k
      BY <3>1 DEF Keys
    <3> QED BY <3>1, <3>2
  <2> QED BY <2>1, <2>2 DEF Surjection
<1>5. IsFiniteSet(Keys)
  <2> HIDE DEF f, Pairs
  <2> QED BY <1>3, <1>4, FS_Surjection
<1>6. IsFiniteSet(S)
  BY <1>5, FS_Subset
<1> QED BY <1>6, FS_CardinalityType

LEMMA LegacyStateType ==
  ASSUME NEW t \in Tables, NEW last \in 0 .. MaxRowid
  PROVE  LegacyState(t, last) \in ScanState
BY ManifestAssumption, LastRowidBound DEF Sources, LegacyState, ScanState,
  LINKER_VERSION

LEMMA InitType == LinkerInit => LinkerTypeOK
<1> SUFFICES ASSUME LinkerInit PROVE LinkerTypeOK
  OBVIOUS
<1>0. PICK legacy \in {"none", LegacyScan} :
        \E u \in ScannedUpTo(legacy), d \in {"none", "utc"} : LinkedBefore(legacy, u, d)
  BY DEF LinkerInit
<1>1. PICK u \in ScannedUpTo(legacy), d \in {"none", "utc"} : LinkedBefore(legacy, u, d)
  BY <1>0
<1>2. source \in Sources /\ 1 \in Sources
  BY ManifestAssumption DEF LinkerInit, Sources
<1>3. occ \in [Keys -> Facts \cup {Absent}]
  BY <1>1 DEF LinkedBefore, Facts
<1>4. groups \in Representatives /\ groups \in [Assets -> Assets]
  BY DEF LinkerInit, Representatives
<1>5. CubeOf(occ, groups) \subseteq Assets \X Tables \X Rowids \X Dated
  BY <1>4 DEF WithTime, Present, Keys, CubeOf
<1>6. Cardinality(Present(occ)) \in Nat
  BY KeySetsAreFinite DEF Present
<1>7. build \in BuildRow \cup {NoRow} /\ cube \subseteq Assets \X Tables \X Rowids \X Dated
  <2>1. CASE d = "none"
    BY <1>1, <2>1 DEF LinkedBefore
  <2>2. CASE d # "none"
    <3>1. cube \subseteq Assets \X Tables \X Rowids \X Dated
      BY <1>1, <1>5, <2>2 DEF LinkedBefore
    <3>2. build = [schema |-> 3, ready |-> TRUE, occurrences |-> Cardinality(Present(occ)),
                   facts |-> Cardinality(Present(occ))]
      BY <1>1, <2>2 DEF LinkedBefore
    <3>3. build \in BuildRow
      BY <1>6, <3>2 DEF BuildRow
    <3> QED BY <3>1, <3>3
  <2> QED BY <2>1, <2>2
<1>8. ASSUME NEW t \in Tables, t \in TablesOf(1) PROVE LegacyState(t, u[t]) \in ScanState
  BY LegacyStateType DEF ScannedUpTo
<1>9. scan \in [Tables -> ScanState \cup {NoRow}]
  BY <1>1, <1>8 DEF LinkedBefore
<1>10. analysis \in [Tables -> AnalysisRow \cup {NoRow}] /\ lk \in LinkerRun
  BY IdleIsRun DEF LinkerInit
<1> QED BY <1>2, <1>3, <1>4, <1>7, <1>9, <1>10 DEF LinkerTypeOK, ManifestTypeOK

\* A release that never reached the end of a table leaves states that the
\* upgrade takes for more than they are; every other manifest is sound.
LEMMA InitInv == LegacyScan # "partial" /\ LinkerInit => LinkerInv
<1> SUFFICES ASSUME LegacyScan # "partial", LinkerInit PROVE LinkerInv
  OBVIOUS
<1>1. LinkerTypeOK
  BY InitType
<1>2. source = 1 /\ lk.pc = "idle" /\ 1 \in Sources
  BY IdleIsRun, ManifestAssumption DEF LinkerInit, Sources
<1>0. PICK legacy \in {"none", LegacyScan} :
        \E u \in ScannedUpTo(legacy), d \in {"none", "utc"} : LinkedBefore(legacy, u, d)
  BY DEF LinkerInit
<1>3. PICK u \in ScannedUpTo(legacy), d \in {"none", "utc"} : LinkedBefore(legacy, u, d)
  BY <1>0
<1>4. ASSUME NEW t \in Tables, scan[t] # NoRow
      PROVE  /\ t \in TablesOf(1) /\ scan[t].id = 1 /\ scan[t].version = 1
             /\ scan[t].last = u[t] /\ u[t] = LastRowid(1, t)
  BY <1>3, <1>4, LinkerAssumption DEF LinkedBefore, LegacyState, ScannedUpTo
<1>5. RunReadsSource /\ BatchIsNext /\ RunIsSound
  BY <1>2 DEF RunReadsSource, BatchIsNext, RunIsSound, Opened
<1>6. StatesAreOld
  BY <1>2, LastRowidBound, ManifestAssumption, <1>4 DEF StatesAreOld
<1>7. StatesAreSound
  <2> SUFFICES ASSUME NEW t \in Tables, scan[t] # NoRow, Readable(t) PROVE PlainLinked(t)
    BY <1>4 DEF StatesAreSound, LINKER_VERSION
  <2> SUFFICES ASSUME NEW r \in RowsOf(1, t), NEW a \in Assets, <<1, t, r, a>> \in Plain
               PROVE  occ[<<a, t, r>>] # Absent
    BY <1>2 DEF PlainLinked
  <2>1. r <= u[t] /\ <<1, t, r>> \notin Corrupt
    BY <1>2, <1>4, LastRowidBound DEF Readable
  <2>2. <<a, t, r>> \in Keys
    BY DEF Keys, RowsOf
  <2>3. occ[<<a, t, r>>] = d
    BY <1>3, <2>1, <2>2 DEF LinkedBefore
  <2> QED BY <2>3, NullAssumption DEF Facts
<1> QED BY <1>1, <1>5, <1>6, <1>7 DEF LinkerInv

(***************************************************************************)
(* The theorems.                                                           *)
(***************************************************************************)
LEMMA NextPreservesInv == LinkerInv /\ [LinkerNext]_linkerVars => LinkerInv'
<1> SUFFICES ASSUME LinkerInv, [LinkerNext]_linkerVars PROVE LinkerInv'
  OBVIOUS
<1>1. CASE StartLink
  BY <1>1, StartLinkStep
<1>2. CASE ReadIdentity
  BY <1>2, ReadIdentityStep
<1>3. CASE OpenChat
  BY <1>3, OpenChatStep
<1>4. CASE MaterializeScanStates
  BY <1>4, MaterializeScanStatesStep
<1>5. CASE BeginTable
  BY <1>5, BeginTableStep
<1>6. CASE ReadBatch
  BY <1>6, ReadBatchStep
<1>7. CASE SkipCorrupt
  BY <1>7, SkipCorruptStep
<1>8. CASE CommitBatch
  BY <1>8, CommitBatchStep
<1>9. CASE EndTable
  BY <1>9, EndTableStep
<1>10. CASE FinishLink
  BY <1>10, FinishLinkStep DEF FinishLink
<1>11. CASE CancelLink
  BY <1>11, CancelLinkStep
<1>12. CASE AbortLink
  BY <1>12, FinishLinkStep DEF AbortLink
<1>13. CASE ReplaceSource /\ UNCHANGED <<scan, lk>>
  BY <1>13, ReplaceSourceStep
<1>14. CASE UNCHANGED linkerVars
  BY <1>14 DEF linkerVars, LinkerInv, LinkerTypeOK, ManifestTypeOK, RunReadsSource,
       StatesAreOld, BatchIsNext, RunIsSound, StatesAreSound, LinkedUpTo, Linked,
       PlainLinked, Readable
<1> QED BY <1>1, <1>2, <1>3, <1>4, <1>5, <1>6, <1>7, <1>8, <1>9, <1>10, <1>11, <1>12,
           <1>13, <1>14 DEF LinkerNext, LinkerStep

\* The inductive invariant holds from an empty manifest and from one whose
\* tables an earlier release scanned to their end.
THEOREM LinkerInvariant ==
  ASSUME LegacyScan # "partial"
  PROVE  LinkerSpec => []LinkerInv
<1>1. LinkerInit => LinkerInv
  BY InitInv
<1> QED BY <1>1, NextPreservesInv, PTL DEF LinkerSpec

(***************************************************************************)
(* Type correctness: among the rest, a run never commits more rows than    *)
(* its budget (remaining stays a natural number) and a checkpoint never    *)
(* passes the largest rowid.                                               *)
(***************************************************************************)
THEOREM LinkerTypeCorrect ==
  ASSUME LegacyScan # "partial"
  PROVE  LinkerSpec => []LinkerTypeOK
<1>1. LinkerInv => LinkerTypeOK
  BY DEF LinkerInv
<1> QED BY <1>1, LinkerInvariant, PTL

(***************************************************************************)
(* A checkpoint never runs ahead of the occurrences it accounts for: a     *)
(* message at or below last_rowid is not scanned again, so it must have    *)
(* all its occurrences.                                                    *)
(***************************************************************************)
THEOREM CheckpointsAreSound ==
  ASSUME LegacyScan # "partial"
  PROVE  LinkerSpec => []CheckpointSound
<1>1. LinkerInv => CheckpointSound
  BY DEF LinkerInv, StatesAreSound, CheckpointSound, Scanned, LinkedUpTo
<1> QED BY <1>1, LinkerInvariant, PTL

LEMMA InvLinksCompleted == LinkerInv => CompletedTablesAreLinked
<1> SUFFICES ASSUME LinkerInv, NEW t \in Tables, Scanned(t), Readable(t), scan[t].completed,
                    NEW r \in RowsOf(source, t)
             PROVE  Linked(t, r)
  BY DEF CompletedTablesAreLinked
<1>1. scan[t] \in ScanState /\ source \in Sources
  BY DEF LinkerInv, LinkerTypeOK, ManifestTypeOK, Scanned
<1>2. scan[t].last >= LastRowid(source, t)
  BY DEF LinkerInv, StatesAreOld, Scanned
<1>3. r <= LastRowid(source, t) /\ LastRowid(source, t) \in 0 .. MaxRowid
  BY <1>1, LastRowidBound
<1>4. r \in 1 .. MaxRowid
  BY DEF RowsOf, Rowids
<1>5. r <= scan[t].last
  BY <1>1, <1>2, <1>3, <1>4, ManifestAssumption DEF ScanState
<1> QED BY <1>5 DEF LinkerInv, StatesAreSound, Scanned, LinkedUpTo

(***************************************************************************)
(* completed=1 in image_occurrence_scan_state means that every message of  *)
(* the table is linked.                                                    *)
(***************************************************************************)
THEOREM CompletedTablesAreSound ==
  ASSUME LegacyScan # "partial"
  PROVE  LinkerSpec => []CompletedTablesAreLinked
<1>1. LinkerInv => CompletedTablesAreLinked
  BY InvLinksCompleted
<1> QED BY <1>1, LinkerInvariant, PTL

(***************************************************************************)
(* Resuming, upgrading and registering tables keep what is linked from the *)
(* current source; only a forced run deletes it.                           *)
(***************************************************************************)
DeletesForced ==
  \A k \in Keys :
    occ[k] # Absent /\ occ'[k] = Absent /\ scan[k[2]] # NoRow
    /\ scan[k[2]].id = source => lk.force

LEMMA StepDeletesForced == LinkerInv /\ [LinkerNext]_linkerVars => DeletesForced
<1> SUFFICES ASSUME LinkerInv, [LinkerNext]_linkerVars, NEW k \in Keys,
                    occ[k] # Absent, occ'[k] = Absent, scan[k[2]] # NoRow,
                    scan[k[2]].id = source
             PROVE  lk.force
  BY DEF DeletesForced
<1>0. k[2] \in Tables
  BY DEF Keys
<1>1. CASE MaterializeScanStates
  <2>1. scan[k[2]].id <= lk.id /\ k[2] \in TablesOf(source)
    BY <1>0, <1>1 DEF MaterializeScanStates, LinkerInv, StatesAreOld
  <2>2. lk.id <= lk.chat /\ lk.chat <= source /\ lk.todo = TablesOf(lk.chat)
    BY <1>1 DEF MaterializeScanStates, LinkerInv, RunReadsSource, Opened
  <2>3. lk.chat = source
    BY <2>1, <2>2 DEF LinkerInv, LinkerTypeOK, ManifestTypeOK, LinkerRun, Sources
  <2>4. k[2] \notin lk.todo
    BY <1>1 DEF MaterializeScanStates
  <2> QED BY <2>1, <2>2, <2>3, <2>4
<1>2. CASE BeginTable
  <2>1. PICK t \in lk.todo :
          occ' = [j \in Keys |-> IF MustRebuild(t) /\ j[2] = t THEN Absent ELSE occ[j]]
    BY <1>2 DEF BeginTable
  <2>2. MustRebuild(t) /\ k[2] = t
    BY <2>1
  <2>3. /\ scan[t].id <= lk.id /\ t \in TablesOf(source)
        /\ scan[t].last <= LastRowid(source, t)
    BY <1>0, <1>2, <2>2 DEF BeginTable, LinkerInv, StatesAreOld
  <2>4. lk.id <= lk.chat /\ lk.chat <= source
    BY <1>2 DEF BeginTable, LinkerInv, RunReadsSource, Opened
  <2>5. lk.id = source /\ lk.chat = source /\ source \in Sources
    BY <2>2, <2>3, <2>4 DEF LinkerInv, LinkerTypeOK, ManifestTypeOK, LinkerRun, Sources
  <2>6. scan[t].last \in Int /\ LastRowid(source, t) \in Int
    BY <1>0, <2>2, <2>5, LastRowidBound DEF LinkerInv, LinkerTypeOK, ScanState
  <2> QED BY <2>2, <2>3, <2>5, <2>6 DEF MustRebuild
<1>3. CASE CommitBatch
  BY <1>3, NullAssumption DEF CommitBatch, LinkedRow, Facts
<1>4. CASE UNCHANGED occ
  BY <1>4
<1> QED BY <1>1, <1>2, <1>3, <1>4
      DEF LinkerNext, LinkerStep, linkerVars, manifestVars, StartLink, ReadIdentity,
          OpenChat, ReadBatch, SkipCorrupt, EndTable, FinishLink, CancelLink, AbortLink,
          ReplaceSource

THEOREM OnlyForcedRunsDelete ==
  ASSUME LegacyScan # "partial"
  PROVE  LinkerSpec => OnlyForceDeletes
<1>1. LinkerInv /\ [LinkerNext]_linkerVars => [DeletesForced]_linkerVars
  BY StepDeletesForced
<1>2. LinkerSpec => [][DeletesForced]_linkerVars
  BY <1>1, LinkerInvariant, PTL DEF LinkerSpec
<1> QED BY <1>2 DEF OnlyForceDeletes, DeletesForced


(***************************************************************************)
(* The second inductive invariant: what an occurrence says once its table  *)
(* is recorded for the current source.  upgrade: whether the manifest may  *)
(* hold scan states of an earlier release.  An upgrade deletes the state   *)
(* of a table and keeps its rows until the first batch is committed: in    *)
(* between nothing but the run knows where the rows are from, which is why *)
(* a run that can be interrupted there is left out.                        *)
(***************************************************************************)
RowsIn(t) == In(Present(occ), t)

\* The table whose state is being replaced still has a batch to commit.
UpgradeUnderWay(t) ==
  /\ lk.pc \in {"batch", "commit"} /\ lk.table = t /\ ~lk.cancel
  /\ lk.pc = "batch" => lk.remaining > 0 /\ lk.last < LastRowid(lk.chat, t)

RowsAreRecorded(upgrade) ==
  \A t \in Tables :
    /\ scan[t] = NoRow /\ RowsIn(t) # {} =>
         upgrade /\ ~Interruptions /\ UpgradeUnderWay(t)
    /\ scan[t] # NoRow /\ scan[t].version # LINKER_VERSION =>
         upgrade /\ ~Interruptions /\ \A k \in RowsIn(t) : k[3] <= scan[t].last

RunOwnsState ==
  lk.pc \in {"batch", "commit"} => scan[lk.table] = NoRow \/ scan[lk.table].id = lk.id

OnlyReferences(t) == \A k \in RowsIn(t) : k[1] \in References(source, t, k[3])

\* Facts that this release did not compute are those of rows an mmp scan has
\* not reached yet.
FinalUpTo(t, mmp, last) == \A k \in RowsIn(t) : occ[k] = "local" \/ (mmp /\ k[3] > last)

StatesAreExact ==
  \A t \in Tables : scan[t] # NoRow /\ scan[t].id = source =>
    /\ OnlyReferences(t)
    /\ Readable(t) /\ scan[t].version = LINKER_VERSION =>
         FinalUpTo(t, scan[t].mode = "mmp", scan[t].last)

RunIsExact ==
  lk.pc \in {"batch", "commit"} /\ lk.id = source =>
    /\ OnlyReferences(lk.table)
    /\ Readable(lk.table) => FinalUpTo(lk.table, lk.mmp, lk.last)

ExactInv(upgrade) ==
  /\ LinkerInv
  /\ RowsAreRecorded(upgrade)
  /\ RunOwnsState
  /\ StatesAreExact
  /\ RunIsExact

LEMMA RowsInTable ==
  \A t \in Tables : \A k : k \in RowsIn(t) <=> k \in Keys /\ occ[k] # Absent /\ k[2] = t
BY DEF RowsIn, In, Present

(***************************************************************************)
(* Steps that leave every row where it is.  Others than the linker may     *)
(* change facts meanwhile, as long as a final fact stays final.            *)
(***************************************************************************)
FactsOnlyImproved ==
  /\ \A k \in Keys : occ'[k] = Absent <=> occ[k] = Absent
  /\ \A k \in Keys : occ[k] = "local" => occ'[k] = "local"

LEMMA RowsStay ==
  ASSUME FactsOnlyImproved, source' = source
  PROVE  /\ \A t \in Tables : RowsIn(t)' = RowsIn(t)
         /\ \A t \in Tables : OnlyReferences(t)' <=> OnlyReferences(t)
         /\ \A t \in Tables : \A mmp, last :
              FinalUpTo(t, mmp, last) =>
                \A k \in RowsIn(t) : occ'[k] = "local" \/ (mmp /\ k[3] > last)
BY RowsInTable DEF RowsIn, In, Present, FactsOnlyImproved, OnlyReferences, References,
  FinalUpTo

\* A step that leaves rows and states as they are keeps what they say.
LEMMA StatesStayExact ==
  ASSUME StatesAreExact, FactsOnlyImproved, UNCHANGED <<source, scan>>
  PROVE  StatesAreExact'
<1> SUFFICES ASSUME NEW t \in Tables, scan[t] # NoRow, scan[t].id = source
             PROVE  /\ OnlyReferences(t)'
                    /\ Readable(t) /\ scan[t].version = LINKER_VERSION =>
                         FinalUpTo(t, scan[t].mode = "mmp", scan[t].last)'
  BY DEF StatesAreExact, Readable
<1>1. /\ OnlyReferences(t)
      /\ Readable(t) /\ scan[t].version = LINKER_VERSION =>
           FinalUpTo(t, scan[t].mode = "mmp", scan[t].last)
  BY DEF StatesAreExact
<1>2. RowsIn(t)' = RowsIn(t) /\ OnlyReferences(t)'
  BY <1>1, RowsStay
<1>3. FinalUpTo(t, scan[t].mode = "mmp", scan[t].last) =>
        \A k \in RowsIn(t) : occ'[k] = "local" \/ (scan[t].mode = "mmp" /\ k[3] > scan[t].last)
  BY RowsStay
<1> QED BY <1>1, <1>2, <1>3 DEF FinalUpTo

LEMMA RecordsStay ==
  ASSUME NEW u \in BOOLEAN, RowsAreRecorded(u), FactsOnlyImproved, UNCHANGED <<source, scan>>,
         \A t \in Tables : ~Interruptions /\ UpgradeUnderWay(t) => UpgradeUnderWay(t)'
  PROVE  RowsAreRecorded(u)'
<1>1. \A t \in Tables : RowsIn(t)' = RowsIn(t)
  BY RowsStay
<1> QED BY <1>1 DEF RowsAreRecorded

LEMMA RunStaysExact ==
  ASSUME RunIsExact, FactsOnlyImproved, UNCHANGED <<source, lk>>
  PROVE  RunIsExact'
<1> SUFFICES ASSUME lk.pc \in {"batch", "commit"}, lk.id = source
             PROVE  /\ OnlyReferences(lk.table)'
                    /\ Readable(lk.table) => FinalUpTo(lk.table, lk.mmp, lk.last)'
  BY DEF RunIsExact, Readable
<1> DEFINE t == lk.table
<1>1. OnlyReferences(t) /\ (Readable(t) => FinalUpTo(t, lk.mmp, lk.last))
  BY DEF RunIsExact
<1>2. RowsIn(t)' = RowsIn(t)
  BY DEF RowsIn, In, Present, FactsOnlyImproved
<1>3. OnlyReferences(t)'
  BY <1>1, <1>2 DEF OnlyReferences, References
<1>4. \A k \in RowsIn(t) : occ[k] = "local" => occ'[k] = "local"
  BY DEF FactsOnlyImproved, RowsIn, In, Present
<1>5. Readable(t) => FinalUpTo(t, lk.mmp, lk.last)'
  BY <1>1, <1>2, <1>4 DEF FinalUpTo
<1> QED BY <1>3, <1>5

\* Whoever only improves facts keeps both invariants of the linker.
LEMMA FactsImprovedKeepsInv ==
  ASSUME LinkerInv, FactsOnlyImproved, ManifestTypeOK', UNCHANGED <<source, scan, lk>>
  PROVE  LinkerInv'
<1>1. LinkerTypeOK'
  BY DEF LinkerInv, LinkerTypeOK
<1>2. RunReadsSource' /\ StatesAreOld' /\ BatchIsNext'
  BY DEF LinkerInv, RunReadsSource, StatesAreOld, BatchIsNext
<1>3. \A t \in Tables, r \in Rowids, a \in Assets :
        occ[<<a, t, r>>] # Absent => occ'[<<a, t, r>>] # Absent
  BY DEF FactsOnlyImproved, Keys
<1>4. \A t \in Tables : PlainLinked(t) => PlainLinked(t)'
  BY <1>3 DEF PlainLinked, RowsOf
<1>5. \A t \in Tables : \A n : LinkedUpTo(t, n) =>
        \A r \in RowsOf(source, t) : r <= n =>
          \A a \in References(source, t, r) : occ'[<<a, t, r>>] # Absent
  BY <1>3 DEF LinkedUpTo, Linked, References, RowsOf
<1>6. StatesAreSound'
  <2> SUFFICES ASSUME NEW t \in Tables, scan[t] # NoRow, scan[t].id = source, Readable(t)
               PROVE  /\ scan[t].version = LINKER_VERSION => LinkedUpTo(t, scan[t].last)'
                      /\ scan[t].version = 1 \/ scan[t].mode = "mmp" => PlainLinked(t)'
    BY DEF StatesAreSound, Readable
  <2>1. /\ scan[t].version = LINKER_VERSION => LinkedUpTo(t, scan[t].last)
        /\ scan[t].version = 1 \/ scan[t].mode = "mmp" => PlainLinked(t)
    BY DEF LinkerInv, StatesAreSound
  <2>2. scan[t].version = LINKER_VERSION => LinkedUpTo(t, scan[t].last)'
    BY <1>5, <2>1 DEF LinkedUpTo, Linked, References
  <2> QED BY <1>4, <2>1, <2>2
<1>7. RunIsSound'
  <2> SUFFICES ASSUME lk.pc \in {"batch", "commit"}, lk.id = source, Readable(lk.table)
               PROVE  LinkedUpTo(lk.table, lk.last)' /\ (lk.mmp => PlainLinked(lk.table)')
    BY DEF RunIsSound, Readable
  <2>1. LinkedUpTo(lk.table, lk.last) /\ (lk.mmp => PlainLinked(lk.table))
    BY DEF LinkerInv, RunIsSound
  <2>2. lk.table \in Tables
    BY ScanningTypes
  <2>3. PlainLinked(lk.table) => \A r \in RowsOf(source, lk.table), a \in Assets :
          <<source, lk.table, r, a>> \in Plain => occ'[<<a, lk.table, r>>] # Absent
    BY <1>3, <2>2 DEF PlainLinked, RowsOf
  <2> QED BY <1>5, <2>1, <2>2, <2>3 DEF LinkedUpTo, Linked, References, PlainLinked
<1> QED BY <1>1, <1>2, <1>6, <1>7 DEF LinkerInv

LEMMA FactsImprovedStep ==
  ASSUME NEW u \in BOOLEAN, ExactInv(u), FactsOnlyImproved, ManifestTypeOK',
         UNCHANGED <<source, scan, lk>>
  PROVE  ExactInv(u)'
<1>1. LinkerInv'
  BY FactsImprovedKeepsInv DEF ExactInv
<1>2. \A t \in Tables : UpgradeUnderWay(t) => UpgradeUnderWay(t)'
  BY DEF UpgradeUnderWay
<1>3. RowsAreRecorded(u)'
  BY <1>2, RecordsStay DEF ExactInv
<1>4. StatesAreExact'
  BY StatesStayExact DEF ExactInv
<1>5. RunIsExact'
  BY RunStaysExact DEF ExactInv
<1>6. RunOwnsState'
  BY DEF ExactInv, RunOwnsState
<1> QED BY <1>1, <1>3, <1>4, <1>5, <1>6 DEF ExactInv

(***************************************************************************)
(* The steps of the linker.                                                *)
(***************************************************************************)
\* Steps before and after the scan of a table: no upgrade is under way.
LEMMA OutsideTableStep ==
  ASSUME NEW u \in BOOLEAN, ExactInv(u), LinkerInv', UNCHANGED <<source, occ, scan>>,
         lk'.pc \notin {"batch", "commit"},
         \A t \in Tables : UpgradeUnderWay(t) => Interruptions
  PROVE  ExactInv(u)'
BY RecordsStay, StatesStayExact DEF FactsOnlyImproved, ExactInv, RunOwnsState,
  RunIsExact

LEMMA OutsideSteps ==
  ASSUME NEW u \in BOOLEAN, ExactInv(u), LinkerInv',
         StartLink \/ ReadIdentity \/ OpenChat \/ FinishLink \/ AbortLink
  PROVE  ExactInv(u)'
<1>1. UNCHANGED <<source, occ, scan>>
  BY DEF StartLink, ReadIdentity, OpenChat, FinishLink, AbortLink, manifestVars
<1>2. lk \in LinkerRun
  BY DEF ExactInv, LinkerInv, LinkerTypeOK
<1>3. lk'.pc \notin {"batch", "commit"}
  <2>1. CASE StartLink
    BY <2>1, IdleIsRun DEF StartLink, LinkerRun
  <2>2. CASE ReadIdentity
    BY <1>2, <2>2 DEF ReadIdentity, LinkerRun
  <2>3. CASE OpenChat
    BY <1>2, <2>3 DEF OpenChat, LinkerRun
  <2>4. CASE FinishLink \/ AbortLink
    BY <2>4, IdleIsRun DEF FinishLink, AbortLink
  <2> QED BY <2>1, <2>2, <2>3, <2>4
<1>4. \A t \in Tables : UpgradeUnderWay(t) => Interruptions
  BY DEF UpgradeUnderWay, StartLink, ReadIdentity, OpenChat, FinishLink, AbortLink
<1> QED BY <1>1, <1>3, <1>4, OutsideTableStep

LEMMA ReplaceSourceExact ==
  ASSUME NEW u \in BOOLEAN, ExactInv(u), LinkerInv', ReplaceSource, UNCHANGED <<scan, lk>>
  PROVE  ExactInv(u)'
<1>1. source' = source + 1 /\ source \in Int /\ UNCHANGED <<occ, scan, lk>>
  BY DEF ReplaceSource, ExactInv, LinkerInv, LinkerTypeOK, ManifestTypeOK, Sources
<1>2. \A t \in Tables : scan[t] # NoRow => scan[t].id \in Int /\ scan[t].id <= source
  BY DEF ExactInv, LinkerInv, StatesAreOld, LinkerTypeOK, ScanState, Sources
<1>3. lk.pc \in {"batch", "commit"} => lk.id \in Int /\ lk.id <= source
  BY DEF ExactInv, LinkerInv, RunReadsSource, LinkerTypeOK, LinkerRun, Sources
<1>4. StatesAreExact' /\ RunIsExact'
  BY <1>1, <1>2, <1>3 DEF StatesAreExact, RunIsExact
<1>5. RowsAreRecorded(u)' /\ RunOwnsState'
  BY <1>1 DEF ExactInv, RowsAreRecorded, RunOwnsState, RowsIn, UpgradeUnderWay, Present
<1> QED BY <1>4, <1>5 DEF ExactInv

LEMMA CancelLinkExact ==
  ASSUME NEW u \in BOOLEAN, ExactInv(u), LinkerInv', CancelLink
  PROVE  ExactInv(u)'
<1>1. lk \in LinkerRun /\ Interruptions /\ UNCHANGED <<source, occ, scan>>
  BY DEF CancelLink, manifestVars, ExactInv, LinkerInv, LinkerTypeOK
<1>2. /\ lk'.pc = lk.pc /\ lk'.table = lk.table /\ lk'.id = lk.id /\ lk'.last = lk.last
      /\ lk'.mmp = lk.mmp
  BY <1>1 DEF CancelLink, LinkerRun
<1>3. FactsOnlyImproved
  BY <1>1 DEF FactsOnlyImproved
<1>4. RowsAreRecorded(u)' /\ StatesAreExact'
  BY <1>1, <1>3, RecordsStay, StatesStayExact DEF ExactInv
<1>5. RunOwnsState'
  BY <1>1, <1>2 DEF ExactInv, RunOwnsState
<1>6. RunIsExact'
  BY <1>1, <1>2 DEF ExactInv, RunIsExact, OnlyReferences, FinalUpTo, RowsIn, Present,
       Readable, References
<1> QED BY <1>4, <1>5, <1>6 DEF ExactInv

LEMMA ReadBatchExact ==
  ASSUME NEW u \in BOOLEAN, ExactInv(u), LinkerInv', ReadBatch
  PROVE  ExactInv(u)'
<1>1. lk \in LinkerRun /\ lk.pc = "batch" /\ UNCHANGED <<source, occ, scan>>
  BY DEF ReadBatch, MoreToScan, manifestVars, ExactInv, LinkerInv, LinkerTypeOK
<1>2. /\ lk'.pc = "commit" /\ lk'.table = lk.table /\ lk'.id = lk.id /\ lk'.last = lk.last
      /\ lk'.mmp = lk.mmp /\ lk'.cancel = lk.cancel
  BY <1>1 DEF ReadBatch, LinkerRun
<1>3. FactsOnlyImproved
  BY <1>1 DEF FactsOnlyImproved
<1>4. \A t \in Tables : UpgradeUnderWay(t) => UpgradeUnderWay(t)'
  BY <1>2 DEF UpgradeUnderWay
<1>5. RowsAreRecorded(u)' /\ StatesAreExact'
  BY <1>1, <1>3, <1>4, RecordsStay, StatesStayExact DEF ExactInv
<1>6. RunOwnsState'
  BY <1>1, <1>2 DEF ExactInv, RunOwnsState
<1>7. RunIsExact'
  BY <1>1, <1>2 DEF ExactInv, RunIsExact, OnlyReferences, FinalUpTo, RowsIn, Present,
       Readable, References
<1> QED BY <1>5, <1>6, <1>7 DEF ExactInv

\* A table is left before its first batch only where it has nothing to scan
\* or the run was told to stop.
LEMMA EndTableExact ==
  ASSUME NEW u \in BOOLEAN, ExactInv(u), LinkerInv', EndTable
  PROVE  ExactInv(u)'
BY OutsideTableStep DEF EndTable, manifestVars, ExactInv, LinkerInv, LinkerTypeOK,
  LinkerRun, UpgradeUnderWay, MoreToScan

\* What holds of the tables a run does not scan while it writes one state.
LEMMA OtherTables ==
  ASSUME NEW u \in BOOLEAN, ExactInv(u), lk.pc \in {"batch", "commit"},
         source' = source, scan' \in [Tables -> ScanState \cup {NoRow}],
         \A t \in Tables : t # lk.table => scan'[t] = scan[t] /\ RowsIn(t)' = RowsIn(t),
         \A t \in Tables : t # lk.table => \A k \in RowsIn(t) : occ'[k] = occ[k],
         scan'[lk.table] # NoRow, scan'[lk.table].version = LINKER_VERSION,
         scan'[lk.table].id = lk.id, lk'.id = lk.id, lk'.table = lk.table,
         lk'.pc = "batch",
         scan'[lk.table].id = source =>
           /\ OnlyReferences(lk.table)'
           /\ Readable(lk.table) => \A k \in RowsIn(lk.table)' :
                occ'[k] = "local" \/ (scan'[lk.table].mode = "mmp" /\ k[3] > scan'[lk.table].last)
  PROVE  RowsAreRecorded(u)' /\ StatesAreExact' /\ RunOwnsState'
<1>1. lk.table \in Tables
  BY ScanningTypes DEF ExactInv
<1>2. RowsAreRecorded(u)'
  <2> SUFFICES ASSUME NEW t \in Tables
               PROVE  /\ scan'[t] = NoRow /\ RowsIn(t)' # {} =>
                           u /\ ~Interruptions /\ UpgradeUnderWay(t)'
                      /\ scan'[t] # NoRow /\ scan'[t].version # LINKER_VERSION =>
                           u /\ ~Interruptions /\ \A k \in RowsIn(t)' : k[3] <= scan'[t].last
    BY DEF RowsAreRecorded
  <2>1. CASE t = lk.table
    BY <2>1
  <2>2. CASE t # lk.table
    BY <2>2 DEF ExactInv, RowsAreRecorded, UpgradeUnderWay
  <2> QED BY <2>1, <2>2
<1>3. StatesAreExact'
  <2> SUFFICES ASSUME NEW t \in Tables, scan'[t] # NoRow, scan'[t].id = source
               PROVE  /\ OnlyReferences(t)'
                      /\ Readable(t) /\ scan'[t].version = LINKER_VERSION =>
                           \A k \in RowsIn(t)' :
                             occ'[k] = "local" \/ (scan'[t].mode = "mmp" /\ k[3] > scan'[t].last)
    BY DEF StatesAreExact, Readable, FinalUpTo
  <2>1. CASE t = lk.table
    BY <2>1
  <2>2. CASE t # lk.table
    BY <2>2 DEF ExactInv, StatesAreExact, OnlyReferences, References, FinalUpTo
  <2> QED BY <2>1, <2>2
<1>4. RunOwnsState'
  BY DEF RunOwnsState
<1> QED BY <1>2, <1>3, <1>4

LEMMA SkipCorruptExact ==
  ASSUME NEW u \in BOOLEAN, ExactInv(u), LinkerInv', SkipCorrupt
  PROVE  ExactInv(u)'
<1>1. /\ LinkerInv /\ MoreToScan /\ lk.pc = "batch" /\ UNCHANGED <<source, occ>>
      /\ scan' = [scan EXCEPT ![lk.table] = Checkpoint(SkippedTo)]
      /\ lk' = [lk EXCEPT !.last = SkippedTo, !.remaining = @ - Take]
  BY DEF SkipCorrupt, MoreToScan, manifestVars, ExactInv
<1>2. lk \in LinkerRun /\ lk.table \in Tables
  BY <1>1, ScanningTypes
<1>3. Checkpoint(SkippedTo) \in ScanState
  BY <1>1, SkippedRange, CheckpointType
<1>4. lk'.pc = "batch" /\ lk'.id = lk.id /\ lk'.table = lk.table
  BY <1>1, <1>2 DEF LinkerRun
<1>5. scan \in [Tables -> ScanState \cup {NoRow}]
  BY <1>1 DEF LinkerInv, LinkerTypeOK
<1>6. /\ scan' \in [Tables -> ScanState \cup {NoRow}]
      /\ scan'[lk.table] = Checkpoint(SkippedTo) /\ scan'[lk.table] # NoRow
      /\ \A t \in Tables : t # lk.table => scan'[t] = scan[t]
  BY <1>1, <1>2, <1>3, <1>5, ScanNullAssumption
<1>7. scan'[lk.table].version = LINKER_VERSION /\ scan'[lk.table].id = lk.id
  BY <1>6 DEF Checkpoint
<1>8. /\ \A t \in Tables : RowsIn(t)' = RowsIn(t)
      /\ OnlyReferences(lk.table) => OnlyReferences(lk.table)'
  BY <1>1 DEF RowsIn, Present, OnlyReferences, References
<1>9. lk.id = source => OnlyReferences(lk.table) /\ ~Readable(lk.table)
  BY <1>1, SkippedIsUnreadable DEF ExactInv, RunIsExact
<1>10. RowsAreRecorded(u)' /\ StatesAreExact' /\ RunOwnsState'
  BY <1>1, <1>4, <1>6, <1>7, <1>8, <1>9, OtherTables
<1>11. RunIsExact'
  BY <1>1, <1>4, <1>8, <1>9 DEF RunIsExact, Readable
<1> QED BY <1>10, <1>11 DEF ExactInv

\* After a batch the rows of the table are still references of the version
\* that is read, and final up to the last message of the batch.
LEMMA CommittedRowsAreFinal ==
  ASSUME NEW u \in BOOLEAN, ExactInv(u), CommitBatch, lk.id = source,
         NEW k \in Keys, k[2] = lk.table, occ'[k] # Absent
  PROVE  /\ k[1] \in References(source, lk.table, k[3])
         /\ Readable(lk.table) => occ'[k] = "local" \/ (lk.mmp /\ k[3] > BatchLast)
<1>1. LinkerInv /\ lk.pc = "commit"
  BY DEF ExactInv, CommitBatch
<1>2. lk.chat = source /\ lk.table \in Tables
  BY <1>1, ScanningTypes
<1>3. k[3] \in Rowids
  BY DEF Keys
<1>4. occ'[k] = LinkedRow(k)
  BY <1>3 DEF CommitBatch
<1>5. CASE occ[k] = Absent
  BY <1>2, <1>3, <1>4, <1>5 DEF LinkedRow, Found
<1>6. CASE occ[k] # Absent
  <2>1. k \in RowsIn(lk.table)
    BY <1>2, <1>3, <1>6, RowsInTable
  <2>2. k[1] \in References(source, lk.table, k[3])
    BY <1>1, <2>1 DEF ExactInv, RunIsExact, OnlyReferences
  <2>3. k[3] \in RowsOf(source, lk.table) /\ k[3] \in Int
    <3>1. <<source, lk.table, k[3]>> \in Messages
      BY <2>2, ManifestAssumption DEF References
    <3> QED BY <1>3, <3>1 DEF RowsOf, Keys, Rowids
  <2>4. ASSUME Readable(lk.table) PROVE occ'[k] = "local" \/ (lk.mmp /\ k[3] > BatchLast)
    <3>1. occ[k] = "local" \/ (lk.mmp /\ k[3] > lk.last)
      BY <1>1, <2>1, <2>4 DEF ExactInv, RunIsExact, FinalUpTo
    <3>2. CASE occ[k] = "local"
      BY <1>4, <1>6, <3>2 DEF LinkedRow
    <3>3. CASE lk.mmp /\ k[3] > lk.last /\ k[3] \in lk.batch
      BY <1>3, <1>4, <1>6, <3>3 DEF LinkedRow
    <3>4. CASE lk.mmp /\ k[3] > lk.last /\ k[3] \notin lk.batch
      BY <1>1, <1>2, <2>3, <3>4, BatchLastRange, LastRowidBound DEF LinkerInv,
        BatchIsNext
    <3> QED BY <3>1, <3>2, <3>3, <3>4
  <2> QED BY <2>2, <2>4
<1> QED BY <1>5, <1>6

LEMMA CommitBatchExact ==
  ASSUME NEW u \in BOOLEAN, ExactInv(u), LinkerInv', CommitBatch
  PROVE  ExactInv(u)'
<1>1. /\ LinkerInv /\ lk.pc = "commit" /\ source' = source
      /\ scan' = [scan EXCEPT ![lk.table] = Checkpoint(BatchLast)]
      /\ lk' = [lk EXCEPT !.pc = "batch", !.last = BatchLast, !.batch = {},
                          !.remaining = @ - Cardinality(lk.batch)]
  BY DEF CommitBatch, ExactInv
<1>2. lk \in LinkerRun /\ lk.table \in Tables
  BY <1>1, ScanningTypes
<1>3. Checkpoint(BatchLast) \in ScanState
  BY <1>1, BatchLastRange, CheckpointType
<1>4. /\ lk'.pc = "batch" /\ lk'.id = lk.id /\ lk'.table = lk.table /\ lk'.mmp = lk.mmp
      /\ lk'.last = BatchLast
  BY <1>1, <1>2 DEF LinkerRun
<1>5. scan \in [Tables -> ScanState \cup {NoRow}]
  BY <1>1 DEF LinkerInv, LinkerTypeOK
<1>6. /\ scan' \in [Tables -> ScanState \cup {NoRow}]
      /\ scan'[lk.table] = Checkpoint(BatchLast) /\ scan'[lk.table] # NoRow
      /\ \A t \in Tables : t # lk.table => scan'[t] = scan[t]
  BY <1>1, <1>2, <1>3, <1>5, ScanNullAssumption
<1>7. /\ scan'[lk.table].version = LINKER_VERSION /\ scan'[lk.table].id = lk.id
      /\ scan'[lk.table].last = BatchLast /\ (lk.mmp => scan'[lk.table].mode = "mmp")
  BY <1>6 DEF Checkpoint
<1>8. \A k \in Keys : k[2] # lk.table => occ'[k] = occ[k]
  BY DEF CommitBatch, LinkedRow
<1>9. \A t \in Tables : t # lk.table => RowsIn(t)' = RowsIn(t)
  BY <1>8 DEF RowsIn, In, Present
<1>10. \A t \in Tables : t # lk.table => \A k \in RowsIn(t) : occ'[k] = occ[k]
  BY <1>8, RowsInTable
<1>11. ASSUME lk.id = source
       PROVE  /\ OnlyReferences(lk.table)'
              /\ Readable(lk.table) => \A k \in RowsIn(lk.table)' :
                   occ'[k] = "local" \/ (lk.mmp /\ k[3] > BatchLast)
  <2>0. \A k \in RowsIn(lk.table)' : k \in Keys /\ k[2] = lk.table /\ occ'[k] # Absent
    BY <1>4 DEF RowsIn, In, Present
  <2>1. \A k \in RowsIn(lk.table)' : k[1] \in References(source, lk.table, k[3])
    BY <1>11, <2>0, CommittedRowsAreFinal
  <2>2. \A k \in RowsIn(lk.table)' :
          Readable(lk.table) => occ'[k] = "local" \/ (lk.mmp /\ k[3] > BatchLast)
    BY <1>11, <2>0, CommittedRowsAreFinal
  <2>3. OnlyReferences(lk.table)'
    BY <1>1, <1>4, <2>1 DEF OnlyReferences, References
  <2> QED BY <2>2, <2>3
<1>12. RowsAreRecorded(u)' /\ StatesAreExact' /\ RunOwnsState'
  BY <1>1, <1>4, <1>6, <1>7, <1>9, <1>10, <1>11, OtherTables
<1>13. RunIsExact'
  BY <1>1, <1>4, <1>11 DEF RunIsExact, FinalUpTo, Readable
<1> QED BY <1>12, <1>13 DEF ExactInv

LEMMA MaterializeExact ==
  ASSUME NEW u \in BOOLEAN, ExactInv(u), LinkerInv', MaterializeScanStates
  PROVE  ExactInv(u)'
<1> DEFINE vanished == {t \in Tables \ lk.todo : scan[t] # NoRow}
<1>1. /\ lk \in LinkerRun /\ lk.pc = "materialize"
      /\ scan \in [Tables -> ScanState \cup {NoRow}]
  BY DEF MaterializeScanStates, ExactInv, LinkerInv, LinkerTypeOK
<1>2. /\ occ' = [k \in Keys |-> IF k[2] \in vanished THEN Absent ELSE occ[k]]
      /\ scan' = [t \in Tables |-> IF t \in lk.todo THEN MaterializedState(t) ELSE NoRow]
      /\ lk' = [lk EXCEPT !.pc = "table"] /\ source' = source
  BY DEF MaterializeScanStates
<1>3. lk'.pc = "table"
  BY <1>1, <1>2 DEF LinkerRun
<1>4. \A t \in Tables : scan[t] = NoRow => RowsIn(t) = {}
  BY <1>1 DEF ExactInv, RowsAreRecorded, UpgradeUnderWay
<1>5. ASSUME NEW t \in Tables, t \notin lk.todo
      PROVE  scan'[t] = NoRow /\ RowsIn(t)' = {}
  <2>1. scan'[t] = NoRow
    BY <1>2, <1>5
  <2>2. CASE scan[t] = NoRow
    BY <1>4, <2>2, RowsInTable, <1>2, <2>1 DEF RowsIn, In, Present
  <2>3. CASE scan[t] # NoRow
    <3>1. \A k \in Keys : k[2] = t => occ'[k] = Absent
      BY <1>2, <1>5, <2>3
    <3> QED BY <2>1, <3>1 DEF RowsIn, In, Present
  <2> QED BY <2>2, <2>3
<1>6. ASSUME NEW t \in Tables, t \in lk.todo
      PROVE  /\ RowsIn(t)' = RowsIn(t) /\ \A k \in RowsIn(t) : occ'[k] = occ[k]
             /\ IF scan[t] = NoRow
                  THEN scan'[t].version = LINKER_VERSION
                  ELSE /\ scan'[t].version = scan[t].version /\ scan'[t].id = scan[t].id
                       /\ scan'[t].last = scan[t].last /\ scan'[t].mode = scan[t].mode
  <2>1. \A k \in Keys : k[2] = t => occ'[k] = occ[k]
    BY <1>2, <1>6
  <2>2. RowsIn(t)' = RowsIn(t)
    BY <2>1 DEF RowsIn, In, Present
  <2>3. \A k \in RowsIn(t) : occ'[k] = occ[k]
    BY <2>1, RowsInTable
  <2>4. scan'[t] = MaterializedState(t)
    BY <1>2, <1>6
  <2>5. CASE scan[t] = NoRow
    BY <2>2, <2>3, <2>4, <2>5 DEF MaterializedState
  <2>6. CASE scan[t] # NoRow
    BY <1>1, <2>6, <2>4, <2>2, <2>3 DEF MaterializedState, ScanState
  <2> QED BY <2>5, <2>6
<1> HIDE DEF vanished
<1>7. RowsAreRecorded(u)'
  <2> SUFFICES ASSUME NEW t \in Tables
               PROVE  /\ scan'[t] = NoRow /\ RowsIn(t)' # {} =>
                           u /\ ~Interruptions /\ UpgradeUnderWay(t)'
                      /\ scan'[t] # NoRow /\ scan'[t].version # LINKER_VERSION =>
                           u /\ ~Interruptions /\ \A k \in RowsIn(t)' : k[3] <= scan'[t].last
    BY DEF RowsAreRecorded
  <2>1. CASE t \notin lk.todo
    BY <1>5, <2>1
  <2>2. CASE t \in lk.todo /\ scan[t] = NoRow
    BY <1>4, <1>6, <2>2
  <2>3. CASE t \in lk.todo /\ scan[t] # NoRow
    <3>1. scan'[t] # NoRow
      <4>1. scan'[t] = MaterializedState(t) /\ scan[t] \in ScanState
        BY <1>1, <1>2, <2>3
      <4>2. lk.chat \in Sources
        BY <1>1 DEF LinkerRun
      <4>3. LastRowid(lk.chat, t) \in 0 .. MaxRowid
        BY <4>2, LastRowidBound
      <4>4. MaterializedState(t) \in ScanState
        <5> DEFINE max == LastRowid(lk.chat, t)
        <5>1. \/ MaterializedState(t) = scan[t]
              \/ MaterializedState(t) = [scan[t] EXCEPT !.max = max,
                                                       !.completed = scan[t].last >= max]
          BY <2>3 DEF MaterializedState
        <5>2. max \in 0 .. MaxRowid /\ (scan[t].last >= max) \in BOOLEAN
          BY <4>3
        <5> HIDE DEF max
        <5> QED BY <4>1, <5>1, <5>2 DEF ScanState
      <4> QED BY <4>1, <4>4, ScanNullAssumption
    <3> QED BY <1>6, <2>3, <3>1 DEF ExactInv, RowsAreRecorded
  <2> QED BY <2>1, <2>2, <2>3
<1>8. StatesAreExact'
  <2> SUFFICES ASSUME NEW t \in Tables, scan'[t] # NoRow, scan'[t].id = source
               PROVE  /\ OnlyReferences(t)'
                      /\ Readable(t) /\ scan'[t].version = LINKER_VERSION =>
                           \A k \in RowsIn(t)' :
                             occ'[k] = "local" \/ (scan'[t].mode = "mmp" /\ k[3] > scan'[t].last)
    BY <1>2 DEF StatesAreExact, Readable, FinalUpTo
  <2>1. t \in lk.todo
    BY <1>5
  <2>2. RowsIn(t)' = RowsIn(t) /\ \A k \in RowsIn(t) : occ'[k] = occ[k]
    BY <1>6, <2>1
  <2>3. CASE scan[t] = NoRow
    BY <1>4, <2>2, <2>3 DEF OnlyReferences
  <2>4. CASE scan[t] # NoRow
    <3>1. /\ scan'[t].version = scan[t].version /\ scan'[t].id = scan[t].id
          /\ scan'[t].last = scan[t].last /\ scan'[t].mode = scan[t].mode
      BY <1>6, <2>1, <2>4
    <3>2. /\ OnlyReferences(t)
          /\ Readable(t) /\ scan[t].version = LINKER_VERSION =>
               FinalUpTo(t, scan[t].mode = "mmp", scan[t].last)
      BY <2>4, <3>1 DEF ExactInv, StatesAreExact
    <3>3. OnlyReferences(t)'
      BY <1>2, <2>2, <3>2 DEF OnlyReferences, References
    <3> QED BY <2>2, <3>1, <3>2, <3>3 DEF FinalUpTo
  <2> QED BY <2>3, <2>4
<1>9. RunOwnsState' /\ RunIsExact'
  BY <1>3 DEF RunOwnsState, RunIsExact
<1> QED BY <1>7, <1>8, <1>9 DEF ExactInv

\* A table is begun with what its state says of it.
LEMMA BeginTableExact ==
  ASSUME NEW u \in BOOLEAN, ExactInv(u), LinkerInv', BeginTable
  PROVE  ExactInv(u)'
<1>1. PICK t \in lk.todo :
        LET restart == MustRebuild(t) \/ Upgrade(t)
        IN  /\ occ' = [k \in Keys |-> IF MustRebuild(t) /\ k[2] = t THEN Absent ELSE occ[k]]
            /\ scan' = [scan EXCEPT ![t] = IF restart THEN NoRow ELSE @]
            /\ lk' = [lk EXCEPT !.pc = "batch", !.table = t, !.todo = @ \ {t},
                                !.mmp = MmpOnly(t),
                                !.last = IF restart THEN 0 ELSE scan[t].last]
  BY DEF BeginTable
<1>2. /\ lk \in LinkerRun /\ lk.pc = "table" /\ lk.remaining > 0 /\ ~lk.cancel
      /\ scan \in [Tables -> ScanState \cup {NoRow}] /\ source' = source
  BY DEF BeginTable, ExactInv, LinkerInv, LinkerTypeOK
<1>3. t \in Tables /\ scan[t] # NoRow /\ scan[t] \in ScanState /\ lk.chat \in Sources
  BY <1>2 DEF ExactInv, LinkerInv, RunReadsSource, LinkerRun
<1>4. /\ lk'.pc = "batch" /\ lk'.table = t /\ lk'.mmp = MmpOnly(t) /\ lk'.id = lk.id
      /\ lk'.chat = lk.chat /\ lk'.remaining = lk.remaining /\ lk'.cancel = lk.cancel
      /\ lk'.last = IF MustRebuild(t) \/ Upgrade(t) THEN 0 ELSE scan[t].last
  BY <1>1, <1>2 DEF LinkerRun
<1>5. /\ scan'[t] = IF MustRebuild(t) \/ Upgrade(t) THEN NoRow ELSE scan[t]
      /\ \A s \in Tables : s # t => scan'[s] = scan[s]
  BY <1>1, <1>2, <1>3
<1>6. \A s \in Tables : scan[s] = NoRow => RowsIn(s) = {}
  BY <1>2 DEF ExactInv, RowsAreRecorded, UpgradeUnderWay
<1>7. ASSUME NEW s \in Tables, s # t \/ ~MustRebuild(t)
      PROVE  RowsIn(s)' = RowsIn(s) /\ \A k \in RowsIn(s) : occ'[k] = occ[k]
  BY <1>1, <1>7, RowsInTable DEF RowsIn, In, Present
<1>8. MustRebuild(t) => RowsIn(t)' = {}
  BY <1>1 DEF RowsIn, In, Present
<1>9. ~MustRebuild(t) => scan[t].id = lk.id /\ scan[t].last <= LastRowid(lk.chat, t)
  <2>1. scan[t].last \in Int /\ LastRowid(lk.chat, t) \in Int
    BY <1>3, LastRowidBound DEF ScanState
  <2> QED BY <2>1 DEF MustRebuild
<1>10. Upgrade(t) <=> ~MustRebuild(t) /\ scan[t].version # LINKER_VERSION
  BY <1>3 DEF Upgrade, ScanState, LINKER_VERSION
<1>11. ASSUME Upgrade(t), RowsIn(t) # {}
       PROVE  u /\ ~Interruptions /\ UpgradeUnderWay(t)'
  <2>1. u /\ ~Interruptions /\ \A k \in RowsIn(t) : k[3] <= scan[t].last
    BY <1>3, <1>10, <1>11 DEF ExactInv, RowsAreRecorded
  <2>2. PICK k \in RowsIn(t) : TRUE
    BY <1>11
  <2>3. k[3] \in Nat /\ k[3] > 0
    BY <2>2, <1>3, RowsInTable DEF Keys, Rowids
  <2>4. scan[t].last \in Int /\ LastRowid(lk.chat, t) \in Int
    BY <1>3, LastRowidBound DEF ScanState
  <2>5. 0 < LastRowid(lk.chat, t)
    BY <1>9, <1>10, <1>11, <2>1, <2>2, <2>3, <2>4
  <2>6. lk'.last = 0 /\ LastRowid(lk'.chat, t) = LastRowid(lk.chat, t)
    BY <1>4, <1>11
  <2> QED BY <1>2, <1>4, <2>1, <2>5, <2>6 DEF UpgradeUnderWay
<1>12. RowsAreRecorded(u)'
  <2> SUFFICES ASSUME NEW s \in Tables
               PROVE  /\ scan'[s] = NoRow /\ RowsIn(s)' # {} =>
                           u /\ ~Interruptions /\ UpgradeUnderWay(s)'
                      /\ scan'[s] # NoRow /\ scan'[s].version # LINKER_VERSION =>
                           u /\ ~Interruptions /\ \A k \in RowsIn(s)' : k[3] <= scan'[s].last
    BY DEF RowsAreRecorded
  <2>1. CASE s # t
    BY <1>5, <1>6, <1>7, <2>1 DEF ExactInv, RowsAreRecorded
  <2>2. CASE s = t /\ MustRebuild(t)
    BY <1>5, <1>8, <2>2
  <2>3. CASE s = t /\ Upgrade(t)
    BY <1>5, <1>7, <1>10, <1>11, <2>3
  <2>4. CASE s = t /\ ~MustRebuild(t) /\ ~Upgrade(t)
    BY <1>5, <1>3, <1>10, <2>4
  <2> QED BY <2>1, <2>2, <2>3, <2>4
<1>13. RunOwnsState'
  BY <1>4, <1>5, <1>9 DEF RunOwnsState
<1>14. StatesAreExact'
  <2> SUFFICES ASSUME NEW s \in Tables, scan'[s] # NoRow, scan'[s].id = source
               PROVE  /\ OnlyReferences(s)'
                      /\ Readable(s) /\ scan'[s].version = LINKER_VERSION =>
                           \A k \in RowsIn(s)' :
                             occ'[k] = "local" \/ (scan'[s].mode = "mmp" /\ k[3] > scan'[s].last)
    BY <1>2 DEF StatesAreExact, Readable, FinalUpTo
  <2>1. scan'[s] = scan[s] /\ (s # t \/ ~MustRebuild(t))
    BY <1>5
  <2>2. RowsIn(s)' = RowsIn(s) /\ \A k \in RowsIn(s) : occ'[k] = occ[k]
    BY <1>7, <2>1
  <2>3. /\ OnlyReferences(s)
        /\ Readable(s) /\ scan[s].version = LINKER_VERSION =>
             FinalUpTo(s, scan[s].mode = "mmp", scan[s].last)
    BY <2>1 DEF ExactInv, StatesAreExact
  <2>4. OnlyReferences(s)'
    BY <1>2, <2>2, <2>3 DEF OnlyReferences, References
  <2> QED BY <2>1, <2>2, <2>3, <2>4 DEF FinalUpTo
<1>15. ASSUME lk.id = source
       PROVE  /\ \A k \in RowsIn(t)' : k[1] \in References(source, t, k[3])
              /\ Readable(t) => \A k \in RowsIn(t)' :
                   occ'[k] = "local" \/ (lk'.mmp /\ k[3] > lk'.last)
  <2>1. CASE MustRebuild(t)
    BY <1>8, <2>1
  <2>2. CASE ~MustRebuild(t)
    <3>1. RowsIn(t)' = RowsIn(t) /\ \A k \in RowsIn(t) : occ'[k] = occ[k]
      BY <1>3, <1>7, <2>2
    <3>2. OnlyReferences(t) /\ (Readable(t) /\ scan[t].version = LINKER_VERSION =>
                                  FinalUpTo(t, scan[t].mode = "mmp", scan[t].last))
      BY <1>3, <1>9, <1>15, <2>2 DEF ExactInv, StatesAreExact
    <3>3. CASE Upgrade(t)
      <4>1. lk'.mmp /\ lk'.last = 0
        BY <1>4, <2>2, <3>3 DEF MmpOnly
      <4>2. \A k \in RowsIn(t) : k[3] > 0
        BY <1>3, RowsInTable DEF Keys, Rowids
      <4> QED BY <3>1, <3>2, <4>1, <4>2 DEF OnlyReferences
    <3>4. CASE ~Upgrade(t)
      BY <1>4, <2>2, <3>4, <1>10, <3>1, <3>2 DEF MmpOnly, OnlyReferences, FinalUpTo
    <3> QED BY <3>3, <3>4
  <2> QED BY <2>1, <2>2
<1>16. RunIsExact'
  <2> SUFFICES ASSUME lk.id = source
               PROVE  /\ \A k \in RowsIn(lk.table)' : k[1] \in References(source, t, k[3])
                      /\ Readable(t) => \A k \in RowsIn(lk.table)' :
                           occ'[k] = "local" \/ (lk'.mmp /\ k[3] > lk'.last)
    BY <1>2, <1>4 DEF RunIsExact, OnlyReferences, FinalUpTo, Readable, References
  <2>1. RowsIn(lk.table)' = RowsIn(t)'
    BY <1>4 DEF RowsIn
  <2> QED BY <1>15, <2>1
<1> QED BY <1>12, <1>13, <1>14, <1>16 DEF ExactInv

LEMMA NextKeepsExact ==
  ASSUME NEW u \in BOOLEAN, ExactInv(u), [LinkerNext]_linkerVars
  PROVE  ExactInv(u)'
<1>0. LinkerInv'
  BY NextPreservesInv DEF ExactInv
<1>1. CASE StartLink \/ ReadIdentity \/ OpenChat \/ FinishLink \/ AbortLink
  BY <1>0, <1>1, OutsideSteps
<1>2. CASE MaterializeScanStates
  BY <1>0, <1>2, MaterializeExact
<1>3. CASE BeginTable
  BY <1>0, <1>3, BeginTableExact
<1>4. CASE ReadBatch
  BY <1>0, <1>4, ReadBatchExact
<1>5. CASE SkipCorrupt
  BY <1>0, <1>5, SkipCorruptExact
<1>6. CASE CommitBatch
  BY <1>0, <1>6, CommitBatchExact
<1>7. CASE EndTable
  BY <1>0, <1>7, EndTableExact
<1>8. CASE CancelLink
  BY <1>0, <1>8, CancelLinkExact
<1>9. CASE ReplaceSource /\ UNCHANGED <<scan, lk>>
  BY <1>0, <1>9, ReplaceSourceExact
<1>10. CASE UNCHANGED linkerVars
  BY <1>0, <1>10, FactsImprovedStep DEF linkerVars, FactsOnlyImproved, LinkerInv,
    LinkerTypeOK
<1> QED BY <1>1, <1>2, <1>3, <1>4, <1>5, <1>6, <1>7, <1>8, <1>9, <1>10
      DEF LinkerNext, LinkerStep

\* A manifest without states and rows, whatever releases there were.
EmptyManifest == (\A t \in Tables : scan[t] = NoRow) /\ Present(occ) = {}

LEMMA EmptyIsExact == LinkerInit /\ EmptyManifest => ExactInv(FALSE)
<1> SUFFICES ASSUME LinkerInit, EmptyManifest PROVE ExactInv(FALSE)
  OBVIOUS
<1>1. LinkerTypeOK
  BY InitType
<1>2. lk.pc = "idle"
  BY IdleIsRun DEF LinkerInit
<1>3. (\A t \in Tables : scan[t] = NoRow) /\ \A t \in Tables : RowsIn(t) = {}
  BY DEF EmptyManifest, RowsIn, In
<1>4. RunReadsSource /\ BatchIsNext /\ RunIsSound /\ RunOwnsState /\ RunIsExact
  BY <1>2 DEF RunReadsSource, BatchIsNext, RunIsSound, RunOwnsState, RunIsExact, Opened
<1>5. StatesAreOld /\ StatesAreSound /\ StatesAreExact /\ RowsAreRecorded(FALSE)
  BY <1>3 DEF StatesAreOld, StatesAreSound, StatesAreExact, RowsAreRecorded
<1> QED BY <1>1, <1>4, <1>5 DEF ExactInv, LinkerInv

\* A manifest of an earlier release that had scanned every table to its end,
\* or of this release.
LEMMA InitIsExact ==
  ASSUME LinkerInit, LegacyScan # "partial", LegacyScan = "complete" => ~Interruptions
  PROVE  ExactInv(LegacyScan = "complete")
<1>1. LinkerInv
  BY InitInv
<1>2. source = 1 /\ lk.pc = "idle"
  BY IdleIsRun DEF LinkerInit
<1>3. PICK legacy \in {"none", LegacyScan} :
        \E u \in ScannedUpTo(legacy), d \in {"none", "utc"} : LinkedBefore(legacy, u, d)
  BY DEF LinkerInit
<1>4. PICK u \in ScannedUpTo(legacy), d \in {"none", "utc"} : LinkedBefore(legacy, u, d)
  BY <1>3
<1>5. legacy = "none" \/ (legacy = "complete" /\ LegacyScan = "complete")
  BY LinkerAssumption
<1>6. ASSUME NEW k \in Keys, occ[k] # Absent
      PROVE  <<1, k[2], k[3], k[1]>> \in Plain /\ k[3] <= u[k[2]]
  BY <1>4, <1>6 DEF LinkedBefore
<1>7. ASSUME NEW t \in Tables, scan[t] # NoRow
      PROVE  legacy = "complete" /\ scan[t].version = 1 /\ scan[t].last = u[t]
  <2>1. legacy # "none" /\ scan[t] = LegacyState(t, u[t])
    BY <1>4, <1>7 DEF LinkedBefore
  <2> QED BY <1>5, <2>1 DEF LegacyState
<1>8. ASSUME NEW t \in Tables, NEW k \in RowsIn(t)
      PROVE  /\ k \in Keys /\ k[2] = t /\ k[3] <= u[t]
             /\ <<1, t, k[3], k[1]>> \in Plain
  <2>1. k \in Keys /\ occ[k] # Absent /\ k[2] = t
    BY RowsInTable
  <2> QED BY <1>6, <2>1
<1>9. ASSUME NEW t \in Tables, scan[t] = NoRow PROVE RowsIn(t) = {}
  <2> SUFFICES ASSUME NEW k \in RowsIn(t) PROVE FALSE
    OBVIOUS
  <2>1. k \in Keys /\ k[3] <= u[t] /\ <<1, t, k[3], k[1]>> \in Plain
    BY <1>8
  <2>2. CASE legacy = "none"
    <3>1. u[t] = 0
      BY <2>2 DEF ScannedUpTo
    <3> QED BY <2>1, <3>1 DEF Keys, Rowids
  <2>3. CASE legacy = "complete"
    <3>1. t \notin TablesOf(1)
      BY <1>4, <2>3, LegacyStateType, <1>9, ScanNullAssumption DEF LinkedBefore,
        ScannedUpTo
    <3>2. <<1, t, k[3]>> \in Messages /\ <<1, t>> \in ChatTables
      BY <2>1, ManifestAssumption
    <3> QED BY <3>1, <3>2 DEF TablesOf
  <2> QED BY <1>5, <2>2, <2>3
<1>10. RowsAreRecorded(LegacyScan = "complete")
  BY <1>5, <1>7, <1>8, <1>9 DEF RowsAreRecorded
<1>11. StatesAreExact
  BY <1>2, <1>7, <1>8 DEF StatesAreExact, OnlyReferences, References, Keys, LINKER_VERSION
<1>12. RunOwnsState /\ RunIsExact
  BY <1>2 DEF RunOwnsState, RunIsExact
<1> QED BY <1>1, <1>10, <1>11, <1>12 DEF ExactInv

(***************************************************************************)
(* From an empty manifest on, a table that is recorded for the current     *)
(* source holds nothing of an earlier version, over cancelled and killed   *)
(* runs, replaced sources and every size of a batch.                       *)
(***************************************************************************)
THEOREM NothingStale == LinkerSpec => NeverStale
<1>1. LinkerInit /\ EmptyManifest => ExactInv(FALSE)
  BY EmptyIsExact
<1>2. ExactInv(FALSE) /\ [LinkerNext]_linkerVars => ExactInv(FALSE)'
  BY NextKeepsExact
<1>3. ExactInv(FALSE) => NoStaleOccurrence
  BY DEF ExactInv, StatesAreExact, OnlyReferences, RowsIn, NoStaleOccurrence, Scanned
<1>4. LinkerSpec /\ EmptyManifest => []NoStaleOccurrence
  BY <1>1, <1>2, <1>3, PTL DEF LinkerSpec
<1> QED BY <1>4, PTL DEF NeverStale, EmptyManifest

(***************************************************************************)
(* Types.                                                                  *)
(***************************************************************************)
LEMMA IdleBuilder == BuilderIdle \in BuilderRun /\ BuilderIdle.pc = "idle"
                     /\ ~BuilderIdle.cancel /\ ~BuilderIdle.upgrading
<1>1. NoLookup \in Representatives
  BY DEF NoLookup, Representatives
<1>2. 1 \in Sources
  BY ManifestAssumption DEF Sources
<1> QED BY <1>1, <1>2 DEF BuilderIdle, BuilderRun, BuilderPcs

LEMMA RestingBuilder ==
  ASSUME bd \in BuilderRun
  PROVE  /\ Rested \in BuilderRun /\ Rested.pc = "idle" /\ ~Rested.cancel /\ ~Rested.upgrading
         /\ Rested.halted = bd.halted
<1>1. bd.halted \in BOOLEAN
  BY DEF BuilderRun
<1> QED BY <1>1, IdleBuilder DEF Rested, BuilderRun

LEMMA CubeType ==
  ASSUME occ \in [Keys -> Facts \cup {Absent}], NEW g \in Representatives
  PROVE  CubeOf(occ, g) \subseteq Assets \X Tables \X Rowids \X Dated
BY DEF WithTime, Present, Keys, Representatives, CubeOf

LEMMA BuildRowFields ==
  /\ \A n, f \in Nat :
       /\ [schema |-> 4, ready |-> TRUE, occurrences |-> n, facts |-> f] \in BuildRow
       /\ [schema |-> 4, ready |-> FALSE, occurrences |-> n, facts |-> f] \in BuildRow
  /\ \A r \in BuildRow : r.occurrences \in Nat /\ r.facts \in Nat
BY DEF BuildRow

LEMMA MarkedRow ==
  ASSUME NEW r \in BuildRow
  PROVE  /\ [r EXCEPT !.schema = 4, !.ready = FALSE] \in BuildRow
         /\ [r EXCEPT !.schema = 4, !.ready = FALSE].schema = 4
         /\ ~[r EXCEPT !.schema = 4, !.ready = FALSE].ready
<1> DEFINE m == [r EXCEPT !.schema = 4]
           n == [m EXCEPT !.ready = FALSE]
<1>1. m \in BuildRow /\ m.schema = 4
  BY DEF BuildRow
<1>2. [r EXCEPT !.schema = 4, !.ready = FALSE] = n
  OBVIOUS
<1> HIDE DEF m
<1>3. n \in BuildRow /\ n.schema = 4 /\ ~n.ready
  BY <1>1 DEF BuildRow
<1> HIDE DEF n
<1> QED BY <1>2, <1>3

LEMMA RunFields ==
  /\ \A r \in BuilderRun, b \in SUBSET (Tables \X Rowids) :
       [r EXCEPT !.pc = "update", !.batch = b] \in BuilderRun
  /\ \A r \in BuilderRun, T \in SUBSET Tables : [r EXCEPT !.todo = T] \in BuilderRun
<1>1. \A r \in BuilderRun : [r EXCEPT !.pc = "update"] \in BuilderRun
  BY DEF BuilderRun, BuilderPcs
<1>2. \A r \in BuilderRun, b \in SUBSET (Tables \X Rowids) : [r EXCEPT !.batch = b] \in BuilderRun
  BY DEF BuilderRun
<1>3. \A r \in BuilderRun : \A b :
        [r EXCEPT !.pc = "update", !.batch = b] = [[r EXCEPT !.pc = "update"] EXCEPT !.batch = b]
  BY DEF BuilderRun
<1>4. \A r \in BuilderRun, T \in SUBSET Tables : [r EXCEPT !.todo = T] \in BuilderRun
  BY DEF BuilderRun
<1> QED BY <1>1, <1>2, <1>3, <1>4, Zenon

LEMMA NotReadyType ==
  ASSUME NEW b \in BuildRow \cup {NoRow}
  PROVE  /\ NotReady(b) \in BuildRow /\ NotReady(b).schema = 4 /\ ~NotReady(b).ready
         /\ NotReady(b) # NoRow
<1>1. CASE b = NoRow
  <2>1. NotReady(b) \in BuildRow /\ NotReady(b).schema = 4 /\ ~NotReady(b).ready
    BY <1>1 DEF NotReady, BuildRow
  <2> QED BY <2>1, NullAssumption
<1>2. CASE b # NoRow
  <2>1. b \in BuildRow
    BY <1>2
  <2>2. NotReady(b) = [b EXCEPT !.schema = 4, !.ready = FALSE]
    BY <1>2 DEF NotReady
  <2>3. NotReady(b) \in BuildRow /\ NotReady(b).schema = 4 /\ ~NotReady(b).ready
    BY <2>1, <2>2, MarkedRow, Zenon
  <2> QED BY <2>3, NullAssumption
<1> QED BY <1>1, <1>2

LEMMA StateOfType ==
  ASSUME NEW o, NEW t \in Tables
  PROVE  StateOf(o, t) \in AnalysisRow /\ StateOf(o, t) # NoRow
<1>1. In(Present(o), t) \subseteq Keys /\ In(WithTime(o), t) \subseteq Keys
  BY DEF In, Present, WithTime
<1>2. /\ Cardinality(In(Present(o), t)) \in Nat
      /\ Cardinality(In(WithTime(o), t)) \in Nat
  BY <1>1, KeySetsAreFinite
<1>3. StateOf(o, t) \in AnalysisRow
  BY <1>2 DEF StateOf, AnalysisRow
<1> QED BY <1>3, NullAssumption

LEMMA CancelledRun ==
  ASSUME bd \in BuilderRun, CancelledReport
  PROVE  /\ bd' \in BuilderRun /\ bd'.pc = "idle" /\ ~bd'.cancel
         /\ bd.halted => bd'.halted
         /\ bd.pc = "normalize" => bd'.halted
<1> DEFINE halt == bd.halted \/ bd.pc = "normalize"
<1>1. halt \in BOOLEAN
  OBVIOUS
<1>2. bd' = [Rested EXCEPT !.halted = halt]
  <2>1. bd' = [Rested EXCEPT !.halted = Rested.halted \/ bd.pc = "normalize"]
    BY DEF CancelledReport
  <2> QED BY <2>1, RestingBuilder
<1>3. bd' \in BuilderRun /\ bd'.pc = "idle" /\ ~bd'.cancel /\ bd'.halted = halt
  <2> HIDE DEF halt
  <2> QED BY <1>1, <1>2, RestingBuilder DEF BuilderRun
<1> QED BY <1>3

BuilderMoves ==
  \/ StartBuild \/ FastReturn \/ BeginUpgrade \/ CopyLookup \/ CheckCompleted
  \/ ReadOccurrenceTables \/ AssertTableCount \/ SelectMessages \/ TableAnalysed
  \/ TableMissing \/ EndAnalysis \/ DecideRebuild \/ PauseBuild \/ AbortBuild

\* The steps of the builder that change nothing in the manifest.
LEMMA MovesType ==
  ASSUME groups \in Representatives, bd \in BuilderRun, BuilderMoves
  PROVE  bd' \in BuilderRun /\ UNCHANGED manifestVars
<1>0. UNCHANGED manifestVars
  BY DEF BuilderMoves, StartBuild, FastReturn, BeginUpgrade, CopyLookup, CheckCompleted,
         ReadOccurrenceTables, AssertTableCount, SelectMessages, TableAnalysed,
         TableMissing, EndAnalysis, DecideRebuild, PauseBuild, AbortBuild, ReturnIfCompleted
<1>1. CASE StartBuild
  BY <1>1, RestingBuilder DEF StartBuild, BuilderRun, BuilderPcs
<1>2. CASE FastReturn \/ CheckCompleted
  BY <1>2, RestingBuilder DEF FastReturn, CheckCompleted, ReturnIfCompleted, BuilderRun, BuilderPcs
<1>3. CASE BeginUpgrade
  BY <1>3 DEF BeginUpgrade, BuilderRun, BuilderPcs
<1>4. CASE CopyLookup
  BY <1>4 DEF CopyLookup, BuilderRun, BuilderPcs
<1>5. CASE ReadOccurrenceTables
  <2>1. TablesWithOccurrences \in SUBSET Tables
    BY DEF TablesWithOccurrences
  <2> QED BY <1>5, <2>1 DEF ReadOccurrenceTables, BuilderRun, BuilderPcs
<1>6. CASE AssertTableCount \/ EndAnalysis \/ DecideRebuild
  BY <1>6 DEF AssertTableCount, EndAnalysis, DecideRebuild, BuilderRun, BuilderPcs
<1>7. CASE SelectMessages
  <2>1. PICK t \in bd.todo, b \in SUBSET Rowids :
          bd' = [bd EXCEPT !.pc = "update", !.batch = {t} \X b]
    BY <1>7 DEF SelectMessages
  <2> DEFINE batch == {t} \X b
  <2>2. batch \in SUBSET (Tables \X Rowids)
    BY DEF BuilderRun
  <2>3. bd' = [bd EXCEPT !.pc = "update", !.batch = batch]
    BY <2>1
  <2> HIDE DEF batch
  <2> QED BY <1>0, <2>2, <2>3, RunFields
<1>8. CASE TableAnalysed
  <2>1. PICK t \in bd.todo : bd' = [bd EXCEPT !.todo = @ \ {t}]
    BY <1>8 DEF TableAnalysed
  <2> DEFINE left == bd.todo \ {t}
  <2>2. left \in SUBSET Tables
    BY DEF BuilderRun
  <2>3. bd' = [bd EXCEPT !.todo = left]
    BY <2>1
  <2> HIDE DEF left
  <2> QED BY <1>0, <2>2, <2>3, RunFields
<1>9. CASE TableMissing \/ AbortBuild
  BY <1>9, RestingBuilder DEF TableMissing, AbortBuild
<1>10. CASE PauseBuild
  BY <1>10 DEF PauseBuild, BuilderRun
<1> QED BY <1>0, <1>1, <1>2, <1>3, <1>4, <1>5, <1>6, <1>7, <1>8, <1>9, <1>10 DEF BuilderMoves

BuilderWrites ==
  \/ NormalizeDates \/ RebuildCube \/ OpenAndMarkNotReady \/ CancelledReport
  \/ MaterializeAnalysisStates \/ UpdateFacts

\* The others leave a run and a build row.
LEMMA WritesRun ==
  ASSUME source \in Sources, build \in BuildRow \cup {NoRow}, bd \in BuilderRun,
         BuilderWrites
  PROVE  /\ bd' \in BuilderRun /\ build' \in BuildRow \cup {NoRow}
         /\ UNCHANGED <<source, groups>>
<1>0. UNCHANGED <<source, groups>>
  BY DEF BuilderWrites, NormalizeDates, RebuildCube, OpenAndMarkNotReady, CancelledReport,
         MaterializeAnalysisStates, UpdateFacts
<1>1. CASE NormalizeDates
  <2>1. bd' \in BuilderRun
    BY <1>1 DEF NormalizeDates, BuilderRun, BuilderPcs
  <2> QED BY <1>0, <1>1, <2>1 DEF NormalizeDates
<1>2. CASE RebuildCube
  <2>1. Cardinality(Present(occ)) \in Nat /\ Cardinality(WithTime(occ)) \in Nat
    BY KeySetsAreFinite DEF Present, WithTime
  <2>2. build' \in BuildRow
    BY <1>2, <2>1 DEF RebuildCube, BuildRow
  <2>3. NoLookup \in Representatives
    BY DEF NoLookup, Representatives
  <2>4. bd' \in BuilderRun
    <3>1. CASE bd.upgrading
      BY <1>2, <2>3, <3>1 DEF RebuildCube, BuilderRun, BuilderPcs
    <3>2. CASE ~bd.upgrading
      BY <1>2, <3>2, RestingBuilder DEF RebuildCube
    <3> QED BY <3>1, <3>2
  <2> QED BY <1>0, <2>2, <2>4
<1>3. CASE OpenAndMarkNotReady
  BY <1>3, NotReadyType, <1>0 DEF OpenAndMarkNotReady, BuilderRun, BuilderPcs
<1>4. CASE CancelledReport
  BY <1>0, <1>4, NotReadyType, CancelledRun DEF CancelledReport
<1>5. CASE MaterializeAnalysisStates
  BY <1>5, <1>0 DEF MaterializeAnalysisStates, BuilderRun, BuilderPcs
<1>6. CASE UpdateFacts
  <2>1. bd' \in BuilderRun
    BY <1>6 DEF UpdateFacts, BuilderRun, BuilderPcs
  <2> QED BY <1>0, <1>6, <2>1 DEF UpdateFacts
<1> QED BY <1>1, <1>2, <1>3, <1>4, <1>5, <1>6 DEF BuilderWrites

LEMMA NormalizeType ==
  ASSUME ManifestTypeOK, bd \in BuilderRun, NormalizeDates
  PROVE  BuilderTypeOK' /\ FactsOnlyImproved
<1>1. \A k \in Keys : occ[k] \in Facts \cup {Absent}
  BY DEF ManifestTypeOK
<1>2. occ' = [k \in Keys |-> IF occ[k] = "utc" THEN "local" ELSE occ[k]]
  BY DEF NormalizeDates
<1>3. "utc" # Absent /\ "local" # Absent
  BY NullAssumption DEF Facts
<1>4. occ' \in [Keys -> Facts \cup {Absent}]
  BY <1>1, <1>2 DEF Facts
<1>5. FactsOnlyImproved
  BY <1>2, <1>3 DEF FactsOnlyImproved
<1>6. bd' \in BuilderRun
  BY WritesRun DEF BuilderWrites, ManifestTypeOK
<1> QED BY <1>4, <1>5, <1>6 DEF NormalizeDates, BuilderTypeOK, ManifestTypeOK

LEMMA RebuildType ==
  ASSUME ManifestTypeOK, bd \in BuilderRun, RebuildCube
  PROVE  BuilderTypeOK' /\ FactsOnlyImproved
<1>1. cube' = CubeOf(occ, bd.lookup) /\ UNCHANGED <<source, occ, groups, analysis>>
  BY DEF RebuildCube, RebuiltCube
<1>2. bd.lookup \in Representatives
  BY DEF BuilderRun
<1>3. cube' \subseteq Assets \X Tables \X Rowids \X Dated
  BY <1>1, <1>2, CubeType DEF ManifestTypeOK
<1>5. bd' \in BuilderRun /\ build' \in BuildRow \cup {NoRow}
  BY WritesRun DEF BuilderWrites, ManifestTypeOK
<1>7. FactsOnlyImproved
  BY <1>1 DEF FactsOnlyImproved
<1>8. ManifestTypeOK'
  BY <1>1, <1>3, <1>5 DEF ManifestTypeOK
<1> QED BY <1>5, <1>7, <1>8 DEF BuilderTypeOK

LEMMA MarkType ==
  ASSUME ManifestTypeOK, bd \in BuilderRun, OpenAndMarkNotReady \/ CancelledReport
  PROVE  BuilderTypeOK' /\ FactsOnlyImproved
BY WritesRun DEF OpenAndMarkNotReady, CancelledReport, BuilderWrites, ManifestTypeOK,
  BuilderTypeOK, FactsOnlyImproved

LEMMA MaterializeStatesType ==
  ASSUME ManifestTypeOK, bd \in BuilderRun, MaterializeAnalysisStates
  PROVE  BuilderTypeOK' /\ FactsOnlyImproved
BY StateOfType, WritesRun DEF MaterializeAnalysisStates, StatesOfTables, ManifestTypeOK,
  BuilderWrites, BuilderTypeOK, FactsOnlyImproved

LEMMA UpdateType ==
  ASSUME ManifestTypeOK, bd \in BuilderRun, UpdateFacts
  PROVE  /\ BuilderTypeOK' /\ FactsOnlyImproved
         /\ \A k \in Keys : occ'[k] \in {"none", "utc"} => occ'[k] = occ[k]
<1>1. \A k \in Keys : occ[k] \in Facts \cup {Absent}
  BY DEF ManifestTypeOK
<1>2. \A k \in Keys : \/ occ'[k] = occ[k]
                      \/ occ[k] # Absent /\ occ'[k] = "local"
                      \/ occ[k] = "none" /\ occ'[k] = "void"
  BY DEF UpdateFacts
<1>3. "void" # Absent /\ "local" # Absent /\ "none" # Absent
  BY NullAssumption DEF Facts
<1>4. \A k \in Keys : occ'[k] \in Facts \cup {Absent}
  BY <1>1, <1>2 DEF Facts
<1>5. occ' \in [Keys -> Facts \cup {Absent}]
  <2>1. occ' = [k \in Keys |-> occ'[k]]
    BY DEF UpdateFacts
  <2> QED BY <1>4, <2>1
<1>6. FactsOnlyImproved
  BY <1>2, <1>3 DEF FactsOnlyImproved
<1>7. analysis' \in [Tables -> AnalysisRow \cup {NoRow}]
  BY StateOfType DEF ManifestTypeOK, UpdateFacts
<1>8. bd' \in BuilderRun
  BY WritesRun DEF BuilderWrites, ManifestTypeOK
<1>9. ManifestTypeOK'
  BY <1>5, <1>7 DEF UpdateFacts, ManifestTypeOK
<1> QED BY <1>2, <1>6, <1>8, <1>9 DEF BuilderTypeOK

BuilderActs == StartBuild \/ BuilderStep \/ PauseBuild \/ AbortBuild

\* Whatever the builder does, rows stay where they are and final facts final.
LEMMA BuilderActsType ==
  ASSUME ManifestTypeOK, bd \in BuilderRun, BuilderActs
  PROVE  BuilderTypeOK' /\ FactsOnlyImproved /\ source' = source /\ groups' = groups
<1>1. CASE BuilderMoves
  BY <1>1, MovesType DEF ManifestTypeOK, manifestVars, FactsOnlyImproved, BuilderTypeOK
<1>2. CASE NormalizeDates
  BY <1>2, NormalizeType DEF NormalizeDates
<1>3. CASE RebuildCube
  BY <1>3, RebuildType DEF RebuildCube
<1>4. CASE OpenAndMarkNotReady \/ CancelledReport
  BY <1>4, MarkType DEF OpenAndMarkNotReady, CancelledReport
<1>5. CASE MaterializeAnalysisStates
  BY <1>5, MaterializeStatesType DEF MaterializeAnalysisStates
<1>6. CASE UpdateFacts
  BY <1>6, UpdateType DEF UpdateFacts
<1> QED BY <1>1, <1>2, <1>3, <1>4, <1>5, <1>6 DEF BuilderActs, BuilderStep, BuilderMoves


(***************************************************************************)
(* Facts that are known: a run marks a build ready only over messages that *)
(* were looked up, wherever it was paused or killed.                       *)
(***************************************************************************)
FactsKnown == \A k \in Keys : occ[k] # "none"

Analysing == {"states", "assert", "analyze", "update", "decide"}

\* Until the analysis has ended, what is not looked up yet is in a table that
\* the run still has to do.
AnalysisCovers ==
  bd.pc \in Analysing => \A k \in Keys : occ[k] = "none" => k[2] \in bd.todo

KnownInv ==
  /\ build # NoRow /\ build.ready => FactsKnown
  /\ bd.pc \in {"normalize", "lookup", "rebuild"} => FactsKnown
  /\ AnalysisCovers
  /\ bd.pc = "decide" /\ ~bd.cancel => bd.todo = {}

CubeTypes ==
  /\ source \in Sources /\ groups \in Representatives
  /\ build \in BuildRow \cup {NoRow} /\ bd \in BuilderRun

LEMMA KnownIsComplete == KnownInv => ReadyFactsComplete
BY DEF KnownInv, FactsKnown, ReadyFactsComplete, Completed, Present

\* Steps that bring no row without facts, and no ready mark.
LEMMA QuietStep ==
  ASSUME KnownInv, \A k \in Keys : occ'[k] = "none" => occ[k] = "none",
         build' = build \/ build' = NoRow \/ ~build'.ready,
         \/ bd'.pc \in {"idle", "fast", "upgrade", "check", "mark", "tables"}
         \/ /\ bd'.pc = bd.pc /\ bd'.todo = bd.todo
            /\ ~bd'.cancel => ~bd.cancel
  PROVE  KnownInv'
BY DEF KnownInv, FactsKnown, AnalysisCovers, Analysing

LEMMA MovesKeepKnown ==
  ASSUME CubeTypes, KnownInv, BuilderMoves
  PROVE  KnownInv'
<1>0. /\ bd \in BuilderRun /\ bd' \in BuilderRun
      /\ UNCHANGED <<source, occ, groups, cube, build, analysis>>
  BY MovesType DEF CubeTypes, manifestVars
<1>1. \A k \in Keys : occ'[k] = "none" => occ[k] = "none"
  BY <1>0
<1>2. CASE StartBuild \/ FastReturn \/ CheckCompleted \/ TableMissing \/ AbortBuild
  <2>1. bd'.pc \in {"idle", "fast", "upgrade", "mark"}
    BY <1>0, <1>2, RestingBuilder DEF StartBuild, FastReturn, CheckCompleted, ReturnIfCompleted,
      TableMissing, AbortBuild, BuilderRun
  <2> QED BY <1>0, <1>1, <2>1, QuietStep
<1>3. CASE BeginUpgrade
  BY <1>0, <1>3 DEF BeginUpgrade, Upgradable, BuilderRun, KnownInv, FactsKnown, AnalysisCovers,
    Analysing
<1>4. CASE CopyLookup
  BY <1>0, <1>4 DEF CopyLookup, BuilderRun, KnownInv, FactsKnown, AnalysisCovers, Analysing
<1>5. CASE ReadOccurrenceTables
  <2>1. bd'.pc = "states" /\ bd'.todo = TablesWithOccurrences
    BY <1>0, <1>5 DEF ReadOccurrenceTables, BuilderRun
  <2>2. ASSUME NEW k \in Keys, occ[k] = "none" PROVE k[2] \in TablesWithOccurrences
    <3>1. k \in Present(occ) /\ k[2] \in Tables
      BY <2>2, NullAssumption DEF Present, Facts, Keys
    <3>2. k \in In(Present(occ), k[2])
      BY <3>1 DEF In
    <3> QED BY <3>1, <3>2 DEF TablesWithOccurrences
  <2> QED BY <1>0, <2>1, <2>2 DEF KnownInv, FactsKnown, AnalysisCovers
<1>6. CASE AssertTableCount \/ EndAnalysis
  BY <1>0, <1>6 DEF AssertTableCount, EndAnalysis, BuilderRun, KnownInv, FactsKnown,
    AnalysisCovers, Analysing
<1>7. CASE SelectMessages
  <2>1. PICK t \in bd.todo, b \in SUBSET Rowids :
          bd' = [bd EXCEPT !.pc = "update", !.batch = {t} \X b]
    BY <1>7 DEF SelectMessages
  <2>2. bd.pc = "analyze" /\ bd'.pc = "update" /\ bd'.todo = bd.todo
    BY <1>0, <1>7, <2>1 DEF SelectMessages, BuilderRun
  <2> QED BY <1>0, <2>2 DEF KnownInv, FactsKnown, AnalysisCovers, Analysing
<1>8. CASE TableAnalysed
  <2>1. PICK t \in bd.todo : Uninspected(t) = {} /\ bd' = [bd EXCEPT !.todo = @ \ {t}]
    BY <1>8 DEF TableAnalysed
  <2>2. bd.pc = "analyze" /\ bd'.pc = "analyze" /\ bd'.todo = bd.todo \ {t}
    BY <1>0, <1>8, <2>1 DEF TableAnalysed, BuilderRun
  <2>3. ASSUME NEW k \in Keys, occ[k] = "none" PROVE k[2] # t
    <3>1. k \in Present(occ)
      BY <2>3, NullAssumption DEF Present, Facts
    <3> QED BY <2>1, <2>3, <3>1 DEF Uninspected, In
  <2> QED BY <1>0, <2>2, <2>3 DEF KnownInv, FactsKnown, AnalysisCovers, Analysing
<1>9. CASE DecideRebuild
  BY <1>0, <1>9 DEF DecideRebuild, BuilderRun, KnownInv, FactsKnown, AnalysisCovers, Analysing
<1>10. CASE PauseBuild
  <2>1. bd'.pc = bd.pc /\ bd'.todo = bd.todo /\ bd'.cancel
    BY <1>0, <1>10 DEF PauseBuild, BuilderRun
  <2> QED BY <1>0, <1>1, <2>1, QuietStep
<1> QED BY <1>2, <1>3, <1>4, <1>5, <1>6, <1>7, <1>8, <1>9, <1>10 DEF BuilderMoves

\* Steps that write the manifest.
LEMMA WritesKeepKnown ==
  ASSUME CubeTypes, KnownInv, BuilderWrites
  PROVE  KnownInv'
<1>0. bd \in BuilderRun /\ build \in BuildRow \cup {NoRow}
  BY DEF CubeTypes
<1>1. CASE NormalizeDates
  BY <1>0, <1>1 DEF NormalizeDates, BuilderRun, KnownInv, FactsKnown, AnalysisCovers, Analysing
<1>2. CASE RebuildCube
  BY <1>0, <1>2, RestingBuilder DEF RebuildCube, BuilderRun, KnownInv, FactsKnown, AnalysisCovers,
    Analysing
<1>3. CASE OpenAndMarkNotReady \/ CancelledReport
  <2>1. bd'.pc \in {"idle", "tables"} /\ ~build'.ready /\ occ' = occ
    BY <1>0, <1>3, CancelledRun, NotReadyType DEF OpenAndMarkNotReady, CancelledReport, BuilderRun
  <2> QED BY <2>1, QuietStep
<1>4. CASE MaterializeAnalysisStates
  <2>1. /\ bd.pc = "states" /\ bd'.todo = bd.todo /\ bd'.pc \in {"analyze", "assert"}
        /\ UNCHANGED <<occ, build>>
    BY <1>0, <1>4 DEF MaterializeAnalysisStates, BuilderRun
  <2> QED BY <2>1 DEF KnownInv, FactsKnown, AnalysisCovers, Analysing
<1>5. CASE UpdateFacts
  <2>1. bd.pc = "update" /\ bd'.pc = "analyze" /\ bd'.todo = bd.todo /\ build' = build
    BY <1>0, <1>5 DEF UpdateFacts, BuilderRun
  <2>2. \A k \in Keys : occ'[k] = "none" => occ[k] = "none"
    BY <1>5 DEF UpdateFacts
  <2> QED BY <2>1, <2>2 DEF KnownInv, FactsKnown, AnalysisCovers, Analysing
<1> QED BY <1>1, <1>2, <1>3, <1>4, <1>5 DEF BuilderWrites

LEMMA BuilderKeepsKnown ==
  ASSUME CubeTypes, KnownInv, BuilderActs
  PROVE  KnownInv'
BY MovesKeepKnown, WritesKeepKnown DEF BuilderActs, BuilderStep, BuilderMoves, BuilderWrites

(***************************************************************************)
(* The builder by itself (BuilderSpec).  Dates of an earlier release are   *)
(* gone before the upgrade is behind the run, unless a pause cut it off.   *)
(***************************************************************************)
DatesLocal == \A k \in Keys : occ[k] # "utc"

DatesInv ==
  \/ bd.halted \/ DatesLocal
  \/ Upgradable(build) /\ bd.pc \in {"idle", "fast", "upgrade", "normalize"}

BuilderInv == BuilderTypeOK /\ KnownInv /\ DatesInv

LEMMA CompletedIsUpgraded == \A b \in BuildRow \cup {NoRow} : Completed(b) => ~Upgradable(b)
BY DEF Completed, Upgradable, BuildRow

\* Nobody forgets that an upgrade was cut off.
LEMMA HaltedStays ==
  ASSUME bd \in BuilderRun, BuilderActs, bd.halted
  PROVE  bd'.halted
<1>1. CASE StartBuild \/ FastReturn \/ CheckCompleted \/ TableMissing \/ AbortBuild \/ RebuildCube
  BY <1>1, RestingBuilder DEF StartBuild, FastReturn, CheckCompleted, ReturnIfCompleted,
    TableMissing, AbortBuild, RebuildCube, BuilderRun
<1>2. CASE CancelledReport
  BY <1>2, CancelledRun
<1>3. CASE SelectMessages
  <2>1. PICK t \in bd.todo, b \in SUBSET Rowids :
          bd' = [bd EXCEPT !.pc = "update", !.batch = {t} \X b]
    BY <1>3 DEF SelectMessages
  <2> QED BY <2>1 DEF BuilderRun
<1>4. CASE \/ BeginUpgrade \/ NormalizeDates \/ CopyLookup \/ OpenAndMarkNotReady
           \/ ReadOccurrenceTables \/ MaterializeAnalysisStates \/ AssertTableCount \/ UpdateFacts
           \/ TableAnalysed \/ EndAnalysis \/ DecideRebuild \/ PauseBuild
  BY <1>4 DEF BeginUpgrade, NormalizeDates, CopyLookup, OpenAndMarkNotReady,
    ReadOccurrenceTables, MaterializeAnalysisStates, AssertTableCount, UpdateFacts, TableAnalysed,
    EndAnalysis, DecideRebuild, PauseBuild, BuilderRun
<1> QED BY <1>1, <1>2, <1>3, <1>4 DEF BuilderActs, BuilderStep

LEMMA DatesStay ==
  ASSUME BuilderTypeOK, DatesInv, BuilderActs
  PROVE  DatesInv'
<1>0. bd \in BuilderRun /\ build \in BuildRow \cup {NoRow} /\ groups \in Representatives
  BY DEF BuilderTypeOK, ManifestTypeOK
<1>1. CASE bd.halted
  BY <1>0, <1>1, HaltedStays DEF DatesInv
<1>2. CASE DatesLocal
  <2>1. \A k \in Keys : occ'[k] = "utc" => occ[k] = "utc"
    <3>1. CASE NormalizeDates
      BY <3>1 DEF NormalizeDates
    <3>2. CASE UpdateFacts
      BY <3>2 DEF UpdateFacts
    <3>3. CASE BuilderMoves
      BY <1>0, <3>3, MovesType DEF manifestVars
    <3>4. CASE RebuildCube \/ OpenAndMarkNotReady \/ CancelledReport \/ MaterializeAnalysisStates
      BY <3>4 DEF RebuildCube, OpenAndMarkNotReady, CancelledReport, MaterializeAnalysisStates
    <3> QED BY <3>1, <3>2, <3>3, <3>4 DEF BuilderActs, BuilderStep, BuilderMoves
  <2> QED BY <1>2, <2>1 DEF DatesInv, DatesLocal
<1>3. CASE Upgradable(build) /\ bd.pc \in {"idle", "fast", "upgrade", "normalize"}
  <2>1. CASE StartBuild \/ FastReturn \/ BeginUpgrade \/ AbortBuild \/ PauseBuild
    <3>1. build' = build /\ bd'.pc \in {"idle", "fast", "upgrade", "normalize"}
      BY <1>0, <1>3, <2>1, RestingBuilder DEF StartBuild, FastReturn, ReturnIfCompleted,
        BeginUpgrade, AbortBuild, PauseBuild, manifestVars, BuilderRun
    <3> QED BY <1>3, <3>1 DEF DatesInv, Upgradable
  <2>2. CASE NormalizeDates
    <3>1. \A k \in Keys : occ'[k] # "utc"
      BY <2>2 DEF NormalizeDates
    <3> QED BY <3>1 DEF DatesInv, DatesLocal
  <2>3. CASE CancelledReport
    <3>1. bd.pc = "normalize"
      BY <1>3, <2>3 DEF CancelledReport
    <3> QED BY <1>0, <2>3, <3>1, CancelledRun DEF DatesInv
  <2> QED BY <1>3, <2>1, <2>2, <2>3 DEF BuilderActs, BuilderStep, CopyLookup, RebuildCube,
        CheckCompleted, ReturnIfCompleted, OpenAndMarkNotReady, ReadOccurrenceTables,
        MaterializeAnalysisStates, AssertTableCount, SelectMessages, UpdateFacts, TableAnalysed,
        TableMissing, EndAnalysis, DecideRebuild
<1> QED BY <1>1, <1>2, <1>3 DEF DatesInv

LEMMA BuilderInitInv == BuilderInit => BuilderInv
<1> SUFFICES ASSUME BuilderInit PROVE BuilderInv
  OBVIOUS
<1>1. bd.pc = "idle" /\ ~bd.cancel /\ bd \in BuilderRun
  BY IdleBuilder DEF BuilderInit
<1>2. source \in Sources /\ groups \in Representatives
  BY ManifestAssumption DEF BuilderInit, Sources
<1>3. occ \in [Keys -> Facts \cup {Absent}]
  BY DEF BuilderInit
<1>4. CubeOf(occ, groups) \subseteq Assets \X Tables \X Rowids \X Dated
  BY <1>2, <1>3, CubeType
<1>5. Cardinality(Present(occ)) \in Nat /\ Cardinality(WithTime(occ)) \in Nat
  BY KeySetsAreFinite DEF Present, WithTime
<1>a. \A k \in Keys : occ[k] \in {"none", "utc"} => k \in Present(occ)
  BY NullAssumption DEF Present, Facts
<1>6. /\ build \in BuildRow \cup {NoRow}
      /\ cube \subseteq Assets \X Tables \X Rowids \X Dated
      /\ build # NoRow /\ build.ready => FactsKnown
      /\ DatesLocal \/ Upgradable(build)
  <2>1. CASE build = NoRow /\ cube = {} /\ \A k \in Present(occ) : occ[k] = "none"
    BY <1>a, <2>1 DEF DatesLocal
  <2>2. CASE /\ \A k \in Present(occ) : occ[k] \in {"utc", "void"}
             /\ cube = CubeOf(occ, groups)
             /\ build = [schema |-> 3, ready |-> TRUE,
                         occurrences |-> Cardinality(Present(occ)),
                         facts |-> Cardinality(WithTime(occ))]
    <3>1. build \in BuildRow
      BY <1>5, <2>2 DEF BuildRow
    <3>2. build # NoRow /\ build.schema = 3 /\ build.ready
      <4>1. build # NoRow
        BY <3>1, NullAssumption
      <4> QED BY <2>2, <4>1
    <3>3. FactsKnown /\ Upgradable(build)
      BY <1>a, <2>2, <3>2 DEF FactsKnown, Upgradable
    <3> QED BY <1>4, <2>2, <3>1, <3>3
  <2>3. CASE /\ \A k \in Present(occ) : occ[k] # "utc"
             /\ build = [schema |-> 4, ready |-> FALSE, occurrences |-> 0, facts |-> 0]
             /\ cube = {}
    BY <1>a, <2>3, BuildRowFields DEF DatesLocal
  <2> QED BY <2>1, <2>2, <2>3 DEF BuilderInit
<1>7. analysis \in [Tables -> AnalysisRow \cup {NoRow}]
  BY DEF BuilderInit
<1>8. BuilderTypeOK
  BY <1>1, <1>2, <1>3, <1>6, <1>7 DEF BuilderTypeOK, ManifestTypeOK
<1>9. KnownInv
  BY <1>1, <1>6 DEF KnownInv, AnalysisCovers, Analysing
<1> QED BY <1>1, <1>6, <1>8, <1>9 DEF BuilderInv, DatesInv

LEMMA BuilderNextKeepsInv == BuilderInv /\ [BuilderNext]_builderVars => BuilderInv'
<1> SUFFICES ASSUME BuilderInv, [BuilderNext]_builderVars PROVE BuilderInv'
  OBVIOUS
<1>0. BuilderTypeOK /\ ManifestTypeOK /\ bd \in BuilderRun /\ CubeTypes /\ KnownInv /\ DatesInv
  BY DEF BuilderInv, BuilderTypeOK, ManifestTypeOK, CubeTypes
<1>1. CASE BuilderActs
  BY <1>0, <1>1, BuilderActsType, BuilderKeepsKnown, DatesStay DEF BuilderInv
<1>2. CASE ReplaceSource /\ UNCHANGED bd
  <2>1. BuilderTypeOK'
    BY <1>0, <1>2, ManifestAssumption DEF BuilderTypeOK, ManifestTypeOK, ReplaceSource, Sources
  <2>2. UNCHANGED <<occ, build, bd>>
    BY <1>2 DEF ReplaceSource
  <2> QED BY <1>0, <2>1, <2>2, QuietStep DEF BuilderInv, DatesInv, DatesLocal, Upgradable
<1>3. CASE UNCHANGED builderVars
  <2>1. UNCHANGED <<source, occ, groups, cube, build, analysis, bd>>
    BY <1>3 DEF builderVars
  <2>2. BuilderTypeOK'
    BY <1>0, <2>1 DEF BuilderTypeOK, ManifestTypeOK
  <2> QED BY <1>0, <2>1, <2>2, QuietStep DEF BuilderInv, DatesInv, DatesLocal, Upgradable
<1> QED BY <1>1, <1>2, <1>3 DEF BuilderNext, BuilderActs

(***************************************************************************)
(* Wherever a build is paused or killed, its ready mark is only ever over  *)
(* facts that are known, and over dates in their final form, but for an    *)
(* upgrade that a pause cut off before the dates were normalised.          *)
(***************************************************************************)
THEOREM BuildIsSound == BuilderSpec => []BuildSound
<1>1. BuilderInit => BuilderInv
  BY BuilderInitInv
<1>2. BuilderInv /\ [BuilderNext]_builderVars => BuilderInv'
  BY BuilderNextKeepsInv
<1>3. BuilderInv => BuildSound
  <2> SUFFICES ASSUME BuilderInv PROVE BuildSound
    OBVIOUS
  <2>1. Completed(build) => ~Upgradable(build)
    BY CompletedIsUpgraded DEF BuilderInv, BuilderTypeOK, ManifestTypeOK
  <2>2. bd.halted \/ ReadyDatesLocal
    BY <2>1 DEF BuilderInv, DatesInv, DatesLocal, ReadyDatesLocal, Present
  <2> QED BY <2>2, KnownIsComplete DEF BuilderInv, BuildSound
<1> QED BY <1>1, <1>2, <1>3, PTL DEF BuilderSpec


(***************************************************************************)
(* The cube under a ready mark (MaintenancePipeline).  Between its check   *)
(* of the mark and its end a run works on a build that is not ready, and   *)
(* the mapping it copied is the stored one as long as the indexer keeps    *)
(* away from a build.                                                      *)
(***************************************************************************)
CubeInv ==
  /\ ReadyCubeCurrent
  /\ bd.pc \notin {"idle", "fast", "check"} => ~Completed(build)
  /\ bd.pc = "rebuild" => bd.lookup = groups

LEMMA MovesKeepCube ==
  ASSUME CubeTypes, CubeInv, BuilderMoves
  PROVE  CubeTypes' /\ CubeInv'
<1>0. bd \in BuilderRun /\ bd' \in BuilderRun /\ UNCHANGED <<source, occ, groups, cube, build>>
  BY MovesType DEF CubeTypes, manifestVars
<1>1. CubeTypes'
  BY <1>0 DEF CubeTypes
<1>2. ReadyCubeCurrent' /\ (Completed(build)' <=> Completed(build))
  BY <1>0 DEF CubeInv, ReadyCubeCurrent, Completed
<1>3. CASE StartBuild \/ TableMissing \/ AbortBuild
  <2>1. bd'.pc \in {"idle", "fast"}
    BY <1>0, <1>3, RestingBuilder DEF StartBuild, TableMissing, AbortBuild, BuilderRun, CubeTypes
  <2> QED BY <1>1, <1>2, <2>1 DEF CubeInv
<1>4. CASE FastReturn \/ CheckCompleted
  BY <1>0, <1>4, RestingBuilder, <1>1, <1>2 DEF FastReturn, CheckCompleted,
    ReturnIfCompleted, BuilderRun, CubeInv
<1>5. CASE CopyLookup
  BY <1>0, <1>5, <1>1, <1>2 DEF CopyLookup, BuilderRun, CubeInv
<1>6. CASE PauseBuild
  <2>1. bd'.pc = bd.pc /\ bd'.lookup = bd.lookup
    BY <1>0, <1>6 DEF PauseBuild, BuilderRun
  <2> QED BY <1>0, <1>1, <1>2, <2>1 DEF CubeInv
<1>7. CASE BeginUpgrade \/ ReadOccurrenceTables \/ AssertTableCount \/ EndAnalysis
           \/ DecideRebuild
  BY <1>0, <1>7, <1>1, <1>2 DEF BeginUpgrade, ReadOccurrenceTables, AssertTableCount,
    EndAnalysis, DecideRebuild, BuilderRun, CubeInv
<1>8. CASE SelectMessages
  <2>1. PICK t \in bd.todo, b \in SUBSET Rowids :
          bd' = [bd EXCEPT !.pc = "update", !.batch = {t} \X b]
    BY <1>8 DEF SelectMessages
  <2>2. bd.pc = "analyze" /\ bd'.pc = "update"
    BY <1>0, <1>8, <2>1 DEF SelectMessages, BuilderRun
  <2> QED BY <1>1, <1>2, <2>2 DEF CubeInv
<1>9. CASE TableAnalysed
  <2>1. bd.pc = "analyze" /\ bd'.pc = "analyze"
    BY <1>0, <1>9 DEF TableAnalysed, BuilderRun
  <2> QED BY <1>1, <1>2, <2>1 DEF CubeInv
<1> QED BY <1>3, <1>4, <1>5, <1>6, <1>7, <1>8, <1>9 DEF BuilderMoves

LEMMA WritesKeepCube ==
  ASSUME CubeTypes, CubeInv, BuilderWrites
  PROVE  CubeTypes' /\ CubeInv'
<1>0. /\ bd \in BuilderRun /\ build \in BuildRow \cup {NoRow}
      /\ bd' \in BuilderRun /\ UNCHANGED <<source, groups>>
  BY WritesRun DEF CubeTypes
<1>1. CubeTypes'
  BY <1>0, WritesRun DEF CubeTypes
<1>2. CASE NormalizeDates \/ UpdateFacts
  BY <1>0, <1>2, <1>1 DEF NormalizeDates, UpdateFacts, BuilderRun, CubeInv, Completed,
    ReadyCubeCurrent
<1>3. CASE RebuildCube
  BY <1>0, <1>3, RestingBuilder, <1>1 DEF CubeInv, RebuildCube, RebuiltCube, BuilderRun,
    ReadyCubeCurrent, CubeOf, WithTime, Present
<1>4. CASE OpenAndMarkNotReady \/ CancelledReport
  BY <1>0, <1>4, CancelledRun, NotReadyType, <1>1 DEF OpenAndMarkNotReady,
    CancelledReport, BuilderRun, Completed, CubeInv, ReadyCubeCurrent
<1>5. CASE MaterializeAnalysisStates
  BY <1>0, <1>5, <1>1 DEF MaterializeAnalysisStates, BuilderRun, CubeInv, Completed,
    ReadyCubeCurrent
<1> QED BY <1>2, <1>3, <1>4, <1>5 DEF BuilderWrites

\* A step of the linker leaves the rows and the cube, or takes the mark away.
LEMMA LinkerInvalidates ==
  ASSUME StartLink \/ LinkerStep \/ CancelLink \/ AbortLink
  PROVE  /\ UNCHANGED <<source, groups>>
         /\ build' = Invalidated \/ UNCHANGED <<occ, cube, build>>
<1>1. CASE StartLink \/ CancelLink \/ AbortLink
  BY <1>1 DEF StartLink, CancelLink, AbortLink, manifestVars
<1>2. CASE ReadIdentity \/ OpenChat \/ ReadBatch \/ SkipCorrupt \/ EndTable \/ FinishLink
  BY <1>2 DEF ReadIdentity, OpenChat, ReadBatch, SkipCorrupt, EndTable, FinishLink, manifestVars
<1>3. CASE MaterializeScanStates
  BY <1>3 DEF MaterializeScanStates, InvalidatedWhen
<1>4. CASE BeginTable
  BY <1>4 DEF BeginTable, InvalidatedWhen
<1>5. CASE CommitBatch
  BY <1>5 DEF CommitBatch, InvalidatedWhen
<1> QED BY <1>1, <1>2, <1>3, <1>4, <1>5 DEF LinkerStep

LEMMA LinkerKeepsCube ==
  ASSUME CubeTypes, CubeInv, Linker
  PROVE  CubeTypes' /\ CubeInv'
<1>1. /\ UNCHANGED <<source, groups, bd>>
      /\ build' = Invalidated \/ UNCHANGED <<occ, cube, build>>
  BY LinkerInvalidates DEF Linker
<1>2. CASE build' = Invalidated
  <2>1. build' \in BuildRow /\ ~Completed(build)'
    BY <1>2, InvalidatedType DEF Completed, Invalidated
  <2> QED BY <1>1, <2>1 DEF CubeTypes, CubeInv, ReadyCubeCurrent
<1>3. CASE UNCHANGED <<occ, cube, build>>
  BY <1>1, <1>3 DEF CubeTypes, CubeInv, ReadyCubeCurrent, Completed, CubeOf, WithTime, Present
<1> QED BY <1>1, <1>2, <1>3

LEMMA RefreshKeepsCube ==
  ASSUME CubeTypes, CubeInv, RefreshIndex, Indexing # "any time"
  PROVE  CubeTypes' /\ CubeInv'
<1>1. PICK g \in Representatives : RefreshExactGroups(g)
  BY DEF RefreshIndex
<1>2. bd.pc = "idle" /\ UNCHANGED <<bd, source, occ>> /\ groups' = g
  BY <1>1 DEF RefreshIndex, RefreshExactGroups
<1>3. CASE g # groups
  <2>1. build' = NoRow
    BY <1>1, <1>3 DEF RefreshExactGroups
  <2> QED BY <1>2, <2>1 DEF CubeTypes, CubeInv, ReadyCubeCurrent, Completed
<1>4. CASE g = groups
  <2>1. UNCHANGED <<groups, cube, build>>
    BY <1>1, <1>4 DEF RefreshExactGroups
  <2> QED BY <1>2, <2>1
        DEF CubeTypes, CubeInv, ReadyCubeCurrent, Completed, CubeOf, WithTime, Present
<1> QED BY <1>3, <1>4

LEMMA NextSource == \A s \in Sources : s < MaxSource => s + 1 \in Sources
<1>1. MaxSource \in Nat
  BY ManifestAssumption
<1> QED BY <1>1 DEF Sources

LEMMA PipelineKeepsCube ==
  ASSUME CubeTypes, CubeInv, [PipelineNext]_pipelineVars, Indexing # "any time"
  PROVE  CubeTypes' /\ CubeInv'
<1>1. CASE Linker
  BY <1>1, LinkerKeepsCube
<1>2. CASE Builder
  BY <1>2, MovesKeepCube, WritesKeepCube DEF Builder, BuilderStep, BuilderMoves, BuilderWrites
<1>3. CASE RefreshIndex
  BY <1>3, RefreshKeepsCube
<1>4. CASE ReplaceSource /\ UNCHANGED <<scan, lk, bd>>
  <2>a. source \in Sources /\ source < MaxSource /\ source' = source + 1
    BY <1>4 DEF CubeTypes, ReplaceSource
  <2>1. source' \in Sources
    BY <2>a, NextSource
  <2>2. UNCHANGED <<occ, groups, cube, build, bd>>
    BY <1>4 DEF ReplaceSource
  <2> QED BY <2>1, <2>2
        DEF CubeTypes, CubeInv, ReadyCubeCurrent, Completed, CubeOf, WithTime, Present
<1>5. CASE UNCHANGED pipelineVars
  <2>1. UNCHANGED <<source, occ, groups, cube, build, bd>>
    BY <1>5 DEF pipelineVars
  <2> QED BY <2>1
        DEF CubeTypes, CubeInv, ReadyCubeCurrent, Completed, CubeOf, WithTime, Present
<1> QED BY <1>1, <1>2, <1>3, <1>4, <1>5 DEF PipelineNext

LEMMA PipelineInitCube == PipelineInit => CubeTypes /\ CubeInv
<1> SUFFICES ASSUME PipelineInit PROVE CubeTypes /\ CubeInv
  OBVIOUS
<1>1. bd \in BuilderRun /\ bd.pc = "idle"
  BY IdleBuilder DEF PipelineInit
<1>2. LinkerTypeOK
  BY InitType DEF PipelineInit
<1>3. ~Completed(build)
  <2>1. PICK legacy \in {"none", LegacyScan} :
          \E u \in ScannedUpTo(legacy), d \in {"none", "utc"} : LinkedBefore(legacy, u, d)
    BY DEF PipelineInit, LinkerInit
  <2>2. build = NoRow \/ build = [schema |-> 3, ready |-> TRUE,
                                  occurrences |-> Cardinality(Present(occ)),
                                  facts |-> Cardinality(Present(occ))]
    BY <2>1 DEF LinkedBefore
  <2> QED BY <2>2 DEF Completed
<1> QED BY <1>1, <1>2, <1>3
      DEF CubeTypes, CubeInv, ReadyCubeCurrent, LinkerTypeOK, ManifestTypeOK

(***************************************************************************)
(* While the indexer leaves the exact groups alone during a build, a build *)
(* that is served holds the cube of the rows and groups stored now,        *)
(* whatever the linker commits, deletes or drops between its steps and     *)
(* however often the source is replaced.                                   *)
(***************************************************************************)
THEOREM ReadyCubeIsCurrent ==
  ASSUME Indexing # "any time"
  PROVE  PipelineSpec => []ReadyCubeCurrent
<1>1. PipelineInit => CubeTypes /\ CubeInv
  BY PipelineInitCube
<1>2. CubeTypes /\ CubeInv /\ [PipelineNext]_pipelineVars => (CubeTypes /\ CubeInv)'
  BY PipelineKeepsCube
<1>3. CubeInv => ReadyCubeCurrent
  BY DEF CubeInv
<1> QED BY <1>1, <1>2, <1>3, PTL DEF PipelineSpec


(***************************************************************************)
(* Facts that are known, beside a linker and an indexer.                   *)
(***************************************************************************)
\* The linker writes the facts of a message with its occurrence.
LEMMA LinkerKnowsFacts ==
  ASSUME Linker
  PROVE  \A k \in Keys : occ'[k] = "none" => occ[k] = "none"
<1>0. Absent # "none"
  BY NullAssumption DEF Facts
<1>1. CASE StartLink \/ CancelLink \/ AbortLink
  BY <1>1 DEF StartLink, CancelLink, AbortLink, manifestVars
<1>2. CASE ReadIdentity \/ OpenChat \/ ReadBatch \/ SkipCorrupt \/ EndTable \/ FinishLink
  BY <1>2 DEF ReadIdentity, OpenChat, ReadBatch, SkipCorrupt, EndTable, FinishLink, manifestVars
<1>3. CASE MaterializeScanStates
  BY <1>0, <1>3 DEF MaterializeScanStates
<1>4. CASE BeginTable
  BY <1>0, <1>4 DEF BeginTable
<1>5. CASE CommitBatch
  BY <1>0, <1>5 DEF CommitBatch, LinkedRow
<1> QED BY <1>1, <1>2, <1>3, <1>4, <1>5 DEF Linker, LinkerStep

LEMMA PipelineKeepsKnown ==
  ASSUME CubeTypes, KnownInv, [PipelineNext]_pipelineVars
  PROVE  CubeTypes' /\ KnownInv'
<1>0. bd \in BuilderRun /\ groups \in Representatives
  BY DEF CubeTypes
<1>1. CASE Linker
  <2>1. /\ UNCHANGED <<source, groups, bd>>
        /\ build' = Invalidated \/ build' = build
    BY <1>1, LinkerInvalidates DEF Linker
  <2>2. build' = build \/ ~build'.ready
    BY <2>1 DEF Invalidated
  <2>3. KnownInv'
    BY <1>1, <2>1, <2>2, LinkerKnowsFacts, QuietStep
  <2> QED BY <2>1, <2>3, InvalidatedType DEF CubeTypes
<1>2. CASE Builder
  <2>1. BuilderActs
    BY <1>2 DEF Builder, BuilderActs
  <2>2. KnownInv'
    BY <2>1, BuilderKeepsKnown
  <2>3. CASE BuilderMoves
    BY <1>0, <2>2, <2>3, MovesType DEF CubeTypes, manifestVars
  <2>4. CASE BuilderWrites
    BY <1>0, <2>2, <2>4, WritesRun DEF CubeTypes
  <2> QED BY <2>1, <2>3, <2>4 DEF BuilderActs, BuilderStep, BuilderMoves, BuilderWrites
<1>3. CASE RefreshIndex
  <2>1. PICK g \in Representatives : RefreshExactGroups(g) /\ UNCHANGED bd
    BY <1>3 DEF RefreshIndex
  <2>2. /\ UNCHANGED <<bd, source, occ>> /\ groups' = g
        /\ build' = build \/ build' = NoRow
    BY <2>1 DEF RefreshExactGroups
  <2>3. KnownInv'
    BY <2>2, QuietStep
  <2> QED BY <2>2, <2>3 DEF CubeTypes
<1>4. CASE ReplaceSource /\ UNCHANGED <<scan, lk, bd>>
  <2>1. source \in Sources /\ source < MaxSource /\ source' = source + 1
    BY <1>4 DEF CubeTypes, ReplaceSource
  <2>2. source' \in Sources
    BY <2>1, NextSource
  <2>3. UNCHANGED <<occ, groups, build, bd>>
    BY <1>4 DEF ReplaceSource
  <2> QED BY <2>2, <2>3, QuietStep DEF CubeTypes
<1>5. CASE UNCHANGED pipelineVars
  <2>1. UNCHANGED <<source, occ, groups, build, bd>>
    BY <1>5 DEF pipelineVars
  <2> QED BY <2>1, QuietStep DEF CubeTypes
<1> QED BY <1>1, <1>2, <1>3, <1>4, <1>5 DEF PipelineNext

LEMMA PipelineInitKnown == PipelineInit => CubeTypes /\ KnownInv
<1> SUFFICES ASSUME PipelineInit PROVE CubeTypes /\ KnownInv
  OBVIOUS
<1>1. CubeTypes
  BY PipelineInitCube
<1>2. bd.pc = "idle"
  BY IdleBuilder DEF PipelineInit
<1>3. build # NoRow => FactsKnown
  <2>1. PICK legacy \in {"none", LegacyScan} :
          \E u \in ScannedUpTo(legacy), d \in {"none", "utc"} : LinkedBefore(legacy, u, d)
    BY DEF PipelineInit, LinkerInit
  <2>2. PICK u \in ScannedUpTo(legacy), d \in {"none", "utc"} : LinkedBefore(legacy, u, d)
    BY <2>1
  <2>3. build # NoRow => d = "utc"
    BY <2>2 DEF LinkedBefore
  <2>4. d = "utc" => \A k \in Keys : occ[k] # "none"
    <3>1. Absent # "none"
      BY NullAssumption DEF Facts
    <3> QED BY <2>2, <3>1 DEF LinkedBefore
  <2> QED BY <2>3, <2>4 DEF FactsKnown
<1> QED BY <1>1, <1>2, <1>3 DEF KnownInv, AnalysisCovers, Analysing

(***************************************************************************)
(* A build is marked ready only over messages that were looked up, also    *)
(* when the linker inserts and deletes rows, the indexer refreshes the     *)
(* groups and the source is replaced at any moment of the build, and       *)
(* wherever builds and links are cancelled or die.                         *)
(***************************************************************************)
THEOREM ReadyFactsAreKnown == PipelineSpec => []ReadyFactsComplete
<1>1. PipelineInit => CubeTypes /\ KnownInv
  BY PipelineInitKnown
<1>2. CubeTypes /\ KnownInv /\ [PipelineNext]_pipelineVars => (CubeTypes /\ KnownInv)'
  BY PipelineKeepsKnown
<1>3. KnownInv => ReadyFactsComplete
  BY KnownIsComplete
<1> QED BY <1>1, <1>2, <1>3, PTL DEF PipelineSpec


(***************************************************************************)
(* The linker and its manifest under a builder and an indexer.             *)
(***************************************************************************)
LEMMA RefreshImproves ==
  ASSUME ManifestTypeOK, RefreshIndex
  PROVE  ManifestTypeOK' /\ FactsOnlyImproved /\ UNCHANGED <<source, scan, lk, bd>>
<1>1. PICK g \in Representatives : RefreshExactGroups(g)
  BY DEF RefreshIndex
<1>2. UNCHANGED <<source, occ, analysis, scan, lk, bd>> /\ groups' = g
  BY <1>1 DEF RefreshIndex, RefreshExactGroups
<1>3. /\ build' \in BuildRow \cup {NoRow}
      /\ cube' \subseteq Assets \X Tables \X Rowids \X Dated
  <2>1. CASE g # groups
    BY <1>1, <2>1 DEF RefreshExactGroups
  <2>2. CASE g = groups
    <3>1. UNCHANGED <<cube, build>>
      BY <1>1, <2>2 DEF RefreshExactGroups
    <3> QED BY <3>1 DEF ManifestTypeOK
  <2> QED BY <2>1, <2>2
<1> QED BY <1>2, <1>3 DEF ManifestTypeOK, FactsOnlyImproved

\* A step of the pipeline is one of the linker or of its environment, or one
\* that leaves rows in place and final facts final.
LEMMA PipelineStepKinds ==
  ASSUME ManifestTypeOK, bd \in BuilderRun, [PipelineNext]_pipelineVars
  PROVE  /\ bd' \in BuilderRun
         /\ \/ [LinkerNext]_linkerVars
            \/ ManifestTypeOK' /\ FactsOnlyImproved /\ UNCHANGED <<source, scan, lk>>
<1>1. CASE Linker
  BY <1>1 DEF Linker, LinkerNext
<1>2. CASE Builder
  BY <1>2, BuilderActsType DEF Builder, BuilderActs, BuilderTypeOK
<1>3. CASE RefreshIndex
  BY <1>3, RefreshImproves
<1>4. CASE ReplaceSource /\ UNCHANGED <<scan, lk, bd>>
  BY <1>4 DEF LinkerNext
<1>5. CASE UNCHANGED pipelineVars
  BY <1>5 DEF pipelineVars, linkerVars
<1> QED BY <1>1, <1>2, <1>3, <1>4, <1>5 DEF PipelineNext

LEMMA PipelineKeepsLinkerInv ==
  ASSUME LinkerInv, bd \in BuilderRun, [PipelineNext]_pipelineVars
  PROVE  LinkerInv' /\ bd' \in BuilderRun
<1>1. ManifestTypeOK
  BY DEF LinkerInv, LinkerTypeOK
<1> QED BY <1>1, PipelineStepKinds, NextPreservesInv, FactsImprovedKeepsInv

LEMMA PipelineKeepsExact ==
  ASSUME NEW u \in BOOLEAN, ExactInv(u), bd \in BuilderRun, [PipelineNext]_pipelineVars
  PROVE  ExactInv(u)' /\ bd' \in BuilderRun
<1>1. ManifestTypeOK
  BY DEF ExactInv, LinkerInv, LinkerTypeOK
<1> QED BY <1>1, PipelineStepKinds, NextKeepsExact, FactsImprovedStep

(***************************************************************************)
(* The checkpoints keep their meaning next to a builder, which writes      *)
(* facts into the rows that the linker resumes over, and next to an        *)
(* indexer.                                                                *)
(***************************************************************************)
THEOREM PipelineCheckpointsAreSound ==
  ASSUME LegacyScan # "partial"
  PROVE  PipelineSpec => [](CheckpointSound /\ CompletedTablesAreLinked)
<1>1. PipelineInit => LinkerInv /\ bd \in BuilderRun
  BY InitInv, IdleBuilder DEF PipelineInit
<1>2. LinkerInv /\ bd \in BuilderRun /\ [PipelineNext]_pipelineVars
        => (LinkerInv /\ bd \in BuilderRun)'
  BY PipelineKeepsLinkerInv
<1>3. LinkerInv => CheckpointSound /\ CompletedTablesAreLinked
  BY InvLinksCompleted DEF LinkerInv, StatesAreSound, CheckpointSound, Scanned, LinkedUpTo
<1> QED BY <1>1, <1>2, <1>3, PTL DEF PipelineSpec

(***************************************************************************)
(* What a served build counts.                                             *)
(***************************************************************************)
VanishedUnrecorded == \A t \in Tables \ TablesOf(source) : scan[t] = NoRow

LEMMA ReferencesAreMessages ==
  ASSUME NEW s \in Sources, NEW t \in Tables, NEW r \in Rowids, NEW a \in References(s, t, r)
  PROVE  a \in Assets /\ t \in TablesOf(s) /\ r \in RowsOf(s, t)
BY ManifestAssumption DEF References, TablesOf, RowsOf

\* Over linked tables the rows are the references of the current source.
LEMMA RowsAreReferences ==
  ASSUME NEW u \in BOOLEAN, ExactInv(u), Corrupt = {}, AllLinked, VanishedUnrecorded,
         u => TablesOf(source) # {}, NEW k \in Keys
  PROVE  /\ k[1] \in References(source, k[2], k[3]) => occ[k] # Absent
         /\ occ[k] # Absent =>
              k[1] \in References(source, k[2], k[3]) /\ occ[k] = "local"
<1> DEFINE t == k[2]
<1>1. source \in Sources /\ t \in Tables /\ k[3] \in Rowids /\ k = <<k[1], k[2], k[3]>>
  BY DEF ExactInv, LinkerInv, LinkerTypeOK, ManifestTypeOK, Keys
<1>2. occ[k] # Absent => k \in RowsIn(t)
  BY DEF RowsIn, In, Present
<1>3. CASE t \in TablesOf(source)
  <2>1. Scanned(t) /\ scan[t].completed /\ Readable(t)
    BY <1>3 DEF AllLinked, Readable
  <2>2. ASSUME k[1] \in References(source, t, k[3]) PROVE occ[k] # Absent
    BY <1>1, <2>2, ReferencesAreMessages, <2>1, InvLinksCompleted DEF ExactInv,
      CompletedTablesAreLinked, Linked
  <2>3. ASSUME occ[k] # Absent
        PROVE  k[1] \in References(source, t, k[3]) /\ occ[k] = "local"
    <3>1. scan[t] # NoRow /\ scan[t].id = source /\ scan[t].version = LINKER_VERSION
      BY <2>1 DEF Scanned
    <3>2. OnlyReferences(t) /\ FinalUpTo(t, scan[t].mode = "mmp", scan[t].last)
      BY <1>1, <2>1, <3>1 DEF ExactInv, StatesAreExact
    <3>3. k[1] \in References(source, t, k[3])
      BY <1>2, <2>3, <3>2 DEF OnlyReferences
    <3>4. scan[t].last >= LastRowid(source, t)
      BY <1>1, <2>1, <3>1 DEF ExactInv, LinkerInv, StatesAreOld
    <3>5. k[3] <= LastRowid(source, t)
      BY <1>1, <3>3, ReferencesAreMessages, LastRowidBound
    <3>6. k[3] \in Int /\ LastRowid(source, t) \in Int /\ scan[t].last \in Int
      BY <1>1, <3>1, LastRowidBound DEF ExactInv, LinkerInv, LinkerTypeOK, ScanState,
        Rowids
    <3>7. ~(k[3] > scan[t].last)
      BY <3>4, <3>5, <3>6
    <3> QED BY <1>2, <2>3, <3>2, <3>3, <3>7 DEF FinalUpTo
  <2> QED BY <2>2, <2>3
<1>4. CASE t \notin TablesOf(source)
  <2>1. k[1] \notin References(source, t, k[3])
    BY <1>1, <1>4, ReferencesAreMessages
  <2>2. SUFFICES ASSUME occ[k] # Absent PROVE FALSE
    BY <2>1
  <2>3. u /\ UpgradeUnderWay(t)
    <3>1. scan[t] = NoRow
      BY <1>1, <1>4 DEF VanishedUnrecorded
    <3> QED BY <1>1, <1>2, <2>2, <3>1 DEF ExactInv, RowsAreRecorded
  <2>4. lk.pc \in {"batch", "commit"} /\ lk.table = t
    BY <2>3 DEF UpgradeUnderWay
  <2>5. PICK q \in TablesOf(source) : TRUE
    BY <2>3
  <2>6. scan[q] # NoRow /\ scan[q].id = source /\ q \in Tables
    BY <2>5 DEF AllLinked, Scanned, TablesOf
  <2>7. source <= lk.id
    BY <2>4, <2>6 DEF ExactInv, LinkerInv, StatesAreOld
  <2>8. lk.id <= lk.chat /\ lk.chat <= source /\ t \in TablesOf(lk.chat)
    BY <2>4 DEF ExactInv, LinkerInv, RunReadsSource, Opened
  <2>9. source \in Int /\ lk.id \in Int /\ lk.chat \in Int
    BY DEF ExactInv, LinkerInv, LinkerTypeOK, ManifestTypeOK, LinkerRun, Sources
  <2>10. lk.chat = source
    BY <2>7, <2>8, <2>9
  <2> QED BY <1>4, <2>8, <2>10
<1> QED BY <1>3, <1>4


LEMMA ReferenceFields ==
  \A m \in Plain \cup Forwarded :
    /\ m[4] \in Assets /\ m[2] \in Tables /\ m[3] \in Rowids
    /\ m = <<m[1], m[2], m[3], m[4]>>
<1>1. \A m \in Plain \cup Forwarded : m \in Sources \X Tables \X Rowids \X Assets
  BY ManifestAssumption
<1> QED BY <1>1

LEMMA CubeIsServedCounts ==
  ASSUME ManifestTypeOK,
         \A k \in Keys :
           /\ k[1] \in References(source, k[2], k[3]) => occ[k] # Absent
           /\ occ[k] # Absent =>
                k[1] \in References(source, k[2], k[3]) /\ occ[k] = "local"
  PROVE  CubeOf(occ, groups) = ServedCounts
<1>1. ASSUME NEW c \in CubeOf(occ, groups) PROVE c \in ServedCounts
  <2>1. PICK k \in WithTime(occ) : c = <<groups[k[1]], k[2], k[3], occ[k]>>
    BY DEF CubeOf
  <2>2. k \in Keys /\ occ[k] # Absent
    BY DEF WithTime, Present
  <2>3. k[1] \in References(source, k[2], k[3]) /\ occ[k] = "local"
    BY <2>2
  <2> DEFINE m == <<source, k[2], k[3], k[1]>>
  <2>4. m \in Plain \cup Forwarded
    BY <2>3 DEF References
  <2>5. /\ m[1] = source /\ m[2] = k[2] /\ m[3] = k[3] /\ m[4] = k[1]
        /\ c = <<groups[m[4]], m[2], m[3], "local">>
    BY <2>1, <2>3
  <2> HIDE DEF m
  <2> QED BY <2>4, <2>5 DEF ServedCounts
<1>2. ASSUME NEW c \in ServedCounts PROVE c \in CubeOf(occ, groups)
  <2>1. PICK m \in Plain \cup Forwarded :
          m[1] = source /\ c = <<groups[m[4]], m[2], m[3], "local">>
    BY DEF ServedCounts
  <2>2. /\ m[4] \in Assets /\ m[2] \in Tables /\ m[3] \in Rowids
        /\ m = <<m[1], m[2], m[3], m[4]>>
    BY ReferenceFields
  <2> DEFINE k == <<m[4], m[2], m[3]>>
  <2>3. k \in Keys /\ k[1] = m[4] /\ k[2] = m[2] /\ k[3] = m[3]
    BY <2>2 DEF Keys
  <2> HIDE DEF k
  <2>4. k[1] \in References(source, k[2], k[3])
    BY <2>1, <2>2, <2>3 DEF References
  <2>5. occ[k] # Absent /\ occ[k] = "local"
    BY <2>3, <2>4
  <2>6. k \in WithTime(occ)
    BY <2>3, <2>5 DEF WithTime, Present, Dated
  <2>7. c = <<groups[k[1]], k[2], k[3], occ[k]>>
    BY <2>1, <2>3, <2>5
  <2> QED BY <2>6, <2>7 DEF CubeOf
<1> QED BY <1>1, <1>2

(***************************************************************************)
(* A served build over fully linked tables counts each message of the      *)
(* current source that shows an image, once, under the date of the display *)
(* time zone: no interleaving of the two tasks, pause, crash or new        *)
(* version makes it miss one or count one of an earlier version.           *)
(*                                                                         *)
(* A manifest of an earlier release is in it when it was scanned to the    *)
(* end and its upgrade runs to the end, and when no version of the source  *)
(* is without conversation tables (link_chat takes such a file as well):   *)
(* otherwise the rows of a table whose upgrade was cut short have no state *)
(* that tells their source.                                                *)
(***************************************************************************)
THEOREM ReadyBuildIsSound ==
  ASSUME Indexing # "any time", Corrupt = {},
         \/ LegacyScan = "none"
         \/ /\ LegacyScan = "complete" /\ ~Interruptions
            /\ \A s \in Sources : TablesOf(s) # {}
  PROVE  PipelineSpec => []ReadySound
<1> DEFINE u == LegacyScan = "complete"
           Inv == ExactInv(u) /\ bd \in BuilderRun /\ CubeTypes /\ CubeInv /\ KnownInv
<1>0. u \in BOOLEAN
  OBVIOUS
<1>1. PipelineInit => Inv
  BY InitIsExact, PipelineInitCube, PipelineInitKnown DEF PipelineInit, CubeTypes
<1>2. Inv /\ [PipelineNext]_pipelineVars => Inv'
  <2>1. ExactInv(u) /\ bd \in BuilderRun /\ [PipelineNext]_pipelineVars
          => ExactInv(u)' /\ bd' \in BuilderRun
    BY <1>0, PipelineKeepsExact
  <2>2. CubeTypes /\ CubeInv /\ [PipelineNext]_pipelineVars => CubeTypes' /\ CubeInv'
    BY PipelineKeepsCube
  <2>3. CubeTypes /\ KnownInv /\ [PipelineNext]_pipelineVars => KnownInv'
    BY PipelineKeepsKnown
  <2> HIDE DEF u
  <2> QED BY <2>1, <2>2, <2>3
<1>3. Inv => ReadySound
  <2> SUFFICES ASSUME Inv, Completed(build), AllLinked, VanishedUnrecorded
               PROVE  cube = ServedCounts
    BY KnownIsComplete DEF ReadySound, CubeInv, ReadyMeansExact, VanishedUnrecorded
  <2>1. ExactInv(u) /\ CubeInv /\ CubeTypes
    OBVIOUS
  <2>2. u => TablesOf(source) # {}
    BY <2>1 DEF CubeTypes
  <2>3. ManifestTypeOK
    BY <2>1 DEF ExactInv, LinkerInv, LinkerTypeOK
  <2>4. cube = CubeOf(occ, groups)
    BY <2>1 DEF CubeInv, ReadyCubeCurrent
  <2> HIDE DEF u
  <2>5. \A k \in Keys :
          /\ k[1] \in References(source, k[2], k[3]) => occ[k] # Absent
          /\ occ[k] # Absent =>
               k[1] \in References(source, k[2], k[3]) /\ occ[k] = "local"
    BY <1>0, <2>1, <2>2, RowsAreReferences
  <2> QED BY <2>3, <2>4, <2>5, CubeIsServedCounts
<1> QED BY <1>1, <1>2, <1>3, PTL DEF PipelineSpec

----------------------------------------------------------------------------
(***************************************************************************)
(* The threads of a run of link-chat.                                      *)
(***************************************************************************)

LinkMainRow ==
  [pc : {"read", "send", "resolve", "join", "returned", "panicked"}, last : Nat, upto : Nat,
   sent : SUBSET Nat, got : SUBSET Nat, found : SUBSET (Nat \X Paths), tried : Nat]

ParserRow == [pc : {"idle", "parse", "left", "dead"}, row : Nat]

LinkTypeOK ==
  /\ indexed \in SUBSET Paths /\ kept \in SUBSET Paths /\ ever \in SUBSET Paths
  /\ parser \in [Parsers -> ParserRow] /\ jobs \in Seq(Nat) /\ parsed \in Seq(Nat)
  /\ main \in LinkMainRow /\ todo \in SUBSET (Nat \X Nat)
  /\ DOMAIN lookups \subseteq Paths
  /\ linked \in SUBSET (Nat \X Paths)

IndexKnown == kept \subseteq indexed /\ indexed \subseteq ever

\* asset_id_cache remembers what was so at some time of the run, and what is
\* there all along is found by every look.
LookupsHold ==
  \A p \in DOMAIN lookups :
    /\ lookups[p] \in BOOLEAN
    /\ lookups[p] => p \in ever
    /\ ~lookups[p] => p \notin kept

\* The rows of the batch.
BatchRows ==
  /\ main.last <= main.upto /\ main.upto <= Len(Log)
  /\ main.pc = "send" => main.sent \subseteq main.last + 1 .. main.upto
  /\ main.got \subseteq main.sent
  /\ main.pc \in {"read", "resolve"} => main.got = main.sent
  /\ main.pc = "resolve" => main.got = main.last + 1 .. main.upto

Once(s) == \A i, j \in 1 .. Len(s) : s[i] = s[j] => i = j

Under(w) == parser[w].pc = "parse"

\* A row that was sent is in one place until its result was received, so that
\* what the next batch receives is its own.
OneEach ==
  /\ Once(jobs) /\ Once(parsed) /\ Range(jobs) \cap Range(parsed) = {}
  /\ Range(jobs) \cup Range(parsed) \subseteq main.sent \ main.got
  /\ \A w \in Parsers : Under(w) =>
       /\ parser[w].row \in main.sent \ main.got
       /\ parser[w].row \notin Range(jobs) \cup Range(parsed)
       /\ \A v \in Parsers \ {w} : Under(v) => parser[v].row # parser[w].row

\* HasImage, in any set of occurrences.
Shows(row, paths, S) ==
  \A n \in DOMAIN paths : paths[n] \in kept => \E k \in 1 .. n : <<row, paths[k]>> \in S

Possible(rows) ==
  {o \in rows \X ever : \E paths \in Range(GroupsOf(o[1])) : o[2] \in Range(paths)}

\* What is no longer to be resolved has its image, and what was tried of the
\* current group has none that was there all along.
Resolving ==
  main.pc = "resolve" =>
    /\ \A g \in todo : g[1] \in main.got /\ g[2] \in DOMAIN GroupsOf(g[1])
    /\ \A row \in main.got : \A n \in DOMAIN GroupsOf(row) :
         <<row, n>> \in todo \/ Shows(row, GroupsOf(row)[n], main.found)
    /\ todo # {} => LET paths == GroupsOf(Current[1])[Current[2]]
                    IN  /\ main.tried <= Len(paths)
                        /\ \A k \in 1 .. main.tried : paths[k] \notin kept

LinkInv ==
  /\ LinkTypeOK /\ IndexKnown /\ LookupsHold /\ BatchRows /\ OneEach /\ Resolving
  /\ main.found \subseteq Possible(1 .. main.upto)
  /\ LinksFollowIndex

----------------------------------------------------------------------------
(***************************************************************************)
(* Numbers, sets and channels.                                             *)
(***************************************************************************)

\* A set of natural numbers has a least one.
LEMMA LeastOfNaturals ==
  ASSUME NEW S \in SUBSET Nat, S # {}
  PROVE  \E m \in S : \A r \in S : m <= r
<1>1. PICK x \in S : TRUE
  OBVIOUS
<1> DEFINE T == {x + 1 - r : r \in {q \in S : q <= x}}
<1>2. \E m \in T : \A r \in T : m >= r
  <2>1. T \in SUBSET (1 .. x + 1) /\ x + 1 \in Nat
    BY <1>1
  <2>2. x + 1 - x \in T
    BY <1>1
  <2> HIDE DEF T
  <2> QED BY <2>1, <2>2, BoundedSetHasMax
<1>3. PICK m \in S : m <= x /\ \A r \in T : x + 1 - m >= r
  BY <1>2
<1>4. ASSUME NEW r \in S PROVE m <= r
  <2>1. r \in Nat /\ m \in Nat /\ x \in Nat
    BY <1>1
  <2>2. r <= x => x + 1 - r \in T
    BY <1>4
  <2> HIDE DEF T
  <2> QED BY <1>3, <2>1, <2>2
<1> QED BY <1>4

\* Of a set of groups one is the first.
LEMMA FirstOfGroups ==
  ASSUME NEW T \in SUBSET (Nat \X Nat), T # {}
  PROVE  \E g \in T : \A h \in T : InOrder(g, h)
<1> DEFINE Rows == {g[1] : g \in T}
<1>1. PICK r \in Rows : \A q \in Rows : r <= q
  <2>1. Rows \in SUBSET Nat /\ Rows # {}
    OBVIOUS
  <2> QED BY <2>1, LeastOfNaturals
<1> DEFINE Ns == {g[2] : g \in {h \in T : h[1] = r}}
<1>2. PICK n \in Ns : \A m \in Ns : n <= m
  <2>1. Ns \in SUBSET Nat /\ Ns # {}
    BY <1>1
  <2> QED BY <2>1, LeastOfNaturals
<1>3. PICK g \in T : g[1] = r /\ g[2] = n
  BY <1>2
<1>4. ASSUME NEW h \in T PROVE InOrder(g, h)
  BY <1>1, <1>3, <1>2 DEF InOrder
<1> QED BY <1>3, <1>4

\* A channel with one more element at its end.
LEMMA Appended ==
  ASSUME NEW s \in Seq(Nat), NEW e \in Nat, Once(s), e \notin Range(s)
  PROVE  /\ Append(s, e) \in Seq(Nat) /\ Once(Append(s, e))
         /\ Range(Append(s, e)) = Range(s) \cup {e}
<1> DEFINE t == Append(s, e)
<1>1. /\ t \in Seq(Nat) /\ Len(t) = Len(s) + 1 /\ t[Len(s) + 1] = e
      /\ \A i \in 1 .. Len(s) : t[i] = s[i]
      /\ DOMAIN t = 1 .. Len(s) + 1 /\ DOMAIN s = 1 .. Len(s) /\ Len(s) \in Nat
  OBVIOUS
<1> HIDE DEF t
<1>2. \A i \in 1 .. Len(s) : s[i] \in Range(s)
  BY <1>1 DEF Range
<1>3. Once(t)
  <2> SUFFICES ASSUME NEW i \in 1 .. Len(t), NEW j \in 1 .. Len(t), t[i] = t[j] PROVE i = j
    BY DEF Once
  <2>1. CASE i \in 1 .. Len(s) /\ j \in 1 .. Len(s)
    BY <1>1, <2>1 DEF Once
  <2>2. CASE i \notin 1 .. Len(s)
    <3>1. i = Len(s) + 1
      BY <1>1, <2>2
    <3> QED BY <1>1, <1>2, <3>1
  <2>3. CASE j \notin 1 .. Len(s)
    <3>1. j = Len(s) + 1
      BY <1>1, <2>3
    <3> QED BY <1>1, <1>2, <3>1
  <2> QED BY <2>1, <2>2, <2>3
<1>4. Range(t) = Range(s) \cup {e}
  <2>1. ASSUME NEW x \in Range(t) PROVE x \in Range(s) \cup {e}
    <3>1. PICK i \in 1 .. Len(s) + 1 : x = t[i]
      BY <1>1, <2>1 DEF Range
    <3> QED BY SMTT(20), <1>1, <1>2, <3>1
  <2>2. ASSUME NEW x \in Range(s) PROVE x \in Range(t)
    <3>1. PICK i \in 1 .. Len(s) : x = s[i]
      BY <1>1, <2>2 DEF Range
    <3> QED BY <1>1, <3>1 DEF Range
  <2>3. e \in Range(t)
    BY <1>1 DEF Range
  <2> QED BY <2>1, <2>2, <2>3
<1> QED BY <1>1, <1>3, <1>4 DEF t

\* A channel whose first element was taken.
LEMMA Taken ==
  ASSUME NEW s \in Seq(Nat), s # <<>>, Once(s)
  PROVE  /\ Tail(s) \in Seq(Nat) /\ Once(Tail(s)) /\ Head(s) \in Nat
         /\ Head(s) \in Range(s) /\ Range(Tail(s)) = Range(s) \ {Head(s)}
<1> DEFINE t == Tail(s)
<1>1. /\ t \in Seq(Nat) /\ Len(t) = Len(s) - 1 /\ \A i \in 1 .. Len(t) : t[i] = s[i + 1]
      /\ DOMAIN t = 1 .. Len(t) /\ DOMAIN s = 1 .. Len(s) /\ Len(s) \in Nat \ {0}
      /\ Head(s) = s[1] /\ Len(t) \in Nat
  OBVIOUS
<1> HIDE DEF t
<1>2. Once(t)
  <2> SUFFICES ASSUME NEW i \in 1 .. Len(t), NEW j \in 1 .. Len(t), t[i] = t[j] PROVE i = j
    BY DEF Once
  <2>1. i + 1 \in 1 .. Len(s) /\ j + 1 \in 1 .. Len(s) /\ s[i + 1] = s[j + 1]
    BY SMTT(20), <1>1
  <2>2. i + 1 = j + 1
    BY <2>1 DEF Once
  <2> QED BY <2>2
<1>3. Head(s) \in Range(s) /\ Head(s) \in Nat
  BY <1>1 DEF Range
<1>4. ASSUME NEW x \in Range(t) PROVE x \in Range(s) /\ x # Head(s)
  <2>1. PICK i \in 1 .. Len(t) : x = t[i]
    BY <1>1, <1>4 DEF Range
  <2>2. i + 1 \in 1 .. Len(s) /\ x = s[i + 1] /\ 1 \in 1 .. Len(s) /\ i + 1 # 1
    BY <1>1, <2>1
  <2>3. x \in Range(s)
    BY <1>1, <2>2 DEF Range
  <2>4. s[1] # s[i + 1]
    BY <2>2 DEF Once
  <2> QED BY <1>1, <2>2, <2>3, <2>4
<1>5. ASSUME NEW x \in Range(s), x # Head(s) PROVE x \in Range(t)
  <2>1. PICK i \in 1 .. Len(s) : x = s[i]
    BY <1>1, <1>5 DEF Range
  <2>2. i # 1
    BY <1>1, <1>5, <2>1
  <2>3. i - 1 \in 1 .. Len(t) /\ t[i - 1] = x
    BY <1>1, <2>1, <2>2
  <2> QED BY <1>1, <2>3 DEF Range
<1>6. Range(t) = Range(s) \ {Head(s)}
  BY <1>4, <1>5
<1> QED BY <1>1, <1>2, <1>3, <1>6 DEF t

\* When as many results were received as were asked for, they are those.
LEMMA AllReceived ==
  ASSUME NEW a \in Nat, NEW b \in Nat, NEW sent, NEW got,
         sent \subseteq a .. b, got \subseteq sent, ~ (Cardinality(got) < Cardinality(sent))
  PROVE  got = sent
<1>1. IsFiniteSet(sent)
  <2>1. IsFiniteSet(a .. b)
    BY FS_Interval
  <2> QED BY <2>1, FS_Subset
<1>2. IsFiniteSet(got) /\ Cardinality(got) <= Cardinality(sent)
  BY <1>1, FS_Subset
<1>3. Cardinality(got) \in Nat /\ Cardinality(sent) \in Nat
  BY <1>1, <1>2, FS_CardinalityType
<1>4. Cardinality(sent) = Cardinality(got)
  BY <1>2, <1>3
<1> QED BY <1>1, <1>4, FS_Subset

----------------------------------------------------------------------------
(***************************************************************************)
(* What the steps of link_table do.                                        *)
(***************************************************************************)

\* The candidates of a row of the log.
LEMMA Candidates ==
  ASSUME NEW row \in 1 .. Len(Log)
  PROVE  /\ GroupsOf(row) \in Seq(Seq(Paths))
         /\ \A n \in DOMAIN GroupsOf(row) :
              /\ n \in Nat /\ GroupsOf(row)[n] \in Range(GroupsOf(row))
              /\ GroupsOf(row)[n] \in Seq(Paths)
         /\ \A paths \in Range(GroupsOf(row)) :
              \E n \in DOMAIN GroupsOf(row) : paths = GroupsOf(row)[n]
<1>1. Log[row] \in [parses : BOOLEAN, groups : Seq(Seq(Paths))]
  <2> DEFINE Row == [parses : BOOLEAN, groups : Seq(Seq(Paths))]
  <2>1. Log \in Seq(Row)
    BY LinkWorkersAssumption
  <2> HIDE DEF Row
  <2>2. Log[row] \in Row
    BY <2>1
  <2> QED BY <2>2 DEF Row
<1>2. GroupsOf(row) \in Seq(Seq(Paths))
  BY <1>1 DEF GroupsOf
<1> QED BY <1>2 DEF Range

\* A step that only goes on.
LEMMA GoesOn ==
  ASSUME LinkTypeOK, NEW pc \in {"read", "send", "resolve", "join", "returned", "panicked"},
         MainGoes(pc)
  PROVE  /\ main' \in LinkMainRow /\ main'.pc = pc /\ main'.last = main.last
         /\ main'.upto = main.upto /\ main'.sent = main.sent /\ main'.got = main.got
         /\ main'.found = main.found /\ main'.tried = main.tried
BY DEF LinkTypeOK, MainGoes, LinkMainRow

LEMMA FetchBatchRun ==
  ASSUME LinkTypeOK, FetchBatch
  PROVE  /\ main' \in LinkMainRow /\ main'.pc = "send" /\ main'.last = main.last
         /\ main'.upto \in main.last .. Len(Log) /\ main'.sent = {} /\ main'.got = {}
         /\ main'.found = {}
<1>1. Len(Log) \in Nat /\ Batch \in Nat
  BY LinkWorkersAssumption
<1>2. main \in LinkMainRow /\ main.last \in Nat /\ main.last < Len(Log)
  BY DEF LinkTypeOK, FetchBatch, LinkMainRow
<1> DEFINE upto == IF main.last + Batch < Len(Log) THEN main.last + Batch ELSE Len(Log)
<1>3. upto \in Nat /\ upto \in main.last .. Len(Log)
  BY <1>1, <1>2
<1>4. main' = [main EXCEPT !.pc = "send", !.sent = {}, !.got = {}, !.found = {}, !.upto = upto]
  BY DEF FetchBatch
<1> HIDE DEF upto
<1> QED BY <1>2, <1>3, <1>4 DEF LinkMainRow

LEMMA SendRun ==
  ASSUME LinkTypeOK, Send
  PROVE  \E row \in Unsent :
           /\ jobs' = Append(jobs, row) /\ main' \in LinkMainRow /\ main'.pc = "send"
           /\ main'.last = main.last /\ main'.upto = main.upto
           /\ main'.sent = main.sent \cup {row} /\ main'.got = main.got
           /\ main'.found = main.found /\ main'.tried = main.tried
<1>0. main \in LinkMainRow /\ main.last \in Nat /\ main.upto \in Nat
  BY DEF LinkTypeOK, LinkMainRow
<1>1. Unsent \in SUBSET Nat /\ Unsent # {}
  BY <1>0 DEF Send, Unsent
<1> DEFINE row == CHOOSE r \in Unsent : \A q \in Unsent : r <= q
<1>2. row \in Unsent
  BY <1>1, LeastOfNaturals
<1>3. jobs' = Append(jobs, row) /\ main' = [main EXCEPT !.sent = @ \cup {row}] /\ main.pc = "send"
  BY DEF Send
<1> HIDE DEF row
<1>4. row \in Nat
  BY <1>1, <1>2
<1> QED BY <1>0, <1>2, <1>3, <1>4 DEF LinkMainRow

LEMMA ReceiveRun ==
  ASSUME LinkTypeOK, OneEach, Receive
  PROVE  /\ main' \in LinkMainRow /\ main'.pc = "send" /\ main'.last = main.last
         /\ main'.upto = main.upto /\ main'.sent = main.sent
         /\ main'.got = main.got \cup {Head(parsed)} /\ main'.found = main.found
         /\ main'.tried = main.tried
<1>1. Head(parsed) \in Nat
  BY Taken DEF LinkTypeOK, OneEach, Receive
<1> QED BY <1>1 DEF LinkTypeOK, Receive, LinkMainRow

LEMMA SortResultsRun ==
  ASSUME LinkTypeOK, SortResults
  PROVE  /\ main' \in LinkMainRow /\ main'.pc = "resolve" /\ main'.last = main.last
         /\ main'.upto = main.upto /\ main'.sent = main.sent /\ main'.got = main.got
         /\ main'.found = main.found /\ main'.tried = 0
BY DEF LinkTypeOK, SortResults, LinkMainRow

LEMMA CommitRun ==
  ASSUME LinkTypeOK, Commit
  PROVE  /\ main' \in LinkMainRow /\ main'.pc = "read" /\ main'.last = main.upto
         /\ main'.upto = main.upto /\ main'.sent = main.sent /\ main'.got = main.got
         /\ main'.found = main.found
BY DEF LinkTypeOK, Commit, LinkMainRow

\* The group that is looked up.
LEMMA Group ==
  ASSUME LinkTypeOK, BatchRows, Resolving, main.pc = "resolve", todo # {}
  PROVE  /\ Current \in todo /\ Current[1] \in main.got /\ Current[1] \in 1 .. Len(Log)
         /\ Current[1] \in 1 .. main.upto
         /\ Current[2] \in DOMAIN GroupsOf(Current[1])
         /\ GroupsOf(Current[1])[Current[2]] \in Seq(Paths)
         /\ GroupsOf(Current[1])[Current[2]] \in Range(GroupsOf(Current[1]))
         /\ Current = <<Current[1], Current[2]>>
         /\ main.tried \in 0 .. Len(GroupsOf(Current[1])[Current[2]])
         /\ \A k \in 1 .. main.tried : GroupsOf(Current[1])[Current[2]][k] \notin kept
<1>0. /\ main \in LinkMainRow /\ main.last \in Nat /\ main.upto \in Nat /\ main.tried \in Nat
      /\ Len(Log) \in Nat
  BY LinkWorkersAssumption DEF LinkTypeOK, LinkMainRow
<1>1. Current \in todo
  BY FirstOfGroups DEF LinkTypeOK, Current
<1>2. Current = <<Current[1], Current[2]>>
  BY <1>1 DEF LinkTypeOK
<1>3. Current[1] \in main.got /\ Current[2] \in DOMAIN GroupsOf(Current[1])
  BY <1>1 DEF Resolving
<1>4. Current[1] \in 1 .. Len(Log) /\ Current[1] \in 1 .. main.upto
  BY <1>0, <1>3 DEF BatchRows
<1>5. /\ GroupsOf(Current[1])[Current[2]] \in Seq(Paths)
      /\ GroupsOf(Current[1])[Current[2]] \in Range(GroupsOf(Current[1]))
  BY <1>3, <1>4, Candidates
<1>6. /\ main.tried <= Len(GroupsOf(Current[1])[Current[2]])
      /\ \A k \in 1 .. main.tried : GroupsOf(Current[1])[Current[2]][k] \notin kept
  BY DEF Resolving
<1> QED BY <1>0, <1>1, <1>2, <1>3, <1>4, <1>5, <1>6

----------------------------------------------------------------------------
(***************************************************************************)
(* LinkInv is preserved.                                                   *)
(***************************************************************************)

\* The rows of the batch are rows of the log.
LEMMA RowsOfLog ==
  ASSUME LinkTypeOK, BatchRows
  PROVE  /\ main \in LinkMainRow /\ main.last \in Nat /\ main.upto \in Nat
         /\ Len(Log) \in Nat /\ 1 .. main.last \subseteq 1 .. Len(Log)
         /\ 1 .. main.upto \subseteq 1 .. Len(Log)
BY LinkWorkersAssumption DEF LinkTypeOK, LinkMainRow, BatchRows

\* A step of a thread, as the rest of LinkInv sees it.
LEMMA PoolStep ==
  ASSUME LinkInv, UNCHANGED <<index, main, store>>, LinkTypeOK', OneEach'
  PROVE  LinkInv'
BY DEF index, store, LinkInv, IndexKnown, LookupsHold, BatchRows, Resolving, Current,
  Shows, Possible, LinksFollowIndex, HasImage

LEMMA TakeJobKeeps ==
  ASSUME LinkInv, NEW w \in Parsers, TakeJob(w)
  PROVE  LinkInv'
<1>1. /\ jobs \in Seq(Nat) /\ jobs # <<>> /\ Once(jobs) /\ jobs' = Tail(jobs)
      /\ parser' = [parser EXCEPT ![w] = Does("parse", Head(jobs))] /\ parser[w].pc = "idle"
      /\ parsed' = parsed /\ main' = main /\ UNCHANGED <<index, main, store>>
      /\ parser \in [Parsers -> ParserRow]
  BY DEF TakeJob, LinkInv, LinkTypeOK, OneEach
<1>2. /\ Tail(jobs) \in Seq(Nat) /\ Once(Tail(jobs)) /\ Head(jobs) \in Nat
      /\ Head(jobs) \in Range(jobs) /\ Range(Tail(jobs)) = Range(jobs) \ {Head(jobs)}
  BY <1>1, Taken
<1>3. Does("parse", Head(jobs)) \in ParserRow
  BY <1>2 DEF Does, ParserRow
<1>4. LinkTypeOK'
  BY <1>1, <1>2, <1>3 DEF LinkInv, LinkTypeOK, index, store
<1>5. /\ parser'[w].pc = "parse" /\ parser'[w].row = Head(jobs)
      /\ \A v \in Parsers \ {w} : parser'[v] = parser[v]
  BY <1>1 DEF Does
<1>6. OneEach'
  BY <1>1, <1>2, <1>5 DEF LinkInv, OneEach, Under
<1> QED BY <1>1, <1>4, <1>6, PoolStep

LEMMA DeliverKeeps ==
  ASSUME LinkInv, NEW w \in Parsers, Deliver(w)
  PROVE  LinkInv'
<1>1. /\ parsed \in Seq(Nat) /\ Once(parsed) /\ parsed' = Append(parsed, parser[w].row)
      /\ parser' = [parser EXCEPT ![w] = Unoccupied] /\ parser[w].pc = "parse"
      /\ jobs' = jobs /\ main' = main /\ UNCHANGED <<index, main, store>>
      /\ parser \in [Parsers -> ParserRow]
  BY DEF Deliver, LinkInv, LinkTypeOK, OneEach
<1>2. parser[w].row \in Nat /\ parser[w].row \notin Range(parsed)
  BY <1>1 DEF LinkInv, OneEach, Under, ParserRow
<1>3. /\ Append(parsed, parser[w].row) \in Seq(Nat) /\ Once(Append(parsed, parser[w].row))
      /\ Range(Append(parsed, parser[w].row)) = Range(parsed) \cup {parser[w].row}
  BY <1>1, <1>2, Appended
<1>4. Unoccupied \in ParserRow
  BY DEF Unoccupied, Does, ParserRow
<1>5. LinkTypeOK'
  BY <1>1, <1>3, <1>4 DEF LinkInv, LinkTypeOK, index, store
<1>6. parser'[w].pc = "idle" /\ \A v \in Parsers \ {w} : parser'[v] = parser[v]
  BY <1>1 DEF Unoccupied, Does
<1>7. OneEach'
  BY <1>1, <1>3, <1>6 DEF LinkInv, OneEach, Under
<1> QED BY <1>1, <1>5, <1>7, PoolStep

\* A thread that ends, one way or the other.
LEMMA ParserEndsKeeps ==
  ASSUME LinkInv, NEW w \in Parsers, ParserLeaves(w) \/ ParserPanics(w)
  PROVE  LinkInv'
<1>1. PICK pc \in {"left", "dead"} : parser' = [parser EXCEPT ![w] = Does(pc, 0)]
  BY DEF ParserLeaves, ParserPanics
<1>2. /\ jobs' = jobs /\ parsed' = parsed /\ main' = main /\ UNCHANGED <<index, main, store>>
      /\ parser \in [Parsers -> ParserRow]
  BY DEF ParserLeaves, ParserPanics, LinkInv, LinkTypeOK
<1>3. Does(pc, 0) \in ParserRow
  BY DEF Does, ParserRow
<1>4. LinkTypeOK'
  BY <1>1, <1>2, <1>3 DEF LinkInv, LinkTypeOK, index, store
<1>5. parser'[w].pc # "parse" /\ \A v \in Parsers \ {w} : parser'[v] = parser[v]
  BY <1>1, <1>2 DEF Does
<1>6. OneEach'
  BY <1>2, <1>5 DEF LinkInv, OneEach, Under
<1> QED BY <1>2, <1>4, <1>6, PoolStep

\* What is there all along shrinks, what was there at some time grows.
LEMMA ChangeIndexKeeps ==
  ASSUME LinkInv, ChangeIndex
  PROVE  LinkInv'
<1>1. /\ main' = main /\ todo' = todo /\ lookups' = lookups /\ linked' = linked
      /\ parser' = parser /\ jobs' = jobs /\ parsed' = parsed
  BY DEF ChangeIndex, pool, store
<1>2. /\ kept' \subseteq kept /\ ever \subseteq ever'
      /\ indexed' \in SUBSET Paths /\ ever' \in SUBSET Paths
      /\ kept' \subseteq indexed' /\ indexed' \subseteq ever'
  BY DEF ChangeIndex, LinkInv, LinkTypeOK, IndexKnown
<1>3. LinkTypeOK' /\ IndexKnown'
  BY <1>1, <1>2 DEF LinkInv, LinkTypeOK, IndexKnown
<1>4. LookupsHold'
  BY <1>1, <1>2 DEF LinkInv, LookupsHold
<1>5. BatchRows' /\ OneEach'
  BY <1>1 DEF LinkInv, BatchRows, OneEach, Under
<1>7. Resolving'
  BY <1>1, <1>2 DEF LinkInv, Resolving, Current, Shows
<1>8. main'.found \subseteq Possible(1 .. main.upto)'
  BY <1>1, <1>2 DEF LinkInv, Possible
<1>9. LinksFollowIndex'
  BY <1>1, <1>2 DEF LinkInv, LinksFollowIndex, HasImage
<1> QED BY <1>1, <1>3, <1>4, <1>5, <1>7, <1>8, <1>9 DEF LinkInv

\* Until the next group is looked up, what link_table does leaves what was
\* found, remembered and committed alone.
LEMMA MainStep ==
  ASSUME LinkInv, indexed' = indexed, kept' = kept, ever' = ever, lookups' = lookups,
         linked' = linked, LinkTypeOK', BatchRows', OneEach', Resolving',
         main'.last = main.last, main'.found \subseteq main.found,
         main.upto <= main'.upto \/ main'.found = {}
  PROVE  LinkInv'
<1>2. IndexKnown' /\ LookupsHold'
  BY DEF LinkInv, IndexKnown, LookupsHold
<1>3. main'.found \subseteq Possible(1 .. main.upto)'
  <2>1. CASE main'.found = {}
    BY <2>1
  <2>2. CASE main.upto <= main'.upto
    BY <2>2 DEF LinkInv, LinkTypeOK, LinkMainRow, Possible
  <2> QED BY <2>1, <2>2
<1>4. LinksFollowIndex'
  BY DEF LinkInv, LinksFollowIndex, HasImage
<1> QED BY <1>2, <1>3, <1>4 DEF LinkInv

\* What the steps before the lookups leave alone.
LEMMA Leftover ==
  ASSUME FetchBatch \/ Stop \/ Send \/ Receive \/ Disconnected \/ SqlFails \/ Join
  PROVE  /\ indexed' = indexed /\ kept' = kept /\ ever' = ever /\ todo' = todo
         /\ lookups' = lookups /\ linked' = linked /\ parser' = parser
BY DEF FetchBatch, Stop, Send, Receive, Disconnected, SqlFails, Join, index, pool, store

LEMMA FetchBatchKeeps ==
  ASSUME LinkInv, FetchBatch
  PROVE  LinkInv'
<1>0. /\ indexed' = indexed /\ kept' = kept /\ ever' = ever /\ todo' = todo
      /\ lookups' = lookups /\ linked' = linked /\ parser' = parser
  BY Leftover
<1>1. /\ main' \in LinkMainRow /\ main'.pc = "send" /\ main'.last = main.last
      /\ main'.upto \in main.last .. Len(Log) /\ main'.sent = {} /\ main'.got = {}
      /\ main'.found = {}
  BY FetchBatchRun DEF LinkInv
<1>2. jobs' = jobs /\ parsed' = parsed /\ main.got = main.sent
  BY DEF FetchBatch, pool, LinkInv, BatchRows
<1>3. LinkTypeOK'
  BY <1>1, <1>2, <1>0 DEF LinkInv, LinkTypeOK
<1>4. BatchRows'
  BY <1>1, RowsOfLog DEF LinkInv, BatchRows
<1>5. OneEach'
  BY <1>1, <1>2, <1>0 DEF LinkInv, OneEach, Under
<1>6. Resolving'
  BY <1>1 DEF Resolving
<1> QED BY <1>1, <1>3, <1>4, <1>5, <1>6, <1>0, MainStep

LEMMA SendKeeps ==
  ASSUME LinkInv, Send
  PROVE  LinkInv'
<1>0. /\ indexed' = indexed /\ kept' = kept /\ ever' = ever /\ todo' = todo
      /\ lookups' = lookups /\ linked' = linked /\ parser' = parser
  BY Leftover
<1>1. PICK row \in Unsent :
        /\ jobs' = Append(jobs, row) /\ main' \in LinkMainRow /\ main'.pc = "send"
        /\ main'.last = main.last /\ main'.upto = main.upto
        /\ main'.sent = main.sent \cup {row} /\ main'.got = main.got
        /\ main'.found = main.found /\ main'.tried = main.tried
  BY SendRun DEF LinkInv
<1>2. /\ parsed' = parsed /\ main.pc = "send" /\ main.last \in Nat /\ main.upto \in Nat
      /\ jobs \in Seq(Nat) /\ Once(jobs)
  BY RowsOfLog DEF Send, LinkInv, LinkTypeOK, OneEach
<1>3. row \in main.last + 1 .. main.upto /\ row \notin main.sent /\ row \in Nat
  BY <1>2 DEF Unsent
<1>4. row \notin Range(jobs)
  BY <1>3 DEF LinkInv, OneEach
<1>5. /\ jobs' \in Seq(Nat) /\ Once(jobs') /\ Range(jobs') = Range(jobs) \cup {row}
  BY <1>1, <1>2, <1>3, <1>4, Appended
<1>6. LinkTypeOK'
  BY <1>1, <1>2, <1>5, <1>0 DEF LinkInv, LinkTypeOK
<1>7. BatchRows'
  BY <1>1, <1>2, <1>3 DEF LinkInv, BatchRows
<1>8. OneEach'
  BY <1>3, <1>1, <1>2, <1>5, <1>0 DEF LinkInv, OneEach, BatchRows, Under
<1>9. Resolving'
  BY <1>1 DEF Resolving
<1> QED BY <1>1, <1>2, <1>6, <1>7, <1>8, <1>9, <1>0, MainStep

LEMMA ReceiveKeeps ==
  ASSUME LinkInv, Receive
  PROVE  LinkInv'
<1>0. /\ indexed' = indexed /\ kept' = kept /\ ever' = ever /\ todo' = todo
      /\ lookups' = lookups /\ linked' = linked /\ parser' = parser
  BY Leftover
<1>1. /\ main' \in LinkMainRow /\ main'.pc = "send" /\ main'.last = main.last
      /\ main'.upto = main.upto /\ main'.sent = main.sent
      /\ main'.got = main.got \cup {Head(parsed)} /\ main'.found = main.found
      /\ main'.tried = main.tried
  BY ReceiveRun DEF LinkInv
<1>2. /\ parsed \in Seq(Nat) /\ parsed # <<>> /\ Once(parsed) /\ parsed' = Tail(parsed)
      /\ jobs' = jobs /\ main.pc = "send" /\ main.upto \in Nat
  BY RowsOfLog DEF Receive, LinkInv, LinkTypeOK, OneEach
<1>3. /\ Tail(parsed) \in Seq(Nat) /\ Once(Tail(parsed)) /\ Head(parsed) \in Range(parsed)
      /\ Range(Tail(parsed)) = Range(parsed) \ {Head(parsed)}
  BY <1>2, Taken
<1>4. /\ Head(parsed) \in main.sent /\ Head(parsed) \notin Range(jobs)
      /\ \A v \in Parsers : Under(v) => parser[v].row # Head(parsed)
  BY <1>3 DEF LinkInv, OneEach
<1>5. LinkTypeOK'
  BY <1>1, <1>2, <1>3, <1>0 DEF LinkInv, LinkTypeOK
<1>6. BatchRows'
  BY <1>1, <1>2, <1>4 DEF LinkInv, BatchRows
<1>7. OneEach'
  BY <1>1, <1>2, <1>3, <1>4, <1>0 DEF LinkInv, OneEach, Under
<1>8. Resolving'
  BY <1>1 DEF Resolving
<1> QED BY <1>1, <1>2, <1>5, <1>6, <1>7, <1>8, <1>0, MainStep

\* A run that stops, for whatever reason, or is over.
LEMMA EndsKeeps ==
  ASSUME LinkInv, Stop \/ Disconnected \/ SqlFails \/ Join
  PROVE  LinkInv'
<1>0. /\ indexed' = indexed /\ kept' = kept /\ ever' = ever /\ todo' = todo
      /\ lookups' = lookups /\ linked' = linked /\ parser' = parser
  BY Leftover
<1>1. PICK pc \in {"join", "returned", "panicked"} : MainGoes(pc)
  BY DEF Stop, Disconnected, SqlFails, Join
<1>2. /\ main' \in LinkMainRow /\ main'.pc = pc /\ main'.last = main.last
      /\ main'.upto = main.upto /\ main'.sent = main.sent /\ main'.got = main.got
      /\ main'.found = main.found /\ main'.tried = main.tried
  BY <1>1, GoesOn DEF LinkInv
<1>3. jobs' = jobs /\ parsed' = parsed
  BY DEF Stop, Disconnected, SqlFails, Join, pool
<1>4. LinkTypeOK'
  BY <1>2, <1>3, <1>0 DEF LinkInv, LinkTypeOK
<1>5. BatchRows'
  BY <1>2 DEF LinkInv, BatchRows
<1>6. OneEach'
  BY <1>2, <1>3, <1>0 DEF LinkInv, OneEach, Under
<1>7. Resolving'
  BY <1>2 DEF Resolving
<1>8. main.upto <= main'.upto
  BY <1>2, RowsOfLog DEF LinkInv
<1> QED BY <1>2, <1>4, <1>5, <1>6, <1>7, <1>8, <1>0, MainStep

LEMMA SortResultsKeeps ==
  ASSUME LinkInv, SortResults
  PROVE  LinkInv'
<1>1. /\ main' \in LinkMainRow /\ main'.pc = "resolve" /\ main'.last = main.last
      /\ main'.upto = main.upto /\ main'.sent = main.sent /\ main'.got = main.got
      /\ main'.found = main.found /\ main'.tried = 0
  BY SortResultsRun DEF LinkInv
<1>2. /\ todo' = UNION {{row} \X DOMAIN GroupsOf(row) : row \in main.got}
      /\ lookups' = lookups /\ linked' = linked /\ parser' = parser /\ jobs' = jobs
      /\ parsed' = parsed /\ UNCHANGED index /\ main.pc = "send" /\ Unsent = {}
      /\ indexed' = indexed /\ kept' = kept /\ ever' = ever
      /\ ~ (Cardinality(main.got) < Cardinality(main.sent))
  BY DEF SortResults, pool, index, Awaits
<1>3. main.last \in Nat /\ main.upto \in Nat /\ 1 .. main.upto \subseteq 1 .. Len(Log)
  BY RowsOfLog DEF LinkInv
<1>4. main.sent = main.last + 1 .. main.upto
  BY <1>2 DEF LinkInv, BatchRows, Unsent
<1>5. main.got = main.sent
  <2>1. main.last + 1 \in Nat /\ main.sent \subseteq main.last + 1 .. main.upto
    BY <1>3, <1>4
  <2>2. main.got \subseteq main.sent
    BY DEF LinkInv, BatchRows
  <2> QED BY <1>2, <1>3, <2>1, <2>2, AllReceived
<1>6. /\ \A g \in todo' : g[1] \in main.got /\ g[2] \in DOMAIN GroupsOf(g[1])
                          /\ g = <<g[1], g[2]>>
      /\ \A row \in main.got : \A n \in DOMAIN GroupsOf(row) : <<row, n>> \in todo'
  BY <1>2
<1>7. main.got \subseteq 1 .. Len(Log)
  BY <1>3, <1>4, <1>5
<1>8. todo' \in SUBSET (Nat \X Nat)
  <2>1. ASSUME NEW g \in todo' PROVE g[1] \in Nat /\ g[2] \in Nat /\ g = <<g[1], g[2]>>
    BY <1>6, <1>7, Candidates
  <2> QED BY <2>1
<1>9. LinkTypeOK'
  BY <1>1, <1>2, <1>8 DEF LinkInv, LinkTypeOK
<1>10. BatchRows'
  BY <1>1, <1>4, <1>5 DEF LinkInv, BatchRows
<1>11. OneEach'
  BY <1>1, <1>2 DEF LinkInv, OneEach, Under
<1>12. Resolving'
  <2>1. ASSUME todo' # {} PROVE 0 <= Len(GroupsOf(Current[1])[Current[2]])'
    <3>1. Current' \in todo'
      BY <1>8, <2>1, FirstOfGroups DEF Current
    <3>2. GroupsOf(Current'[1])[Current'[2]] \in Seq(Paths)
      BY <1>6, <1>7, <3>1, Candidates
    <3>3. GroupsOf(Current[1])' = GroupsOf(Current'[1])
      BY DEF GroupsOf
    <3> QED BY <3>2, <3>3
  <2>2. \A row : GroupsOf(row)' = GroupsOf(row)
    BY DEF GroupsOf
  <2> QED BY <1>1, <1>6, <2>1, <2>2 DEF Resolving
<1>13. main.upto <= main'.upto
  BY <1>1, <1>3
<1> QED BY <1>1, <1>2, <1>9, <1>10, <1>11, <1>12, <1>13, MainStep

\* What resolve_asset_id_cached answers was so at some time of the run, and an
\* image that was there all along is found; so with what it remembers.
LEMMA LookAnswers ==
  ASSUME LinkTypeOK, IndexKnown, LookupsHold, NEW path \in Paths
  PROVE  /\ IsImage(path) => path \in ever
         /\ ~IsImage(path) => path \notin kept
         /\ DOMAIN Remembered(path) \subseteq Paths
         /\ \A p \in DOMAIN Remembered(path) :
              /\ Remembered(path)[p] \in BOOLEAN
              /\ Remembered(path)[p] => p \in ever
              /\ ~Remembered(path)[p] => p \notin kept
<1>1. (IsImage(path) => path \in ever) /\ (~IsImage(path) => path \notin kept)
  BY DEF IsImage, Cached, LookupsHold, IndexKnown
<1>2. CASE Cached(path)
  BY <1>1, <1>2 DEF Remembered, LookupsHold, LinkTypeOK
<1>3. CASE ~Cached(path)
  <2> DEFINE full == Cardinality(DOMAIN lookups) >= CacheSize
             old == IF full THEN {} ELSE DOMAIN lookups
  <2>1. Remembered(path) =
          [p \in old \cup {path} |-> IF p = path THEN path \in indexed ELSE lookups[p]]
    BY <1>3 DEF Remembered
  <2>2. old \subseteq DOMAIN lookups
    OBVIOUS
  <2> HIDE DEF old
  <2>3. DOMAIN Remembered(path) = old \cup {path}
    BY <2>1
  <2>4. ASSUME NEW p \in old \cup {path}
        PROVE  /\ Remembered(path)[p] \in BOOLEAN
               /\ Remembered(path)[p] => p \in ever
               /\ ~Remembered(path)[p] => p \notin kept
    <3>1. CASE p = path
      <4>1. Remembered(path)[p] = (path \in indexed)
        BY <2>1, <2>4, <3>1
      <4>2. (path \in indexed => path \in ever) /\ (path \notin indexed => path \notin kept)
        BY DEF IndexKnown
      <4>3. CASE path \in indexed
        <5>1. Remembered(path)[p] = TRUE
          BY <4>1, <4>3
        <5> QED BY <3>1, <4>2, <4>3, <5>1
      <4>4. CASE path \notin indexed
        <5>1. (path \in indexed) = FALSE
          BY <4>4
        <5>2. Remembered(path)[p] = FALSE
          BY <4>1, <5>1, Zenon
        <5> QED BY <3>1, <4>2, <4>4, <5>2
      <4> QED BY <4>3, <4>4
    <3>2. CASE p # path
      BY <2>1, <2>2, <2>4, <3>2 DEF LookupsHold
    <3> QED BY <3>1, <3>2
  <2> QED BY <1>1, <2>2, <2>3, <2>4 DEF LinkTypeOK
<1> QED BY <1>1, <1>2, <1>3

\* The steps of Lookup: the candidates of the group are used up, one of them
\* has an image, or the next one is tried.
LEMMA LookupRun ==
  ASSUME LinkTypeOK, BatchRows, Resolving, Lookup
  PROVE  LET row == Current[1]
             paths == GroupsOf(row)[Current[2]]
             path == paths[main.tried + 1]
         IN  /\ main' \in LinkMainRow /\ main'.pc = "resolve" /\ main'.last = main.last
             /\ main'.upto = main.upto /\ main'.sent = main.sent /\ main'.got = main.got
             /\ \/ /\ main.tried = Len(paths) /\ todo' = todo \ {Current} /\ main'.tried = 0
                   /\ main'.found = main.found /\ lookups' = lookups
                \/ /\ main.tried < Len(paths) /\ path \in Paths /\ IsImage(path)
                   /\ todo' = todo \ {Current} /\ main'.tried = 0
                   /\ main'.found = main.found \cup {<<row, path>>}
                   /\ lookups' = Remembered(path)
                \/ /\ main.tried < Len(paths) /\ path \in Paths /\ ~IsImage(path)
                   /\ todo' = todo /\ main'.tried = main.tried + 1
                   /\ main'.found = main.found /\ lookups' = Remembered(path)
<1> DEFINE row == Current[1]
           paths == GroupsOf(row)[Current[2]]
           path == paths[main.tried + 1]
<1>1. main.pc = "resolve" /\ todo # {}
  BY DEF Lookup
<1>2. paths \in Seq(Paths) /\ main.tried \in 0 .. Len(paths) /\ row \in Nat
  BY <1>1, Group
<1>3. main \in LinkMainRow
  BY DEF LinkTypeOK
<1>4. IF main.tried = Len(paths)
        THEN /\ todo' = todo \ {Current} /\ main' = [main EXCEPT !.tried = 0]
             /\ UNCHANGED lookups
      ELSE /\ lookups' = Remembered(path)
           /\ IF IsImage(path)
                THEN /\ main' = [main EXCEPT !.found = @ \cup {<<row, path>>}, !.tried = 0]
                     /\ todo' = todo \ {Current}
                ELSE main' = [main EXCEPT !.tried = @ + 1] /\ UNCHANGED todo
  BY DEF Lookup
<1> HIDE DEF row, paths
<1>5. CASE main.tried = Len(paths)
  BY <1>1, <1>3, <1>4, <1>5 DEF LinkMainRow, row, paths
<1>6. CASE main.tried # Len(paths)
  <2>1. main.tried < Len(paths) /\ main.tried + 1 \in 1 .. Len(paths) /\ path \in Paths
    BY <1>2, <1>6
  <2> HIDE DEF path
  <2>2. CASE IsImage(path)
    <3>1. /\ main' = [main EXCEPT !.found = @ \cup {<<row, path>>}, !.tried = 0]
          /\ todo' = todo \ {Current} /\ lookups' = Remembered(path)
      BY <1>4, <1>6, <2>2 DEF row, paths, path
    <3>2. /\ main' \in LinkMainRow /\ main'.pc = "resolve" /\ main'.last = main.last
          /\ main'.upto = main.upto /\ main'.sent = main.sent /\ main'.got = main.got
          /\ main'.tried = 0 /\ main'.found = main.found \cup {<<row, path>>}
      <4>1. main.found \cup {<<row, path>>} \in SUBSET (Nat \X Paths)
        BY <1>2, <1>3, <2>1 DEF LinkMainRow
      <4> QED BY <1>1, <1>3, <3>1, <4>1 DEF LinkMainRow
    <3> QED BY <2>1, <2>2, <3>1, <3>2 DEF row, paths, path
  <2>3. CASE ~IsImage(path)
    BY <1>1, <1>3, <1>4, <1>6, <2>1, <2>3 DEF LinkMainRow, row, paths, path
  <2> QED BY <2>2, <2>3
<1> QED BY <1>5, <1>6

\* A group that is done has its image.
LEMMA DoneShows ==
  ASSUME LinkInv, Lookup, todo' = todo \ {Current}, main.found \subseteq main'.found,
         main'.pc = "resolve", main'.got = main.got, main'.tried = 0,
         Shows(Current[1], GroupsOf(Current[1])[Current[2]], main'.found)
  PROVE  Resolving'
<1>1. main.pc = "resolve" /\ todo # {} /\ kept' = kept
  BY DEF Lookup, index
<1>2. /\ Current = <<Current[1], Current[2]>> /\ todo \in SUBSET (Nat \X Nat)
  BY <1>1, Group DEF LinkInv, LinkTypeOK
<1>3. \A row : GroupsOf(row)' = GroupsOf(row)
  BY DEF GroupsOf
<1>4. main.got \subseteq 1 .. Len(Log)
  BY <1>1, RowsOfLog DEF LinkInv, BatchRows
<1>5. \A g \in todo' : g[1] \in main.got /\ g[2] \in DOMAIN GroupsOf(g[1])
  BY <1>1 DEF LinkInv, Resolving
<1>6. ASSUME NEW row \in main.got, NEW n \in DOMAIN GroupsOf(row)
      PROVE  <<row, n>> \in todo' \/ Shows(row, GroupsOf(row)[n], main.found)'
  <2>1. CASE <<row, n>> = Current
    <3>1. row = Current[1] /\ n = Current[2]
      BY <1>2, <2>1
    <3> QED BY <1>1, <3>1 DEF Shows, GroupsOf
  <2>2. CASE <<row, n>> # Current
    BY <1>1, <1>3, <2>2 DEF LinkInv, Resolving, Shows
  <2> QED BY <2>1, <2>2
<1>7. ASSUME todo' # {} PROVE 0 <= Len(GroupsOf(Current[1])[Current[2]])'
  <2>1. Current' \in todo'
    BY <1>2, <1>7, FirstOfGroups DEF Current
  <2>2. GroupsOf(Current'[1])[Current'[2]] \in Seq(Paths)
    BY <1>4, <1>5, <2>1, Candidates
  <2>3. GroupsOf(Current[1])' = GroupsOf(Current'[1])
    BY DEF GroupsOf
  <2> QED BY <2>2, <2>3
<1> QED BY <1>3, <1>5, <1>6, <1>7 DEF Resolving

LEMMA LookupKeeps ==
  ASSUME LinkInv, Lookup
  PROVE  LinkInv'
<1> DEFINE row == Current[1]
           paths == GroupsOf(row)[Current[2]]
           path == paths[main.tried + 1]
<1>1. /\ main' \in LinkMainRow /\ main'.pc = "resolve" /\ main'.last = main.last
      /\ main'.upto = main.upto /\ main'.sent = main.sent /\ main'.got = main.got
      /\ \/ /\ main.tried = Len(paths) /\ todo' = todo \ {Current} /\ main'.tried = 0
            /\ main'.found = main.found /\ lookups' = lookups
         \/ /\ main.tried < Len(paths) /\ path \in Paths /\ IsImage(path)
            /\ todo' = todo \ {Current} /\ main'.tried = 0
            /\ main'.found = main.found \cup {<<row, path>>} /\ lookups' = Remembered(path)
         \/ /\ main.tried < Len(paths) /\ path \in Paths /\ ~IsImage(path)
            /\ todo' = todo /\ main'.tried = main.tried + 1
            /\ main'.found = main.found /\ lookups' = Remembered(path)
  BY LookupRun DEF LinkInv
<1>2. /\ main.pc = "resolve" /\ todo # {} /\ indexed' = indexed /\ kept' = kept /\ ever' = ever
      /\ parser' = parser /\ jobs' = jobs /\ parsed' = parsed /\ linked' = linked
  BY DEF Lookup, index, pool
<1>3. /\ Current \in todo /\ row \in 1 .. main.upto /\ Current[2] \in DOMAIN GroupsOf(row)
      /\ paths \in Seq(Paths) /\ paths \in Range(GroupsOf(row))
      /\ main.tried \in 0 .. Len(paths) /\ \A k \in 1 .. main.tried : paths[k] \notin kept
  BY <1>2, Group DEF LinkInv
<1> HIDE DEF row, paths, path
<1>4. ASSUME path \in Paths
      PROVE  /\ IsImage(path) => path \in ever
             /\ ~IsImage(path) => path \notin kept
             /\ DOMAIN Remembered(path) \subseteq Paths
             /\ \A p \in DOMAIN Remembered(path) :
                  /\ Remembered(path)[p] \in BOOLEAN
                  /\ Remembered(path)[p] => p \in ever
                  /\ ~Remembered(path)[p] => p \notin kept
  BY <1>4, LookAnswers DEF LinkInv
<1>5. LinkTypeOK' /\ LookupsHold'
  <2>1. DOMAIN lookups' \subseteq Paths
    BY <1>1, <1>4 DEF LinkInv, LinkTypeOK
  <2>2. todo' \subseteq todo
    BY <1>1
  <2>3. LookupsHold'
    <3>1. CASE lookups' = lookups
      BY <1>2, <3>1 DEF LinkInv, LookupsHold
    <3>2. CASE path \in Paths /\ lookups' = Remembered(path)
      BY <1>2, <1>4, <3>2 DEF LookupsHold
    <3> QED BY <1>1, <3>1, <3>2
  <2> QED BY <1>1, <1>2, <2>1, <2>2, <2>3 DEF LinkInv, LinkTypeOK
<1>6. IndexKnown' /\ BatchRows' /\ OneEach'
  BY <1>1, <1>2 DEF LinkInv, IndexKnown, BatchRows, OneEach, Under
<1>7. main'.found \subseteq Possible(1 .. main.upto)'
  <2>1. main.found \subseteq Possible(1 .. main.upto)'
    BY <1>1, <1>2 DEF LinkInv, Possible, GroupsOf
  <2>2. ASSUME main.tried < Len(paths), path \in Paths, IsImage(path)
        PROVE  <<row, path>> \in Possible(1 .. main.upto)'
    <3>1. path \in ever'
      BY <1>2, <1>4, <2>2
    <3>2. path \in Range(paths)
      <4>1. main.tried + 1 \in DOMAIN paths
        BY <1>3, <2>2
      <4> QED BY <4>1 DEF Range, path
    <3> QED BY <1>1, <1>3, <3>1, <3>2 DEF Possible, GroupsOf
  <2> QED BY <1>1, <2>1, <2>2
<1>8. LinksFollowIndex'
  BY <1>1, <1>2 DEF LinkInv, LinksFollowIndex, HasImage, GroupsOf
<1>9. Resolving'
  <2>1. CASE main.tried = Len(paths) /\ main'.found = main.found /\ todo' = todo \ {Current}
             /\ main'.tried = 0
    <3>1. Shows(row, paths, main'.found)
      BY <1>3, <2>1 DEF Shows
    <3> QED BY <1>1, <2>1, <3>1, DoneShows DEF row, paths
  <2>2. CASE /\ main.tried < Len(paths) /\ todo' = todo \ {Current} /\ main'.tried = 0
             /\ main'.found = main.found \cup {<<row, path>>}
    <3>1. Shows(row, paths, main'.found)
      <4> SUFFICES ASSUME NEW n \in DOMAIN paths, paths[n] \in kept
                   PROVE  \E k \in 1 .. n : <<row, paths[k]>> \in main'.found
        BY DEF Shows
      <4>1. n \in 1 .. Len(paths) /\ n \notin 1 .. main.tried
        BY <1>3
      <4>2. main.tried + 1 \in 1 .. n
        BY <1>3, <4>1
      <4> QED BY <2>2, <4>2 DEF path
    <3> QED BY <1>1, <2>2, <3>1, DoneShows DEF row, paths
  <2>3. CASE /\ main.tried < Len(paths) /\ path \in Paths /\ ~IsImage(path) /\ todo' = todo
             /\ main'.tried = main.tried + 1 /\ main'.found = main.found
    <3>1. /\ main'.tried <= Len(paths)
          /\ \A k \in 1 .. main'.tried : paths[k] \notin kept
      BY <1>4, <2>3, <1>3 DEF path
    <3>2. Current' = Current /\ GroupsOf(Current[1])' = GroupsOf(Current[1])
      BY <2>3 DEF Current, GroupsOf
    <3> QED BY <1>1, <1>2, <2>3, <3>1, <3>2 DEF LinkInv, Resolving, Shows, GroupsOf, row, paths
  <2> QED BY <1>1, <2>1, <2>2, <2>3
<1> QED BY <1>5, <1>6, <1>7, <1>8, <1>9 DEF LinkInv

LEMMA CommitKeeps ==
  ASSUME LinkInv, Commit
  PROVE  LinkInv'
<1>1. /\ main' \in LinkMainRow /\ main'.pc = "read" /\ main'.last = main.upto
      /\ main'.upto = main.upto /\ main'.sent = main.sent /\ main'.got = main.got
      /\ main'.found = main.found
  BY CommitRun DEF LinkInv
<1>2. /\ indexed' = indexed /\ kept' = kept /\ ever' = ever /\ parser' = parser
      /\ jobs' = jobs /\ parsed' = parsed /\ todo' = todo /\ lookups' = lookups
      /\ linked' = linked \cup main.found /\ main.pc = "resolve" /\ todo = {}
  BY DEF Commit, index, pool
<1>3. /\ main \in LinkMainRow /\ main.last \in Nat /\ main.upto \in Nat
      /\ 1 .. main.upto \subseteq 1 .. Len(Log)
  BY RowsOfLog DEF LinkInv
<1>4. LinkTypeOK'
  BY <1>1, <1>2, <1>3 DEF LinkInv, LinkTypeOK, LinkMainRow
<1>5. IndexKnown' /\ LookupsHold' /\ OneEach' /\ Resolving'
  BY <1>1, <1>2 DEF LinkInv, IndexKnown, LookupsHold, OneEach, Under, Resolving
<1>6. BatchRows'
  BY <1>1, <1>2, <1>3 DEF LinkInv, BatchRows
<1>7. main'.found \subseteq Possible(1 .. main.upto)'
  BY <1>1, <1>2 DEF LinkInv, Possible, GroupsOf
<1>8. main.last <= main.upto /\ main.got = main.last + 1 .. main.upto
  BY <1>2 DEF LinkInv, BatchRows
<1>9. ASSUME NEW r \in 1 .. main.upto, NEW paths \in Range(GroupsOf(r))
      PROVE  HasImage(r, paths)'
  <2>1. CASE r \in 1 .. main.last
    <3>1. HasImage(r, paths)
      BY <1>9, <2>1 DEF LinkInv, LinksFollowIndex
    <3> QED BY <1>2, <3>1 DEF HasImage
  <2>2. CASE r \in main.got
    <3>1. PICK n \in DOMAIN GroupsOf(r) : paths = GroupsOf(r)[n]
      BY <1>3, <1>9, Candidates
    <3>2. Shows(r, paths, main.found)
      BY <1>2, <2>2, <3>1 DEF LinkInv, Resolving
    <3> QED BY <1>2, <3>2 DEF Shows, HasImage
  <2>3. r \in 1 .. main.last \/ r \in main.got
    BY <1>3, <1>8, <1>9
  <2> QED BY <2>1, <2>2, <2>3
<1>10. linked' \subseteq Possible(1 .. main.upto)
  BY <1>3, <1>8, <1>2 DEF LinkInv, LinksFollowIndex, Possible
<1>11. LinksFollowIndex'
  BY <1>1, <1>9, <1>2, <1>10 DEF GroupsOf, Possible, LinksFollowIndex, HasImage
<1> QED BY <1>4, <1>5, <1>6, <1>7, <1>11 DEF LinkInv

----------------------------------------------------------------------------
(***************************************************************************)
(* The theorem.                                                            *)
(***************************************************************************)

LEMMA LinkInitHolds ==
  ASSUME LinkInit
  PROVE  LinkInv
<1>1. /\ kept = indexed /\ ever = indexed /\ indexed \in SUBSET Paths
      /\ parser = [w \in Parsers |-> Unoccupied] /\ jobs = <<>> /\ parsed = <<>>
      /\ main = [pc |-> "read", last |-> 0, upto |-> 0, sent |-> {}, got |-> {}, found |-> {},
                 tried |-> 0]
      /\ todo = {} /\ lookups = <<>> /\ linked = {} /\ Len(Log) \in Nat
  BY LinkWorkersAssumption DEF LinkInit
<1>2. Unoccupied \in ParserRow /\ Unoccupied.pc = "idle"
  BY DEF Unoccupied, Does, ParserRow
<1>3. DOMAIN lookups = {} /\ Range(jobs) = {} /\ Range(parsed) = {} /\ Once(jobs) /\ Once(parsed)
  BY <1>1 DEF Range, Once
<1>4. main \in LinkMainRow
  BY <1>1 DEF LinkMainRow
<1>5. LinkTypeOK
  BY <1>1, <1>2, <1>3, <1>4 DEF LinkTypeOK
<1>6. IndexKnown /\ LookupsHold
  BY <1>1, <1>3 DEF IndexKnown, LookupsHold
<1>7. BatchRows /\ OneEach /\ Resolving
  BY <1>1, <1>2, <1>3 DEF BatchRows, OneEach, Under, Resolving
<1>8. main.found = {} /\ LinksFollowIndex
  BY <1>1 DEF LinksFollowIndex
<1> QED BY <1>5, <1>6, <1>7, <1>8 DEF LinkInv

\* The inductive invariant of a run of link-chat: each row that was sent is in
\* one place until its result is received, asset_id_cache answers only what was
\* so at some time of the run, and the groups that are done have their image.
THEOREM LinkInvariant == LinkSpec => []LinkInv
<1>1. LinkInit => LinkInv
  BY LinkInitHolds
<1>2. LinkInv /\ [LinkNext]_linkVars => LinkInv'
  <2> SUFFICES ASSUME LinkInv, [LinkNext]_linkVars PROVE LinkInv'
    OBVIOUS
  <2>1. CASE UNCHANGED linkVars
    BY <2>1, PoolStep DEF linkVars, index, store, LinkInv, LinkTypeOK, OneEach, Under
  <2>2. CASE FetchBatch
    BY <2>2, FetchBatchKeeps
  <2>3. CASE Send
    BY <2>3, SendKeeps
  <2>4. CASE Receive
    BY <2>4, ReceiveKeeps
  <2>5. CASE Stop \/ Disconnected \/ SqlFails \/ Join
    BY <2>5, EndsKeeps
  <2>6. CASE SortResults
    BY <2>6, SortResultsKeeps
  <2>7. CASE Lookup
    BY <2>7, LookupKeeps
  <2>8. CASE Commit
    BY <2>8, CommitKeeps
  <2>9. CASE ChangeIndex
    BY <2>9, ChangeIndexKeeps
  <2>10. ASSUME NEW w \in Parsers, ParserStep(w) \/ ParserPanics(w) PROVE LinkInv'
    BY <2>10, TakeJobKeeps, DeliverKeeps, ParserEndsKeeps DEF ParserStep
  <2> QED BY <2>1, <2>2, <2>3, <2>4, <2>5, <2>6, <2>7, <2>8, <2>9, <2>10 DEF LinkNext, LinkMain
<1> QED BY <1>1, <1>2, PTL DEF LinkSpec

\* A committed row has, for each of its groups, an image no later in the order
\* of its candidates than the first that was there all along, and no image that
\* never was: for every log, every number of parsers and size of batch and of
\* cache, in whichever order the results come back and the index changes, and
\* whether or not parsers panic and the run is stopped (link_table, worker_loop,
\* resolve_asset_id_cached).
THEOREM CommittedRowsAreLinked == LinkSpec => []LinksFollowIndex
<1>1. LinkInv => LinksFollowIndex
  BY DEF LinkInv
<1> QED BY <1>1, LinkInvariant, PTL
=============================================================================
