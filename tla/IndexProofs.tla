----------------------------- MODULE IndexProofs -----------------------------
(***************************************************************************)
(* Proofs about build_index (IndexScan, IndexBuild) for any files, kinds   *)
(* of embeddings, limits, batch and queue sizes and any number of builds,  *)
(* which fail, are killed or lose threads anywhere while files change:     *)
(* scans leave exactly the files there are, embedding stages leave out     *)
(* none, the exact groups follow the hashes, and the identity of the       *)
(* manifest tells its contents apart.                                      *)
(***************************************************************************)
EXTENDS IndexBuild, FiniteSetTheorems, FunctionTheorems, SequenceTheorems,
        WellFoundedInduction, TLAPS

----------------------------------------------------------------------------
(***************************************************************************)
(* Rowids.                                                                 *)
(***************************************************************************)

\* A finite set of numbers has a largest one: a smallest set without one
\* would leave one when a number is taken away.
LEMMA FiniteSetHasMax ==
  ASSUME NEW S \in SUBSET Nat, IsFiniteSet(S), S # {}
  PROVE  Max(S) \in S /\ \A y \in S : Max(S) >= y
<1> DEFINE Order == StrictSubsetOrdering(Nat)
           Sets == FiniteSubsetsOf(Nat)
           NoMax(A) == A # {} /\ \A m \in A : \E y \in A : y > m
           T == {A \in Sets : NoMax(A)}
<1>1. IsWellFoundedOn(Order, Sets)
  BY FS_StrictSubsetOrderingWellFounded
<1>2. T = {}
  <2> SUFFICES ASSUME T # {} PROVE FALSE
    OBVIOUS
  <2>1. PICK A \in T : \A B \in T : <<B, A>> \notin Order
    <3> HIDE DEF Order, T, Sets
    <3>0. T \subseteq Sets
      BY DEF T
    <3> QED BY <1>1, <3>0, WFMin
  <2>2. A \in SUBSET Nat /\ IsFiniteSet(A) /\ NoMax(A)
    BY <2>1 DEF FiniteSubsetsOf
  <2>3. PICK x \in A : TRUE
    BY <2>2
  <2> DEFINE B == A \ {x}
  <2>4. B \in SUBSET Nat /\ IsFiniteSet(B) /\ B # {}
    BY <2>2, <2>3, FS_RemoveElement
  <2>5. <<B, A>> \in Order
    BY <2>2, <2>3 DEF StrictSubsetOrdering
  <2>6. ~NoMax(B)
    <3>1. B \notin T
      BY <2>1, <2>5
    <3>2. B \in Sets
      BY <2>4 DEF FiniteSubsetsOf
    <3> QED BY <3>1, <3>2
  <2>7. PICK m \in B : \A y \in B : ~(y > m)
    BY <2>4, <2>6
  <2>8. PICK y \in A : y > m
    BY <2>2, <2>7
  <2>9. PICK z \in A : z > y
    BY <2>2, <2>8
  <2>10. y = x
    BY <2>7, <2>8
  <2>11. z \in B /\ z > m
    BY <2>2, <2>7, <2>8, <2>9, <2>10
  <2> QED BY <2>7, <2>11
<1>3. \E m \in S : \A y \in S : ~(y > m)
  <2>1. S \in Sets
    BY DEF FiniteSubsetsOf
  <2> QED BY <1>2, <2>1
<1>4. \E m \in S : \A y \in S : m >= y
  BY <1>3
<1> QED BY <1>4 DEF Max

Typed(v) == v \in [Paths -> [Kinds -> Vectors \cup {NoRow}]]

\* No two vectors have one rowid.
RowidsDiffer(v) ==
  \A p, q \in Paths, k, l \in Kinds :
     v[p][k] # NoRow /\ v[q][l] # NoRow /\ v[p][k].row = v[q][l].row => p = q /\ k = l

LEMMA LastRowBounds ==
  ASSUME ScanAssumption, NEW v, Typed(v)
  PROVE  /\ LastRow(v) \in Nat
         /\ \A p \in Paths, k \in Kinds : v[p][k] # NoRow => v[p][k].row <= LastRow(v)
<1> DEFINE Cells == {c \in Paths \X Kinds : v[c[1]][c[2]] # NoRow}
           f == [c \in Cells |-> v[c[1]][c[2]].row]
           R == UNION {{v[p][k].row : k \in {k \in Kinds : v[p][k] # NoRow}} : p \in Paths}
<1>1. \A p \in Paths, k \in Kinds : v[p][k] # NoRow => v[p][k].row \in Nat
  BY DEF Typed, Vectors
<1>2. R = {f[c] : c \in Cells}
  <2>1. ASSUME NEW r \in R PROVE r \in {f[c] : c \in Cells}
    <3>1. PICK p \in Paths, k \in Kinds : v[p][k] # NoRow /\ r = v[p][k].row
      BY <2>1
    <3>2. <<p, k>> \in Cells /\ f[<<p, k>>] = r
      BY <3>1
    <3> QED BY <3>2
  <2>2. ASSUME NEW c \in Cells PROVE f[c] \in R
    OBVIOUS
  <2> HIDE DEF R, f, Cells
  <2> QED BY <2>1, <2>2
<1>3. R \subseteq Nat
  BY <1>1
<1>4. IsFiniteSet(R)
  <2>1. IsFiniteSet(Paths \X Kinds)
    BY FS_Product DEF ScanAssumption
  <2>2. IsFiniteSet(Cells)
    BY <2>1, FS_Subset
  <2>3. f \in Surjection(Cells, R)
    BY <1>2 DEF Surjection
  <2> HIDE DEF Cells, f, R
  <2> QED BY <2>2, <2>3, FS_Surjection
<1>5. LastRow(v) = IF R = {} THEN 0 ELSE Max(R)
  BY DEF LastRow
<1>6. ASSUME NEW p \in Paths, NEW k \in Kinds, v[p][k] # NoRow
      PROVE  v[p][k].row \in R
  BY <1>6
<1> HIDE DEF R
<1>7. CASE R = {}
  BY <1>5, <1>6, <1>7
<1>8. CASE R # {}
  <2>1. Max(R) \in R /\ \A y \in R : Max(R) >= y
    BY <1>3, <1>4, <1>8, FiniteSetHasMax
  <2> QED BY <1>1, <1>3, <1>5, <1>6, <1>8, <2>1
<1> QED BY <1>7, <1>8

\* An upsert replaces or adds what it names, keeps the rest, and gives new
\* rows new rowids.
LEMMA UpsertedIs ==
  ASSUME ScanAssumption, RowAssumption, NEW v, Typed(v), RowidsDiffer(v),
         NEW new \in SUBSET (Paths \X Kinds \X Goods)
  PROVE  /\ Typed(Upserted(v, new))
         /\ RowidsDiffer(Upserted(v, new))
         /\ \A p \in Paths, k \in Kinds :
              IF \E t \in new : t[1] = p /\ t[2] = k
                THEN /\ Upserted(v, new)[p][k] # NoRow
                     /\ \E t \in new : /\ t[1] = p /\ t[2] = k
                                       /\ Upserted(v, new)[p][k].of = t[3]
                ELSE Upserted(v, new)[p][k] = v[p][k]
<1> DEFINE Fresh == {t \in new : v[t[1]][t[2]] = NoRow}
           Numbers == [Fresh -> 1 .. Cardinality(Fresh)]
           Apart(f) == \A s, t \in Fresh : s # t => f[s] # f[t]
           Number == CHOOSE f \in Numbers : Apart(f)
           Named(p, k) == \E t \in new : t[1] = p /\ t[2] = k
           The(p, k) == CHOOSE t \in new : t[1] = p /\ t[2] = k
           Last == LastRow(v)
           Cell(p, k) ==
             IF Named(p, k)
               THEN [of |-> The(p, k)[3],
                     row |-> IF The(p, k) \in Fresh THEN Last + Number[The(p, k)]
                             ELSE v[p][k].row]
               ELSE v[p][k]
           U == Upserted(v, new)
<1>0. U = [p \in Paths |-> [k \in Kinds |-> Cell(p, k)]]
  BY DEF Upserted
<1>1. IsFiniteSet(Fresh)
  <2>1. Goods \in SUBSET Goods /\ IsFiniteSet(Goods) /\ IsFiniteSet(Kinds) /\ IsFiniteSet(Paths)
    BY DEF ScanAssumption
  <2>2. \E B : IsFiniteSet(B) /\ Fresh \subseteq B
    <3>1. IsFiniteSet(Paths \X (Kinds \X Goods))
      BY <2>1, FS_Product
    <3> DEFINE A == Paths \X (Kinds \X Goods)
               B == {<<a[1], a[2][1], a[2][2]>> : a \in A}
               g == [a \in A |-> <<a[1], a[2][1], a[2][2]>>]
    <3>2. g \in Surjection(A, B)
      BY DEF Surjection
    <3>3. IsFiniteSet(B)
      <4> HIDE DEF A, B, g
      <4> QED BY <3>1, <3>2, FS_Surjection DEF A
    <3>4. Fresh \subseteq B
      <4> SUFFICES ASSUME NEW t \in Fresh PROVE t \in B
        OBVIOUS
      <4>1. PICK p \in Paths, k \in Kinds, c \in Goods : t = <<p, k, c>>
        OBVIOUS
      <4>2. <<p, <<k, c>>>> \in A /\ t = <<<<p, <<k, c>>>>[1], <<p, <<k, c>>>>[2][1], <<p, <<k, c>>>>[2][2]>>
        BY <4>1
      <4> QED BY <4>2
    <3> QED BY <3>3, <3>4
  <2> QED BY <2>2, FS_Subset
<1>2. Number \in Numbers /\ Apart(Number)
  <2>1. Cardinality(Fresh) \in Nat /\ ExistsBijection(1 .. Cardinality(Fresh), Fresh)
    <3> HIDE DEF Fresh
    <3> QED BY <1>1, FS_CardinalityType
  <2>2. IsFiniteSet(1 .. Cardinality(Fresh)) /\ Cardinality(1 .. Cardinality(Fresh)) = Cardinality(Fresh)
    <3> HIDE DEF Fresh
    <3>1. ASSUME NEW n \in Nat PROVE IsFiniteSet(1 .. n) /\ Cardinality(1 .. n) = n
      BY FS_Interval
    <3> QED BY <2>1, <3>1
  <2>3. ExistsBijection(Fresh, 1 .. Cardinality(Fresh))
    <3> HIDE DEF Fresh
    <3> QED BY <1>1, <2>2, FS_SameCardinalityBij
  <2>4. \E f \in Numbers : Apart(f)
    <3> HIDE DEF Fresh
    <3>1. PICK f \in Bijection(Fresh, 1 .. Cardinality(Fresh)) : TRUE
      BY <2>3 DEF ExistsBijection
    <3>2. f \in Numbers /\ \A s, t \in Fresh : f[s] = f[t] => s = t
      BY <3>1 DEF Bijection, Injection, IsInjective
    <3> QED BY <3>2
  <2> HIDE DEF Numbers, Apart
  <2> QED BY <2>4
<1>3. Last \in Nat /\ \A p \in Paths, k \in Kinds : v[p][k] # NoRow => v[p][k].row <= Last
  BY LastRowBounds
<1>4. ASSUME NEW p \in Paths, NEW k \in Kinds, Named(p, k)
      PROVE  The(p, k) \in new /\ The(p, k)[1] = p /\ The(p, k)[2] = k /\ The(p, k)[3] \in Goods
  BY <1>4
<1>5. \A t \in Fresh : Number[t] \in Nat /\ Number[t] >= 1
  <2>1. Cardinality(Fresh) \in Nat
    BY <1>1, FS_CardinalityType
  <2> HIDE DEF Number
  <2> QED BY <1>2, <2>1
<1>6. \A p \in Paths, k \in Kinds : v[p][k] # NoRow => v[p][k].row \in Nat /\ v[p][k].of \in Goods
  BY DEF Typed, Vectors
<1> HIDE DEF Number, The, Last
\* A cell that is named: new row beyond the last one, or the row it had.
<1>7. ASSUME NEW p \in Paths, NEW k \in Kinds, Named(p, k)
      PROVE  /\ Cell(p, k) \in Vectors /\ Cell(p, k).of = The(p, k)[3]
             /\ IF v[p][k] = NoRow
                  THEN The(p, k) \in Fresh /\ Cell(p, k).row = Last + Number[The(p, k)]
                  ELSE Cell(p, k).row = v[p][k].row
  <2>1. The(p, k) \in Fresh <=> v[p][k] = NoRow
    BY <1>4, <1>7
  <2>2. Cell(p, k) = [of |-> The(p, k)[3],
                      row |-> IF v[p][k] = NoRow THEN Last + Number[The(p, k)] ELSE v[p][k].row]
    BY <1>7, <2>1
  <2>3. CASE v[p][k] = NoRow
    BY <1>3, <1>4, <1>5, <1>7, <2>1, <2>2, <2>3 DEF Vectors
  <2>4. CASE v[p][k] # NoRow
    BY <1>4, <1>6, <1>7, <2>2, <2>4 DEF Vectors
  <2> QED BY <2>3, <2>4
<1>8. \A p \in Paths, k \in Kinds : U[p][k] = Cell(p, k)
  BY <1>0
<1>9. \A p \in Paths, k \in Kinds : Named(p, k) => Cell(p, k) # NoRow
  BY <1>7 DEF RowAssumption
<1>10. \A p \in Paths, k \in Kinds : ~Named(p, k) => Cell(p, k) = v[p][k]
  OBVIOUS
<1> HIDE DEF Cell, U
<1>11. Typed(U)
  BY <1>7, <1>10, <1>0 DEF Typed
<1>12. RowidsDiffer(U)
  <2> SUFFICES ASSUME NEW p \in Paths, NEW q \in Paths, NEW k \in Kinds, NEW l \in Kinds,
                      Cell(p, k) # NoRow, Cell(q, l) # NoRow, Cell(p, k).row = Cell(q, l).row
               PROVE  p = q /\ k = l
    BY <1>8 DEF RowidsDiffer
  <2> DEFINE New(a, b) == Named(a, b) /\ v[a][b] = NoRow
  <2>1. ASSUME NEW a \in Paths, NEW b \in Kinds, Cell(a, b) # NoRow, ~New(a, b)
        PROVE  v[a][b] # NoRow /\ Cell(a, b).row = v[a][b].row /\ Cell(a, b).row <= Last
    BY <1>3, <1>7, <1>10, <2>1
  <2>2. ASSUME NEW a \in Paths, NEW b \in Kinds, New(a, b)
        PROVE  /\ The(a, b) \in Fresh /\ Cell(a, b).row = Last + Number[The(a, b)]
               /\ Cell(a, b).row > Last
               /\ The(a, b)[1] = a /\ The(a, b)[2] = b
    BY <1>7, <2>2, <1>4, <1>5, <1>3
  <2>3. CASE New(p, k) /\ New(q, l)
    <3>1. Number[The(p, k)] = Number[The(q, l)]
      BY <1>3, <1>5, <2>2, <2>3
    <3>2. The(p, k) = The(q, l)
      BY <1>2, <2>2, <2>3, <3>1
    <3> QED BY <2>2, <2>3, <3>2
  <2>4. CASE ~New(p, k) /\ ~New(q, l)
    BY <2>1, <2>4 DEF RowidsDiffer
  <2>5. CASE New(p, k) /\ ~New(q, l)
    BY <2>1, <2>2, <2>5, <1>3, <1>6, <1>5
  <2>6. CASE ~New(p, k) /\ New(q, l)
    BY <2>1, <2>2, <2>6, <1>3, <1>6, <1>5
  <2> QED BY <2>3, <2>4, <2>5, <2>6
<1>13. ASSUME NEW p \in Paths, NEW k \in Kinds
       PROVE  IF Named(p, k)
                THEN U[p][k] # NoRow /\ \E t \in new : t[1] = p /\ t[2] = k /\ U[p][k].of = t[3]
                ELSE U[p][k] = v[p][k]
  BY <1>4, <1>7, <1>8, <1>9, <1>10
<1> QED BY <1>11, <1>12, <1>13 DEF U

----------------------------------------------------------------------------
(***************************************************************************)
(* Types.                                                                  *)
(***************************************************************************)

ScanJobs     == [path : Paths, stamp : Stamps]
Results      == [path : Paths, stamp : Stamps, content : Goods \cup {Bad, Gone}]
PendingItems == [path : Paths, stamp : Stamps, content : Goods \cup {Unknown}]
ScanStages   ==
  [listed : SUBSET Paths, must : SUBSET Paths, unread : SUBSET Paths, seen : SUBSET Paths,
   jobs : SUBSET ScanJobs, results : SUBSET Results, pending : SUBSET PendingItems,
   erring : SUBSET Paths, hit : BOOLEAN, lost : BOOLEAN]

EmbedJobs  == [path : Paths, stamp : Stamps, sha : Goods \cup {Unknown}]
EmbedItems == [path : Paths, content : Goods, sha : Goods, stamp : Stamps, reuse : BOOLEAN]
Batches    == [jobs : SUBSET EmbedJobs, items : SUBSET EmbedItems, errors : SUBSET Paths,
               lost : BOOLEAN]
EmbedStages ==
  [kinds : SUBSET Kinds, reusing : SUBSET Kinds, async : BOOLEAN,
   backlog : SUBSET EmbedJobs, batches : SUBSET Batches, items : SUBSET EmbedItems,
   errors : SUBSET Paths, queue : Seq(SUBSET EmbedItems), dead : BOOLEAN,
   truncated : BOOLEAN, copied : Nat]

Runs ==
  [pc : RunPcs, n : Nat, stage : SUBSET {"manifest", "embeddings"},
   mode : {"serial", "parallel", "fast"}, limit : Nat,
   force : BOOLEAN, touched : BOOLEAN,
   calm : BOOLEAN, done : BOOLEAN, cut : BOOLEAN, filled : BOOLEAN]

DiskOK   == disk \in [Paths -> Files] /\ edits \in 0 .. MaxEdits
AssetOK  == asset \in [Paths -> Rows \cup {NoRow}]
VecOK    == Typed(vec) /\ RowidsDiffer(vec)
GroupsOK == /\ groups \in [Paths -> SUBSET Paths]
            /\ \A p \in Paths : groups[p] # {} => p \in groups[p]
ViewOK   == gen \in Nat /\ ovw \in Overview \cup {NoRow}
RunOK    == run \in Runs
ScanOK   == scan \in ScanStages
EmbOK    == /\ emb \in EmbedStages
            /\ Len(emb.queue) <= QueueSize
            /\ IsFiniteSet(emb.batches) /\ Cardinality(emb.batches) <= Depth

TypeInv == DiskOK /\ AssetOK /\ VecOK /\ GroupsOK /\ ViewOK /\ RunOK /\ ScanOK /\ EmbOK

Assumptions == ScanAssumption /\ RowAssumption /\ BuildAssumption

\* What a batch of items makes of the rows.
LEMMA WrittenIs ==
  ASSUME Assumptions, AssetOK, NEW items \in SUBSET PendingItems
  PROVE  /\ Written(items) \in [Paths -> Rows \cup {NoRow}]
         /\ \A p \in Paths :
              \/ /\ \A i \in items : i.path # p
                 /\ Written(items)[p] = asset[p]
              \/ \E i \in items :
                   /\ i.path = p
                   /\ Written(items)[p] = [stamp |-> i.stamp, sha |-> i.content,
                                           error |-> FALSE, stale |-> FALSE]
         /\ items = {} => Written(items) = asset
<1> DEFINE Row(i) == [stamp |-> i.stamp, sha |-> i.content, error |-> FALSE, stale |-> FALSE]
           Some(p) == \E i \in items : i.path = p
           The(p) == CHOOSE i \in items : i.path = p
<1>1. Written(items) = [p \in Paths |-> IF Some(p) THEN Row(The(p)) ELSE asset[p]]
  BY DEF Written
<1>2. \A p \in Paths : Some(p) => The(p) \in items /\ The(p).path = p
  OBVIOUS
<1>3. \A i \in items : Row(i) \in Rows
  BY DEF PendingItems, Rows
<1> HIDE DEF The, Row
<1>4. Written(items) \in [Paths -> Rows \cup {NoRow}]
  BY <1>1, <1>2, <1>3 DEF AssetOK
<1>5. ASSUME NEW p \in Paths
      PROVE  \/ /\ \A i \in items : i.path # p
                /\ Written(items)[p] = asset[p]
             \/ \E i \in items : i.path = p /\ Written(items)[p] = Row(i)
  BY <1>1, <1>2
<1>6. items = {} => Written(items) = asset
  BY <1>1 DEF AssetOK
<1> QED BY <1>4, <1>5, <1>6 DEF Row

\* An error row is a row.
LEMMA ErrorRowIs ==
  ASSUME Assumptions, AssetOK, NEW p \in Paths
  PROVE  ErrorRow(p) \in Rows
BY DEF Assumptions, ScanAssumption, AssetOK, ErrorRow, Rows, Stamps

LEMMA PathErrorIs ==
  ASSUME Assumptions, AssetOK, NEW p \in Paths, RecordPathError(p)
  PROVE  /\ AssetOK'
         /\ asset'[p] \in Rows /\ asset'[p].error /\ ~asset'[p].stale /\ asset'[p].sha = Unknown
         /\ asset'[p].stamp = IF asset[p] = NoRow THEN 0 ELSE asset[p].stamp
         /\ \A q \in Paths \ {p} : asset'[q] = asset[q]
BY ErrorRowIs DEF RecordPathError, AssetOK, ErrorRow

----------------------------------------------------------------------------
(***************************************************************************)
(* Which steps write what.                                                 *)
(***************************************************************************)

Beside == UNCHANGED <<emb, snap, imports>>

EditStep == \E p \in Paths, c \in Goods \cup {Bad, Gone} : EditFile(p, c) /\ Beside

WriteStep ==
  \/ FlushBatch \/ WriterStep
  \/ \E i \in emb.items : SingleOk(i)

AssetStep ==
  \/ \E p \in Paths : (VisitGone(p) \/ VisitFast(p)) /\ Beside
  \/ \E r \in scan.results : TakeResult(r) /\ Beside
  \/ (FlushLast \/ MarkMissingStale) /\ Beside
  \/ \E p \in emb.errors : RecordPrepareError(p)
  \/ \E i \in emb.items : SingleFails(i)

VecStep ==
  \/ \E p \in Paths : DropFeatures(p) /\ Beside
  \/ \E k \in Kinds : ReuseVectors(k)

ImportStep == \E p \in Paths, k \in Kinds, c \in Goods : ImportEmbedding(p, k, c)

ViewStep == (Regroup /\ Beside) \/ AdvanceGeneration \/ DropOverview \/ CloseRun

BeginStep ==
  \E stage \in SUBSET {"manifest", "embeddings"}, mode \in Modes \cup {"serial"},
     limit \in Nat, kinds \in SUBSET Kinds, async \in BOOLEAN :
        BeginRun(stage, mode, limit, kinds, async)

\* A build comes to an end, orderly or not.
StopStep == EndRun \/ Unwound \/ Killed

\* Steps of the embedding stage that only move what it has in hand.
HandStep ==
  \/ QueryBacklog \/ Submit \/ EnqueueBatch \/ WriterDies
  \/ \E b \in emb.batches :
       JoinBatch(b) \/ PrepareDies(b) \/ \E job \in b.jobs : PrepareAsset(b, job)

\* Steps that only turn to the next part.
TurnStep ==
  /\ \/ Submitted \/ ErrorsRecorded \/ NothingToFlush \/ SinglesDone
     \/ FinishEmbedding \/ BatchFails \/ RunFails
  /\ UNCHANGED <<disk, edits, manifest, scan, emb, snap, imports>>

\* Steps of the scan that write no table.
WalkStep ==
  /\ \/ \E p \in Paths : Visit(p) \/ SkipUnreadable(p)
     \/ \E j \in scan.jobs : ReadFile(j)
     \/ WorkerDies \/ EndWalk \/ ResultsMissing
  /\ Beside

BuildSteps ==
  \/ EditStep \/ BeginStep \/ StopStep \/ HandStep \/ TurnStep \/ TakeSnapshot
  \/ WalkStep \/ AssetStep \/ WriteStep \/ VecStep \/ ImportStep \/ ViewStep

LEMMA LimitsAreNumbers ==
  ASSUME Assumptions, NEW limit \in IF run.n < MaxRuns THEN Limits[run.n + 1] ELSE {},
         RunOK
  PROVE  limit \in Nat
BY DEF Assumptions, ScanAssumption, RunOK, Runs

LEMMA StepsOfBuild ==
  ASSUME Assumptions, RunOK, BuildNext
  PROVE  BuildSteps
<1>1. CASE \E limit \in IF run.n < MaxRuns THEN Limits[run.n + 1] ELSE {} :
             \/ \E mode \in Modes : BeginRun({"manifest"}, mode, limit, {}, FALSE)
             \/ \E kinds \in (SUBSET Kinds) \ {{}}, async \in BOOLEAN :
                  \/ BeginRun({"embeddings"}, "serial", limit, kinds, async)
                  \/ \E mode \in Modes :
                       BeginRun({"manifest", "embeddings"}, mode, limit, kinds, async)
  <2>1. PICK limit \in IF run.n < MaxRuns THEN Limits[run.n + 1] ELSE {} :
          \/ \E mode \in Modes : BeginRun({"manifest"}, mode, limit, {}, FALSE)
          \/ \E kinds \in (SUBSET Kinds) \ {{}}, async \in BOOLEAN :
               \/ BeginRun({"embeddings"}, "serial", limit, kinds, async)
               \/ \E mode \in Modes :
                    BeginRun({"manifest", "embeddings"}, mode, limit, kinds, async)
    BY <1>1
  <2>2. limit \in Nat
    BY <2>1, LimitsAreNumbers
  <2>3. CASE \E mode \in Modes : BeginRun({"manifest"}, mode, limit, {}, FALSE)
    BY <2>2, <2>3 DEF BeginStep, BuildSteps
  <2>4. CASE \E kinds \in (SUBSET Kinds) \ {{}}, async \in BOOLEAN :
               \/ BeginRun({"embeddings"}, "serial", limit, kinds, async)
               \/ \E mode \in Modes :
                    BeginRun({"manifest", "embeddings"}, mode, limit, kinds, async)
    <3>1. PICK kinds \in SUBSET Kinds, async \in BOOLEAN :
               \/ BeginRun({"embeddings"}, "serial", limit, kinds, async)
               \/ \E mode \in Modes :
                    BeginRun({"manifest", "embeddings"}, mode, limit, kinds, async)
      BY <2>4
    <3>2. {"embeddings"} \in SUBSET {"manifest", "embeddings"}
            /\ {"manifest", "embeddings"} \in SUBSET {"manifest", "embeddings"}
      OBVIOUS
    <3>3. BeginStep
      BY <2>2, <3>1, <3>2 DEF BeginStep
    <3> QED BY <3>3 DEF BuildSteps
  <2> QED BY <2>1, <2>3, <2>4
<1>2. CASE ScanStep /\ Beside
  <2>1. ASSUME NEW p \in Paths, VisitGone(p) \/ Visit(p) \/ VisitFast(p) \/ SkipUnreadable(p)
                                  \/ DropFeatures(p)
        PROVE  BuildSteps
    BY <1>2, <2>1 DEF BuildSteps, AssetStep, VecStep, WalkStep
  <2>2. ASSUME NEW j \in scan.jobs, ReadFile(j) PROVE BuildSteps
    BY <1>2, <2>2 DEF BuildSteps, WalkStep
  <2>3. ASSUME NEW r \in scan.results, TakeResult(r) PROVE BuildSteps
    BY <1>2, <2>3 DEF BuildSteps, AssetStep
  <2>4. CASE WorkerDies \/ EndWalk \/ FlushLast \/ ResultsMissing \/ MarkMissingStale \/ Regroup
    BY <1>2, <2>4 DEF BuildSteps, WalkStep, AssetStep, ViewStep
  <2> QED BY <1>2, <2>1, <2>2, <2>3, <2>4 DEF ScanStep
<1>3. CASE BuildStep /\ ~(ScanStep /\ Beside)
  <2>1. CASE \/ AdvanceGeneration \/ DropOverview \/ QueryBacklog \/ Submit
             \/ \E k \in Kinds : ReuseVectors(k)
    BY <2>1 DEF BuildSteps, ViewStep, HandStep, VecStep
  <2>2. ASSUME NEW b \in emb.batches,
               JoinBatch(b) \/ \E job \in b.jobs : PrepareAsset(b, job)
        PROVE  BuildSteps
    BY <2>2 DEF BuildSteps, HandStep
  <2>3. CASE \E p \in emb.errors : RecordPrepareError(p)
    BY <2>3 DEF BuildSteps, AssetStep
  <2>4. CASE Submitted \/ ErrorsRecorded \/ NothingToFlush \/ SinglesDone \/ FinishEmbedding
    BY <2>4 DEF BuildSteps, TurnStep, Submitted, ErrorsRecorded, NothingToFlush, SinglesDone,
                FinishEmbedding
  <2>5. CASE FlushBatch \/ EnqueueBatch \/ WriterStep \/ CloseRun \/ EndRun \/ Unwound
    BY <2>5 DEF BuildSteps, WriteStep, HandStep, ViewStep, StopStep
  <2>6. CASE \E i \in emb.items : SingleOk(i) \/ SingleFails(i)
    BY <2>6 DEF BuildSteps, AssetStep, WriteStep
  <2> QED BY <1>3, <2>1, <2>2, <2>3, <2>4, <2>5, <2>6 DEF BuildStep, Beside
<1>4. CASE Interference
  <2>1. CASE \E p \in Paths, c \in Goods \cup {Bad, Gone} :
               EditFile(p, c) /\ UNCHANGED <<emb, snap, imports>>
    BY <2>1 DEF BuildSteps, EditStep, Beside
  <2>2. ASSUME NEW b \in emb.batches, PrepareDies(b) PROVE BuildSteps
    BY <2>2 DEF BuildSteps, HandStep
  <2>3. CASE BatchFails \/ RunFails
    BY <2>3 DEF BuildSteps, TurnStep, BatchFails, RunFails
  <2>4. CASE WriterDies \/ Killed \/ TakeSnapshot
    BY <2>4 DEF BuildSteps, HandStep, StopStep
  <2>5. CASE \E p \in Paths, k \in Kinds, c \in Goods : ImportEmbedding(p, k, c)
    BY <2>5 DEF BuildSteps, ImportStep
  <2> QED BY <1>4, <2>1, <2>2, <2>3, <2>4, <2>5 DEF Interference
<1> QED BY <1>1, <1>2, <1>3, <1>4 DEF BuildNext

\* One transaction of the embedding stage.
LEMMA BatchWriteIs ==
  ASSUME Assumptions, AssetOK, VecOK, EmbOK, NEW items \in SUBSET EmbedItems, WriteBatch(items)
  PROVE  /\ AssetOK' /\ VecOK'
         /\ \A p \in Paths :
              \/ /\ \A i \in FilledRows(items) : i.path # p
                 /\ asset'[p] = asset[p]
              \/ \E i \in FilledRows(items) :
                   /\ i.path = p
                   /\ asset'[p] = [stamp |-> i.stamp, sha |-> i.sha, error |-> FALSE,
                                   stale |-> FALSE]
         /\ FilledRows(items) = {} => asset' = asset
         /\ \A p \in Paths, k \in Kinds :
              IF (\E i \in items : i.path = p) /\ k \in emb.kinds
                THEN vec'[p][k] # NoRow ELSE vec'[p][k] = vec[p][k]
<1> DEFINE Rewrites == {[path |-> i.path, stamp |-> i.stamp, content |-> i.sha] : i \in FilledRows(items)}
           new == VectorsOf(items)
<1>1. asset' = Written(Rewrites) /\ vec' = Upserted(vec, new)
  BY DEF WriteBatch
<1>2. Rewrites \in SUBSET PendingItems
  BY DEF FilledRows, EmbedItems, PendingItems
<1>3. AssetOK'
  BY <1>1, <1>2, WrittenIs DEF AssetOK
<1>4. ASSUME NEW p \in Paths
      PROVE  \/ /\ \A i \in FilledRows(items) : i.path # p
                /\ asset'[p] = asset[p]
             \/ \E i \in FilledRows(items) :
                  /\ i.path = p
                  /\ asset'[p] = [stamp |-> i.stamp, sha |-> i.sha, error |-> FALSE, stale |-> FALSE]
  <2>1. \/ (\A r \in Rewrites : r.path # p) /\ Written(Rewrites)[p] = asset[p]
        \/ \E r \in Rewrites : /\ r.path = p
                               /\ Written(Rewrites)[p] = [stamp |-> r.stamp, sha |-> r.content,
                                                          error |-> FALSE, stale |-> FALSE]
    <3> HIDE DEF Rewrites
    <3> QED BY <1>2, WrittenIs
  <2>2. CASE \A r \in Rewrites : r.path # p
    <3>1. \A i \in FilledRows(items) :
            [path |-> i.path, stamp |-> i.stamp, content |-> i.sha] \in Rewrites
      OBVIOUS
    <3>2. \A i \in FilledRows(items) : i.path # p
      <4> HIDE DEF Rewrites
      <4> QED BY <2>2, <3>1
    <3>3. asset'[p] = asset[p]
      <4> HIDE DEF Rewrites
      <4> QED BY <1>1, <2>1, <2>2
    <3> QED BY <3>2, <3>3
  <2>3. ASSUME NEW r \in Rewrites, r.path = p,
               Written(Rewrites)[p] = [stamp |-> r.stamp, sha |-> r.content,
                                       error |-> FALSE, stale |-> FALSE]
        PROVE  \E i \in FilledRows(items) :
                  /\ i.path = p
                  /\ asset'[p] = [stamp |-> i.stamp, sha |-> i.sha, error |-> FALSE, stale |-> FALSE]
    <3>1. PICK i \in FilledRows(items) : r = [path |-> i.path, stamp |-> i.stamp, content |-> i.sha]
      BY <2>3
    <3>2. r.path = i.path /\ r.stamp = i.stamp /\ r.content = i.sha
      BY <3>1
    <3> HIDE DEF Rewrites
    <3>3. asset'[p] = [stamp |-> i.stamp, sha |-> i.sha, error |-> FALSE, stale |-> FALSE]
      BY <1>1, <2>3, <3>2
    <3> QED BY <2>3, <3>2, <3>3
  <2> HIDE DEF Rewrites
  <2> QED BY <2>1, <2>2, <2>3
<1>5. FilledRows(items) = {} => asset' = asset
  <2>1. FilledRows(items) = {} => Rewrites = {}
    OBVIOUS
  <2> HIDE DEF Rewrites
  <2> QED BY <1>1, <1>2, <2>1, WrittenIs
<1>6. new \in SUBSET (Paths \X Kinds \X Goods)
  BY DEF VectorsOf, EmbedItems, EmbOK, EmbedStages
<1>7. VecOK'
  <2> HIDE DEF new
  <2> QED BY <1>1, <1>6, UpsertedIs DEF VecOK, Assumptions
<1>8. ASSUME NEW p \in Paths, NEW k \in Kinds
      PROVE  IF (\E i \in items : i.path = p) /\ k \in emb.kinds
               THEN vec'[p][k] # NoRow ELSE vec'[p][k] = vec[p][k]
  <2>1. IF \E t \in new : t[1] = p /\ t[2] = k
          THEN Upserted(vec, new)[p][k] # NoRow ELSE Upserted(vec, new)[p][k] = vec[p][k]
    <3> HIDE DEF new
    <3> QED BY <1>6, UpsertedIs DEF VecOK, Assumptions
  <2>2. (\E t \in new : t[1] = p /\ t[2] = k) <=> (\E i \in items : i.path = p) /\ k \in emb.kinds
    <3>1. ASSUME NEW t \in new, t[1] = p, t[2] = k
          PROVE  (\E i \in items : i.path = p) /\ k \in emb.kinds
      <4>1. PICK i \in items, l \in emb.kinds : t = <<i.path, l, i.content>>
        BY DEF VectorsOf
      <4> QED BY <3>1, <4>1
    <3>2. ASSUME NEW i \in items, i.path = p, k \in emb.kinds
          PROVE  \E t \in new : t[1] = p /\ t[2] = k
      <4>1. <<i.path, k, i.content>> \in new
        BY <3>2 DEF VectorsOf
      <4>2. <<i.path, k, i.content>>[1] = p /\ <<i.path, k, i.content>>[2] = k
        BY <3>2
      <4> HIDE DEF new
      <4> QED BY <4>1, <4>2
    <3> HIDE DEF new
    <3> QED BY <3>1, <3>2
  <2> HIDE DEF new
  <2> QED BY <1>1, <2>1, <2>2
<1> QED BY <1>3, <1>4, <1>5, <1>7, <1>8

\* A stage that failed an item keeps the row's hashes or stores the item's.
LEMMA ItemErrorIs ==
  ASSUME Assumptions, TypeInv, NEW i \in emb.items, SingleFails(i), asset[i.path] # NoRow
  PROVE  /\ AssetOK' /\ i.path \in Paths
         /\ asset'[i.path] \in Rows /\ asset'[i.path].error /\ ~asset'[i.path].stale
         /\ IF i.reuse
              THEN /\ asset'[i.path].sha = asset[i.path].sha
                   /\ asset'[i.path].stamp = asset[i.path].stamp
              ELSE asset'[i.path].sha = i.sha /\ asset'[i.path].stamp = i.stamp
         /\ \A q \in Paths \ {i.path} : asset'[q] = asset[q]
<1>1. i \in EmbedItems
  BY DEF TypeInv, EmbOK, EmbedStages
<1>2. i.path \in Paths /\ i.sha \in Goods /\ i.stamp \in Stamps
  BY <1>1 DEF EmbedItems
<1>3. asset[i.path] \in Rows
  BY <1>2 DEF TypeInv, AssetOK
<1>4. ItemErrorRow(i) \in Rows /\ ItemErrorRow(i).error /\ ~ItemErrorRow(i).stale
        /\ IF i.reuse THEN /\ ItemErrorRow(i).sha = asset[i.path].sha
                           /\ ItemErrorRow(i).stamp = asset[i.path].stamp
           ELSE ItemErrorRow(i).sha = i.sha /\ ItemErrorRow(i).stamp = i.stamp
  BY <1>2, <1>3 DEF ItemErrorRow, Rows
<1>5. asset' = [asset EXCEPT ![i.path] = ItemErrorRow(i)]
  BY DEF SingleFails
<1>6. asset'[i.path] = ItemErrorRow(i)
  BY <1>2, <1>5 DEF TypeInv, AssetOK
<1> QED BY <1>2, <1>4, <1>5, <1>6 DEF TypeInv, AssetOK

\* The embedding stage never meets a path without an active row: everything it
\* has in hand comes from the rows of a query, and only scans mark rows stale.
Queued(p)  == \E n \in DOMAIN emb.queue : \E x \in emb.queue[n] : x.path = p
InBatch(b, p) ==
  (\E x \in b.jobs : x.path = p) \/ (\E x \in b.items : x.path = p) \/ p \in b.errors
Upstream(p) ==
  \/ \E x \in emb.backlog : x.path = p
  \/ \E b \in emb.batches : InBatch(b, p)
  \/ \E x \in emb.items : x.path = p
  \/ p \in emb.errors

HandActive == \A p \in Paths : Queued(p) \/ Upstream(p) => p \in Active

\* While a scan is under way, nothing is in hand.
ScanAlone ==
  run.pc \in ScanPcs =>
    /\ emb.backlog = {} /\ emb.batches = {} /\ emb.items = {} /\ emb.errors = {}
    /\ emb.queue = <<>>

HandInv ==
  /\ HandActive /\ ScanAlone
  /\ scan.erring = {} \/ \E p \in Paths : scan.erring = {p}

\* What the three transactions have in common.
LEMMA WriteStepIs ==
  ASSUME Assumptions, TypeInv, WriteStep
  PROVE  \E items \in SUBSET EmbedItems, pc \in RunPcs :
            /\ WriteBatch(items)
            /\ run' = [run EXCEPT !.pc = pc, !.filled = @ \/ FilledRows(items) # {}]
            /\ pc \notin ScanPcs \/ pc = run.pc
            /\ UNCHANGED <<disk, edits, groups, gen, ovw, scan, snap, imports>>
            /\ \A i \in items : i \in emb.items \/ (emb.queue # <<>> /\ i \in Head(emb.queue))
<1>0. emb \in EmbedStages /\ run \in Runs
  BY DEF TypeInv, EmbOK, RunOK
<1>1. CASE FlushBatch
  <2>1. NextBatch \in RunPcs /\ NextBatch \notin ScanPcs
    BY DEF NextBatch, RunPcs, ScanPcs, EmbedPcs
  <2>2. emb.items \in SUBSET EmbedItems
    BY <1>0 DEF EmbedStages
  <2> QED BY <1>1, <2>1, <2>2 DEF FlushBatch
<1>2. CASE WriterStep
  <2>1. Head(emb.queue) \in SUBSET EmbedItems
    BY <1>0, <1>2 DEF WriterStep, EmbedStages
  <2>2. run' = [run EXCEPT !.pc = run.pc, !.filled = @ \/ FilledRows(Head(emb.queue)) # {}]
    BY <1>0, <1>2 DEF WriterStep, Runs
  <2>3. run.pc \in RunPcs
    BY <1>0 DEF Runs
  <2> QED BY <1>2, <2>1, <2>2, <2>3 DEF WriterStep
<1>3. ASSUME NEW i \in emb.items, SingleOk(i)
      PROVE  \E items \in SUBSET EmbedItems, pc \in RunPcs :
            /\ WriteBatch(items)
            /\ run' = [run EXCEPT !.pc = pc, !.filled = @ \/ FilledRows(items) # {}]
            /\ pc \notin ScanPcs \/ pc = run.pc
            /\ UNCHANGED <<disk, edits, groups, gen, ovw, scan, snap, imports>>
            /\ \A x \in items : x \in emb.items \/ (emb.queue # <<>> /\ x \in Head(emb.queue))
  <2>1. {i} \in SUBSET EmbedItems
    BY <1>0 DEF EmbedStages
  <2>2. (FilledRows({i}) # {}) <=> ~i.reuse
    BY DEF FilledRows
  <2>3. run' = [run EXCEPT !.pc = run.pc, !.filled = @ \/ FilledRows({i}) # {}]
    BY <1>0, <1>3, <2>2 DEF SingleOk, Runs
  <2>4. run.pc \in RunPcs
    BY <1>0 DEF Runs
  <2>5. /\ WriteBatch({i})
        /\ UNCHANGED <<disk, edits, groups, gen, ovw, scan, snap, imports>>
    BY <1>3 DEF SingleOk
  <2>6. \A x \in {i} : x \in emb.items \/ (emb.queue # <<>> /\ x \in Head(emb.queue))
    OBVIOUS
  <2> WITNESS {i} \in SUBSET EmbedItems, run.pc \in RunPcs
  <2> QED BY <2>3, <2>5, <2>6
<1> QED BY <1>1, <1>2, <1>3 DEF WriteStep

LEMMA RunTyped ==
  ASSUME Assumptions, TypeInv, HandInv, BuildSteps
  PROVE  RunOK'
<1>1. CASE EditStep
  <2>1. ASSUME NEW p \in Paths, NEW c \in Goods \cup {Bad, Gone}, EditFile(p, c),
               Beside
        PROVE  RunOK'
    BY <2>1 DEF Assumptions, TypeInv, RunOK, Runs, RunPcs, ScanPcs, EmbedPcs, EditFile,
       Go, Flush
  <2> QED BY <1>1, <2>1 DEF EditStep
<1>2. CASE BeginStep
  <2>1. ASSUME NEW stage \in SUBSET {"manifest", "embeddings"},
               NEW mode \in Modes \cup {"serial"}, NEW limit \in Nat,
               NEW kinds \in SUBSET Kinds, NEW async \in BOOLEAN,
               BeginRun(stage, mode, limit, kinds, async)
        PROVE  RunOK'
    <3>1. PICK force \in IF "manifest" \in stage THEN Forces[run.n + 1] ELSE {FALSE} :
            run' = [NoRun EXCEPT !.n = run.n + 1, !.stage = stage, !.mode = mode,
                           !.limit = limit, !.force = force, !.calm = TRUE, !.cut = run.cut,
                           !.filled = run.filled,
                           !.pc = IF "manifest" \in stage THEN "scan" ELSE "advance"]
      BY <2>1 DEF BeginRun
    <3>2. mode \in {"serial", "parallel", "fast"} /\ run.cut \in BOOLEAN /\ run.filled \in BOOLEAN
            /\ run.n + 1 \in Nat /\ force \in BOOLEAN
      <4>1. run.n + 1 \in Nat /\ run.n + 1 \in 1 .. MaxRuns
        BY <2>1 DEF Assumptions, ScanAssumption, TypeInv, RunOK, Runs, BeginRun
      <4>2. force \in BOOLEAN
        BY <3>1, <4>1 DEF Assumptions, ScanAssumption
      <4> QED BY <4>1, <4>2 DEF Assumptions, ScanAssumption, TypeInv, RunOK, Runs
    <3>3. run' = [pc |-> IF "manifest" \in stage THEN "scan" ELSE "advance", n |-> run.n + 1,
                  stage |-> stage, mode |-> mode, limit |-> limit, force |-> force,
                  touched |-> FALSE, calm |-> TRUE, done |-> FALSE, cut |-> run.cut, filled |-> run.filled]
      BY <3>1 DEF NoRun
    <3> QED BY <3>2, <3>3 DEF RunOK, Runs, RunPcs, ScanPcs, EmbedPcs
  <2> QED BY <1>2, <2>1 DEF BeginStep
<1>3. CASE StopStep
  <2>1. CASE EndRun
    BY <2>1 DEF Assumptions, TypeInv, RunOK, Runs, RunPcs, ScanPcs, EmbedPcs, EndRun, Go,
       Flush
  <2>2. CASE Unwound
    BY <2>2 DEF Assumptions, TypeInv, RunOK, Runs, RunPcs, ScanPcs, EmbedPcs, Unwound, Go,
       Flush, Unwound, NoRun
  <2>3. CASE Killed
    BY <2>3 DEF Assumptions, TypeInv, RunOK, Runs, RunPcs, ScanPcs, EmbedPcs, Killed, Go,
       Flush, Killed, NoRun
  <2> QED BY <1>3, <2>1, <2>2, <2>3 DEF StopStep
<1>4. CASE HandStep
  <2>1. CASE QueryBacklog
    BY <2>1 DEF Assumptions, TypeInv, RunOK, Runs, RunPcs, ScanPcs, EmbedPcs,
       QueryBacklog, Go, Flush
  <2>2. CASE Submit
    BY <2>2 DEF Assumptions, TypeInv, RunOK, Runs, RunPcs, ScanPcs, EmbedPcs, Submit, Go,
       Flush
  <2>3. CASE EnqueueBatch
    BY <2>3, SMTT(20) DEF Assumptions, TypeInv, RunOK, Runs, RunPcs, ScanPcs, EmbedPcs,
       EnqueueBatch, Go, Flush, EnqueueBatch, NextBatch
  <2>4. CASE WriterDies
    BY <2>4 DEF Assumptions, TypeInv, RunOK, Runs, RunPcs, ScanPcs, EmbedPcs, WriterDies,
       Go, Flush
  <2>5. ASSUME NEW b \in emb.batches, JoinBatch(b)
        PROVE  RunOK'
    <3>1. CASE b.lost
      BY <2>5, <3>1 DEF JoinBatch, Go, TypeInv, RunOK, Runs, RunPcs, ScanPcs, EmbedPcs
    <3>2. CASE ~b.lost
      <4>1. run' = [run EXCEPT !.pc = "errors", !.touched = @ \/ b.errors # {}]
        BY <2>5, <3>2 DEF JoinBatch
      <4>2. (run.touched \/ b.errors # {}) \in BOOLEAN
        OBVIOUS
      <4> QED BY <4>1, <4>2 DEF TypeInv, RunOK, Runs, RunPcs, ScanPcs, EmbedPcs
    <3> QED BY <3>1, <3>2
  <2>6. ASSUME NEW b \in emb.batches, PrepareDies(b)
        PROVE  RunOK'
    BY <2>6 DEF Assumptions, TypeInv, RunOK, Runs, RunPcs, ScanPcs, EmbedPcs, PrepareDies,
       Go, Flush
  <2>7. ASSUME NEW b \in emb.batches, NEW job \in b.jobs, PrepareAsset(b, job)
        PROVE  RunOK'
    BY <2>7 DEF Assumptions, TypeInv, RunOK, Runs, RunPcs, ScanPcs, EmbedPcs,
       PrepareAsset, Go, Flush
  <2> QED BY <1>4, <2>1, <2>2, <2>3, <2>4, <2>5, <2>6, <2>7 DEF HandStep
<1>5. CASE TurnStep
  <2>1. CASE TurnStep
    BY <2>1 DEF Assumptions, TypeInv, RunOK, Runs, RunPcs, ScanPcs, EmbedPcs, TurnStep,
       Go, Flush, Submitted, ErrorsRecorded, NothingToFlush, SinglesDone, FinishEmbedding,
       BatchFails, RunFails, NextBatch
  <2> QED BY <1>5, <2>1 DEF TurnStep
<1>6. CASE TakeSnapshot
  <2>1. CASE TakeSnapshot
    BY <2>1 DEF Assumptions, TypeInv, RunOK, Runs, RunPcs, ScanPcs, EmbedPcs,
       TakeSnapshot, Go, Flush
  <2> QED BY <1>6, <2>1 DEF TakeSnapshot
<1>7. CASE WalkStep
  <2>1. ASSUME NEW p \in Paths, Visit(p), Beside
        PROVE  RunOK'
    BY <2>1 DEF Assumptions, TypeInv, RunOK, Runs, RunPcs, ScanPcs, EmbedPcs, Visit, Go,
       Flush
  <2>2. ASSUME NEW j \in scan.jobs, ReadFile(j), Beside
        PROVE  RunOK'
    BY <2>2 DEF Assumptions, TypeInv, RunOK, Runs, RunPcs, ScanPcs, EmbedPcs, ReadFile,
       Go, Flush
  <2>3. ASSUME WorkerDies, Beside
        PROVE  RunOK'
    BY <2>3 DEF Assumptions, TypeInv, RunOK, Runs, RunPcs, ScanPcs, EmbedPcs, WorkerDies,
       Go, Flush
  <2>4. ASSUME EndWalk, Beside
        PROVE  RunOK'
    BY <2>4 DEF Assumptions, TypeInv, RunOK, Runs, RunPcs, ScanPcs, EmbedPcs, EndWalk, Go,
       Flush
  <2>5. ASSUME ResultsMissing, Beside
        PROVE  RunOK'
    BY <2>5 DEF Assumptions, TypeInv, RunOK, Runs, RunPcs, ScanPcs, EmbedPcs,
       ResultsMissing, Go, Flush
  <2>6. ASSUME NEW p \in Paths, SkipUnreadable(p), Beside
        PROVE  RunOK'
    BY <2>6 DEF Assumptions, TypeInv, RunOK, Runs, RunPcs, ScanPcs, EmbedPcs, SkipUnreadable, Go,
       Flush
  <2> QED BY <1>7, <2>1, <2>2, <2>3, <2>4, <2>5, <2>6 DEF WalkStep
<1>8. CASE AssetStep
  <2>1. ASSUME NEW p \in Paths, VisitGone(p), Beside
        PROVE  RunOK'
    BY <2>1 DEF Assumptions, TypeInv, RunOK, Runs, RunPcs, ScanPcs, EmbedPcs, VisitGone,
       Go, Flush
  <2>2. ASSUME NEW p \in Paths, VisitFast(p), Beside
        PROVE  RunOK'
    BY <2>2 DEF Assumptions, TypeInv, RunOK, Runs, RunPcs, ScanPcs, EmbedPcs, VisitFast,
       Go, Flush
  <2>3. ASSUME NEW r \in scan.results, TakeResult(r), Beside
        PROVE  RunOK'
    <3>1. \E b \in BOOLEAN : run' = [run EXCEPT !.touched = b]
      <4>1. CASE r.content \in Goods
        <5>1. PICK items : Flush(items)
          BY <2>3, <4>1 DEF TakeResult
        <5>2. (run.touched \/ items # {}) \in BOOLEAN
          OBVIOUS
        <5> QED BY <5>1, <5>2 DEF Flush
      <4>2. CASE r.content \notin Goods
        BY <2>3, <4>2 DEF TakeResult
      <4> QED BY <4>1, <4>2
    <3> QED BY <3>1 DEF TypeInv, RunOK, Runs
  <2>4. ASSUME FlushLast, Beside
        PROVE  RunOK'
    BY <2>4 DEF Assumptions, TypeInv, RunOK, Runs, RunPcs, ScanPcs, EmbedPcs, FlushLast,
       Go, Flush
  <2>5. ASSUME MarkMissingStale, Beside
        PROVE  RunOK'
    BY <2>5 DEF Assumptions, TypeInv, RunOK, Runs, RunPcs, ScanPcs, EmbedPcs,
       MarkMissingStale, Go, Flush
  <2>6. ASSUME NEW p \in emb.errors, RecordPrepareError(p)
        PROVE  RunOK'
    BY <2>6 DEF Assumptions, TypeInv, RunOK, Runs, RunPcs, ScanPcs, EmbedPcs,
       RecordPrepareError, Go, Flush
  <2>7. ASSUME NEW i \in emb.items, SingleFails(i)
        PROVE  RunOK'
    BY <2>7 DEF Assumptions, TypeInv, RunOK, Runs, RunPcs, ScanPcs, EmbedPcs, SingleFails,
       Go, Flush
  <2> QED BY <1>8, <2>1, <2>2, <2>3, <2>4, <2>5, <2>6, <2>7 DEF AssetStep
<1>9. CASE WriteStep
  <2>1. PICK items \in SUBSET EmbedItems, pc \in RunPcs :
          run' = [run EXCEPT !.pc = pc, !.filled = @ \/ FilledRows(items) # {}]
    BY <1>9, WriteStepIs
  <2>2. (run.filled \/ FilledRows(items) # {}) \in BOOLEAN
    OBVIOUS
  <2> QED BY <2>1, <2>2 DEF TypeInv, RunOK, Runs
<1>10. CASE VecStep
  <2>1. ASSUME NEW p \in Paths, DropFeatures(p), Beside
        PROVE  RunOK'
    BY <2>1 DEF Assumptions, TypeInv, RunOK, Runs, RunPcs, ScanPcs, EmbedPcs,
       DropFeatures, Go, Flush
  <2>2. ASSUME NEW k \in Kinds, ReuseVectors(k)
        PROVE  RunOK'
    BY <2>2 DEF Assumptions, TypeInv, RunOK, Runs, RunPcs, ScanPcs, EmbedPcs,
       ReuseVectors, Go, Flush
  <2> QED BY <1>10, <2>1, <2>2 DEF VecStep
<1>11. CASE ImportStep
  <2>1. ASSUME NEW p \in Paths, NEW k \in Kinds, NEW c \in Goods,
               ImportEmbedding(p, k, c)
        PROVE  RunOK'
    BY <2>1 DEF Assumptions, TypeInv, RunOK, Runs, RunPcs, ScanPcs, EmbedPcs,
       ImportEmbedding, Go, Flush
  <2> QED BY <1>11, <2>1 DEF ImportStep
<1>12. CASE ViewStep
  <2>1. ASSUME Regroup, Beside
        PROVE  RunOK'
    <3>1. AfterManifest \in RunPcs
      BY DEF AfterManifest, RunPcs, ScanPcs, EmbedPcs
    <3>2. \/ run' = [run EXCEPT !.pc = AfterManifest, !.cut = FALSE, !.filled = FALSE]
          \/ run' = [run EXCEPT !.pc = AfterManifest]
      BY <2>1 DEF Regroup
    <3> QED BY <3>1, <3>2 DEF TypeInv, RunOK, Runs
  <2>2. CASE AdvanceGeneration
    BY <2>2 DEF Assumptions, TypeInv, RunOK, Runs, RunPcs, ScanPcs, EmbedPcs,
       AdvanceGeneration, Go, Flush
  <2>3. CASE DropOverview
    BY <2>3 DEF Assumptions, TypeInv, RunOK, Runs, RunPcs, ScanPcs, EmbedPcs,
       DropOverview, Go, Flush
  <2>4. CASE CloseRun
    BY <2>4 DEF Assumptions, TypeInv, RunOK, Runs, RunPcs, ScanPcs, EmbedPcs, CloseRun,
       Go, Flush
  <2> QED BY <1>12, <2>1, <2>2, <2>3, <2>4 DEF ViewStep
<1> QED BY <1>1, <1>2, <1>3, <1>4, <1>5, <1>6, <1>7, <1>8, <1>9, <1>10, <1>11, <1>12 DEF BuildSteps

LEMMA ScanTyped ==
  ASSUME Assumptions, TypeInv, HandInv, BuildSteps
  PROVE  ScanOK'
<1>1. CASE EditStep
  <2>1. ASSUME NEW p \in Paths, NEW c \in Goods \cup {Bad, Gone}, EditFile(p, c),
               Beside
        PROVE  ScanOK'
    BY <2>1 DEF TypeInv, ScanOK, ScanStages, EditFile
  <2> QED BY <1>1, <2>1 DEF EditStep
<1>2. CASE BeginStep
  <2>1. ASSUME NEW stage \in SUBSET {"manifest", "embeddings"},
               NEW mode \in Modes \cup {"serial"}, NEW limit \in Nat,
               NEW kinds \in SUBSET Kinds, NEW async \in BOOLEAN,
               BeginRun(stage, mode, limit, kinds, async)
        PROVE  ScanOK'
    <3>1. Present \in SUBSET Paths
      BY DEF Present
    <3>2. \E from \in SUBSET Paths :
             scan' = [listed |-> from, must |-> from, unread |-> {}, seen |-> {}, jobs |-> {}, results |-> {},
                      pending |-> {}, erring |-> {}, hit |-> FALSE, lost |-> FALSE]
      <4>1. CASE "manifest" \in stage
        BY <2>1, <3>1, <4>1 DEF BeginRun, NoScan
      <4>2. CASE "manifest" \notin stage
        BY <2>1, <4>2 DEF BeginRun, NoScan
      <4> QED BY <4>1, <4>2
    <3> QED BY <3>2 DEF ScanOK, ScanStages
  <2> QED BY <1>2, <2>1 DEF BeginStep
<1>3. CASE StopStep
  <2>1. CASE EndRun
    BY <2>1 DEF TypeInv, ScanOK, ScanStages, EndRun, NoScan
  <2>2. CASE Unwound
    BY <2>2 DEF TypeInv, ScanOK, ScanStages, Unwound, NoScan
  <2>3. CASE Killed
    BY <2>3 DEF TypeInv, ScanOK, ScanStages, Killed, NoScan
  <2> QED BY <1>3, <2>1, <2>2, <2>3 DEF StopStep
<1>4. CASE HandStep
  BY <1>4 DEF TypeInv, ScanOK, HandStep, QueryBacklog, Submit, EnqueueBatch, WriterDies,
     JoinBatch, PrepareDies, PrepareAsset
<1>5. CASE TurnStep
  BY <1>5 DEF TypeInv, ScanOK, TurnStep, Beside
<1>6. CASE TakeSnapshot
  BY <1>6 DEF TypeInv, ScanOK, TakeSnapshot
<1>7. CASE WalkStep
  <2>1. ASSUME NEW p \in Paths, Visit(p), Beside
        PROVE  ScanOK'
    <3> DEFINE more == IF Unchanged(p) THEN {} ELSE {[path |-> p, stamp |-> disk[p].stamp]}
    <3>1. more \in SUBSET ScanJobs
      BY DEF TypeInv, DiskOK, Files, ScanJobs
    <3>2. scan' = [scan EXCEPT !.seen = @ \cup {p}, !.jobs = @ \cup more]
      BY <2>1 DEF Visit
    <3> HIDE DEF more
    <3> QED BY <3>1, <3>2 DEF TypeInv, ScanOK, ScanStages
  <2>2. ASSUME NEW j \in scan.jobs, ReadFile(j), Beside
        PROVE  ScanOK'
    <3> DEFINE result == [path |-> j.path, stamp |-> j.stamp, content |-> disk[j.path].content]
    <3>1. result \in Results
      BY DEF TypeInv, ScanOK, ScanStages, ScanJobs, DiskOK, Files, Results
    <3>2. scan' = [scan EXCEPT !.jobs = @ \ {j}, !.results = @ \cup {result}]
      BY <2>2 DEF ReadFile
    <3> HIDE DEF result
    <3> QED BY <3>1, <3>2 DEF TypeInv, ScanOK, ScanStages
  <2>3. ASSUME WorkerDies, Beside
        PROVE  ScanOK'
    <3>1. PICK lost \in SUBSET scan.jobs : scan' = [scan EXCEPT !.jobs = @ \ lost, !.lost = TRUE]
      BY <2>3 DEF WorkerDies
    <3> QED BY <3>1 DEF TypeInv, ScanOK, ScanStages
  <2>4. ASSUME EndWalk, Beside
        PROVE  ScanOK'
    <3>1. scan' = scan \/ \E hit \in BOOLEAN : scan' = [scan EXCEPT !.hit = hit]
      BY <2>4 DEF EndWalk, LimitHit, MoreImages
    <3> QED BY <3>1 DEF TypeInv, ScanOK, ScanStages
  <2>5. ASSUME ResultsMissing, Beside
        PROVE  ScanOK'
    BY <2>5 DEF TypeInv, ScanOK, ScanStages, ResultsMissing
  <2>6. ASSUME NEW p \in Paths, SkipUnreadable(p), Beside
        PROVE  ScanOK'
    BY <2>6 DEF TypeInv, ScanOK, ScanStages, SkipUnreadable
  <2> QED BY <1>7, <2>1, <2>2, <2>3, <2>4, <2>5, <2>6 DEF WalkStep
<1>8. CASE AssetStep
  <2>1. ASSUME NEW p \in Paths, VisitGone(p), Beside
        PROVE  ScanOK'
    BY <2>1 DEF TypeInv, ScanOK, ScanStages, VisitGone
  <2>2. ASSUME NEW p \in Paths, VisitFast(p), Beside
        PROVE  ScanOK'
    <3> DEFINE item == [path |-> p, stamp |-> disk[p].stamp, content |-> Unknown]
               pending == scan.pending \cup IF FastUnchanged(p) THEN {} ELSE {item}
               full == (Cardinality(scan.seen) + 1) % BatchSize = 0
    <3>1. pending \in SUBSET PendingItems
      BY DEF TypeInv, ScanOK, ScanStages, DiskOK, Files, PendingItems
    <3>2. scan' = [scan EXCEPT !.seen = @ \cup {p}, !.pending = IF full THEN {} ELSE pending]
      BY <2>2 DEF VisitFast
    <3> HIDE DEF pending, full
    <3>3. (IF full THEN {} ELSE pending) \in SUBSET PendingItems
      BY <3>1
    <3> QED BY <3>2, <3>3 DEF TypeInv, ScanOK, ScanStages
  <2>3. ASSUME NEW r \in scan.results, TakeResult(r), Beside
        PROVE  ScanOK'
    <3>1. r \in Results
      BY DEF TypeInv, ScanOK, ScanStages
    <3>2. CASE r.content \in Goods
      <4>1. scan.pending \cup {r} \in SUBSET PendingItems
        BY <3>1, <3>2 DEF TypeInv, ScanOK, ScanStages, Results, PendingItems
      <4>2. \E pending \in SUBSET PendingItems :
               scan' = [scan EXCEPT !.results = @ \ {r}, !.pending = pending]
        BY <2>3, <3>2, <4>1 DEF TakeResult
      <4> QED BY <4>2 DEF TypeInv, ScanOK, ScanStages
    <3>3. CASE r.content \notin Goods
      <4>1. scan' = [scan EXCEPT !.results = @ \ {r}, !.erring = {r.path}]
        BY <2>3, <3>3 DEF TakeResult
      <4>2. r.path \in Paths
        BY <3>1 DEF Results
      <4> QED BY <4>1, <4>2 DEF TypeInv, ScanOK, ScanStages
    <3> QED BY <3>2, <3>3
  <2>4. ASSUME FlushLast, Beside
        PROVE  ScanOK'
    BY <2>4 DEF TypeInv, ScanOK, ScanStages, FlushLast
  <2>5. ASSUME MarkMissingStale, Beside
        PROVE  ScanOK'
    BY <2>5 DEF TypeInv, ScanOK, ScanStages, MarkMissingStale
  <2>6. ASSUME NEW p \in emb.errors, RecordPrepareError(p)
        PROVE  ScanOK'
    <3>1. p \in Paths
      BY DEF TypeInv, EmbOK, EmbedStages
    <3> QED BY <2>6, <3>1 DEF TypeInv, ScanOK, ScanStages, RecordPrepareError
  <2>7. ASSUME NEW i \in emb.items, SingleFails(i)
        PROVE  ScanOK'
    <3>1. i.path \in Paths
      BY DEF TypeInv, EmbOK, EmbedStages, EmbedItems
    <3> QED BY <2>7, <3>1 DEF TypeInv, ScanOK, ScanStages, SingleFails
  <2> QED BY <1>8, <2>1, <2>2, <2>3, <2>4, <2>5, <2>6, <2>7 DEF AssetStep
<1>9. CASE WriteStep
  BY <1>9 DEF TypeInv, ScanOK, WriteStep, FlushBatch, WriterStep, SingleOk, Beside
<1>10. CASE VecStep
  <2>1. ASSUME NEW p \in Paths, DropFeatures(p), Beside
        PROVE  ScanOK'
    BY <2>1 DEF TypeInv, ScanOK, ScanStages, DropFeatures
  <2>2. ASSUME NEW k \in Kinds, ReuseVectors(k)
        PROVE  ScanOK'
    BY <2>2 DEF TypeInv, ScanOK, ScanStages, ReuseVectors
  <2> QED BY <1>10, <2>1, <2>2 DEF VecStep
<1>11. CASE ImportStep
  BY <1>11 DEF TypeInv, ScanOK, ImportStep, ImportEmbedding, Beside
<1>12. CASE ViewStep
  BY <1>12 DEF TypeInv, ScanOK, ViewStep, Regroup, AdvanceGeneration, DropOverview, CloseRun
<1> QED BY <1>1, <1>2, <1>3, <1>4, <1>5, <1>6, <1>7, <1>8, <1>9, <1>10, <1>11, <1>12 DEF BuildSteps

LEMMA NothingInHand ==
  ASSUME Assumptions
  PROVE  /\ Len(<<>>) <= QueueSize
         /\ IsFiniteSet({}) /\ Cardinality({}) <= Depth
BY FS_EmptySet DEF Assumptions, BuildAssumption

LEMMA NoEmbedIs ==
  ASSUME Assumptions
  PROVE  /\ NoEmbed \in EmbedStages
         /\ Len(NoEmbed.queue) <= QueueSize
         /\ IsFiniteSet(NoEmbed.batches) /\ Cardinality(NoEmbed.batches) <= Depth
BY NothingInHand DEF NoEmbed, EmbedStages

LEMMA FewerBatches ==
  ASSUME Assumptions, EmbOK, NEW b \in emb.batches
  PROVE  /\ IsFiniteSet(emb.batches \ {b})
         /\ Cardinality(emb.batches \ {b}) + 1 <= Depth
         /\ Cardinality(emb.batches \ {b}) <= Depth
         /\ Cardinality(emb.batches \ {b}) \in Nat
<1>1. IsFiniteSet(emb.batches) /\ Cardinality(emb.batches) \in Nat
  BY FS_CardinalityType DEF EmbOK
<1>2. /\ IsFiniteSet(emb.batches \ {b})
      /\ Cardinality(emb.batches \ {b}) = Cardinality(emb.batches) - 1
  BY <1>1, FS_RemoveElement
<1>3. Cardinality(emb.batches \ {b}) \in Nat
  BY <1>2, FS_CardinalityType
<1> QED BY <1>1, <1>2, <1>3 DEF EmbOK, Assumptions, BuildAssumption

\* A batch is replaced by what became of it.
LEMMA BatchedTyped ==
  ASSUME Assumptions, TypeInv, NEW b \in emb.batches, NEW c \in Batches, Batched(b, c)
  PROVE  EmbOK'
<1>1. emb' = [emb EXCEPT !.batches = (@ \ {b}) \cup {c}]
  BY DEF Batched
<1>2. emb' \in EmbedStages /\ emb'.queue = emb.queue /\ emb'.batches = (emb.batches \ {b}) \cup {c}
  BY <1>1 DEF TypeInv, EmbOK, EmbedStages
<1>3. /\ IsFiniteSet(emb.batches \ {b})
      /\ Cardinality(emb.batches \ {b}) + 1 <= Depth
      /\ Cardinality(emb.batches \ {b}) \in Nat
  BY FewerBatches DEF TypeInv
<1> DEFINE S == emb.batches \ {b}
<1>4. IsFiniteSet(S \cup {c}) /\ Cardinality(S \cup {c}) <= Depth
  <2> HIDE DEF S
  <2>1. IsFiniteSet(S \cup {c})
          /\ Cardinality(S \cup {c}) = IF c \in S THEN Cardinality(S) ELSE Cardinality(S) + 1
    BY <1>3, FS_AddElement DEF S
  <2> QED BY <1>3, <2>1 DEF S, Assumptions, BuildAssumption
<1> QED BY <1>2, <1>4 DEF TypeInv, EmbOK

\* What prepare_embedding_asset makes of a job: an error, or an item whose hash
\* is of the file that it read.
LEMMA PreparedIs ==
  ASSUME Assumptions, TypeInv, NEW b \in Batches, NEW job \in b.jobs, PrepareAsset(b, job)
  PROVE  \E c \in Batches :
           /\ Batched(b, c) /\ c.jobs = b.jobs \ {job} /\ c.lost = b.lost
           /\ \/ /\ disk[job.path].content \notin Goods
                 /\ c.errors = b.errors \cup {job.path} /\ c.items = b.items
              \/ \E item \in EmbedItems :
                   /\ c.errors = b.errors /\ c.items = b.items \cup {item}
                   /\ item.path = job.path /\ item.stamp = disk[job.path].stamp
                   /\ disk[job.path].content \in Goods
                   /\ \/ item.sha = disk[job.path].content
                      \/ KnownFingerprint(job) /\ item.sha = job.sha
<1> DEFINE file == disk[job.path]
           item == [path |-> job.path, content |-> file.content, sha |-> file.content,
                    stamp |-> file.stamp, reuse |-> FALSE]
           known == [item EXCEPT !.sha = job.sha, !.reuse = TRUE]
<1>1. job.path \in Paths /\ job.sha \in Goods \cup {Unknown}
  BY DEF Batches, EmbedJobs
<1>2. file.stamp \in Stamps
  BY <1>1 DEF TypeInv, DiskOK, Files
<1>3. CASE file.content \notin Goods
  <2> DEFINE c == [b EXCEPT !.jobs = @ \ {job}, !.errors = @ \cup {job.path}]
  <2>1. Batched(b, c)
    BY <1>3 DEF PrepareAsset
  <2>2. c \in Batches /\ c.jobs = b.jobs \ {job} /\ c.lost = b.lost
          /\ c.errors = b.errors \cup {job.path} /\ c.items = b.items
    BY <1>1 DEF Batches
  <2> HIDE DEF c
  <2> QED BY <1>3, <2>1, <2>2
<1>4. CASE file.content \in Goods
  <2> DEFINE one == IF KnownFingerprint(job) THEN known ELSE item
             c == [b EXCEPT !.jobs = @ \ {job}, !.items = @ \cup {one}]
  <2>1. Batched(b, c)
    BY <1>4 DEF PrepareAsset
  <2>2. one \in EmbedItems /\ one.path = job.path /\ one.stamp = file.stamp
          /\ (one.sha = file.content \/ (KnownFingerprint(job) /\ one.sha = job.sha))
    <3>1. CASE KnownFingerprint(job)
      <4>1. job.sha \in Goods
        BY <1>1, <3>1 DEF KnownFingerprint
      <4> QED BY <1>1, <1>2, <1>4, <3>1, <4>1 DEF EmbedItems
    <3>2. CASE ~KnownFingerprint(job)
      BY <1>1, <1>2, <1>4, <3>2 DEF EmbedItems
    <3> QED BY <3>1, <3>2
  <2> HIDE DEF one
  <2>3. c \in Batches /\ c.jobs = b.jobs \ {job} /\ c.lost = b.lost
          /\ c.errors = b.errors /\ c.items = b.items \cup {one}
    BY <2>2 DEF Batches
  <2> HIDE DEF c
  <2> QED BY <1>4, <2>1, <2>2, <2>3
<1> QED BY <1>3, <1>4

LEMMA EmbTyped ==
  ASSUME Assumptions, TypeInv, HandInv, BuildSteps
  PROVE  EmbOK'
<1>1. CASE EditStep
  BY <1>1 DEF TypeInv, EmbOK, EditStep, Beside
<1>2. CASE BeginStep
  <2>1. ASSUME NEW stage \in SUBSET {"manifest", "embeddings"},
               NEW mode \in Modes \cup {"serial"}, NEW limit \in Nat,
               NEW kinds \in SUBSET Kinds, NEW async \in BOOLEAN,
               BeginRun(stage, mode, limit, kinds, async)
        PROVE  EmbOK'
    <3>1. emb' \in EmbedStages /\ emb'.queue = <<>> /\ emb'.batches = {}
      <4>1. emb' = [kinds |-> kinds, reusing |-> kinds, async |-> async, backlog |-> {},
                    batches |-> {}, items |-> {}, errors |-> {}, queue |-> <<>>, dead |-> FALSE,
                    truncated |-> FALSE, copied |-> 0]
        BY <2>1 DEF BeginRun, NoEmbed
      <4> QED BY <4>1 DEF EmbedStages
    <3> QED BY <3>1, NothingInHand DEF EmbOK
  <2> QED BY <1>2, <2>1 DEF BeginStep
<1>3. CASE StopStep
  <2>1. CASE EndRun
    <3>1. emb' \in EmbedStages /\ emb'.queue = <<>> /\ emb'.batches = {}
      <4>1. emb' = [kinds |-> emb.kinds, reusing |-> {}, async |-> FALSE, backlog |-> {},
                    batches |-> {}, items |-> {}, errors |-> {}, queue |-> <<>>, dead |-> FALSE,
                    truncated |-> emb.truncated, copied |-> 0]
        BY <2>1 DEF EndRun, NoEmbed
      <4> QED BY <4>1 DEF EmbedStages, TypeInv, EmbOK
    <3> QED BY <3>1, NothingInHand DEF EmbOK
  <2>2. CASE Unwound
    BY <2>2, NoEmbedIs DEF EmbOK, Unwound
  <2>3. CASE Killed
    BY <2>3, NoEmbedIs DEF EmbOK, Killed
  <2> QED BY <1>3, <2>1, <2>2, <2>3 DEF StopStep
<1>4. CASE HandStep
  <2>1. CASE QueryBacklog
    <3>1. emb' \in EmbedStages /\ emb'.queue = emb.queue /\ emb'.batches = emb.batches
      <4>1. PICK chosen \in SUBSET Wanted :
              emb' = [emb EXCEPT
                !.backlog = {[path |-> p, stamp |-> asset[p].stamp, sha |-> asset[p].sha] :
                               p \in chosen},
                !.truncated = chosen # Wanted]
        BY <2>1 DEF QueryBacklog, kSubset
      <4> DEFINE jobs == {[path |-> p, stamp |-> asset[p].stamp, sha |-> asset[p].sha] : p \in chosen}
      <4>2. jobs \in SUBSET EmbedJobs
        BY DEF Wanted, Active, TypeInv, AssetOK, Rows, EmbedJobs
      <4>3. emb' = [emb EXCEPT !.backlog = jobs, !.truncated = chosen # Wanted]
        BY <4>1
      <4>4. (chosen # Wanted) \in BOOLEAN
        OBVIOUS
      <4> HIDE DEF jobs
      <4> QED BY <4>2, <4>3, <4>4 DEF TypeInv, EmbOK, EmbedStages
    <3> QED BY <3>1 DEF TypeInv, EmbOK
  <2>2. CASE Submit
    <3>1. PICK chunk \in SUBSET emb.backlog :
            emb' = [emb EXCEPT !.backlog = @ \ chunk,
                      !.batches = @ \cup {[jobs |-> chunk, items |-> {}, errors |-> {}, lost |-> FALSE]}]
      BY <2>2 DEF Submit, kSubset
    <3> DEFINE b == [jobs |-> chunk, items |-> {}, errors |-> {}, lost |-> FALSE]
    <3>2. b \in Batches
      BY DEF Batches, TypeInv, EmbOK, EmbedStages
    <3>3. emb' = [emb EXCEPT !.backlog = @ \ chunk, !.batches = @ \cup {b}]
      BY <3>1
    <3> HIDE DEF b
    <3>4. emb' \in EmbedStages /\ emb'.queue = emb.queue /\ emb'.batches = emb.batches \cup {b}
      BY <3>2, <3>3 DEF TypeInv, EmbOK, EmbedStages
    <3>5. Cardinality(emb.batches) < Depth /\ IsFiniteSet(emb.batches)
      BY <2>2 DEF Submit, MaySubmit, TypeInv, EmbOK
    <3>6. IsFiniteSet(emb'.batches) /\ Cardinality(emb'.batches) <= Depth
      <4>1. Cardinality(emb.batches) \in Nat
        BY <3>5, FS_CardinalityType
      <4>2. IsFiniteSet(emb.batches \cup {b})
              /\ Cardinality(emb.batches \cup {b}) = IF b \in emb.batches THEN Cardinality(emb.batches) ELSE Cardinality(emb.batches) + 1
        BY <3>5, FS_AddElement
      <4> QED BY <3>4, <3>5, <4>1, <4>2 DEF Assumptions, BuildAssumption
    <3> QED BY <3>4, <3>6 DEF TypeInv, EmbOK
  <2>3. CASE EnqueueBatch
    <3>1. CASE emb.dead
      BY <2>3, <3>1 DEF EnqueueBatch, TypeInv, EmbOK
    <3>2. CASE ~emb.dead
      <4>1. emb' = [emb EXCEPT !.queue = Append(@, emb.items), !.items = {}]
              /\ Len(emb.queue) < QueueSize
        BY <2>3, <3>2 DEF EnqueueBatch
      <4>2. emb.queue \in Seq(SUBSET EmbedItems) /\ emb.items \in SUBSET EmbedItems
        BY DEF TypeInv, EmbOK, EmbedStages
      <4>3. /\ Append(emb.queue, emb.items) \in Seq(SUBSET EmbedItems)
            /\ Len(Append(emb.queue, emb.items)) = Len(emb.queue) + 1
        BY <4>2
      <4>4. emb' \in EmbedStages /\ emb'.queue = Append(emb.queue, emb.items)
              /\ emb'.batches = emb.batches
        BY <4>1, <4>3 DEF TypeInv, EmbOK, EmbedStages
      <4>5. Len(emb'.queue) <= QueueSize
        BY <4>1, <4>2, <4>3, <4>4 DEF Assumptions, BuildAssumption
      <4> QED BY <4>4, <4>5 DEF TypeInv, EmbOK
    <3> QED BY <3>1, <3>2
  <2>4. CASE WriterDies
    <3>1. emb' = [emb EXCEPT !.queue = <<>>, !.dead = TRUE]
      BY <2>4 DEF WriterDies
    <3>0. <<>> \in Seq(SUBSET EmbedItems)
      OBVIOUS
    <3>2. emb' \in EmbedStages /\ emb'.queue = <<>> /\ emb'.batches = emb.batches
      BY <3>0, <3>1 DEF TypeInv, EmbOK, EmbedStages
    <3>3. Len(emb'.queue) <= QueueSize
      BY <3>2 DEF Assumptions, BuildAssumption
    <3> QED BY <3>2, <3>3 DEF TypeInv, EmbOK
  <2>5. ASSUME NEW b \in emb.batches, JoinBatch(b)
        PROVE  EmbOK'
    <3>1. CASE b.lost
      BY <2>5, <3>1 DEF JoinBatch, TypeInv, EmbOK
    <3>2. CASE ~b.lost
      <4>1. emb' = [emb EXCEPT !.batches = @ \ {b}, !.items = b.items, !.errors = b.errors]
        BY <2>5, <3>2 DEF JoinBatch
      <4>2. b \in Batches
        BY DEF TypeInv, EmbOK, EmbedStages
      <4>3. b.items \in SUBSET EmbedItems /\ b.errors \in SUBSET Paths
        BY <4>2 DEF Batches
      <4>4. emb' \in EmbedStages /\ emb'.queue = emb.queue /\ emb'.batches = emb.batches \ {b}
        BY <4>1, <4>3 DEF TypeInv, EmbOK, EmbedStages
      <4>5. IsFiniteSet(emb'.batches) /\ Cardinality(emb'.batches) <= Depth
        BY <4>4, FewerBatches DEF TypeInv
      <4> QED BY <4>4, <4>5 DEF TypeInv, EmbOK
    <3> QED BY <3>1, <3>2
  <2>6. ASSUME NEW b \in emb.batches, PrepareDies(b)
        PROVE  EmbOK'
    <3>1. PICK job \in b.jobs : Batched(b, [b EXCEPT !.jobs = @ \ {job}, !.lost = TRUE])
      BY <2>6 DEF PrepareDies
    <3>2. b \in Batches
      BY DEF TypeInv, EmbOK, EmbedStages
    <3>3. [b EXCEPT !.jobs = @ \ {job}, !.lost = TRUE] \in Batches
      BY <3>2 DEF Batches
    <3> QED BY <3>1, <3>3, BatchedTyped
  <2>7. ASSUME NEW b \in emb.batches, NEW job \in b.jobs, PrepareAsset(b, job)
        PROVE  EmbOK'
    <3>1. b \in Batches
      BY DEF TypeInv, EmbOK, EmbedStages
    <3>2. job \in EmbedJobs /\ job.path \in Paths
      BY <3>1 DEF Batches, EmbedJobs
    <3>3. PICK c \in Batches : Batched(b, c)
      BY <2>7, <3>1, <3>2, PreparedIs
    <3> QED BY <3>3, BatchedTyped
  <2> QED BY <1>4, <2>1, <2>2, <2>3, <2>4, <2>5, <2>6, <2>7 DEF HandStep
<1>5. CASE TurnStep
  BY <1>5 DEF TypeInv, EmbOK, TurnStep
<1>6. CASE TakeSnapshot
  BY <1>6 DEF TypeInv, EmbOK, TakeSnapshot
<1>7. CASE WalkStep
  BY <1>7 DEF TypeInv, EmbOK, WalkStep, Beside
<1>8. CASE AssetStep
  <2>1. ASSUME NEW p \in Paths, VisitGone(p), Beside
        PROVE  EmbOK'
    BY <2>1 DEF TypeInv, EmbOK, Beside
  <2>2. ASSUME NEW p \in Paths, VisitFast(p), Beside
        PROVE  EmbOK'
    BY <2>2 DEF TypeInv, EmbOK, Beside
  <2>3. ASSUME NEW r \in scan.results, TakeResult(r), Beside
        PROVE  EmbOK'
    BY <2>3 DEF TypeInv, EmbOK, Beside
  <2>4. ASSUME FlushLast, Beside
        PROVE  EmbOK'
    BY <2>4 DEF TypeInv, EmbOK, Beside
  <2>5. ASSUME MarkMissingStale, Beside
        PROVE  EmbOK'
    BY <2>5 DEF TypeInv, EmbOK, Beside
  <2>6. ASSUME NEW p \in emb.errors, RecordPrepareError(p)
        PROVE  EmbOK'
    BY <2>6 DEF RecordPrepareError, TypeInv, EmbOK, EmbedStages
  <2>7. ASSUME NEW i \in emb.items, SingleFails(i)
        PROVE  EmbOK'
    BY <2>7 DEF SingleFails, TypeInv, EmbOK, EmbedStages
  <2> QED BY <1>8, <2>1, <2>2, <2>3, <2>4, <2>5, <2>6, <2>7 DEF AssetStep
<1>9. CASE WriteStep
  <2>1. CASE FlushBatch
    BY <2>1 DEF FlushBatch, TypeInv, EmbOK, EmbedStages
  <2>2. CASE WriterStep
    <3>1. emb' = [emb EXCEPT !.queue = Tail(@)] /\ emb.queue # <<>>
      BY <2>2 DEF WriterStep
    <3>2. emb.queue \in Seq(SUBSET EmbedItems)
      BY DEF TypeInv, EmbOK, EmbedStages
    <3>3. Tail(emb.queue) \in Seq(SUBSET EmbedItems) /\ Len(Tail(emb.queue)) = Len(emb.queue) - 1
      BY <3>1, <3>2
    <3>4. emb' \in EmbedStages /\ emb'.queue = Tail(emb.queue) /\ emb'.batches = emb.batches
      BY <3>1, <3>3 DEF TypeInv, EmbOK, EmbedStages
    <3>5. Len(emb'.queue) <= QueueSize
      BY <3>2, <3>3, <3>4 DEF TypeInv, EmbOK, Assumptions, BuildAssumption
    <3> QED BY <3>4, <3>5 DEF TypeInv, EmbOK
  <2>3. ASSUME NEW i \in emb.items, SingleOk(i)
        PROVE  EmbOK'
    BY <2>3 DEF SingleOk, TypeInv, EmbOK, EmbedStages
  <2> QED BY <1>9, <2>1, <2>2, <2>3 DEF WriteStep
<1>10. CASE VecStep
  <2>1. ASSUME NEW p \in Paths, DropFeatures(p), Beside
        PROVE  EmbOK'
    BY <2>1 DEF TypeInv, EmbOK, Beside
  <2>2. ASSUME NEW k \in Kinds, ReuseVectors(k)
        PROVE  EmbOK'
    <3>1. emb' \in EmbedStages /\ emb'.queue = emb.queue /\ emb'.batches = emb.batches
      <4>1. emb' = [emb EXCEPT !.reusing = @ \ {k}, !.copied = @ + Cardinality(Takers(k))]
        BY <2>2 DEF ReuseVectors
      <4>2. IsFiniteSet(Takers(k))
        BY FS_Subset DEF Takers, Assumptions, ScanAssumption
      <4>3. Cardinality(Takers(k)) \in Nat
        BY <4>2, FS_CardinalityType
      <4>4. emb.copied + Cardinality(Takers(k)) \in Nat
        BY <4>3 DEF TypeInv, EmbOK, EmbedStages
      <4> QED BY <4>1, <4>4 DEF TypeInv, EmbOK, EmbedStages
    <3> QED BY <3>1 DEF TypeInv, EmbOK
  <2> QED BY <1>10, <2>1, <2>2 DEF VecStep
<1>11. CASE ImportStep
  BY <1>11 DEF TypeInv, EmbOK, ImportStep, ImportEmbedding
<1>12. CASE ViewStep
  BY <1>12 DEF TypeInv, EmbOK, ViewStep, Regroup, AdvanceGeneration, DropOverview,
     CloseRun, Beside
<1> QED BY <1>1, <1>2, <1>3, <1>4, <1>5, <1>6, <1>7, <1>8, <1>9, <1>10, <1>11, <1>12 DEF BuildSteps

----------------------------------------------------------------------------
\* Every table has its writers.
LEMMA Writers ==
  ASSUME BuildSteps
  PROVE  /\ EditStep \/ disk' = disk
         /\ EditStep \/ WalkStep \/ edits' = edits
         /\ AssetStep \/ WriteStep \/ asset' = asset
         /\ VecStep \/ WriteStep \/ ImportStep \/ vec' = vec
         /\ (Regroup /\ Beside) \/ groups' = groups
         /\ ViewStep \/ ImportStep \/ EndRun \/ UNCHANGED <<gen, ovw>>
         /\ TakeSnapshot \/ snap' = snap
<1> USE DEF manifest, Beside
<1>1. CASE EditStep
  BY <1>1 DEF EditStep, EditFile
<1>2. CASE BeginStep
  BY <1>2 DEF BeginStep, BeginRun
<1>3. CASE StopStep
  BY <1>3 DEF StopStep, EndRun, Unwound, Killed
<1>4. CASE HandStep
  BY <1>4 DEF HandStep, QueryBacklog, Submit, EnqueueBatch, WriterDies, JoinBatch, PrepareDies,
              PrepareAsset
<1>5. CASE TurnStep
  BY <1>5 DEF TurnStep
<1>6. CASE TakeSnapshot
  BY <1>6 DEF TakeSnapshot
<1>7. CASE WalkStep
  BY <1>7 DEF WalkStep, Visit, SkipUnreadable, ReadFile, WorkerDies, EndWalk, ResultsMissing
<1>8. CASE AssetStep
  BY <1>8 DEF AssetStep, VisitGone, VisitFast, TakeResult, FlushLast, MarkMissingStale,
              RecordPrepareError, SingleFails
<1>9. CASE WriteStep
  BY <1>9 DEF WriteStep, FlushBatch, WriterStep, SingleOk
<1>10. CASE VecStep
  BY <1>10 DEF VecStep, DropFeatures, ReuseVectors
<1>11. CASE ImportStep
  BY <1>11 DEF ImportStep, ImportEmbedding
<1>12. CASE ViewStep
  BY <1>12 DEF ViewStep, Regroup, AdvanceGeneration, DropOverview, CloseRun
<1> QED BY <1>1, <1>2, <1>3, <1>4, <1>5, <1>6, <1>7, <1>8, <1>9, <1>10, <1>11, <1>12 DEF BuildSteps

\* What the scan writes: the rows of pending items, or an error.
LEMMA ScanWrites ==
  ASSUME Assumptions, TypeInv,
         \/ \E p \in Paths : VisitGone(p) \/ VisitFast(p)
         \/ \E r \in scan.results : TakeResult(r)
         \/ FlushLast
  PROVE  \/ \E p \in Paths : RecordPathError(p)
         \/ \E items \in SUBSET PendingItems : asset' = Written(items)
<1>0. scan \in ScanStages
  BY DEF TypeInv, ScanOK
<1>1. ASSUME NEW p \in Paths, VisitGone(p) PROVE RecordPathError(p)
  BY <1>1 DEF VisitGone
<1>2. ASSUME NEW p \in Paths, VisitFast(p)
      PROVE  \E items \in SUBSET PendingItems : asset' = Written(items)
  <2> DEFINE item == [path |-> p, stamp |-> disk[p].stamp, content |-> Unknown]
             pending == scan.pending \cup IF FastUnchanged(p) THEN {} ELSE {item}
             full == (Cardinality(scan.seen) + 1) % BatchSize = 0
  <2>1. pending \in SUBSET PendingItems
    BY <1>0 DEF TypeInv, ScanStages, DiskOK, Files, PendingItems
  <2>2. asset' = Written(IF full THEN pending ELSE {})
    BY <1>2 DEF VisitFast, Flush
  <2> HIDE DEF pending, full
  <2> QED BY <2>1, <2>2
<1>3. ASSUME NEW r \in scan.results, TakeResult(r)
      PROVE  \/ \E p \in Paths : RecordPathError(p)
             \/ \E items \in SUBSET PendingItems : asset' = Written(items)
  <2>1. r \in Results
    BY <1>0 DEF ScanStages
  <2>2. CASE r.content \in Goods
    <3>1. scan.pending \cup {r} \in SUBSET PendingItems
      BY <1>0, <2>1, <2>2 DEF ScanStages, Results, PendingItems
    <3>2. PICK items \in {{}, scan.pending \cup {r}} : asset' = Written(items)
      BY <1>3, <2>2 DEF TakeResult, Flush
    <3> QED BY <3>1, <3>2
  <2>3. CASE r.content \notin Goods
    BY <1>3, <2>1, <2>3 DEF TakeResult, Results
  <2> QED BY <2>2, <2>3
<1>4. CASE FlushLast
  BY <1>0, <1>4 DEF FlushLast, ScanStages
<1> QED BY <1>1, <1>2, <1>3, <1>4

\* Only the end of a scan takes rows out of use.
LEMMA ActiveGrows ==
  ASSUME Assumptions, TypeInv, HandInv, BuildSteps, ~MarkMissingStale
  PROVE  AssetOK' /\ Active \subseteq Active'
<1>1. AssetStep \/ WriteStep \/ asset' = asset
  BY Writers
<1>2. CASE asset' = asset
  BY <1>2 DEF TypeInv, AssetOK, Active
<1>3. ASSUME NEW p \in Paths, RecordPathError(p)
      PROVE  AssetOK' /\ Active \subseteq Active'
  BY <1>3, PathErrorIs DEF Assumptions, RowAssumption, TypeInv, Active
<1>4. CASE \/ \E p \in Paths : VisitGone(p) \/ VisitFast(p)
           \/ \E r \in scan.results : TakeResult(r)
           \/ FlushLast
  <2>1. ASSUME NEW items \in SUBSET PendingItems, asset' = Written(items)
        PROVE  AssetOK' /\ Active \subseteq Active'
    <3>1. AssetOK'
      BY <2>1, WrittenIs DEF TypeInv, AssetOK
    <3>2. ASSUME NEW q \in Active PROVE q \in Active'
      <4>1. \/ asset'[q] = asset[q]
            \/ \E i \in items : asset'[q] = [stamp |-> i.stamp, sha |-> i.content,
                                             error |-> FALSE, stale |-> FALSE]
        BY <2>1, WrittenIs DEF TypeInv, Active
      <4>2. \A i \in items : [stamp |-> i.stamp, sha |-> i.content,
                              error |-> FALSE, stale |-> FALSE] \in Rows
        BY DEF PendingItems, Rows
      <4>3. NoRow \notin Rows
        BY DEF Assumptions, RowAssumption
      <4>4. asset[q] # NoRow /\ ~asset[q].stale
        BY <3>2 DEF Active
      <4>5. asset'[q] # NoRow /\ ~asset'[q].stale
        <5>1. CASE asset'[q] = asset[q]
          BY <4>4, <5>1
        <5>2. ASSUME NEW i \in items,
                     asset'[q] = [stamp |-> i.stamp, sha |-> i.content,
                                  error |-> FALSE, stale |-> FALSE]
              PROVE  asset'[q] # NoRow /\ ~asset'[q].stale
          BY <4>2, <4>3, <5>2
        <5> QED BY <4>1, <5>1, <5>2
      <4> QED BY <4>5, <3>2 DEF Active
    <3> QED BY <3>1, <3>2
  <2> QED BY <1>3, <1>4, <2>1, ScanWrites
<1>5. ASSUME NEW p \in emb.errors, RecordPrepareError(p)
      PROVE  AssetOK' /\ Active \subseteq Active'
  <2>1. p \in Paths
    BY DEF TypeInv, EmbOK, EmbedStages
  <2> QED BY <1>3, <1>5, <2>1 DEF RecordPrepareError
<1>6. ASSUME NEW i \in emb.items, SingleFails(i)
      PROVE  AssetOK' /\ Active \subseteq Active'
  <2>1. i.path \in Active
    BY DEF TypeInv, EmbOK, EmbedStages, EmbedItems, HandInv, HandActive, Upstream
  <2> QED BY <1>6, <2>1, ItemErrorIs DEF Active, Assumptions, RowAssumption
<1>7. CASE WriteStep
  <2>1. PICK items \in SUBSET EmbedItems : WriteBatch(items)
    BY <1>7, WriteStepIs
  <2>2. AssetOK'
    BY <2>1, BatchWriteIs DEF TypeInv
  <2>3. ASSUME NEW q \in Active PROVE q \in Active'
    <3>1. \/ asset'[q] = asset[q]
          \/ \E i \in FilledRows(items) :
                asset'[q] = [stamp |-> i.stamp, sha |-> i.sha, error |-> FALSE, stale |-> FALSE]
      BY <2>1, BatchWriteIs DEF TypeInv, Active
    <3>2. \A i \in FilledRows(items) :
             [stamp |-> i.stamp, sha |-> i.sha, error |-> FALSE, stale |-> FALSE] \in Rows
      BY DEF FilledRows, EmbedItems, Rows
    <3>3. NoRow \notin Rows
      BY DEF Assumptions, RowAssumption
    <3>4. asset[q] # NoRow /\ ~asset[q].stale
      BY <2>3 DEF Active
    <3>5. asset'[q] # NoRow /\ ~asset'[q].stale
      <4>1. CASE asset'[q] = asset[q]
        BY <3>4, <4>1
      <4>2. ASSUME NEW i \in FilledRows(items),
                   asset'[q] = [stamp |-> i.stamp, sha |-> i.sha,
                                error |-> FALSE, stale |-> FALSE]
            PROVE  asset'[q] # NoRow /\ ~asset'[q].stale
        BY <3>2, <3>3, <4>2
      <4> QED BY <3>1, <4>1, <4>2
    <3> QED BY <3>5, <2>3 DEF Active
  <2> QED BY <2>2, <2>3
<1> QED BY <1>1, <1>2, <1>4, <1>5, <1>6, <1>7 DEF AssetStep

\* Copies of a twin's vector go to rows that lack one.
LEMMA ReuseIs ==
  ASSUME Assumptions, TypeInv, NEW k \in Kinds, ReuseVectors(k)
  PROVE  /\ VecOK'
         /\ \A p \in Paths, l \in Kinds :
              IF l = k /\ p \in Takers(k) THEN vec'[p][l] # NoRow ELSE vec'[p][l] = vec[p][l]
<1>1. PICK from \in [Takers(k) -> Paths] :
        /\ \A p \in Takers(k) : from[p] \in Twins(p, k)
        /\ vec' = Upserted(vec, {<<p, k, vec[from[p]][k].of>> : p \in Takers(k)})
  BY DEF ReuseVectors
<1> DEFINE new == {<<p, k, vec[from[p]][k].of>> : p \in Takers(k)}
<1>2. \A p \in Takers(k) : p \in Paths /\ vec[from[p]][k].of \in Goods
  <2>1. ASSUME NEW p \in Takers(k) PROVE vec[from[p]][k].of \in Goods
    <3>1. from[p] \in Paths /\ vec[from[p]][k] # NoRow
      BY <1>1 DEF Twins, Active
    <3> QED BY <3>1 DEF TypeInv, VecOK, Typed, Vectors
  <2> QED BY <2>1 DEF Takers
<1>3. new \in SUBSET (Paths \X Kinds \X Goods)
  BY <1>2
<1>4. ASSUME NEW p \in Paths, NEW l \in Kinds
      PROVE  (\E t \in new : t[1] = p /\ t[2] = l) <=> l = k /\ p \in Takers(k)
  <2>1. ASSUME NEW t \in new, t[1] = p, t[2] = l PROVE l = k /\ p \in Takers(k)
    BY <2>1
  <2>2. ASSUME l = k, p \in Takers(k) PROVE \E t \in new : t[1] = p /\ t[2] = l
    <3> DEFINE t == <<p, k, vec[from[p]][k].of>>
    <3>1. t \in new /\ t[1] = p /\ t[2] = l
      BY <2>2
    <3> HIDE DEF new, t
    <3> QED BY <3>1
  <2> HIDE DEF new
  <2> QED BY <2>1, <2>2
<1>5. vec' = Upserted(vec, new)
  BY <1>1
<1> HIDE DEF new
<1>6. VecOK'
  BY <1>3, <1>5, UpsertedIs DEF TypeInv, VecOK, Assumptions
<1>7. ASSUME NEW p \in Paths, NEW l \in Kinds
      PROVE  IF l = k /\ p \in Takers(k) THEN vec'[p][l] # NoRow ELSE vec'[p][l] = vec[p][l]
  BY <1>3, <1>4, <1>5, UpsertedIs DEF TypeInv, VecOK, Assumptions
<1> QED BY <1>6, <1>7

\* Whatever else writes vectors keeps the rowids apart.
LEMMA VecWrites ==
  ASSUME Assumptions, TypeInv, VecStep \/ ImportStep
  PROVE  VecOK'
<1>1. ASSUME NEW p \in Paths, DropFeatures(p) PROVE VecOK'
  BY <1>1 DEF NoVector, DropFeatures, DropVectors, TypeInv, VecOK, Typed, RowidsDiffer
<1>2. ASSUME NEW p \in Paths, NEW k \in Kinds, NEW c \in Goods, ImportEmbedding(p, k, c)
      PROVE  VecOK'
  BY <1>2, UpsertedIs DEF ImportEmbedding, TypeInv, VecOK, Assumptions
<1>3. CASE VecStep
  BY <1>1, <1>3, ReuseIs DEF VecStep
<1>4. CASE ImportStep
  BY <1>2, <1>4 DEF ImportStep
<1> QED BY <1>3, <1>4

\* What the overview counts.
LEMMA OverviewIs ==
  ASSUME Assumptions, TypeInv
  PROVE  OverviewNow \in Overview
<1>1. IsFiniteSet(Paths) /\ IsFiniteSet(Kinds)
  BY DEF Assumptions, ScanAssumption
<1>2. IsFiniteSet(Active)
  BY <1>1, FS_Subset DEF Active
<1>3. IsFiniteSet({p \in Paths : groups[p] # {}})
  BY <1>1, FS_Subset
<1>4. IsFiniteSet({t \in Active \X Kinds : vec[t[1]][t[2]] # NoRow})
  <2>1. IsFiniteSet(Active \X Kinds)
    BY <1>1, <1>2, FS_Product
  <2> QED BY <2>1, FS_Subset
<1> QED BY <1>2, <1>3, <1>4, FS_CardinalityType DEF OverviewNow, Overview

LEMMA EditsCount ==
  ASSUME WalkStep
  PROVE  edits' = edits \/ (edits < MaxEdits /\ edits' = edits + 1)
BY DEF WalkStep, Visit, SkipUnreadable, ReadFile, WorkerDies, EndWalk, ResultsMissing

LEMMA TablesTyped ==
  ASSUME Assumptions, TypeInv, HandInv, BuildSteps
  PROVE  DiskOK' /\ AssetOK' /\ VecOK' /\ GroupsOK' /\ ViewOK'
<1>1. DiskOK'
  <2>1. ASSUME NEW p \in Paths, NEW c \in Goods \cup {Bad, Gone}, EditFile(p, c)
        PROVE  DiskOK'
    BY <2>1 DEF EditFile, TypeInv, DiskOK, Assumptions, ScanAssumption, Stamps, Files
  <2>2. CASE disk' = disk
    <3>1. edits' = edits \/ EditStep \/ (edits < MaxEdits /\ edits' = edits + 1)
      BY Writers, EditsCount
    <3> QED BY <2>1, <2>2, <3>1 DEF TypeInv, DiskOK, Assumptions, ScanAssumption, EditStep
  <2> QED BY <2>1, <2>2, Writers DEF EditStep
<1>2. AssetOK'
  <2>1. CASE MarkMissingStale
    BY <2>1 DEF Missing, Active, TypeInv, AssetOK, Rows, MarkMissingStale
  <2> QED BY <2>1, ActiveGrows
<1>3. VecOK'
  <2>1. CASE VecStep \/ ImportStep
    BY <2>1, VecWrites
  <2>2. CASE WriteStep
    <3>1. PICK items \in SUBSET EmbedItems : WriteBatch(items)
      BY <2>2, WriteStepIs
    <3> QED BY <3>1, BatchWriteIs DEF TypeInv
  <2>3. CASE vec' = vec
    BY <2>3 DEF TypeInv, VecOK
  <2> QED BY <2>1, <2>2, <2>3, Writers
<1>4. GroupsOK'
  <2>1. CASE Regroup
    BY <2>1 DEF GroupsNow, Active, Regroup, TypeInv, GroupsOK
  <2>2. CASE groups' = groups
    BY <2>2 DEF TypeInv, GroupsOK
  <2> QED BY <2>1, <2>2, Writers
<1>5. ViewOK'
  <2>1. CASE ViewStep
    BY <2>1 DEF ViewStep, Regroup, AdvanceGeneration, DropOverview, CloseRun, TypeInv, ViewOK
  <2>2. CASE ImportStep
    BY <2>2 DEF ImportStep, ImportEmbedding, TypeInv, ViewOK
  <2>3. CASE EndRun
    BY <2>3, OverviewIs DEF EndRun, TypeInv, ViewOK
  <2>4. CASE UNCHANGED <<gen, ovw>>
    BY <2>4 DEF TypeInv, ViewOK
  <2> QED BY <2>1, <2>2, <2>3, <2>4, Writers
<1> QED BY <1>1, <1>2, <1>3, <1>4, <1>5

LEMMA TypeStep ==
  ASSUME Assumptions, TypeInv, HandInv, BuildSteps
  PROVE  TypeInv'
BY RunTyped, ScanTyped, EmbTyped, TablesTyped DEF TypeInv

\* What is in hand was in hand, or comes from the query of the backlog.
LEMMA HandFromHand ==
  ASSUME Assumptions, TypeInv, BuildSteps, NEW q \in Paths
  PROVE  Queued(q)' \/ Upstream(q)'
           => Queued(q) \/ Upstream(q) \/ (QueryBacklog /\ q \in Wanted)
<1>0. emb \in EmbedStages
  BY DEF TypeInv, EmbOK
<1>1. CASE EditStep
  BY <1>1 DEF Upstream, Queued, InBatch, Beside, EditStep
<1>2. CASE BeginStep
  <2>1. ASSUME NEW stage \in SUBSET {"manifest", "embeddings"},
               NEW mode \in Modes \cup {"serial"}, NEW limit \in Nat,
               NEW kinds \in SUBSET Kinds, NEW async \in BOOLEAN,
               BeginRun(stage, mode, limit, kinds, async)
        PROVE  Queued(q)' \/ Upstream(q)'
           => Queued(q) \/ Upstream(q) \/ (QueryBacklog /\ q \in Wanted)
    BY <2>1 DEF BeginRun, NoEmbed, Upstream, Queued
  <2> QED BY <1>2, <2>1 DEF BeginStep
<1>3. CASE StopStep
  <2>1. CASE EndRun
    BY <2>1 DEF EndRun, NoEmbed, Upstream, Queued
  <2>2. CASE Unwound
    BY <2>2 DEF Upstream, Queued, NoEmbed, Unwound
  <2>3. CASE Killed
    BY <2>3 DEF Upstream, Queued, NoEmbed, Killed
  <2> QED BY <1>3, <2>1, <2>2, <2>3 DEF StopStep
<1>4. CASE HandStep
  <2>1. CASE QueryBacklog
    <3>1. PICK chosen \in SUBSET Wanted :
            emb' = [emb EXCEPT
              !.backlog = {[path |-> p, stamp |-> asset[p].stamp, sha |-> asset[p].sha] :
                             p \in chosen},
              !.truncated = chosen # Wanted]
      BY <2>1 DEF QueryBacklog, kSubset
    <3>2. /\ \A x \in emb'.backlog : x.path \in Wanted
          /\ emb'.batches = emb.batches /\ emb'.items = emb.items
          /\ emb'.errors = emb.errors /\ emb'.queue = emb.queue
      BY <3>1, <1>0 DEF EmbedStages
    <3> QED BY <3>2, <2>1 DEF Upstream, Queued, InBatch
  <2>2. CASE Submit
    <3>1. PICK chunk \in SUBSET emb.backlog :
            emb' = [emb EXCEPT !.backlog = @ \ chunk,
                      !.batches = @ \cup {[jobs |-> chunk, items |-> {}, errors |-> {}, lost |-> FALSE]}]
      BY <2>2 DEF Submit, kSubset
    <3> DEFINE b == [jobs |-> chunk, items |-> {}, errors |-> {}, lost |-> FALSE]
    <3>2. /\ emb'.backlog = emb.backlog \ chunk /\ emb'.batches = emb.batches \cup {b}
          /\ emb'.items = emb.items /\ emb'.errors = emb.errors /\ emb'.queue = emb.queue
      BY <3>1, <1>0 DEF EmbedStages
    <3>3. b.jobs = chunk /\ b.items = {} /\ b.errors = {}
      OBVIOUS
    <3> HIDE DEF b
    <3> QED BY <3>2, <3>3 DEF Upstream, Queued, InBatch
  <2>3. CASE EnqueueBatch
    <3>1. CASE UNCHANGED emb
      BY <3>1 DEF Upstream, Queued, InBatch
    <3>2. CASE emb' = [emb EXCEPT !.queue = Append(@, emb.items), !.items = {}]
      <4>1. /\ emb'.queue = Append(emb.queue, emb.items) /\ emb'.items = {}
            /\ emb'.backlog = emb.backlog /\ emb'.batches = emb.batches /\ emb'.errors = emb.errors
        BY <3>2, <1>0 DEF EmbedStages
      <4>2. ASSUME NEW n \in DOMAIN emb'.queue
            PROVE  \/ n \in DOMAIN emb.queue /\ emb'.queue[n] = emb.queue[n]
                   \/ emb'.queue[n] = emb.items
        BY <4>1, <1>0 DEF EmbedStages
      <4> QED BY <4>1, <4>2 DEF Upstream, Queued, InBatch
    <3> QED BY <2>3, <3>1, <3>2 DEF EnqueueBatch
  <2>4. CASE WriterDies
    BY <2>4, <1>0 DEF EmbedStages, WriterDies, Upstream, Queued, InBatch
  <2>5. ASSUME NEW b \in emb.batches, JoinBatch(b)
        PROVE  Queued(q)' \/ Upstream(q)'
           => Queued(q) \/ Upstream(q) \/ (QueryBacklog /\ q \in Wanted)
    <3>1. CASE UNCHANGED emb
      BY <3>1 DEF Upstream, Queued, InBatch
    <3>2. CASE emb' = [emb EXCEPT !.batches = @ \ {b}, !.items = b.items, !.errors = b.errors]
      BY <3>2, <1>0 DEF EmbedStages, Upstream, Queued, InBatch
    <3> QED BY <2>5, <3>1, <3>2 DEF JoinBatch
  <2>6. ASSUME NEW b \in emb.batches, PrepareDies(b)
        PROVE  Queued(q)' \/ Upstream(q)'
           => Queued(q) \/ Upstream(q) \/ (QueryBacklog /\ q \in Wanted)
    <3>1. PICK job \in b.jobs : Batched(b, [b EXCEPT !.jobs = @ \ {job}, !.lost = TRUE])
      BY <2>6 DEF PrepareDies
    <3> DEFINE c == [b EXCEPT !.jobs = @ \ {job}, !.lost = TRUE]
    <3>2. /\ emb'.batches = (emb.batches \ {b}) \cup {c} /\ emb'.items = emb.items
          /\ emb'.errors = emb.errors /\ emb'.backlog = emb.backlog /\ emb'.queue = emb.queue
      BY <3>1, <1>0 DEF EmbedStages, Batched
    <3>3. c.jobs \subseteq b.jobs /\ c.items = b.items /\ c.errors = b.errors
      BY <1>0 DEF EmbedStages, Batches
    <3> HIDE DEF c
    <3> QED BY <3>2, <3>3 DEF Upstream, Queued, InBatch
  <2>7. ASSUME NEW b \in emb.batches, NEW job \in b.jobs, PrepareAsset(b, job)
        PROVE  Queued(q)' \/ Upstream(q)'
           => Queued(q) \/ Upstream(q) \/ (QueryBacklog /\ q \in Wanted)
    <3>1. b \in Batches
      BY <1>0 DEF EmbedStages
    <3>2. PICK c \in Batches :
            /\ Batched(b, c) /\ c.jobs = b.jobs \ {job}
            /\ \/ c.errors = b.errors \cup {job.path} /\ c.items = b.items
               \/ \E item \in EmbedItems :
                    c.errors = b.errors /\ c.items = b.items \cup {item} /\ item.path = job.path
      BY <2>7, <3>1, PreparedIs
    <3>3. /\ emb'.batches = (emb.batches \ {b}) \cup {c} /\ emb'.items = emb.items
          /\ emb'.errors = emb.errors /\ emb'.backlog = emb.backlog /\ emb'.queue = emb.queue
      BY <3>2, <1>0 DEF EmbedStages, Batched
    <3>4. InBatch(c, q) => InBatch(b, q)
      BY <3>2 DEF InBatch
    <3> QED BY <3>3, <3>4 DEF Upstream, Queued
  <2> QED BY <1>4, <2>1, <2>2, <2>3, <2>4, <2>5, <2>6, <2>7 DEF HandStep
<1>5. CASE TurnStep
  BY <1>5 DEF Upstream, Queued, InBatch, Beside, TurnStep
<1>6. CASE TakeSnapshot
  BY <1>6 DEF Upstream, Queued, InBatch, Beside, TakeSnapshot
<1>7. CASE WalkStep
  BY <1>7 DEF Upstream, Queued, InBatch, Beside, WalkStep
<1>8. CASE AssetStep
  <2>1. ASSUME NEW p \in Paths, VisitGone(p), Beside
        PROVE  Queued(q)' \/ Upstream(q)'
           => Queued(q) \/ Upstream(q) \/ (QueryBacklog /\ q \in Wanted)
    BY <2>1 DEF Upstream, Queued, InBatch, Beside
  <2>2. ASSUME NEW p \in Paths, VisitFast(p), Beside
        PROVE  Queued(q)' \/ Upstream(q)'
           => Queued(q) \/ Upstream(q) \/ (QueryBacklog /\ q \in Wanted)
    BY <2>2 DEF Upstream, Queued, InBatch, Beside
  <2>3. ASSUME NEW r \in scan.results, TakeResult(r), Beside
        PROVE  Queued(q)' \/ Upstream(q)'
           => Queued(q) \/ Upstream(q) \/ (QueryBacklog /\ q \in Wanted)
    BY <2>3 DEF Upstream, Queued, InBatch, Beside
  <2>4. ASSUME FlushLast, Beside
        PROVE  Queued(q)' \/ Upstream(q)'
           => Queued(q) \/ Upstream(q) \/ (QueryBacklog /\ q \in Wanted)
    BY <2>4 DEF Upstream, Queued, InBatch, Beside
  <2>5. ASSUME MarkMissingStale, Beside
        PROVE  Queued(q)' \/ Upstream(q)'
           => Queued(q) \/ Upstream(q) \/ (QueryBacklog /\ q \in Wanted)
    BY <2>5 DEF Upstream, Queued, InBatch, Beside
  <2>6. ASSUME NEW p \in emb.errors, RecordPrepareError(p)
        PROVE  Queued(q)' \/ Upstream(q)'
           => Queued(q) \/ Upstream(q) \/ (QueryBacklog /\ q \in Wanted)
    BY <2>6, <1>0 DEF EmbedStages, RecordPrepareError, Upstream, Queued, InBatch
  <2>7. ASSUME NEW i \in emb.items, SingleFails(i)
        PROVE  Queued(q)' \/ Upstream(q)'
           => Queued(q) \/ Upstream(q) \/ (QueryBacklog /\ q \in Wanted)
    BY <2>7, <1>0 DEF EmbedStages, SingleFails, Upstream, Queued, InBatch
  <2> QED BY <1>8, <2>1, <2>2, <2>3, <2>4, <2>5, <2>6, <2>7 DEF AssetStep
<1>9. CASE WriteStep
  <2>1. CASE FlushBatch \/ \E i \in emb.items : SingleOk(i)
    <3>0. emb' = [emb EXCEPT !.items = {}] \/ \E i \in emb.items : emb' = [emb EXCEPT !.items = @ \ {i}]
      BY <2>1 DEF FlushBatch, SingleOk
    <3>1. /\ emb'.batches = emb.batches /\ emb'.backlog = emb.backlog
          /\ emb'.items \subseteq emb.items /\ emb'.errors = emb.errors /\ emb'.queue = emb.queue
      BY <3>0, <1>0 DEF EmbedStages
    <3> QED BY <3>1 DEF Upstream, Queued, InBatch
  <2>2. CASE WriterStep
    BY <2>2, <1>0 DEF EmbedStages, WriterStep, Upstream, Queued, InBatch
  <2> QED BY <1>9, <2>1, <2>2 DEF WriteStep
<1>10. CASE VecStep
  <2>1. CASE UNCHANGED emb
    BY <2>1 DEF Upstream, Queued, InBatch
  <2>2. ASSUME NEW k \in Kinds, ReuseVectors(k)
        PROVE  /\ emb'.batches = emb.batches /\ emb'.backlog = emb.backlog
               /\ emb'.items = emb.items /\ emb'.errors = emb.errors /\ emb'.queue = emb.queue
    BY <2>2, <1>0 DEF EmbedStages, ReuseVectors
  <2>3. CASE \E k \in Kinds : ReuseVectors(k)
    BY <2>2, <2>3 DEF Upstream, Queued, InBatch
  <2> QED BY <1>10, <2>1, <2>3 DEF VecStep, Beside
<1>11. CASE ImportStep
  BY <1>11 DEF Upstream, Queued, InBatch, Beside, ImportStep, ImportEmbedding
<1>12. CASE ViewStep
  BY <1>12 DEF Upstream, Queued, InBatch, Beside, ViewStep, AdvanceGeneration,
     DropOverview, CloseRun
<1> QED BY <1>1, <1>2, <1>3, <1>4, <1>5, <1>6, <1>7, <1>8, <1>9, <1>10, <1>11, <1>12 DEF BuildSteps

LEMMA HandStays ==
  ASSUME Assumptions, TypeInv, HandInv, BuildSteps
  PROVE  HandActive'
<1> SUFFICES ASSUME NEW p \in Paths, Queued(p)' \/ Upstream(p)' PROVE p \in Active'
  BY DEF HandActive
<1>1. Queued(p) \/ Upstream(p) \/ (QueryBacklog /\ p \in Wanted)
  BY HandFromHand
<1>2. CASE MarkMissingStale
  BY <1>2, <1>1 DEF MarkMissingStale, HandInv, ScanAlone, ScanPcs, Queued, Upstream,
    QueryBacklog
<1>3. CASE ~MarkMissingStale
  <2>1. p \in Active
    BY <1>1 DEF HandInv, HandActive, Wanted
  <2> QED BY <1>3, <2>1, ActiveGrows
<1> QED BY <1>2, <1>3

\* A scan begins and goes on with nothing in hand.
LEMMA ScanStaysAlone ==
  ASSUME Assumptions, TypeInv, HandInv, BuildSteps
  PROVE  ScanAlone'
<1>0. run \in Runs
  BY DEF TypeInv, RunOK
<1>1. CASE EditStep
  BY <1>1, <1>0 DEF HandInv, ScanAlone, Beside, Runs, EditStep, EditFile
<1>2. CASE BeginStep
  <2>1. ASSUME NEW stage \in SUBSET {"manifest", "embeddings"},
               NEW mode \in Modes \cup {"serial"}, NEW limit \in Nat,
               NEW kinds \in SUBSET Kinds, NEW async \in BOOLEAN,
               BeginRun(stage, mode, limit, kinds, async)
        PROVE  ScanAlone'
    BY <2>1 DEF NoEmbed, BeginRun, ScanAlone
  <2> QED BY <1>2, <2>1 DEF BeginStep
<1>3. CASE StopStep
  <2>1. CASE EndRun
    BY <2>1 DEF NoEmbed, EndRun, ScanAlone
  <2>2. CASE Unwound
    BY <2>2 DEF NoEmbed, Unwound, ScanAlone
  <2>3. CASE Killed
    BY <2>3 DEF NoEmbed, Killed, ScanAlone
  <2> QED BY <1>3, <2>1, <2>2, <2>3 DEF StopStep
<1>4. CASE HandStep
  <2>1. CASE QueryBacklog
    <3>1. run'.pc \notin ScanPcs
      BY <2>1, <1>0 DEF Runs, ScanPcs, Go, QueryBacklog
    <3> QED BY <3>1 DEF ScanAlone
  <2>2. CASE Submit
    <3>1. run'.pc \notin ScanPcs
      BY <2>2, <1>0 DEF Runs, ScanPcs, Submit
    <3> QED BY <3>1 DEF ScanAlone
  <2>3. CASE EnqueueBatch
    <3>1. run'.pc \notin ScanPcs
      BY <2>3, <1>0 DEF Runs, ScanPcs, Go, NextBatch, EnqueueBatch
    <3> QED BY <3>1 DEF ScanAlone
  <2>4. CASE WriterDies
    <3>1. run.pc \notin ScanPcs /\ run'.pc = run.pc
      BY <2>4, <1>0 DEF HandInv, ScanAlone, WriterDies
    <3> QED BY <3>1 DEF ScanAlone
  <2>5. ASSUME NEW b \in emb.batches, JoinBatch(b)
        PROVE  ScanAlone'
    <3>1. run'.pc \notin ScanPcs
      BY <2>5, <1>0 DEF Runs, ScanPcs, Go, JoinBatch
    <3> QED BY <3>1 DEF ScanAlone
  <2>6. ASSUME NEW b \in emb.batches, PrepareDies(b)
        PROVE  ScanAlone'
    <3>1. run.pc \notin ScanPcs /\ run'.pc = run.pc
      BY <2>6, <1>0 DEF HandInv, ScanAlone, PrepareDies
    <3> QED BY <3>1 DEF ScanAlone
  <2>7. ASSUME NEW b \in emb.batches, NEW job \in b.jobs, PrepareAsset(b, job)
        PROVE  ScanAlone'
    <3>1. run.pc \notin ScanPcs /\ run'.pc = run.pc
      BY <2>7, <1>0 DEF HandInv, ScanAlone, PrepareAsset
    <3> QED BY <3>1 DEF ScanAlone
  <2> QED BY <1>4, <2>1, <2>2, <2>3, <2>4, <2>5, <2>6, <2>7 DEF HandStep
<1>5. CASE TurnStep
  <2>1. emb' = emb /\ (run'.pc \notin ScanPcs \/ run.pc \in ScanPcs)
    BY <1>5, <1>0 DEF Runs, ScanPcs, Beside, TurnStep, Submitted, Go, ErrorsRecorded,
       NothingToFlush, SinglesDone, FinishEmbedding, BatchFails, RunFails, NextBatch
  <2> QED BY <2>1 DEF HandInv, ScanAlone
<1>6. CASE TakeSnapshot
  BY <1>6, <1>0 DEF HandInv, ScanAlone, Beside, Runs, TakeSnapshot
<1>7. CASE WalkStep
  BY <1>7, <1>0 DEF Runs, ScanPcs, Beside, WalkStep, Visit, SkipUnreadable, ReadFile, WorkerDies,
    EndWalk, ResultsMissing, HandInv, ScanAlone
<1>8. CASE AssetStep
  <2>1. ASSUME NEW p \in Paths, VisitGone(p), Beside
        PROVE  ScanAlone'
    BY <2>1, <1>0 DEF Runs, ScanPcs, Beside, VisitGone, HandInv, ScanAlone
  <2>2. ASSUME NEW p \in Paths, VisitFast(p), Beside
        PROVE  ScanAlone'
    BY <2>2, <1>0 DEF Runs, ScanPcs, Beside, VisitFast, Flush, Meet, Walking, HandInv,
      ScanAlone
  <2>3. ASSUME NEW r \in scan.results, TakeResult(r), Beside
        PROVE  ScanAlone'
    BY <2>3, <1>0 DEF Runs, ScanPcs, Beside, TakeResult, Flush, Meet, Walking, HandInv,
      ScanAlone
  <2>4. ASSUME FlushLast, Beside
        PROVE  ScanAlone'
    BY <2>4, <1>0 DEF Runs, ScanPcs, Beside, FlushLast, HandInv, ScanAlone
  <2>5. ASSUME MarkMissingStale, Beside
        PROVE  ScanAlone'
    BY <2>5, <1>0 DEF Runs, ScanPcs, Beside, MarkMissingStale, HandInv, ScanAlone
  <2>6. ASSUME NEW p \in emb.errors, RecordPrepareError(p)
        PROVE  ScanAlone'
    <3>1. run'.pc \notin ScanPcs
      BY <2>6, <1>0 DEF Runs, ScanPcs, RecordPrepareError
    <3> QED BY <3>1 DEF ScanAlone
  <2>7. ASSUME NEW i \in emb.items, SingleFails(i)
        PROVE  ScanAlone'
    <3>1. run'.pc \notin ScanPcs
      BY <2>7, <1>0 DEF Runs, ScanPcs, SingleFails
    <3> QED BY <3>1 DEF ScanAlone
  <2> QED BY <1>8, <2>1, <2>2, <2>3, <2>4, <2>5, <2>6, <2>7 DEF AssetStep
<1>9. CASE WriteStep
  <2>1. PICK items \in SUBSET EmbedItems, pc \in RunPcs :
          /\ run' = [run EXCEPT !.pc = pc, !.filled = @ \/ FilledRows(items) # {}]
          /\ pc \notin ScanPcs \/ pc = run.pc
    BY <1>9, WriteStepIs
  <2>2. run'.pc = pc
    BY <2>1, <1>0 DEF Runs
  <2>3. emb.queue # <<>> \/ emb.items # {}
    BY <1>9 DEF WriteStep, FlushBatch, WriterStep, SingleOk
  <2>4. run.pc \notin ScanPcs
    BY <2>3 DEF HandInv, ScanAlone
  <2> QED BY <2>1, <2>2, <2>4 DEF ScanAlone
<1>10. CASE VecStep
  <2>1. ASSUME NEW p \in Paths, DropFeatures(p), Beside
        PROVE  ScanAlone'
    BY <2>1, <1>0 DEF HandInv, ScanAlone, Beside, Runs, DropFeatures
  <2>2. ASSUME NEW k \in Kinds, ReuseVectors(k)
        PROVE  ScanAlone'
    <3>1. run'.pc = "reuse"
      BY <2>2 DEF ReuseVectors
    <3> QED BY <3>1 DEF ScanAlone, ScanPcs
  <2> QED BY <1>10, <2>1, <2>2 DEF VecStep
<1>11. CASE ImportStep
  BY <1>11, <1>0 DEF HandInv, ScanAlone, Beside, Runs, ImportStep, ImportEmbedding
<1>12. CASE ViewStep
  BY <1>12, <1>0 DEF Runs, ScanPcs, Beside, ViewStep, Regroup, AdvanceGeneration,
    DropOverview, CloseRun, AfterManifest, Go, HandInv, ScanAlone
<1> QED BY <1>1, <1>2, <1>3, <1>4, <1>5, <1>6, <1>7, <1>8, <1>9, <1>10, <1>11, <1>12 DEF BuildSteps

LEMMA StopForgets ==
  ASSUME StopStep
  PROVE  asset' = asset /\ scan'.erring = {}
<1>1. CASE EndRun
  <2>1. scan' = [NoScan EXCEPT !.hit = scan.hit, !.unread = scan.unread \ Active]
    BY <1>1 DEF EndRun
  <2>2. scan'.erring = {}
    BY <2>1 DEF NoScan
  <2> QED BY <1>1, <2>2 DEF EndRun
<1>2. CASE Unwound \/ Killed
  BY <1>2 DEF Unwound, Killed, NoScan, manifest
<1> QED BY <1>1, <1>2 DEF StopStep

\* Errors are recorded one by one.
LEMMA OneErring ==
  ASSUME Assumptions, TypeInv, HandInv, BuildSteps
  PROVE  scan'.erring = {} \/ \E q \in Paths : scan'.erring = {q}
<1>0. scan \in ScanStages
  BY DEF TypeInv, ScanOK
<1>1. CASE EditStep
  BY <1>1, <1>0 DEF HandInv, ScanStages, EditStep, EditFile
<1>2. CASE BeginStep
  BY <1>2 DEF BeginStep, BeginRun, NoScan
<1>3. CASE StopStep
  BY <1>3, StopForgets
<1>4. CASE HandStep
  BY <1>4 DEF HandInv, HandStep, QueryBacklog, Submit, EnqueueBatch, WriterDies,
     JoinBatch, PrepareDies, PrepareAsset
<1>5. CASE TurnStep
  BY <1>5 DEF HandInv, Beside, TurnStep
<1>6. CASE TakeSnapshot
  BY <1>6 DEF HandInv, Beside, TakeSnapshot
<1>7. CASE WalkStep
  BY <1>7, <1>0 DEF HandInv, ScanStages, WalkStep, Visit, SkipUnreadable, ReadFile, WorkerDies, EndWalk,
     ResultsMissing
<1>8. CASE AssetStep
  <2>1. ASSUME NEW p \in Paths, VisitGone(p), Beside
        PROVE  scan'.erring = {} \/ \E q \in Paths : scan'.erring = {q}
    BY <2>1, <1>0 DEF HandInv, ScanStages, VisitGone
  <2>2. ASSUME NEW p \in Paths, VisitFast(p), Beside
        PROVE  scan'.erring = {} \/ \E q \in Paths : scan'.erring = {q}
    BY <2>2, <1>0 DEF HandInv, ScanStages, VisitFast
  <2>3. ASSUME NEW r \in scan.results, TakeResult(r), Beside
        PROVE  scan'.erring = {} \/ \E q \in Paths : scan'.erring = {q}
    BY <1>0, <2>3 DEF ScanStages, Results, TakeResult, HandInv
  <2>4. ASSUME FlushLast, Beside
        PROVE  scan'.erring = {} \/ \E q \in Paths : scan'.erring = {q}
    BY <2>4, <1>0 DEF HandInv, ScanStages, FlushLast
  <2>5. ASSUME MarkMissingStale, Beside
        PROVE  scan'.erring = {} \/ \E q \in Paths : scan'.erring = {q}
    BY <2>5, <1>0 DEF HandInv, ScanStages, MarkMissingStale
  <2>6. ASSUME NEW p \in emb.errors, RecordPrepareError(p)
        PROVE  scan'.erring = {} \/ \E q \in Paths : scan'.erring = {q}
    BY <2>6, <1>0 DEF TypeInv, EmbOK, EmbedStages, RecordPrepareError, ScanStages
  <2>7. ASSUME NEW i \in emb.items, SingleFails(i)
        PROVE  scan'.erring = {} \/ \E q \in Paths : scan'.erring = {q}
    BY <2>7, <1>0 DEF TypeInv, EmbOK, EmbedStages, EmbedItems, SingleFails, ScanStages
  <2> QED BY <1>8, <2>1, <2>2, <2>3, <2>4, <2>5, <2>6, <2>7 DEF AssetStep
<1>9. CASE WriteStep
  BY <1>9 DEF HandInv, WriteStep, FlushBatch, WriterStep, SingleOk
<1>10. CASE VecStep
  BY <1>10, <1>0 DEF HandInv, ScanStages, VecStep, DropFeatures, ReuseVectors
<1>11. CASE ImportStep
  BY <1>11 DEF HandInv, Beside, ImportStep, ImportEmbedding
<1>12. CASE ViewStep
  BY <1>12 DEF HandInv, Beside, ViewStep, Regroup, AdvanceGeneration, DropOverview, CloseRun
<1> QED BY <1>1, <1>2, <1>3, <1>4, <1>5, <1>6, <1>7, <1>8, <1>9, <1>10, <1>11, <1>12 DEF BuildSteps

LEMMA HandKept ==
  ASSUME Assumptions, TypeInv, HandInv, BuildSteps
  PROVE  HandInv'
BY HandStays, ScanStaysAlone, OneErring DEF HandInv

LEMMA Assumed == Assumptions
BY ScanAssumption, RowAssumption, BuildAssumption DEF Assumptions

LEMMA TypeInit ==
  ASSUME BuildInit
  PROVE  TypeInv /\ HandInv
<1>0. Assumptions
  BY Assumed
<1>1. DiskOK
  BY <1>0 DEF BuildInit, ScanInit, DiskOK, Files, Stamps, Assumptions, ScanAssumption
<1>2. AssetOK /\ GroupsOK /\ ViewOK
  BY DEF BuildInit, ScanInit, AssetOK, GroupsOK, ViewOK
<1>3. VecOK
  BY DEF BuildInit, ScanInit, VecOK, Typed, RowidsDiffer, NoVector
<1>4. RunOK
  BY DEF BuildInit, NoRun, RunOK, Runs, RunPcs, ScanPcs
<1>5. ScanOK
  BY DEF BuildInit, NoScan, ScanOK, ScanStages
<1>6. EmbOK
  BY <1>0, NoEmbedIs DEF BuildInit, EmbOK
<1>7. HandInv
  BY DEF BuildInit, NoEmbed, NoScan, HandInv, HandActive, ScanAlone, Queued, Upstream
<1> QED BY <1>1, <1>2, <1>3, <1>4, <1>5, <1>6, <1>7 DEF TypeInv

\* The step as the actions see it.
LEMMA TypeNext ==
  ASSUME TypeInv, HandInv, [BuildNext]_buildVars
  PROVE  TypeInv' /\ HandInv'
<1>1. CASE BuildNext
  <2>1. BuildSteps
    BY <1>1, Assumed, StepsOfBuild DEF TypeInv
  <2> QED BY <2>1, Assumed, TypeStep, HandKept
<1>2. CASE UNCHANGED buildVars
  BY <1>2 DEF buildVars, scanVars, manifest, TypeInv, DiskOK, AssetOK, VecOK, GroupsOK, ViewOK,
              RunOK, ScanOK, EmbOK, Typed, RowidsDiffer, HandInv, HandActive, ScanAlone, Queued,
              Upstream, InBatch, Active
<1> QED BY <1>1, <1>2

\* The types of everything a build touches, and what the embedding stage has
\* in hand (prepare_embedding_asset, flush_index_batch, the writer's queue):
\* it belongs to rows in use, and no scan runs meanwhile.
THEOREM BuildInvariant == BuildSpec => [](TypeInv /\ HandInv)
<1>1. BuildInit => TypeInv /\ HandInv
  BY TypeInit
<1>2. (TypeInv /\ HandInv) /\ [BuildNext]_buildVars => (TypeInv /\ HandInv)'
  BY TypeNext
<1> QED BY <1>1, <1>2, PTL DEF BuildSpec

\* The manifest is well formed, whatever is killed or fails: rows and vectors
\* have their types, no two vectors share a rowid, groups contain their own
\* path, and the channel to the writer and the batches prepared ahead keep
\* their bounds.
THEOREM IndexTypeCorrect == BuildSpec => []IndexTypeOK
<1>1. TypeInv => IndexTypeOK
  <2> SUFFICES ASSUME TypeInv PROVE IndexTypeOK
    OBVIOUS
  <2>1. \A p \in Paths, k \in Kinds : vec[p][k] \in Vectors \cup {NoRow}
    BY DEF TypeInv, VecOK, Typed
  <2>2. \A p, q \in Paths, k, l \in Kinds :
           vec[p][k] # NoRow /\ vec[q][l] # NoRow /\ vec[p][k].row = vec[q][l].row
             => p = q /\ k = l
    BY DEF TypeInv, VecOK, RowidsDiffer
  <2> QED BY <2>1, <2>2 DEF IndexTypeOK, TypeInv, DiskOK, AssetOK, GroupsOK, ViewOK, RunOK, Runs, EmbOK
<1> QED BY <1>1, BuildInvariant, PTL

----------------------------------------------------------------------------
(***************************************************************************)
(* Scans.                                                                  *)
(***************************************************************************)

\* A walk that came to the end of the roots has met whatever was there all
\* the time.
MetInv ==
  run.pc = "stale" \/ (run.pc = "drain" /\ ~scan.hit) => ToMeet \subseteq scan.seen

LEMMA MetKept ==
  ASSUME Assumptions, TypeInv, HandInv, MetInv, BuildSteps
  PROVE  MetInv'
<1>0. run \in Runs /\ scan \in ScanStages
  BY DEF TypeInv, RunOK, ScanOK
<1> USE DEF ToMeet
<1>1. CASE EditStep
  BY <1>1, <1>0 DEF EditStep, EditFile, MetInv, Runs, ScanStages
<1>2. CASE BeginStep
  <2>1. run'.pc \notin {"drain", "stale"}
    BY <1>2, <1>0 DEF Runs, BeginStep, BeginRun, NoRun
  <2> QED BY <2>1 DEF MetInv
<1>3. CASE StopStep
  <2>1. run'.pc \notin {"drain", "stale"}
    BY <1>3, <1>0 DEF Runs, StopStep, EndRun, Unwound, Killed, NoRun
  <2> QED BY <2>1 DEF MetInv
<1>4. CASE HandStep
  <2>1. CASE QueryBacklog
    BY <2>1, <1>0 DEF Runs, ScanStages, Beside, QueryBacklog, Go, MetInv
  <2>2. CASE Submit
    BY <2>2, <1>0 DEF Runs, ScanStages, Beside, Submit, MetInv
  <2>3. CASE EnqueueBatch
    BY <2>3, <1>0 DEF Runs, ScanStages, Beside, EnqueueBatch, Go, NextBatch, MetInv
  <2>4. CASE WriterDies
    BY <2>4, <1>0 DEF Runs, ScanStages, Beside, WriterDies, MetInv
  <2>5. ASSUME NEW b \in emb.batches, JoinBatch(b)
        PROVE  MetInv'
    <3>1. /\ scan'.must = scan.must /\ scan'.unread = scan.unread /\ scan'.seen = scan.seen /\ scan'.hit = scan.hit
          /\ run'.pc = run.pc \/ run'.pc \notin {"drain", "stale"}
      BY <2>5, <1>0 DEF Runs, ScanStages, Beside, JoinBatch, Go
    <3> QED BY <3>1 DEF MetInv
  <2>6. ASSUME NEW b \in emb.batches, PrepareDies(b)
        PROVE  MetInv'
    BY <2>6, <1>0 DEF Runs, ScanStages, Beside, PrepareDies, MetInv
  <2>7. ASSUME NEW b \in emb.batches, NEW job \in b.jobs, PrepareAsset(b, job)
        PROVE  MetInv'
    BY <2>7, <1>0 DEF Runs, ScanStages, Beside, PrepareAsset, MetInv
  <2> QED BY <1>4, <2>1, <2>2, <2>3, <2>4, <2>5, <2>6, <2>7 DEF HandStep
<1>5. CASE TurnStep
  <2>1. /\ scan'.must = scan.must /\ scan'.unread = scan.unread /\ scan'.seen = scan.seen /\ scan'.hit = scan.hit
        /\ run'.pc = run.pc \/ run'.pc \notin {"drain", "stale"}
    BY <1>5, <1>0 DEF Runs, ScanStages, Beside, TurnStep, Submitted, Go, ErrorsRecorded,
       NothingToFlush, SinglesDone, FinishEmbedding, BatchFails, RunFails, NextBatch
  <2> QED BY <2>1 DEF MetInv
<1>6. CASE TakeSnapshot
  BY <1>6, <1>0 DEF Runs, ScanStages, Beside, TakeSnapshot, MetInv
<1>7. CASE WalkStep
  <2>1. ASSUME NEW p \in Paths, Visit(p), Beside
        PROVE  MetInv'
    <3>1. run'.pc \notin {"drain", "stale"}
      BY <2>1, <1>0 DEF Runs, Visit, Meet, Walking
    <3> QED BY <3>1 DEF MetInv
  <2>2. ASSUME NEW j \in scan.jobs, ReadFile(j), Beside
        PROVE  MetInv'
    BY <2>2, <1>0 DEF Runs, ScanStages, Beside, ReadFile, MetInv
  <2>3. ASSUME WorkerDies, Beside
        PROVE  MetInv'
    BY <2>3, <1>0 DEF Runs, ScanStages, Beside, WorkerDies, MetInv
  <2>4. ASSUME EndWalk, Beside
        PROVE  MetInv'
    <3>1. /\ run'.pc = "drain" /\ scan'.must = scan.must /\ scan'.unread = scan.unread /\ scan'.seen = scan.seen
          /\ scan'.hit \/ ToMeet \subseteq scan.seen
      <4>1. run'.pc = "drain"
        BY <2>4, <1>0 DEF EndWalk, Runs
      <4>2. CASE \E hit \in LimitHit : scan' = [scan EXCEPT !.hit = hit]
        <5>1. PICK hit \in LimitHit : scan' = [scan EXCEPT !.hit = hit]
          BY <4>2
        <5>2. scan'.hit = hit /\ scan'.must = scan.must /\ scan'.unread = scan.unread /\ scan'.unread = scan.unread /\ scan'.seen = scan.seen
          BY <5>1, <1>0 DEF ScanStages
        <5>3. hit \/ ToMeet \subseteq scan.seen
          BY <5>1 DEF LimitHit, MoreImages
        <5> QED BY <4>1, <5>2, <5>3
      <4>3. CASE ToMeet \subseteq scan.seen /\ UNCHANGED scan
        BY <4>1, <4>3
      <4> QED BY <2>4, <4>1, <4>2, <4>3 DEF EndWalk
    <3> QED BY <3>1 DEF MetInv
  <2>5. ASSUME ResultsMissing, Beside
        PROVE  MetInv'
    <3>1. run'.pc \notin {"drain", "stale"}
      BY <2>5, <1>0 DEF Runs, ResultsMissing
    <3> QED BY <3>1 DEF MetInv
  <2>6. ASSUME NEW p \in Paths, SkipUnreadable(p), Beside
        PROVE  MetInv'
    <3>1. run'.pc \notin {"drain", "stale"}
      BY <2>6 DEF SkipUnreadable
    <3> QED BY <3>1 DEF MetInv
  <2> QED BY <1>7, <2>1, <2>2, <2>3, <2>4, <2>5, <2>6 DEF WalkStep
<1>8. CASE AssetStep
  <2>1. ASSUME NEW p \in Paths, VisitGone(p), Beside
        PROVE  MetInv'
    <3>1. run'.pc \notin {"drain", "stale"}
      BY <2>1, <1>0 DEF Runs, VisitGone, Meet, Walking
    <3> QED BY <3>1 DEF MetInv
  <2>2. ASSUME NEW p \in Paths, VisitFast(p), Beside
        PROVE  MetInv'
    <3>1. run'.pc \notin {"drain", "stale"}
      BY <2>2, <1>0 DEF Runs, VisitFast, Meet, Walking, Flush
    <3> QED BY <3>1 DEF MetInv
  <2>3. ASSUME NEW r \in scan.results, TakeResult(r), Beside
        PROVE  MetInv'
    <3>1. run'.pc = run.pc
      BY <2>3, <1>0 DEF TakeResult, Flush, Runs
    <3>2. \E pending \in {{}, scan.pending \cup {r}}, erring \in {scan.erring, {r.path}} :
            \/ scan' = [scan EXCEPT !.results = @ \ {r}, !.pending = pending]
            \/ scan' = [scan EXCEPT !.results = @ \ {r}, !.erring = erring]
      BY <2>3 DEF TakeResult
    <3>3. scan'.must = scan.must /\ scan'.unread = scan.unread /\ scan'.seen = scan.seen /\ scan'.hit = scan.hit
      BY <3>2, <1>0 DEF ScanStages
    <3> QED BY <3>1, <3>3 DEF MetInv
  <2>4. ASSUME FlushLast, Beside
        PROVE  MetInv'
    BY <2>4, <1>0 DEF FlushLast, MetInv, Runs, ScanStages
  <2>5. ASSUME MarkMissingStale, Beside
        PROVE  MetInv'
    <3>1. run'.pc \notin {"drain", "stale"}
      BY <2>5, <1>0 DEF Runs, MarkMissingStale
    <3> QED BY <3>1 DEF MetInv
  <2>6. ASSUME NEW p \in emb.errors, RecordPrepareError(p)
        PROVE  MetInv'
    BY <2>6, <1>0 DEF Runs, ScanStages, Beside, RecordPrepareError, MetInv
  <2>7. ASSUME NEW i \in emb.items, SingleFails(i)
        PROVE  MetInv'
    BY <2>7, <1>0 DEF Runs, ScanStages, Beside, SingleFails, MetInv
  <2> QED BY <1>8, <2>1, <2>2, <2>3, <2>4, <2>5, <2>6, <2>7 DEF AssetStep
<1>9. CASE WriteStep
  <2>1. PICK items \in SUBSET EmbedItems, pc \in RunPcs :
          /\ run' = [run EXCEPT !.pc = pc, !.filled = @ \/ FilledRows(items) # {}]
          /\ pc \notin ScanPcs \/ pc = run.pc
          /\ scan' = scan
    BY <1>9, WriteStepIs
  <2>2. run'.pc = pc
    BY <2>1, <1>0 DEF Runs
  <2> QED BY <2>1, <2>2 DEF MetInv, ScanPcs
<1>10. CASE VecStep
  <2>1. ASSUME NEW p \in Paths, DropFeatures(p), Beside
        PROVE  MetInv'
    BY <2>1, <1>0 DEF Runs, ScanStages, Beside, DropFeatures, MetInv
  <2>2. ASSUME NEW k \in Kinds, ReuseVectors(k)
        PROVE  MetInv'
    BY <2>2, <1>0 DEF Runs, ScanStages, Beside, ReuseVectors, MetInv
  <2> QED BY <1>10, <2>1, <2>2 DEF VecStep
<1>11. CASE ImportStep
  BY <1>11, <1>0 DEF Runs, ScanStages, Beside, ImportStep, ImportEmbedding, MetInv
<1>12. CASE ViewStep
  <2>1. /\ scan'.must = scan.must /\ scan'.unread = scan.unread /\ scan'.seen = scan.seen /\ scan'.hit = scan.hit
        /\ run'.pc = run.pc \/ run'.pc \notin {"drain", "stale"}
    BY <1>12, <1>0 DEF Runs, ScanStages, Beside, ViewStep, Regroup, AdvanceGeneration,
       DropOverview, CloseRun, AfterManifest, Go
  <2> QED BY <2>1 DEF MetInv
<1> QED BY <1>1, <1>2, <1>3, <1>4, <1>5, <1>6, <1>7, <1>8, <1>9, <1>10, <1>11, <1>12 DEF BuildSteps

\* mark_missing_stale takes no file out of use that the walk has met, or that
\* it did not reach because of max_files: it runs only after a walk to the end
\* of the roots, whichever files changed, and whichever workers died, in the
\* meantime.
THEOREM OnlyMissingFilesGoStale == BuildSpec => OnlyMissingGoStale
<1>1. BuildInit => MetInv
  BY DEF BuildInit, NoRun, MetInv
<1>2. TypeInv /\ HandInv /\ MetInv /\ [BuildNext]_buildVars => MetInv'
  <2>1. ASSUME TypeInv, HandInv, MetInv, BuildNext PROVE MetInv'
    BY <2>1, Assumed, StepsOfBuild, MetKept DEF TypeInv
  <2>2. CASE UNCHANGED buildVars
    BY <2>2 DEF buildVars, scanVars, MetInv, ToMeet
  <2> QED BY <2>1, <2>2
<1>3. TypeInv /\ HandInv /\ MetInv /\ [BuildNext]_buildVars
        => [run.pc = "stale" => \A p \in Active \ Active' : p \notin ToMeet]_buildVars
  <2> SUFFICES ASSUME TypeInv, HandInv, MetInv, BuildNext, run.pc = "stale",
                      NEW p \in Active \ Active'
               PROVE  p \notin ToMeet
    OBVIOUS
  <2>1. MarkMissingStale
    BY Assumed, StepsOfBuild, ActiveGrows DEF TypeInv
  <2>2. p \in Missing
    <3>1. asset[p] = asset'[p] \/ p \in Missing
      BY <2>1 DEF MarkMissingStale, Active
    <3> QED BY <3>1 DEF Active
  <2> QED BY <2>2 DEF Missing, MetInv
<1> QED BY <1>1, <1>2, <1>3, BuildInvariant, PTL DEF BuildSpec, OnlyMissingGoStale

----------------------------------------------------------------------------
(***************************************************************************)
(* Groups of equal images.                                                 *)
(***************************************************************************)

\* Nothing has changed the hashes since the groups were last refreshed, or
\* this build says so.
GroupsDue ==
  /\ ~run.cut /\ ~run.filled /\ run.pc # "unwind"
  /\ run.pc \in ScanPcs \ {"idle"} => ~run.touched

GroupInv == GroupsDue => groups = GroupsNow

\* The groups depend on the rows in use and their hashes alone.
LEMMA GroupsKept ==
  ASSUME GroupInv, groups' = groups, GroupsDue' => GroupsDue,
         \A p \in Paths : /\ p \in Active' <=> p \in Active
                          /\ p \in Active => asset'[p].sha = asset[p].sha
  PROVE  GroupInv'
<1>1. Active' = Active
  BY DEF Active
<1>2. \A p \in Paths : GroupsNow'[p] = GroupsNow[p]
  BY <1>1 DEF GroupsNow, Active
<1>3. GroupsNow' = GroupsNow
  BY <1>2 DEF GroupsNow
<1> QED BY <1>3 DEF GroupInv

LEMMA GroupsSame ==
  ASSUME GroupInv, groups' = groups, GroupsDue' => GroupsDue, asset' = asset
  PROVE  GroupInv'
BY DEF GroupInv, GroupsNow, Active

LEMMA GroupStep ==
  ASSUME Assumptions, TypeInv, HandInv, GroupInv, BuildSteps
  PROVE  GroupInv'
<1>0. run \in Runs
  BY DEF TypeInv, RunOK
<1>1. CASE EditStep
  BY <1>1, <1>0, GroupsSame DEF Beside, manifest, EditStep, EditFile, GroupsDue, Runs,
    RunPcs, EmbedPcs, ScanPcs
<1>2. CASE BeginStep
  <2>1. ASSUME NEW stage \in SUBSET {"manifest", "embeddings"},
               NEW mode \in Modes \cup {"serial"}, NEW limit \in Nat,
               NEW kinds \in SUBSET Kinds, NEW async \in BOOLEAN,
               BeginRun(stage, mode, limit, kinds, async)
        PROVE  GroupInv'
    BY <2>1, <1>0, GroupsSame DEF Beside, manifest, BeginRun, NoRun, Idle, GroupsDue,
      Runs, RunPcs, EmbedPcs, ScanPcs
  <2> QED BY <1>2, <2>1 DEF BeginStep
<1>3. CASE StopStep
  <2>1. CASE EndRun
    BY <2>1, <1>0, GroupsSame DEF Beside, manifest, EndRun, GroupsDue, Runs, RunPcs,
      EmbedPcs, ScanPcs
  <2>2. CASE Unwound
    <3>1. ~GroupsDue'
      BY <2>2, <1>0 DEF GroupsDue, Runs, Unwound, NoRun
    <3> QED BY <3>1 DEF GroupInv
  <2>3. CASE Killed
    <3>1. ~GroupsDue'
      BY <2>3, <1>0 DEF GroupsDue, Runs, Killed, NoRun
    <3> QED BY <3>1 DEF GroupInv
  <2> QED BY <1>3, <2>1, <2>2, <2>3 DEF StopStep
<1>4. CASE HandStep
  <2>1. CASE QueryBacklog
    BY <2>1, <1>0, GroupsSame DEF Beside, manifest, QueryBacklog, Go, GroupsDue, Runs,
      RunPcs, EmbedPcs, ScanPcs
  <2>2. CASE Submit
    BY <2>2, <1>0, GroupsSame DEF Beside, manifest, Submit, GroupsDue, Runs, RunPcs,
      EmbedPcs, ScanPcs
  <2>3. CASE EnqueueBatch
    BY <2>3, <1>0, GroupsSame DEF Beside, manifest, EnqueueBatch, Go, NextBatch,
      GroupsDue, Runs, RunPcs, EmbedPcs, ScanPcs
  <2>4. CASE WriterDies
    BY <2>4, <1>0, GroupsSame DEF Beside, manifest, WriterDies, GroupsDue, Runs, RunPcs,
      EmbedPcs, ScanPcs
  <2>5. ASSUME NEW b \in emb.batches, JoinBatch(b)
        PROVE  GroupInv'
    BY <2>5, <1>0, GroupsSame DEF Beside, manifest, JoinBatch, Go, GroupsDue, Runs,
      RunPcs, EmbedPcs, ScanPcs
  <2>6. ASSUME NEW b \in emb.batches, PrepareDies(b)
        PROVE  GroupInv'
    BY <2>6, <1>0, GroupsSame DEF Beside, manifest, PrepareDies, GroupsDue, Runs,
      RunPcs, EmbedPcs, ScanPcs
  <2>7. ASSUME NEW b \in emb.batches, NEW job \in b.jobs, PrepareAsset(b, job)
        PROVE  GroupInv'
    BY <2>7, <1>0, GroupsSame DEF Beside, manifest, PrepareAsset, GroupsDue, Runs,
      RunPcs, EmbedPcs, ScanPcs
  <2> QED BY <1>4, <2>1, <2>2, <2>3, <2>4, <2>5, <2>6, <2>7 DEF HandStep
<1>5. CASE TurnStep
  <2>1. asset' = asset /\ groups' = groups
    BY <1>5 DEF manifest, TurnStep
  <2>2. GroupsDue' => GroupsDue
    <3>1. CASE RunFails
      BY <3>1, <1>0 DEF GroupsDue, Runs, RunFails, Go
    <3>2. CASE ~RunFails
      BY <1>5, <3>2, <1>0 DEF GroupsDue, Runs, ScanPcs, TurnStep, Submitted, ErrorsRecorded,
         NothingToFlush, SinglesDone, FinishEmbedding, BatchFails, Go, NextBatch
    <3> QED BY <3>1, <3>2
  <2> QED BY <2>1, <2>2, GroupsSame
<1>6. CASE TakeSnapshot
  BY <1>6, <1>0, GroupsSame DEF Beside, manifest, TakeSnapshot, GroupsDue, Runs, RunPcs,
    EmbedPcs, ScanPcs
<1>7. CASE WalkStep
  <2>1. ASSUME NEW p \in Paths, Visit(p), Beside
        PROVE  GroupInv'
    BY <2>1, <1>0, GroupsSame DEF Beside, manifest, Visit, GroupsDue, Runs, RunPcs,
      EmbedPcs, ScanPcs
  <2>2. ASSUME NEW j \in scan.jobs, ReadFile(j), Beside
        PROVE  GroupInv'
    BY <2>2, <1>0, GroupsSame DEF Beside, manifest, ReadFile, GroupsDue, Runs, RunPcs,
      EmbedPcs, ScanPcs
  <2>3. ASSUME WorkerDies, Beside
        PROVE  GroupInv'
    BY <2>3, <1>0, GroupsSame DEF Beside, manifest, WorkerDies, GroupsDue, Runs, RunPcs,
      EmbedPcs, ScanPcs
  <2>4. ASSUME EndWalk, Beside
        PROVE  GroupInv'
    BY <2>4, <1>0, GroupsSame DEF Beside, manifest, EndWalk, GroupsDue, Runs, RunPcs,
      EmbedPcs, ScanPcs
  <2>5. ASSUME ResultsMissing, Beside
        PROVE  GroupInv'
    <3>1. ~GroupsDue'
      BY <2>5, <1>0 DEF GroupsDue, Runs, ResultsMissing
    <3> QED BY <3>1 DEF GroupInv
  <2>6. ASSUME NEW p \in Paths, SkipUnreadable(p), Beside
        PROVE  GroupInv'
    BY <2>6, <1>0, GroupsSame DEF Beside, manifest, SkipUnreadable, GroupsDue, Runs, RunPcs,
      EmbedPcs, ScanPcs
  <2> QED BY <1>7, <2>1, <2>2, <2>3, <2>4, <2>5, <2>6 DEF WalkStep
<1>8. CASE AssetStep
  <2>1. ASSUME NEW p \in Paths, VisitGone(p), Beside
        PROVE  GroupInv'
    <3>1. ~GroupsDue'
      BY <2>1, <1>0 DEF GroupsDue, Runs, VisitGone, Meet, Walking, ScanPcs
    <3> QED BY <3>1 DEF GroupInv
  <2>2. ASSUME NEW p \in Paths, VisitFast(p), Beside
        PROVE  GroupInv'
    <3>1. PICK items \in SUBSET PendingItems :
            /\ asset' = Written(items) /\ groups' = groups /\ run'.touched = (run.touched \/ items # {})
            /\ run'.cut = run.cut /\ run'.filled = run.filled
            /\ run.pc \in ScanPcs \ {"idle"} /\ run'.pc \in ScanPcs \ {"idle"}
      <4>1. PICK items \in SUBSET PendingItems : Flush(items)
        <5> DEFINE item == [path |-> p, stamp |-> disk[p].stamp, content |-> Unknown]
                   pending == scan.pending \cup IF FastUnchanged(p) THEN {} ELSE {item}
                   full == (Cardinality(scan.seen) + 1) % BatchSize = 0
        <5>1. pending \in SUBSET PendingItems
          BY DEF TypeInv, ScanOK, ScanStages, DiskOK, Files, PendingItems
        <5>2. Flush(IF full THEN pending ELSE {})
          BY <2>2 DEF VisitFast
        <5> HIDE DEF pending, full
        <5> QED BY <5>1, <5>2
      <4>2. (run.touched \/ items # {}) \in BOOLEAN
        BY <1>0 DEF Runs
      <4>3. run' = [run EXCEPT !.touched = run.touched \/ items # {}]
        BY <4>1 DEF Flush
      <4>4. /\ run'.touched = (run.touched \/ items # {}) /\ run'.pc = run.pc
            /\ run'.cut = run.cut /\ run'.filled = run.filled
        BY <4>2, <4>3, <1>0 DEF Runs
      <4>5. asset' = Written(items) /\ groups' = groups /\ run.pc \in ScanPcs \ {"idle"}
        BY <4>1, <2>2 DEF Flush, ScanPcs, VisitFast, Meet, Walking
      <4> QED BY <4>4, <4>5
    <3>2. CASE items = {}
      BY <3>1, <3>2, WrittenIs, <1>0, GroupsSame DEF TypeInv, GroupsDue, Runs, ScanPcs
    <3>3. CASE items # {}
      <4>1. ~GroupsDue'
        BY <3>1, <3>3 DEF GroupsDue
      <4> QED BY <4>1 DEF GroupInv
    <3> QED BY <3>2, <3>3
  <2>3. ASSUME NEW r \in scan.results, TakeResult(r), Beside
        PROVE  GroupInv'
    <3>0. r \in Results
      BY DEF TypeInv, ScanOK, ScanStages
    <3>1. CASE r.content \notin Goods
      <4>1. ~GroupsDue'
        BY <2>3, <3>1, <1>0 DEF TakeResult, GroupsDue, Runs, ScanPcs
      <4> QED BY <4>1 DEF GroupInv
    <3>2. CASE r.content \in Goods
      <4>1. PICK items \in SUBSET PendingItems :
              /\ asset' = Written(items) /\ groups' = groups /\ run'.touched = (run.touched \/ items # {})
              /\ run'.cut = run.cut /\ run'.filled = run.filled
              /\ run.pc \in ScanPcs \ {"idle"} /\ run'.pc \in ScanPcs \ {"idle"}
        <5>1. PICK items \in SUBSET PendingItems : Flush(items)
          BY <3>0, <3>2, <2>3 DEF TypeInv, ScanOK, ScanStages, Results, PendingItems,
            TakeResult
        <5>2. (run.touched \/ items # {}) \in BOOLEAN
          BY <1>0 DEF Runs
        <5>3. run' = [run EXCEPT !.touched = run.touched \/ items # {}]
          BY <5>1 DEF Flush
        <5>4. /\ run'.touched = (run.touched \/ items # {}) /\ run'.pc = run.pc
              /\ run'.cut = run.cut /\ run'.filled = run.filled
          BY <5>2, <5>3, <1>0 DEF Runs
        <5>5. asset' = Written(items) /\ groups' = groups /\ run.pc \in ScanPcs \ {"idle"}
          BY <5>1, <2>3 DEF Flush, ScanPcs, TakeResult
        <5> QED BY <5>4, <5>5
      <4>2. CASE items = {}
        BY <4>1, <4>2, WrittenIs, <1>0, GroupsSame DEF TypeInv, GroupsDue, Runs, ScanPcs
      <4>3. CASE items # {}
        <5>1. ~GroupsDue'
          BY <4>1, <4>3 DEF GroupsDue
        <5> QED BY <5>1 DEF GroupInv
      <4> QED BY <4>2, <4>3
    <3> QED BY <3>1, <3>2
  <2>4. ASSUME FlushLast, Beside
        PROVE  GroupInv'
    <3>1. PICK items \in SUBSET PendingItems :
            /\ asset' = Written(items) /\ groups' = groups /\ run'.touched = (run.touched \/ items # {})
            /\ run'.cut = run.cut /\ run'.filled = run.filled
            /\ run.pc \in ScanPcs \ {"idle"} /\ run'.pc \in ScanPcs \ {"idle"}
      BY <1>0, <2>4 DEF TypeInv, ScanOK, ScanStages, Runs, FlushLast, ScanPcs
    <3>2. CASE items = {}
      BY <3>1, <3>2, WrittenIs, <1>0, GroupsSame DEF TypeInv, GroupsDue, Runs, ScanPcs
    <3>3. CASE items # {}
      <4>1. ~GroupsDue'
        BY <3>1, <3>3 DEF GroupsDue
      <4> QED BY <4>1 DEF GroupInv
    <3> QED BY <3>2, <3>3
  <2>5. ASSUME MarkMissingStale, Beside
        PROVE  GroupInv'
    <3>1. CASE Missing = {}
      BY <2>5, <3>1, <1>0, GroupsSame DEF MarkMissingStale, TypeInv, AssetOK, GroupsDue,
        Runs, ScanPcs
    <3>2. CASE Missing # {}
      <4>1. run'.touched /\ run'.pc = "group"
        BY <2>5, <3>2, <1>0 DEF MarkMissingStale, Runs
      <4> QED BY <4>1 DEF GroupInv, GroupsDue, ScanPcs
    <3> QED BY <3>1, <3>2
  <2>6. ASSUME NEW p \in emb.errors, RecordPrepareError(p)
        PROVE  GroupInv'
    <3>1. ~GroupsDue'
      BY <2>6, <1>0 DEF GroupsDue, Runs, RecordPrepareError
    <3> QED BY <3>1 DEF GroupInv
  <2>7. ASSUME NEW i \in emb.items, SingleFails(i)
        PROVE  GroupInv'
    <3>0. i.path \in Active /\ i.path \in Paths
      BY DEF TypeInv, EmbOK, EmbedStages, EmbedItems, HandInv, HandActive, Upstream
    <3>1. CASE i.reuse
      <4>1. \A p \in Paths : /\ p \in Active' <=> p \in Active
                             /\ p \in Active => asset'[p].sha = asset[p].sha
        BY <2>7, <3>0, <3>1, ItemErrorIs DEF Active, Assumptions, RowAssumption
      <4>2. groups' = groups
        BY <2>7 DEF SingleFails
      <4>3. GroupsDue' => GroupsDue
        BY <2>7, <3>1, <1>0 DEF SingleFails, GroupsDue, Runs, ScanPcs
      <4> QED BY <4>1, <4>2, <4>3, GroupsKept
    <3>2. CASE ~i.reuse
      <4>1. run'.filled
        BY <2>7, <3>2, <1>0 DEF SingleFails, Runs
      <4> QED BY <4>1 DEF GroupInv, GroupsDue
    <3> QED BY <3>1, <3>2
  <2> QED BY <1>8, <2>1, <2>2, <2>3, <2>4, <2>5, <2>6, <2>7 DEF AssetStep
<1>9. CASE WriteStep
  <2>1. PICK items \in SUBSET EmbedItems, pc \in RunPcs :
          /\ WriteBatch(items)
          /\ run' = [run EXCEPT !.pc = pc, !.filled = @ \/ FilledRows(items) # {}]
          /\ pc \notin ScanPcs \/ pc = run.pc
          /\ groups' = groups
          /\ \A i \in items : i \in emb.items \/ (emb.queue # <<>> /\ i \in Head(emb.queue))
    BY <1>9, WriteStepIs
  <2>2. (run.filled \/ FilledRows(items) # {}) \in BOOLEAN
    BY <1>0 DEF Runs
  <2>3. /\ run'.pc = pc /\ run'.filled = (run.filled \/ FilledRows(items) # {})
        /\ run'.cut = run.cut /\ run'.touched = run.touched
    BY <2>1, <2>2, <1>0 DEF Runs
  <2>4. CASE FilledRows(items) = {}
    <3>1. asset' = asset
      BY <2>1, <2>4, BatchWriteIs DEF TypeInv
    <3>2. run.pc # "unwind" \/ pc = "unwind"
      <4>1. CASE WriterStep
        BY <4>1, <2>3, <1>0 DEF WriterStep, Runs
      <4>2. CASE FlushBatch \/ \E i \in emb.items : SingleOk(i)
        BY <4>2 DEF FlushBatch, SingleOk
      <4> QED BY <1>9, <4>1, <4>2 DEF WriteStep
    <3>3. run.pc \notin ScanPcs
      BY <1>9 DEF WriteStep, FlushBatch, WriterStep, SingleOk, HandInv, ScanAlone
    <3>4. GroupsDue' => GroupsDue
      BY <2>3, <2>4, <3>2, <3>3 DEF GroupsDue
    <3> QED BY <2>1, <3>1, <3>4, GroupsSame
  <2>5. CASE FilledRows(items) # {}
    BY <2>3, <2>5 DEF GroupInv, GroupsDue
  <2> QED BY <2>4, <2>5
<1>10. CASE VecStep
  <2>1. ASSUME NEW p \in Paths, DropFeatures(p), Beside
        PROVE  GroupInv'
    BY <2>1, <1>0, GroupsSame DEF Beside, manifest, DropFeatures, GroupsDue, Runs,
      RunPcs, EmbedPcs, ScanPcs
  <2>2. ASSUME NEW k \in Kinds, ReuseVectors(k)
        PROVE  GroupInv'
    BY <2>2, <1>0, GroupsSame DEF Beside, manifest, ReuseVectors, GroupsDue, Runs,
      RunPcs, EmbedPcs, ScanPcs
  <2> QED BY <1>10, <2>1, <2>2 DEF VecStep
<1>11. CASE ImportStep
  BY <1>11, <1>0, GroupsSame DEF Beside, manifest, ImportStep, ImportEmbedding,
    GroupsDue, Runs, RunPcs, EmbedPcs, ScanPcs
<1>12. CASE ViewStep
  <2>1. ASSUME Regroup, Beside
        PROVE  GroupInv'
    <3>1. asset' = asset
      BY <2>1 DEF Regroup
    <3>2. GroupsNow' = GroupsNow
      BY <3>1 DEF GroupsNow, Active
    <3>3. CASE MustRegroup
      <4>1. groups' = GroupsNow
        BY <2>1, <3>3 DEF Regroup
      <4> QED BY <3>2, <4>1 DEF GroupInv
    <3>4. CASE ~MustRegroup
      BY <2>1, <3>4, <1>0, <3>1, GroupsSame DEF Regroup, MustRegroup, GroupsDue, Runs
    <3> QED BY <3>3, <3>4
  <2>2. CASE AdvanceGeneration
    BY <2>2, <1>0, GroupsSame DEF Beside, manifest, AdvanceGeneration, Go, GroupsDue,
      Runs, RunPcs, EmbedPcs, ScanPcs
  <2>3. CASE DropOverview
    BY <2>3, <1>0, GroupsSame DEF Beside, manifest, DropOverview, Go, GroupsDue, Runs,
      RunPcs, EmbedPcs, ScanPcs
  <2>4. CASE CloseRun
    BY <2>4, <1>0, GroupsSame DEF Beside, manifest, CloseRun, Go, GroupsDue, Runs,
      RunPcs, EmbedPcs, ScanPcs
  <2> QED BY <1>12, <2>1, <2>2, <2>3, <2>4 DEF ViewStep
<1> QED BY <1>1, <1>2, <1>3, <1>4, <1>5, <1>6, <1>7, <1>8, <1>9, <1>10, <1>11, <1>12 DEF BuildSteps

\* refresh_exact_groups: the groups of a build that ended well are those of
\* the hashes in use, unless an earlier build was cut short between the rows
\* and the groups, or an embedding stage filled or cleared hashes since.
THEOREM GroupsAreCurrent == BuildSpec => []GroupsFollowHashes
<1>1. BuildInit => GroupInv
  <2> SUFFICES ASSUME BuildInit PROVE groups = GroupsNow
    BY DEF GroupInv
  <2>1. Active = {}
    BY DEF BuildInit, ScanInit, Active
  <2> QED BY <2>1 DEF BuildInit, ScanInit, GroupsNow
<1>2. TypeInv /\ HandInv /\ GroupInv /\ [BuildNext]_buildVars => GroupInv'
  <2>1. ASSUME TypeInv, HandInv, GroupInv, BuildNext PROVE GroupInv'
    BY <2>1, Assumed, StepsOfBuild, GroupStep DEF TypeInv
  <2>2. CASE UNCHANGED buildVars
    BY <2>2 DEF buildVars, scanVars, manifest, GroupInv, GroupsDue, GroupsNow, Active
  <2> QED BY <2>1, <2>2
<1>3. GroupInv => GroupsFollowHashes
  BY DEF GroupInv, GroupsDue, GroupsFollowHashes, Idle, ScanPcs
<1> QED BY <1>1, <1>2, <1>3, BuildInvariant, PTL DEF BuildSpec

----------------------------------------------------------------------------
(***************************************************************************)
(* The identity of the manifest.                                           *)
(***************************************************************************)

\* Nothing that the snapshot holds has changed, or this build has something to
\* say of it when it closes, or an earlier one was cut short.
SnapCurrent ==
  /\ snap.identity[2] = gen
  /\ snap.content = Content \/ run.cut \/ run.touched
  /\ run.pc \in ScanPcs \cup {"advance", "unwind", "close", "overview"}
  /\ emb.queue = <<>>
  /\ scan.erring # {} => run.touched
  /\ Idle \/ run.pc = "overview" => ~run.touched

SnapInv ==
  /\ Idle => ~run.touched /\ scan.erring = {}
  /\ snap # NoRow => /\ snap.identity[2] \in Nat
                     /\ snap.identity[2] < gen \/ SnapCurrent

RunSame ==
  /\ run.cut => run'.cut
  /\ run.touched => run'.touched \/ run'.cut
  /\ run'.pc \in ScanPcs \cup {"advance", "unwind", "close", "overview"}
  /\ emb'.queue = <<>>
  /\ scan'.erring # {} => run'.touched
  /\ run'.pc \in {"idle", "overview"} => ~run'.touched

LEMMA ContentSame ==
  ASSUME vec' = vec, groups' = groups
  PROVE  Content' = Content
BY DEF Content

LEMMA SnapSame ==
  ASSUME SnapCurrent, UNCHANGED <<vec, groups, gen, snap>>, RunSame
  PROVE  SnapCurrent'
BY ContentSame DEF SnapCurrent, RunSame, Idle

LEMMA SnapStep ==
  ASSUME Assumptions, TypeInv, HandInv, SnapInv, SnapCurrent, ~TakeSnapshot, BuildSteps
  PROVE  SnapCurrent' \/ snap'.identity[2] < gen'
<1>0. run \in Runs /\ scan \in ScanStages /\ emb \in EmbedStages
  BY DEF TypeInv, RunOK, ScanOK, EmbOK
<1>1. CASE EditStep
  BY <1>1, <1>0, SnapSame DEF Beside, manifest, EditStep, EditFile, RunSame,
    SnapCurrent, Runs, ScanStages, EmbedStages, ScanPcs, Idle
<1>2. CASE BeginStep
  <2>1. ASSUME NEW stage \in SUBSET {"manifest", "embeddings"},
               NEW mode \in Modes \cup {"serial"}, NEW limit \in Nat,
               NEW kinds \in SUBSET Kinds, NEW async \in BOOLEAN,
               BeginRun(stage, mode, limit, kinds, async)
        PROVE  SnapCurrent' \/ snap'.identity[2] < gen'
    BY <2>1, <1>0, SnapSame DEF Beside, manifest, BeginRun, NoRun, NoScan, NoEmbed,
      ScanPcs, SnapInv, RunSame, SnapCurrent, Runs, ScanStages, EmbedStages, Idle
  <2> QED BY <1>2, <2>1 DEF BeginStep
<1>3. CASE StopStep
  <2>1. CASE EndRun
    BY <2>1, <1>0, SnapSame DEF Beside, manifest, EndRun, NoScan, NoEmbed, RunSame,
      SnapCurrent, Runs, ScanStages, EmbedStages, ScanPcs, Idle
  <2>2. CASE Unwound
    BY <2>2, <1>0, SnapSame DEF Beside, manifest, Unwound, NoRun, NoScan, NoEmbed,
      RunSame, SnapCurrent, Runs, ScanStages, EmbedStages, ScanPcs, Idle
  <2>3. CASE Killed
    BY <2>3, <1>0, SnapSame DEF Beside, manifest, Killed, NoRun, NoScan, NoEmbed,
      RunSame, SnapCurrent, Runs, ScanStages, EmbedStages, ScanPcs, Idle
  <2> QED BY <1>3, <2>1, <2>2, <2>3 DEF StopStep
<1>4. CASE HandStep
  <2>1. CASE QueryBacklog
    BY <2>1 DEF SnapCurrent, ScanPcs, Idle, QueryBacklog
  <2>2. CASE Submit
    BY <2>2 DEF SnapCurrent, ScanPcs, Idle, Submit
  <2>3. CASE EnqueueBatch
    BY <2>3 DEF SnapCurrent, ScanPcs, Idle, EnqueueBatch
  <2>4. CASE WriterDies
    BY <2>4 DEF SnapCurrent, ScanPcs, Idle, WriterDies
  <2>5. ASSUME NEW b \in emb.batches, JoinBatch(b)
        PROVE  SnapCurrent' \/ snap'.identity[2] < gen'
    BY <2>5 DEF SnapCurrent, ScanPcs, Idle, JoinBatch
  <2>6. ASSUME NEW b \in emb.batches, PrepareDies(b)
        PROVE  SnapCurrent' \/ snap'.identity[2] < gen'
    BY <2>6, <1>0, SnapSame DEF Beside, manifest, PrepareDies, Batched, RunSame,
      SnapCurrent, Runs, ScanStages, EmbedStages, ScanPcs, Idle
  <2>7. ASSUME NEW b \in emb.batches, NEW job \in b.jobs, PrepareAsset(b, job)
        PROVE  SnapCurrent' \/ snap'.identity[2] < gen'
    BY <2>7, <1>0, SnapSame DEF PrepareAsset, manifest, Batched, EmbedStages, RunSame,
      SnapCurrent, Idle
  <2> QED BY <1>4, <2>1, <2>2, <2>3, <2>4, <2>5, <2>6, <2>7 DEF HandStep
<1>5. CASE TurnStep
  BY <1>5 DEF SnapCurrent, ScanPcs, Idle, TurnStep, Submitted, ErrorsRecorded,
     NothingToFlush, SinglesDone, FinishEmbedding, BatchFails, RunFails
<1>6. CASE TakeSnapshot
  BY <1>6 DEF TakeSnapshot
<1>7. CASE WalkStep
  <2>1. ASSUME NEW p \in Paths, Visit(p), Beside
        PROVE  SnapCurrent' \/ snap'.identity[2] < gen'
    BY <2>1, <1>0, SnapSame DEF Beside, manifest, Visit, RunSame, SnapCurrent, Runs,
      ScanStages, EmbedStages, ScanPcs, Idle
  <2>2. ASSUME NEW j \in scan.jobs, ReadFile(j), Beside
        PROVE  SnapCurrent' \/ snap'.identity[2] < gen'
    BY <2>2, <1>0, SnapSame DEF Beside, manifest, ReadFile, RunSame, SnapCurrent, Runs,
      ScanStages, EmbedStages, ScanPcs, Idle
  <2>3. ASSUME WorkerDies, Beside
        PROVE  SnapCurrent' \/ snap'.identity[2] < gen'
    BY <2>3, <1>0, SnapSame DEF Beside, manifest, WorkerDies, RunSame, SnapCurrent,
      Runs, ScanStages, EmbedStages, ScanPcs, Idle
  <2>4. ASSUME EndWalk, Beside
        PROVE  SnapCurrent' \/ snap'.identity[2] < gen'
    BY <2>4, <1>0, SnapSame DEF Beside, manifest, EndWalk, RunSame, SnapCurrent, Runs,
      ScanStages, EmbedStages, ScanPcs, Idle
  <2>5. ASSUME ResultsMissing, Beside
        PROVE  SnapCurrent' \/ snap'.identity[2] < gen'
    BY <2>5, <1>0, SnapSame DEF Beside, manifest, ResultsMissing, RunSame, SnapCurrent,
      Runs, ScanStages, EmbedStages, ScanPcs, Idle
  <2>6. ASSUME NEW p \in Paths, SkipUnreadable(p), Beside
        PROVE  SnapCurrent' \/ snap'.identity[2] < gen'
    BY <2>6, <1>0, SnapSame DEF Beside, manifest, SkipUnreadable, RunSame, SnapCurrent, Runs,
      ScanStages, EmbedStages, ScanPcs, Idle
  <2> QED BY <1>7, <2>1, <2>2, <2>3, <2>4, <2>5, <2>6 DEF WalkStep
<1>8. CASE AssetStep
  <2>1. ASSUME NEW p \in Paths, VisitGone(p), Beside
        PROVE  SnapCurrent' \/ snap'.identity[2] < gen'
    BY <2>1, <1>0, ContentSame DEF Beside, VisitGone, Meet, Walking, Runs, SnapCurrent,
      ScanPcs, Idle
  <2>2. ASSUME NEW p \in Paths, VisitFast(p), Beside
        PROVE  SnapCurrent' \/ snap'.identity[2] < gen'
    <3>1. UNCHANGED <<vec, groups, gen, snap>> /\ emb' = emb /\ run.pc = "scan"
      BY <2>2 DEF Beside, VisitFast, Meet, Walking
    <3>2. PICK items : run' = [run EXCEPT !.touched = @ \/ items # {}]
      BY <2>2 DEF VisitFast, Flush
    <3>3. (run.touched \/ items # {}) \in BOOLEAN
      BY <1>0 DEF Runs
    <3>4. run'.pc = run.pc /\ (run.touched => run'.touched) /\ run'.cut = run.cut
      BY <3>2, <3>3, <1>0 DEF Runs
    <3>5. scan'.erring = scan.erring
      BY <2>2, <1>0 DEF VisitFast, ScanStages
    <3>6. RunSame
      BY <3>1, <3>4, <3>5 DEF RunSame, SnapCurrent, Idle
    <3> QED BY <3>1, <3>6, SnapSame
  <2>3. ASSUME NEW r \in scan.results, TakeResult(r), Beside
        PROVE  SnapCurrent' \/ snap'.identity[2] < gen'
    <3>1. UNCHANGED <<vec, groups, gen, snap>> /\ emb' = emb /\ run.pc \in {"scan", "drain"}
      BY <2>3 DEF Beside, TakeResult
    <3>2. CASE r.content \in Goods
      <4>1. PICK items \in {{}, scan.pending \cup {r}} : run' = [run EXCEPT !.touched = @ \/ items # {}]
        BY <2>3, <3>2 DEF TakeResult, Flush
      <4>2. (run.touched \/ items # {}) \in BOOLEAN
        BY <1>0 DEF Runs
      <4>3. run'.pc = run.pc /\ (run.touched => run'.touched) /\ run'.cut = run.cut
        BY <4>1, <4>2, <1>0 DEF Runs
      <4>4. scan'.erring = scan.erring
        BY <2>3, <3>2, <1>0 DEF TakeResult, ScanStages
      <4>5. RunSame
        BY <3>1, <4>3, <4>4 DEF RunSame, SnapCurrent, Idle
      <4> QED BY <3>1, <4>5, SnapSame
    <3>3. CASE r.content \notin Goods
      <4>1. run'.touched /\ run'.pc = run.pc
        BY <2>3, <3>3, <1>0 DEF TakeResult, Runs
      <4> QED BY <3>1, <4>1, ContentSame DEF SnapCurrent, ScanPcs, Idle
    <3> QED BY <3>2, <3>3
  <2>4. ASSUME FlushLast, Beside
        PROVE  SnapCurrent' \/ snap'.identity[2] < gen'
    BY <2>4, <1>0, SnapSame DEF Beside, FlushLast, Runs, ScanStages, RunSame,
      SnapCurrent, Idle, ScanPcs
  <2>5. ASSUME MarkMissingStale, Beside
        PROVE  SnapCurrent' \/ snap'.identity[2] < gen'
    BY <2>5, <1>0, SnapSame DEF Beside, MarkMissingStale, Runs, RunSame, SnapCurrent,
      Idle, ScanPcs
  <2>6. ASSUME NEW p \in emb.errors, RecordPrepareError(p)
        PROVE  SnapCurrent' \/ snap'.identity[2] < gen'
    BY <2>6 DEF SnapCurrent, ScanPcs, Idle, RecordPrepareError
  <2>7. ASSUME NEW i \in emb.items, SingleFails(i)
        PROVE  SnapCurrent' \/ snap'.identity[2] < gen'
    BY <2>7 DEF SnapCurrent, ScanPcs, Idle, SingleFails
  <2> QED BY <1>8, <2>1, <2>2, <2>3, <2>4, <2>5, <2>6, <2>7 DEF AssetStep
<1>9. CASE WriteStep
  BY <1>9 DEF SnapCurrent, ScanPcs, Idle, WriteStep, FlushBatch, WriterStep, SingleOk
<1>10. CASE VecStep
  <2>1. ASSUME NEW p \in Paths, DropFeatures(p), Beside
        PROVE  SnapCurrent' \/ snap'.identity[2] < gen'
    BY <2>1, <1>0 DEF Beside, DropFeatures, ScanStages, SnapCurrent, Idle
  <2>2. ASSUME NEW k \in Kinds, ReuseVectors(k)
        PROVE  SnapCurrent' \/ snap'.identity[2] < gen'
    BY <2>2 DEF SnapCurrent, ScanPcs, Idle, ReuseVectors
  <2> QED BY <1>10, <2>1, <2>2 DEF VecStep
<1>11. CASE ImportStep
  <2>1. gen' = gen + 1 /\ snap' = snap
    BY <1>11 DEF ImportStep, ImportEmbedding, Imported
  <2> QED BY <2>1 DEF SnapCurrent, TypeInv, ViewOK
<1>12. CASE ViewStep
  <2>1. ASSUME Regroup, Beside
        PROVE  SnapCurrent' \/ snap'.identity[2] < gen'
    <3>0. UNCHANGED <<vec, snap, scan>> /\ emb' = emb
      BY <2>1 DEF Regroup, Beside
    <3>1. CASE gen' = gen + 1
      BY <3>0, <3>1 DEF SnapCurrent, TypeInv, ViewOK
    <3>2. CASE gen' # gen + 1
      <4>1. gen' = gen /\ groups' = groups
        BY <2>1, <3>2 DEF Regroup
      <4>2. CASE ~MustRegroup
        BY <2>1, <4>2, <1>0, <3>0, <4>1, SnapSame DEF Regroup, AfterManifest, Runs,
          RunSame, SnapCurrent, Idle
      <4>3. CASE MustRegroup
        <5>1. GroupsNow = groups
          BY <2>1, <3>2, <4>3 DEF Regroup, TypeInv, ViewOK
        <5>2. \A p \in Active : groups[p] # {}
          BY <5>1 DEF GroupsNow, Active
        <5>3. run.touched
          BY <4>3, <5>2 DEF MustRegroup
        <5>4. run'.touched /\ run'.pc \in {"advance", "close"}
          BY <2>1, <4>3, <5>3, <1>0 DEF Regroup, AfterManifest, Runs
        <5> QED BY <3>0, <4>1, <5>4 DEF SnapCurrent, Idle
      <4> QED BY <4>2, <4>3
    <3> QED BY <3>1, <3>2
  <2>2. CASE AdvanceGeneration
    <3>1. gen' = gen + 1 /\ snap' = snap
      BY <2>2 DEF AdvanceGeneration
    <3> QED BY <3>1 DEF SnapCurrent, TypeInv, ViewOK
  <2>3. CASE DropOverview
    BY <2>3 DEF SnapCurrent, ScanPcs, Idle, DropOverview
  <2>4. CASE CloseRun
    <3>1. CASE run.touched
      <4>1. gen' = gen + 1 /\ snap' = snap
        BY <2>4, <3>1 DEF CloseRun
      <4> QED BY <4>1 DEF SnapCurrent, TypeInv, ViewOK
    <3>2. CASE ~run.touched
      BY <2>4, <3>2, <1>0, SnapSame DEF CloseRun, Go, Runs, RunSame, SnapCurrent, Idle
    <3> QED BY <3>1, <3>2
  <2> QED BY <1>12, <2>1, <2>2, <2>3, <2>4 DEF ViewStep
<1> QED BY <1>1, <1>2, <1>3, <1>4, <1>5, <1>6, <1>7, <1>8, <1>9, <1>10, <1>11, <1>12 DEF BuildSteps

LEMMA RestStep ==
  ASSUME Assumptions, TypeInv, HandInv, SnapInv, BuildSteps
  PROVE  Idle' => ~run'.touched /\ scan'.erring = {}
<1>0. run \in Runs /\ scan \in ScanStages
  BY DEF TypeInv, RunOK, ScanOK
<1>1. CASE EditStep
  BY <1>1, <1>0 DEF Runs, ScanStages, Beside, EditStep, EditFile, SnapInv, Idle
<1>2. CASE BeginStep
  <2>1. run'.pc # "idle"
    BY <1>2, <1>0 DEF Runs, BeginStep, BeginRun, NoRun
  <2> QED BY <2>1 DEF Idle
<1>3. CASE StopStep
  <2>1. CASE EndRun
    <3>1. ~run'.touched /\ scan'.erring = {}
      BY <2>1, <1>0 DEF EndRun, NoScan, Runs
    <3> QED BY <3>1
  <2>2. CASE Unwound
    BY <2>2 DEF Unwound, NoRun, NoScan
  <2>3. CASE Killed
    BY <2>3 DEF Killed, NoRun, NoScan
  <2> QED BY <1>3, <2>1, <2>2, <2>3 DEF StopStep
<1>4. CASE HandStep
  <2>1. CASE QueryBacklog
    <3>1. run'.pc # "idle"
      BY <2>1, <1>0 DEF Runs, QueryBacklog, Go
    <3> QED BY <3>1 DEF Idle
  <2>2. CASE Submit
    <3>1. run'.pc # "idle"
      BY <2>2, <1>0 DEF Runs, Submit
    <3> QED BY <3>1 DEF Idle
  <2>3. CASE EnqueueBatch
    <3>1. run'.pc # "idle"
      BY <2>3, <1>0 DEF Runs, EnqueueBatch, Go, NextBatch
    <3> QED BY <3>1 DEF Idle
  <2>4. CASE WriterDies
    BY <2>4, <1>0 DEF Runs, ScanStages, Beside, WriterDies, SnapInv, Idle
  <2>5. ASSUME NEW b \in emb.batches, JoinBatch(b)
        PROVE  Idle' => ~run'.touched /\ scan'.erring = {}
    <3>1. run'.pc # "idle"
      BY <2>5, <1>0 DEF Runs, JoinBatch, Go
    <3> QED BY <3>1 DEF Idle
  <2>6. ASSUME NEW b \in emb.batches, PrepareDies(b)
        PROVE  Idle' => ~run'.touched /\ scan'.erring = {}
    BY <2>6, <1>0 DEF Runs, ScanStages, Beside, PrepareDies, SnapInv, Idle
  <2>7. ASSUME NEW b \in emb.batches, NEW job \in b.jobs, PrepareAsset(b, job)
        PROVE  Idle' => ~run'.touched /\ scan'.erring = {}
    BY <2>7, <1>0 DEF Runs, ScanStages, Beside, PrepareAsset, SnapInv, Idle
  <2> QED BY <1>4, <2>1, <2>2, <2>3, <2>4, <2>5, <2>6, <2>7 DEF HandStep
<1>5. CASE TurnStep
  <2>1. run'.pc # "idle"
    BY <1>5, <1>0 DEF Runs, TurnStep, Submitted, Go, ErrorsRecorded, NothingToFlush,
       SinglesDone, FinishEmbedding, BatchFails, RunFails, NextBatch
  <2> QED BY <2>1 DEF Idle
<1>6. CASE TakeSnapshot
  BY <1>6, <1>0 DEF Runs, ScanStages, Beside, TakeSnapshot, SnapInv, Idle
<1>7. CASE WalkStep
  <2>1. ASSUME NEW p \in Paths, Visit(p), Beside
        PROVE  Idle' => ~run'.touched /\ scan'.erring = {}
    BY <2>1, <1>0 DEF Runs, ScanStages, Beside, Visit, SnapInv, Idle
  <2>2. ASSUME NEW j \in scan.jobs, ReadFile(j), Beside
        PROVE  Idle' => ~run'.touched /\ scan'.erring = {}
    BY <2>2, <1>0 DEF Runs, ScanStages, Beside, ReadFile, SnapInv, Idle
  <2>3. ASSUME WorkerDies, Beside
        PROVE  Idle' => ~run'.touched /\ scan'.erring = {}
    BY <2>3, <1>0 DEF Runs, ScanStages, Beside, WorkerDies, SnapInv, Idle
  <2>4. ASSUME EndWalk, Beside
        PROVE  Idle' => ~run'.touched /\ scan'.erring = {}
    <3>1. run'.pc # "idle"
      BY <2>4, <1>0 DEF Runs, EndWalk
    <3> QED BY <3>1 DEF Idle
  <2>5. ASSUME ResultsMissing, Beside
        PROVE  Idle' => ~run'.touched /\ scan'.erring = {}
    <3>1. run'.pc # "idle"
      BY <2>5, <1>0 DEF Runs, ResultsMissing
    <3> QED BY <3>1 DEF Idle
  <2>6. ASSUME NEW p \in Paths, SkipUnreadable(p), Beside
        PROVE  Idle' => ~run'.touched /\ scan'.erring = {}
    BY <2>6, <1>0 DEF Runs, ScanStages, Beside, SkipUnreadable, SnapInv, Idle
  <2> QED BY <1>7, <2>1, <2>2, <2>3, <2>4, <2>5, <2>6 DEF WalkStep
<1>8. CASE AssetStep
  <2>1. ASSUME NEW p \in Paths, VisitGone(p), Beside
        PROVE  Idle' => ~run'.touched /\ scan'.erring = {}
    <3>1. run'.pc # "idle"
      BY <2>1, <1>0 DEF Runs, VisitGone, Meet, Walking
    <3> QED BY <3>1 DEF Idle
  <2>2. ASSUME NEW p \in Paths, VisitFast(p), Beside
        PROVE  Idle' => ~run'.touched /\ scan'.erring = {}
    <3>1. run'.pc # "idle"
      BY <2>2, <1>0 DEF Runs, VisitFast, Flush, Meet, Walking
    <3> QED BY <3>1 DEF Idle
  <2>3. ASSUME NEW r \in scan.results, TakeResult(r), Beside
        PROVE  Idle' => ~run'.touched /\ scan'.erring = {}
    <3>1. run'.pc # "idle"
      BY <2>3, <1>0 DEF Runs, TakeResult, Flush
    <3> QED BY <3>1 DEF Idle
  <2>4. ASSUME FlushLast, Beside
        PROVE  Idle' => ~run'.touched /\ scan'.erring = {}
    <3>1. run'.pc # "idle"
      BY <2>4, <1>0 DEF Runs, FlushLast
    <3> QED BY <3>1 DEF Idle
  <2>5. ASSUME MarkMissingStale, Beside
        PROVE  Idle' => ~run'.touched /\ scan'.erring = {}
    <3>1. run'.pc # "idle"
      BY <2>5, <1>0 DEF Runs, MarkMissingStale
    <3> QED BY <3>1 DEF Idle
  <2>6. ASSUME NEW p \in emb.errors, RecordPrepareError(p)
        PROVE  Idle' => ~run'.touched /\ scan'.erring = {}
    <3>1. run'.pc # "idle"
      BY <2>6, <1>0 DEF Runs, RecordPrepareError
    <3> QED BY <3>1 DEF Idle
  <2>7. ASSUME NEW i \in emb.items, SingleFails(i)
        PROVE  Idle' => ~run'.touched /\ scan'.erring = {}
    <3>1. run'.pc # "idle"
      BY <2>7, <1>0 DEF Runs, SingleFails
    <3> QED BY <3>1 DEF Idle
  <2> QED BY <1>8, <2>1, <2>2, <2>3, <2>4, <2>5, <2>6, <2>7 DEF AssetStep
<1>9. CASE WriteStep
  <2>1. PICK items \in SUBSET EmbedItems, pc \in RunPcs :
          /\ run' = [run EXCEPT !.pc = pc, !.filled = @ \/ FilledRows(items) # {}]
          /\ pc \notin ScanPcs \/ pc = run.pc
    BY <1>9, WriteStepIs
  <2>2. emb.queue # <<>> \/ emb.items # {}
    BY <1>9 DEF WriteStep, FlushBatch, WriterStep, SingleOk
  <2>3. run.pc \notin ScanPcs
    BY <2>2 DEF HandInv, ScanAlone
  <2>4. run'.pc = pc
    BY <2>1, <1>0 DEF Runs
  <2> QED BY <2>1, <2>3, <2>4 DEF Idle, ScanPcs
<1>10. CASE VecStep
  <2>1. ASSUME NEW p \in Paths, DropFeatures(p), Beside
        PROVE  Idle' => ~run'.touched /\ scan'.erring = {}
    <3>1. run' = run /\ scan'.erring = {}
      BY <2>1, <1>0 DEF DropFeatures, ScanStages
    <3> QED BY <3>1 DEF SnapInv, Idle
  <2>2. ASSUME NEW k \in Kinds, ReuseVectors(k)
        PROVE  Idle' => ~run'.touched /\ scan'.erring = {}
    <3>1. run'.pc # "idle"
      BY <2>2, <1>0 DEF Runs, ReuseVectors
    <3> QED BY <3>1 DEF Idle
  <2> QED BY <1>10, <2>1, <2>2 DEF VecStep
<1>11. CASE ImportStep
  BY <1>11, <1>0 DEF Runs, ScanStages, Beside, ImportStep, ImportEmbedding, SnapInv,
    Idle
<1>12. CASE ViewStep
  <2>1. run'.pc # "idle"
    BY <1>12, <1>0 DEF Runs, ViewStep, Regroup, AdvanceGeneration, DropOverview, CloseRun,
       AfterManifest, Go
  <2> QED BY <2>1 DEF Idle
<1> QED BY <1>1, <1>2, <1>3, <1>4, <1>5, <1>6, <1>7, <1>8, <1>9, <1>10, <1>11, <1>12 DEF BuildSteps

LEMMA SnapKept ==
  ASSUME Assumptions, TypeInv, HandInv, SnapInv, BuildSteps
  PROVE  SnapInv'
<1>0. gen \in Nat /\ (gen' = gen \/ gen' = gen + 1)
  BY Writers DEF TypeInv, ViewOK, ViewStep, Regroup, AdvanceGeneration, DropOverview, CloseRun,
                 ImportStep, ImportEmbedding, EndRun
<1>1. CASE TakeSnapshot
  BY <1>1, ContentSame, <1>0 DEF TakeSnapshot, manifest, Settled, Identity, HandInv,
    ScanAlone, ScanPcs, Idle, SnapInv, SnapCurrent
<1>2. CASE ~TakeSnapshot
  <2>1. snap' = snap
    BY <1>2, Writers
  <2>2. ASSUME snap # NoRow PROVE snap'.identity[2] < gen' \/ SnapCurrent'
    <3>1. CASE SnapCurrent
      BY <1>2, <3>1, SnapStep
    <3>2. CASE snap.identity[2] < gen
      BY <1>0, <2>1, <2>2, <3>2 DEF SnapInv
    <3> QED BY <2>2, <3>1, <3>2 DEF SnapInv
  <2> QED BY <2>1, <2>2, RestStep DEF SnapInv
<1> QED BY <1>1, <1>2

\* manifest_identity: once an orderly build has gone through to its end, no
\* identity that somebody kept from an earlier build stands for other vectors
\* or other groups, unless a build was cut short since the groups were last
\* refreshed.
THEOREM IdentityIsHonest == BuildSpec => []IdentityTellsContent
<1>1. BuildInit => SnapInv
  BY DEF BuildInit, NoRun, NoScan, SnapInv
<1>2. TypeInv /\ HandInv /\ SnapInv /\ [BuildNext]_buildVars => SnapInv'
  <2>1. ASSUME TypeInv, HandInv, SnapInv, BuildNext PROVE SnapInv'
    BY <2>1, Assumed, StepsOfBuild, SnapKept DEF TypeInv
  <2>2. CASE UNCHANGED buildVars
    BY <2>2 DEF buildVars, scanVars, manifest, SnapInv, SnapCurrent, Content, Idle
  <2> QED BY <2>1, <2>2
<1>3. TypeInv /\ SnapInv /\ IndexTypeOK => IdentityTellsContent
  <2> SUFFICES ASSUME TypeInv, SnapInv, Settled, ~run.cut, snap # NoRow, snap.identity = Identity
               PROVE  snap.content = Content
    BY DEF IdentityTellsContent
  <2>1. snap.identity[2] = gen /\ Idle /\ gen \in Nat
    BY DEF Identity, Settled, TypeInv, ViewOK
  <2> QED BY <2>1 DEF SnapInv, SnapCurrent
<1> QED BY <1>1, <1>2, <1>3, BuildInvariant, IndexTypeCorrect, PTL DEF BuildSpec

----------------------------------------------------------------------------
(***************************************************************************)
(* What the embedding stage has in hand.                                   *)
(***************************************************************************)

WorkPcs == {"submit", "join", "errors", "more", "flush", "single", "finish"}

HandEmpty ==
  /\ emb.backlog = {} /\ emb.batches = {} /\ emb.items = {} /\ emb.errors = {}
  /\ emb.queue = <<>>

InBacklog(p) == \E x \in emb.backlog : x.path = p
InItems(p)   == \E x \in emb.items : x.path = p

\* Before the query there is nothing in hand, and each step leaves behind what
\* the next one expects.
Steps ==
  /\ run.pc \in ScanPcs \cup {"advance", "dropview", "reuse"} => HandEmpty
  /\ run.pc \in {"submit", "join", "finish"} => emb.items = {}
  /\ run.pc \in WorkPcs \ {"errors"} => emb.errors = {}
  /\ run.pc \in {"flush", "single"} => emb.backlog = {} \/ emb.batches # {}
  /\ run.pc = "finish" => emb.backlog = {} /\ emb.batches = {}
  /\ run.pc \in {"close", "overview"} => emb.queue = <<>>

\* A row whose embeddings are about to go has its error.
ErringWhen ==
  scan.erring # {} => run.pc \in {"scan", "drain", "errors", "single", "unwind"}

ErringRows == \A p \in scan.erring : asset[p] # NoRow /\ asset[p].error

\* A path is in one place at a time.
QueueApart   == \A p \in Paths : Queued(p) => ~Upstream(p) /\ p \notin scan.erring
BatchesApart ==
  \A p \in Paths :
    /\ \A b, c \in emb.batches : InBatch(b, p) /\ InBatch(c, p) => b = c
    /\ \A b \in emb.batches :
         InBatch(b, p) => ~InBacklog(p) /\ ~InItems(p) /\ p \notin emb.errors
BacklogApart ==
  /\ \A x, y \in emb.backlog : x.path = y.path => x = y
  /\ \A p \in Paths : InBacklog(p) => ~InItems(p) /\ p \notin emb.errors

OnePlace == QueueApart /\ BatchesApart /\ BacklogApart

LacksAny(p) == \E k \in emb.kinds : Lacking(p, k)

\* Whatever lacks a vector is on its way, unless it was cut off or lost.
Complete ==
  run.pc \in WorkPcs /\ ~emb.truncated /\ ~emb.dead /\ \A b \in emb.batches : ~b.lost

Tracked == Complete => \A p \in Paths : LacksAny(p) => Upstream(p) \/ Queued(p)

EmbeddingDone ==
  /\ run.pc \in {"close", "overview"} \/ (Idle /\ run.done)
  /\ "embeddings" \in run.stage /\ ~emb.truncated

Embedded == EmbeddingDone => \A p \in Paths : ~LacksAny(p)

EmbedInv == Steps /\ ErringWhen /\ ErringRows /\ OnePlace /\ Tracked /\ Embedded

\* What the query leaves in hand.
LEMMA QueryIs ==
  ASSUME Assumptions, TypeInv, QueryBacklog
  PROVE  \E chosen \in SUBSET Wanted :
           /\ emb' = [emb EXCEPT
                !.backlog = {[path |-> p, stamp |-> asset[p].stamp, sha |-> asset[p].sha] :
                               p \in chosen},
                !.truncated = chosen # Wanted]
           /\ run'.pc \in {"finish", "submit"}
           /\ run'.pc = "finish" => chosen = {}
           /\ run' = [run EXCEPT !.pc = run'.pc]
<1>1. PICK chosen \in kSubset(AtMost(Room, Wanted), Wanted) :
        emb' = [emb EXCEPT
          !.backlog = {[path |-> p, stamp |-> asset[p].stamp, sha |-> asset[p].sha] :
                         p \in chosen},
          !.truncated = chosen # Wanted]
  BY DEF QueryBacklog
<1>2. chosen \in SUBSET Wanted /\ Cardinality(chosen) = AtMost(Room, Wanted)
  BY DEF kSubset
<1>3. PICK pc \in {"finish", "submit"} :
        run' = [run EXCEPT !.pc = pc] /\ pc = (IF Wanted = {} \/ Room = 0 THEN "finish" ELSE "submit")
  BY DEF QueryBacklog, Go
<1>4. run'.pc = pc
  BY <1>3 DEF TypeInv, RunOK, Runs
<1>5. ASSUME pc = "finish" PROVE chosen = {}
  <2>1. CASE Wanted = {}
    BY <1>2, <2>1
  <2>2. CASE Room = 0
    BY FS_Subset, <1>2, FS_CardinalityType, <2>2, FS_EmptySet DEF Assumptions,
      ScanAssumption, Wanted, Active, AtMost
  <2> QED BY <1>3, <1>5, <2>1, <2>2
<1> QED BY <1>1, <1>2, <1>3, <1>4, <1>5

\* Each step leaves behind what the next one expects.
LEMMA StepsKept ==
  ASSUME Assumptions, TypeInv, HandInv, Steps, BuildSteps
  PROVE  Steps'
<1>0. run \in Runs /\ scan \in ScanStages /\ emb \in EmbedStages
  BY DEF TypeInv, RunOK, ScanOK, EmbOK
<1>1. CASE EditStep
  <2>1. ASSUME NEW p \in Paths, NEW c \in Goods \cup {Bad, Gone}, EditFile(p, c),
               Beside
        PROVE  Steps'
    BY <2>1, <1>0 DEF Steps, HandEmpty, WorkPcs, ScanPcs, Runs, EmbedStages, ScanStages,
       Beside, manifest, EditFile
  <2> QED BY <1>1, <2>1 DEF EditStep
<1>2. CASE BeginStep
  <2>1. ASSUME NEW stage \in SUBSET {"manifest", "embeddings"},
               NEW mode \in Modes \cup {"serial"}, NEW limit \in Nat,
               NEW kinds \in SUBSET Kinds, NEW async \in BOOLEAN,
               BeginRun(stage, mode, limit, kinds, async)
        PROVE  Steps'
    BY <2>1, <1>0 DEF Steps, HandEmpty, WorkPcs, ScanPcs, Runs, EmbedStages, ScanStages,
       Beside, manifest, BeginRun, NoScan, NoEmbed, NoRun, Idle
  <2> QED BY <1>2, <2>1 DEF BeginStep
<1>3. CASE StopStep
  <2>1. CASE EndRun
    BY <2>1, <1>0 DEF Steps, HandEmpty, WorkPcs, ScanPcs, Runs, EmbedStages, ScanStages,
       Beside, manifest, EndRun, NoScan, NoEmbed, NoRun
  <2>2. CASE Unwound
    BY <2>2, <1>0 DEF Steps, HandEmpty, WorkPcs, ScanPcs, Runs, EmbedStages, ScanStages,
       Beside, manifest, Unwound, NoScan, NoEmbed, NoRun
  <2>3. CASE Killed
    BY <2>3, <1>0 DEF Steps, HandEmpty, WorkPcs, ScanPcs, Runs, EmbedStages, ScanStages,
       Beside, manifest, Killed, NoScan, NoEmbed, NoRun
  <2> QED BY <1>3, <2>1, <2>2, <2>3 DEF StopStep
<1>4. CASE HandStep
  <2>1. CASE QueryBacklog
    <3>1. PICK chosen \in SUBSET Wanted :
            /\ emb' = [emb EXCEPT
                 !.backlog = {[path |-> p, stamp |-> asset[p].stamp, sha |-> asset[p].sha] :
                                p \in chosen},
                 !.truncated = chosen # Wanted]
            /\ run'.pc \in {"finish", "submit"}
            /\ run'.pc = "finish" => chosen = {}
      BY <2>1, QueryIs
    <3>2. run.pc = "reuse" /\ scan' = scan
      BY <2>1 DEF QueryBacklog
    <3>3. /\ run'.pc = "finish" => emb'.backlog = {}
          /\ emb'.batches = emb.batches /\ emb'.items = emb.items
          /\ emb'.errors = emb.errors /\ emb'.queue = emb.queue
      BY <3>1, <1>0 DEF EmbedStages
    <3> QED BY <3>1, <3>2, <3>3 DEF Steps, HandEmpty, WorkPcs, ScanPcs
  <2>2. CASE Submit
    BY <2>2, <1>0 DEF Steps, HandEmpty, WorkPcs, ScanPcs, Runs, EmbedStages, ScanStages,
       Beside, manifest, Submit
  <2>3. CASE EnqueueBatch
    <3>1. CASE emb.dead
      BY <2>3, <3>1, <1>0 DEF Steps, HandEmpty, WorkPcs, ScanPcs, Runs, EnqueueBatch, Go
    <3>2. CASE ~emb.dead
      <4>1. run.pc = "flush" /\ run'.pc = NextBatch
        BY <2>3, <3>2, <1>0 DEF EnqueueBatch, Go, Runs
      <4>2. /\ emb'.items = {} /\ emb'.backlog = emb.backlog /\ emb'.batches = emb.batches
            /\ emb'.errors = emb.errors
        BY <2>3, <3>2, <1>0 DEF EnqueueBatch, EmbedStages
      <4> QED BY <4>1, <4>2 DEF Steps, NextBatch, WorkPcs, ScanPcs
    <3> QED BY <3>1, <3>2
  <2>4. CASE WriterDies
    BY <2>4, <1>0 DEF Steps, HandEmpty, WorkPcs, ScanPcs, Runs, EmbedStages, ScanStages,
       Beside, manifest, WriterDies
  <2>5. ASSUME NEW b \in emb.batches, JoinBatch(b)
        PROVE  Steps'
    BY ZenonT(40), <2>5, <1>0 DEF Steps, HandEmpty, WorkPcs, ScanPcs, Runs, EmbedStages, ScanStages,
       Beside, manifest, JoinBatch, Go, Batched
  <2>6. ASSUME NEW b \in emb.batches, PrepareDies(b)
        PROVE  Steps'
    BY <2>6, <1>0 DEF Steps, HandEmpty, WorkPcs, ScanPcs, Runs, EmbedStages, ScanStages,
       Beside, manifest, PrepareDies, Batched
  <2>7. ASSUME NEW b \in emb.batches, NEW job \in b.jobs, PrepareAsset(b, job)
        PROVE  Steps'
    BY <2>7, <1>0 DEF Steps, HandEmpty, WorkPcs, ScanPcs, Runs, EmbedStages, ScanStages,
       Beside, manifest, PrepareAsset, Batched
  <2> QED BY <1>4, <2>1, <2>2, <2>3, <2>4, <2>5, <2>6, <2>7 DEF HandStep
<1>5. CASE TurnStep
  <2>1. UNCHANGED <<disk, edits, manifest, scan, emb, snap, imports>>
    BY <1>5 DEF TurnStep
  <2>2. CASE Submitted
    <3>1. run.pc \in {"submit", "more"} /\ run' = [run EXCEPT !.pc = IF run.pc = "submit" THEN "join" ELSE "flush"]
      BY <2>2 DEF Submitted, Go
    <3>2. run'.pc = IF run.pc = "submit" THEN "join" ELSE "flush"
      BY <3>1, <1>0 DEF Runs
    <3>3. emb.backlog = {} \/ emb.batches # {}
      <4>1. Cardinality({}) < Depth
        BY FS_EmptySet DEF Assumptions, BuildAssumption
      <4> QED BY <2>2, <4>1 DEF Submitted, MaySubmit
    <3> QED BY <2>1, <3>1, <3>2, <3>3 DEF Steps, HandEmpty, WorkPcs, ScanPcs
  <2>3. CASE ErrorsRecorded
    BY <2>1, <2>3, <1>0 DEF Steps, HandEmpty, WorkPcs, ScanPcs, Runs, ErrorsRecorded, Go
  <2>4. CASE NothingToFlush
    BY <2>1, <2>4, <1>0 DEF Steps, HandEmpty, WorkPcs, ScanPcs, Runs, NothingToFlush, Go,
       NextBatch
  <2>5. CASE SinglesDone
    BY <2>1, <2>5, <1>0 DEF Steps, HandEmpty, WorkPcs, ScanPcs, Runs, SinglesDone, Go,
       NextBatch
  <2>6. CASE FinishEmbedding
    BY <2>1, <2>6, <1>0 DEF Steps, HandEmpty, WorkPcs, ScanPcs, Runs, FinishEmbedding, Go
  <2>7. CASE BatchFails
    BY <2>1, <2>7, <1>0 DEF Steps, HandEmpty, WorkPcs, ScanPcs, Runs, BatchFails, Go
  <2>8. CASE RunFails
    BY <2>1, <2>8, <1>0 DEF Steps, HandEmpty, WorkPcs, ScanPcs, Runs, RunFails, Go
  <2> QED BY <1>5, <2>2, <2>3, <2>4, <2>5, <2>6, <2>7, <2>8 DEF TurnStep
<1>6. CASE TakeSnapshot
  <2>1. CASE TakeSnapshot
    BY <2>1, <1>0 DEF Steps, HandEmpty, WorkPcs, ScanPcs, Runs, EmbedStages, ScanStages,
       Beside, manifest, TakeSnapshot, Settled, Idle
  <2> QED BY <1>6, <2>1 DEF TakeSnapshot
<1>7. CASE WalkStep
  <2>1. ASSUME NEW p \in Paths, Visit(p), Beside
        PROVE  Steps'
    BY <2>1, <1>0 DEF Steps, HandEmpty, WorkPcs, ScanPcs, Runs, EmbedStages, ScanStages,
       Beside, manifest, Visit, Meet, Walking
  <2>2. ASSUME NEW j \in scan.jobs, ReadFile(j), Beside
        PROVE  Steps'
    BY <2>2, <1>0 DEF Steps, HandEmpty, WorkPcs, ScanPcs, Runs, EmbedStages, ScanStages,
       Beside, manifest, ReadFile
  <2>3. ASSUME WorkerDies, Beside
        PROVE  Steps'
    BY <2>3, <1>0 DEF Steps, HandEmpty, WorkPcs, ScanPcs, Runs, EmbedStages, ScanStages,
       Beside, manifest, WorkerDies
  <2>4. ASSUME EndWalk, Beside
        PROVE  Steps'
    BY <2>4, <1>0 DEF Steps, HandEmpty, WorkPcs, ScanPcs, Runs, EmbedStages, ScanStages,
       Beside, manifest, EndWalk
  <2>5. ASSUME ResultsMissing, Beside
        PROVE  Steps'
    BY <2>5, <1>0 DEF Steps, HandEmpty, WorkPcs, ScanPcs, Runs, EmbedStages, ScanStages,
       Beside, manifest, ResultsMissing
  <2>6. ASSUME NEW p \in Paths, SkipUnreadable(p), Beside
        PROVE  Steps'
    BY <2>6, <1>0 DEF Steps, HandEmpty, WorkPcs, ScanPcs, Runs, EmbedStages, ScanStages,
       Beside, manifest, SkipUnreadable, Meet, Walking
  <2> QED BY <1>7, <2>1, <2>2, <2>3, <2>4, <2>5, <2>6 DEF WalkStep
<1>8. CASE AssetStep
  <2>1. ASSUME NEW p \in Paths, VisitGone(p), Beside
        PROVE  Steps'
    BY <2>1, <1>0 DEF Steps, HandEmpty, WorkPcs, ScanPcs, Runs, EmbedStages, ScanStages,
       Beside, manifest, VisitGone, Meet, Walking
  <2>2. ASSUME NEW p \in Paths, VisitFast(p), Beside
        PROVE  Steps'
    BY <2>2, <1>0 DEF Steps, HandEmpty, WorkPcs, ScanPcs, Runs, EmbedStages, ScanStages,
       Beside, manifest, VisitFast, Meet, Walking, Flush
  <2>3. ASSUME NEW r \in scan.results, TakeResult(r), Beside
        PROVE  Steps'
    BY <2>3, <1>0 DEF Steps, HandEmpty, WorkPcs, ScanPcs, Runs, EmbedStages, ScanStages,
       Beside, manifest, TakeResult, Flush
  <2>4. ASSUME FlushLast, Beside
        PROVE  Steps'
    BY <2>4, <1>0 DEF Steps, HandEmpty, WorkPcs, ScanPcs, Runs, EmbedStages, ScanStages,
       Beside, manifest, FlushLast
  <2>5. ASSUME MarkMissingStale, Beside
        PROVE  Steps'
    BY <2>5, <1>0 DEF Steps, HandEmpty, WorkPcs, ScanPcs, Runs, EmbedStages, ScanStages,
       Beside, manifest, MarkMissingStale
  <2>6. ASSUME NEW p \in emb.errors, RecordPrepareError(p)
        PROVE  Steps'
    BY <2>6, <1>0 DEF Steps, HandEmpty, WorkPcs, ScanPcs, Runs, EmbedStages, ScanStages,
       Beside, manifest, RecordPrepareError
  <2>7. ASSUME NEW i \in emb.items, SingleFails(i)
        PROVE  Steps'
    BY <2>7, <1>0 DEF Steps, HandEmpty, WorkPcs, ScanPcs, Runs, EmbedStages, ScanStages,
       Beside, manifest, SingleFails
  <2> QED BY <1>8, <2>1, <2>2, <2>3, <2>4, <2>5, <2>6, <2>7 DEF AssetStep
<1>9. CASE WriteStep
  <2>1. CASE FlushBatch
    BY <2>1, <1>0 DEF Steps, HandEmpty, WorkPcs, ScanPcs, Runs, EmbedStages, ScanStages,
       Beside, manifest, FlushBatch, NextBatch
  <2>2. CASE WriterStep
    BY <2>2, <1>0 DEF Steps, HandEmpty, WorkPcs, ScanPcs, Runs, EmbedStages, ScanStages,
       Beside, manifest, WriterStep
  <2>3. ASSUME NEW i \in emb.items, SingleOk(i)
        PROVE  Steps'
    BY <2>3, <1>0 DEF Steps, HandEmpty, WorkPcs, ScanPcs, Runs, EmbedStages, ScanStages,
       Beside, manifest, SingleOk
  <2> QED BY <1>9, <2>1, <2>2, <2>3 DEF WriteStep
<1>10. CASE VecStep
  <2>1. ASSUME NEW p \in Paths, DropFeatures(p), Beside
        PROVE  Steps'
    BY <2>1, <1>0 DEF Steps, HandEmpty, WorkPcs, ScanPcs, Runs, EmbedStages, ScanStages,
       Beside, manifest, DropFeatures
  <2>2. ASSUME NEW k \in Kinds, ReuseVectors(k)
        PROVE  Steps'
    BY <2>2, <1>0 DEF Steps, HandEmpty, WorkPcs, ScanPcs, Runs, EmbedStages, ScanStages,
       Beside, manifest, ReuseVectors
  <2> QED BY <1>10, <2>1, <2>2 DEF VecStep
<1>11. CASE ImportStep
  <2>1. ASSUME NEW p \in Paths, NEW k \in Kinds, NEW c \in Goods,
               ImportEmbedding(p, k, c)
        PROVE  Steps'
    BY <2>1, <1>0 DEF Steps, HandEmpty, WorkPcs, ScanPcs, Runs, EmbedStages, ScanStages,
       Beside, manifest, ImportEmbedding, Idle
  <2> QED BY <1>11, <2>1 DEF ImportStep
<1>12. CASE ViewStep
  <2>1. ASSUME Regroup, Beside
        PROVE  Steps'
    BY <2>1, <1>0 DEF Steps, HandEmpty, WorkPcs, ScanPcs, Runs, EmbedStages, ScanStages,
       Beside, manifest, Regroup, AfterManifest
  <2>2. CASE AdvanceGeneration
    BY <2>2, <1>0 DEF Steps, HandEmpty, WorkPcs, ScanPcs, Runs, EmbedStages, ScanStages,
       Beside, manifest, AdvanceGeneration, Go
  <2>3. CASE DropOverview
    BY <2>3, <1>0 DEF Steps, HandEmpty, WorkPcs, ScanPcs, Runs, EmbedStages, ScanStages,
       Beside, manifest, DropOverview, Go
  <2>4. CASE CloseRun
    BY <2>4, <1>0 DEF Steps, HandEmpty, WorkPcs, ScanPcs, Runs, EmbedStages, ScanStages,
       Beside, manifest, CloseRun, Go
  <2> QED BY <1>12, <2>1, <2>2, <2>3, <2>4 DEF ViewStep
<1> QED BY <1>1, <1>2, <1>3, <1>4, <1>5, <1>6, <1>7, <1>8, <1>9, <1>10, <1>11, <1>12 DEF BuildSteps

\* An error is written where it is met.
LEMMA ErringWhenKept ==
  ASSUME Assumptions, TypeInv, HandInv, ErringWhen, BuildSteps
  PROVE  ErringWhen'
<1>0. run \in Runs /\ scan \in ScanStages
  BY DEF TypeInv, RunOK, ScanOK
<1>1. CASE EditStep
  <2>1. ASSUME NEW p \in Paths, NEW c \in Goods \cup {Bad, Gone}, EditFile(p, c),
               Beside
        PROVE  ErringWhen'
    BY <2>1, <1>0 DEF ErringWhen, Runs, ScanStages, Beside, manifest, EditFile
  <2> QED BY <1>1, <2>1 DEF EditStep
<1>2. CASE BeginStep
  <2>1. ASSUME NEW stage \in SUBSET {"manifest", "embeddings"},
               NEW mode \in Modes \cup {"serial"}, NEW limit \in Nat,
               NEW kinds \in SUBSET Kinds, NEW async \in BOOLEAN,
               BeginRun(stage, mode, limit, kinds, async)
        PROVE  ErringWhen'
    BY <2>1, <1>0 DEF ErringWhen, Runs, ScanStages, Beside, manifest, BeginRun, NoScan,
       NoRun, Idle
  <2> QED BY <1>2, <2>1 DEF BeginStep
<1>3. CASE StopStep
  <2>1. CASE EndRun
    BY <2>1, <1>0 DEF ErringWhen, Runs, ScanStages, Beside, manifest, EndRun, NoScan, NoRun
  <2>2. CASE Unwound
    BY <2>2, <1>0 DEF ErringWhen, Runs, ScanStages, Beside, manifest, Unwound, NoScan, NoRun
  <2>3. CASE Killed
    BY <2>3, <1>0 DEF ErringWhen, Runs, ScanStages, Beside, manifest, Killed, NoScan, NoRun
  <2> QED BY <1>3, <2>1, <2>2, <2>3 DEF StopStep
<1>4. CASE HandStep
  <2>1. CASE QueryBacklog
    BY <2>1, <1>0 DEF ErringWhen, Runs, ScanStages, Beside, manifest, QueryBacklog, Go
  <2>2. CASE Submit
    BY <2>2, <1>0 DEF ErringWhen, Runs, ScanStages, Beside, manifest, Submit
  <2>3. CASE EnqueueBatch
    BY <2>3, <1>0 DEF ErringWhen, Runs, ScanStages, Beside, manifest, EnqueueBatch, Go,
       NextBatch
  <2>4. CASE WriterDies
    BY <2>4, <1>0 DEF ErringWhen, Runs, ScanStages, Beside, manifest, WriterDies
  <2>5. ASSUME NEW b \in emb.batches, JoinBatch(b)
        PROVE  ErringWhen'
    BY <2>5, <1>0 DEF ErringWhen, Runs, ScanStages, Beside, manifest, JoinBatch, Go
  <2>6. ASSUME NEW b \in emb.batches, PrepareDies(b)
        PROVE  ErringWhen'
    BY <2>6, <1>0 DEF ErringWhen, Runs, ScanStages, Beside, manifest, PrepareDies
  <2>7. ASSUME NEW b \in emb.batches, NEW job \in b.jobs, PrepareAsset(b, job)
        PROVE  ErringWhen'
    BY <2>7, <1>0 DEF ErringWhen, Runs, ScanStages, Beside, manifest, PrepareAsset
  <2> QED BY <1>4, <2>1, <2>2, <2>3, <2>4, <2>5, <2>6, <2>7 DEF HandStep
<1>5. CASE TurnStep
  <2>1. UNCHANGED <<disk, edits, manifest, scan, emb, snap, imports>>
    BY <1>5 DEF TurnStep
  <2>2. CASE Submitted
    BY <2>1, <2>2, <1>0 DEF ErringWhen, Runs, ScanStages, Submitted, Go
  <2>3. CASE ErrorsRecorded
    BY <2>1, <2>3, <1>0 DEF ErringWhen, Runs, ScanStages, ErrorsRecorded, Go
  <2>4. CASE NothingToFlush
    BY <2>1, <2>4, <1>0 DEF ErringWhen, Runs, ScanStages, NothingToFlush, Go
  <2>5. CASE SinglesDone
    BY <2>1, <2>5, <1>0 DEF ErringWhen, Runs, ScanStages, SinglesDone, Go
  <2>6. CASE FinishEmbedding
    BY <2>1, <2>6, <1>0 DEF ErringWhen, Runs, ScanStages, FinishEmbedding, Go
  <2>7. CASE BatchFails
    BY <2>1, <2>7, <1>0 DEF ErringWhen, Runs, ScanStages, BatchFails, Go
  <2>8. CASE RunFails
    BY <2>1, <2>8, <1>0 DEF ErringWhen, Runs, ScanStages, RunFails, Go
  <2> QED BY <1>5, <2>2, <2>3, <2>4, <2>5, <2>6, <2>7, <2>8 DEF TurnStep
<1>6. CASE TakeSnapshot
  <2>1. CASE TakeSnapshot
    BY <2>1, <1>0 DEF ErringWhen, Runs, ScanStages, Beside, manifest, TakeSnapshot
  <2> QED BY <1>6, <2>1 DEF TakeSnapshot
<1>7. CASE WalkStep
  <2>1. ASSUME NEW p \in Paths, Visit(p), Beside
        PROVE  ErringWhen'
    BY <2>1, <1>0 DEF ErringWhen, Runs, ScanStages, Beside, manifest, Visit, Meet, Walking
  <2>2. ASSUME NEW j \in scan.jobs, ReadFile(j), Beside
        PROVE  ErringWhen'
    BY <2>2, <1>0 DEF ErringWhen, Runs, ScanStages, Beside, manifest, ReadFile
  <2>3. ASSUME WorkerDies, Beside
        PROVE  ErringWhen'
    BY <2>3, <1>0 DEF ErringWhen, Runs, ScanStages, Beside, manifest, WorkerDies
  <2>4. ASSUME EndWalk, Beside
        PROVE  ErringWhen'
    BY <2>4, <1>0 DEF ErringWhen, Runs, ScanStages, Beside, manifest, EndWalk
  <2>5. ASSUME ResultsMissing, Beside
        PROVE  ErringWhen'
    BY <2>5, <1>0 DEF ErringWhen, Runs, ScanStages, Beside, manifest, ResultsMissing
  <2>6. ASSUME NEW p \in Paths, SkipUnreadable(p), Beside
        PROVE  ErringWhen'
    BY <2>6, <1>0 DEF ErringWhen, Runs, ScanStages, Beside, manifest, SkipUnreadable, Meet, Walking
  <2> QED BY <1>7, <2>1, <2>2, <2>3, <2>4, <2>5, <2>6 DEF WalkStep
<1>8. CASE AssetStep
  <2>1. ASSUME NEW p \in Paths, VisitGone(p), Beside
        PROVE  ErringWhen'
    BY <2>1, <1>0 DEF ErringWhen, Runs, ScanStages, Beside, manifest, VisitGone, Meet,
       Walking
  <2>2. ASSUME NEW p \in Paths, VisitFast(p), Beside
        PROVE  ErringWhen'
    BY <2>2, <1>0 DEF ErringWhen, Runs, ScanStages, Beside, manifest, VisitFast, Meet,
       Walking, Flush
  <2>3. ASSUME NEW r \in scan.results, TakeResult(r), Beside
        PROVE  ErringWhen'
    BY <2>3, <1>0 DEF ErringWhen, Runs, ScanStages, Beside, manifest, TakeResult, Flush
  <2>4. ASSUME FlushLast, Beside
        PROVE  ErringWhen'
    BY <2>4, <1>0 DEF ErringWhen, Runs, ScanStages, Beside, manifest, FlushLast
  <2>5. ASSUME MarkMissingStale, Beside
        PROVE  ErringWhen'
    BY <2>5, <1>0 DEF ErringWhen, Runs, ScanStages, Beside, manifest, MarkMissingStale
  <2>6. ASSUME NEW p \in emb.errors, RecordPrepareError(p)
        PROVE  ErringWhen'
    BY <2>6, <1>0 DEF ErringWhen, Runs, ScanStages, Beside, manifest, RecordPrepareError
  <2>7. ASSUME NEW i \in emb.items, SingleFails(i)
        PROVE  ErringWhen'
    BY <2>7, <1>0 DEF ErringWhen, Runs, ScanStages, Beside, manifest, SingleFails
  <2> QED BY <1>8, <2>1, <2>2, <2>3, <2>4, <2>5, <2>6, <2>7 DEF AssetStep
<1>9. CASE WriteStep
  <2>1. CASE FlushBatch
    BY <2>1, <1>0 DEF ErringWhen, Runs, ScanStages, Beside, manifest, FlushBatch, NextBatch
  <2>2. CASE WriterStep
    BY <2>2, <1>0 DEF ErringWhen, Runs, ScanStages, Beside, manifest, WriterStep
  <2>3. ASSUME NEW i \in emb.items, SingleOk(i)
        PROVE  ErringWhen'
    BY <2>3, <1>0 DEF ErringWhen, Runs, ScanStages, Beside, manifest, SingleOk
  <2> QED BY <1>9, <2>1, <2>2, <2>3 DEF WriteStep
<1>10. CASE VecStep
  <2>1. ASSUME NEW p \in Paths, DropFeatures(p), Beside
        PROVE  ErringWhen'
    BY <2>1, <1>0 DEF ErringWhen, Runs, ScanStages, Beside, manifest, DropFeatures
  <2>2. ASSUME NEW k \in Kinds, ReuseVectors(k)
        PROVE  ErringWhen'
    BY <2>2, <1>0 DEF ErringWhen, Runs, ScanStages, Beside, manifest, ReuseVectors
  <2> QED BY <1>10, <2>1, <2>2 DEF VecStep
<1>11. CASE ImportStep
  <2>1. ASSUME NEW p \in Paths, NEW k \in Kinds, NEW c \in Goods,
               ImportEmbedding(p, k, c)
        PROVE  ErringWhen'
    BY <2>1, <1>0 DEF ErringWhen, Runs, ScanStages, Beside, manifest, ImportEmbedding, Idle
  <2> QED BY <1>11, <2>1 DEF ImportStep
<1>12. CASE ViewStep
  <2>1. ASSUME Regroup, Beside
        PROVE  ErringWhen'
    BY <2>1, <1>0 DEF ErringWhen, Runs, ScanStages, Beside, manifest, Regroup, AfterManifest
  <2>2. CASE AdvanceGeneration
    BY <2>2, <1>0 DEF ErringWhen, Runs, ScanStages, Beside, manifest, AdvanceGeneration, Go
  <2>3. CASE DropOverview
    BY <2>3, <1>0 DEF ErringWhen, Runs, ScanStages, Beside, manifest, DropOverview, Go
  <2>4. CASE CloseRun
    BY <2>4, <1>0 DEF ErringWhen, Runs, ScanStages, Beside, manifest, CloseRun, Go
  <2> QED BY <1>12, <2>1, <2>2, <2>3, <2>4 DEF ViewStep
<1> QED BY <1>1, <1>2, <1>3, <1>4, <1>5, <1>6, <1>7, <1>8, <1>9, <1>10, <1>11, <1>12 DEF BuildSteps

\* With less in hand paths stay apart.
LEMMA FewerApart ==
  ASSUME OnePlace,
         emb'.backlog \subseteq emb.backlog, emb'.batches \subseteq emb.batches,
         emb'.items \subseteq emb.items, emb'.errors \subseteq emb.errors,
         scan'.erring \subseteq scan.erring, \A p \in Paths : Queued(p)' => Queued(p)
  PROVE  OnePlace'
BY DEF Upstream, InBatch, OnePlace, QueueApart, BatchesApart, InBacklog, InItems,
  BacklogApart

\* With nothing in hand they are.
LEMMA NothingApart ==
  ASSUME HandEmpty'
  PROVE  OnePlace'
BY DEF HandEmpty, Queued, QueueApart, BatchesApart, BacklogApart, InBacklog, OnePlace

\* A batch whose paths are those of the one it replaces.
LEMMA ReplacedApart ==
  ASSUME TypeInv, OnePlace, NEW b \in emb.batches, NEW c, Batched(b, c), scan' = scan,
         \A p \in Paths : InBatch(c, p) => InBatch(b, p)
  PROVE  OnePlace'
<1>1. /\ emb'.batches = (emb.batches \ {b}) \cup {c}
      /\ emb'.backlog = emb.backlog /\ emb'.items = emb.items
      /\ emb'.errors = emb.errors /\ emb'.queue = emb.queue
  BY DEF TypeInv, EmbOK, EmbedStages, Batched
<1>2. \A p \in Paths : Upstream(p)' => Upstream(p)
  BY <1>1 DEF Upstream, InBatch
<1>3. \A p \in Paths : Queued(p)' => Queued(p)
  BY <1>1 DEF Queued
<1>4. QueueApart'
  BY <1>2, <1>3 DEF OnePlace, QueueApart
<1>5. BatchesApart'
  <2>1. \A p \in Paths, d \in emb'.batches : InBatch(d, p) =>
          \E e \in emb.batches : InBatch(e, p) /\ (d = e \/ (d = c /\ e = b))
    BY <1>1
  <2>2. ASSUME NEW p \in Paths, NEW d \in emb'.batches, NEW e \in emb'.batches,
               InBatch(d, p), InBatch(e, p)
        PROVE  d = e
    <3>1. CASE d = c /\ e \in emb.batches \ {b}
      BY <2>2, <3>1 DEF OnePlace, BatchesApart
    <3>2. CASE e = c /\ d \in emb.batches \ {b}
      BY <2>2, <3>2 DEF OnePlace, BatchesApart
    <3>3. CASE d \in emb.batches \ {b} /\ e \in emb.batches \ {b}
      BY <2>2, <3>3 DEF OnePlace, BatchesApart
    <3> QED BY <1>1, <3>1, <3>2, <3>3
  <2>3. ASSUME NEW p \in Paths, NEW d \in emb'.batches, InBatch(d, p)
        PROVE  ~InBacklog(p)' /\ ~InItems(p)' /\ p \notin emb'.errors
    BY <1>1, <2>1, <2>3 DEF OnePlace, BatchesApart, InBacklog, InItems
  <2>4. \A d, e : InBatch(d, e)' <=> InBatch(d, e)
    BY DEF InBatch
  <2> QED BY <2>2, <2>3, <2>4 DEF BatchesApart, InBatch
<1>6. BacklogApart'
  BY <1>1 DEF OnePlace, BacklogApart, InBacklog, InItems
<1> QED BY <1>4, <1>5, <1>6 DEF OnePlace

\* A path moves from one place to the next.
LEMMA OnePlaceKept ==
  ASSUME Assumptions, TypeInv, HandInv, Steps, ErringWhen, OnePlace, BuildSteps
  PROVE  OnePlace'
<1>0. run \in Runs /\ scan \in ScanStages /\ emb \in EmbedStages
  BY DEF TypeInv, RunOK, ScanOK, EmbOK
<1>1. CASE EditStep
  <2>1. ASSUME NEW p \in Paths, NEW c \in Goods \cup {Bad, Gone}, EditFile(p, c),
               Beside
        PROVE  OnePlace'
    <3>1. emb' = emb /\ scan'.erring \subseteq scan.erring
      BY <2>1, <1>0 DEF ScanStages, Beside, EditFile
    <3> QED BY <3>1, FewerApart DEF Queued
  <2> QED BY <1>1, <2>1 DEF EditStep
<1>2. CASE BeginStep
  <2>1. ASSUME NEW stage \in SUBSET {"manifest", "embeddings"},
               NEW mode \in Modes \cup {"serial"}, NEW limit \in Nat,
               NEW kinds \in SUBSET Kinds, NEW async \in BOOLEAN,
               BeginRun(stage, mode, limit, kinds, async)
        PROVE  OnePlace'
    <3>1. HandEmpty'
      BY <2>1 DEF HandEmpty, NoEmbed, BeginRun
    <3> QED BY <3>1, NothingApart
  <2> QED BY <1>2, <2>1 DEF BeginStep
<1>3. CASE StopStep
  <2>1. CASE EndRun
    <3>1. HandEmpty'
      BY <2>1 DEF HandEmpty, NoEmbed, EndRun
    <3> QED BY <3>1, NothingApart
  <2>2. CASE Unwound
    <3>1. HandEmpty'
      BY <2>2 DEF HandEmpty, NoEmbed, Unwound
    <3> QED BY <3>1, NothingApart
  <2>3. CASE Killed
    <3>1. HandEmpty'
      BY <2>3 DEF HandEmpty, NoEmbed, Killed
    <3> QED BY <3>1, NothingApart
  <2> QED BY <1>3, <2>1, <2>2, <2>3 DEF StopStep
<1>4. CASE HandStep
  <2>1. CASE QueryBacklog
    <3>1. PICK chosen \in SUBSET Wanted :
            emb' = [emb EXCEPT
              !.backlog = {[path |-> p, stamp |-> asset[p].stamp, sha |-> asset[p].sha] :
                             p \in chosen},
              !.truncated = chosen # Wanted]
      BY <2>1, QueryIs
    <3>2. /\ emb'.backlog = {[path |-> p, stamp |-> asset[p].stamp, sha |-> asset[p].sha] : p \in chosen}
          /\ emb'.batches = emb.batches /\ emb'.items = emb.items
          /\ emb'.errors = emb.errors /\ emb'.queue = emb.queue
      BY <3>1, <1>0 DEF EmbedStages
    <3>3. emb'.batches = {} /\ emb'.items = {} /\ emb'.errors = {} /\ emb'.queue = <<>>
      BY <2>1, <3>2 DEF QueryBacklog, Steps, HandEmpty
    <3>4. QueueApart'
      BY <3>3 DEF QueueApart, Queued
    <3>5. BatchesApart'
      BY <3>3 DEF BatchesApart
    <3>6. BacklogApart'
      <4>1. ASSUME NEW x \in emb'.backlog, NEW y \in emb'.backlog, x.path = y.path PROVE x = y
        BY <3>2, <4>1
      <4> QED BY <3>3, <4>1 DEF BacklogApart, InItems
    <3> QED BY <3>4, <3>5, <3>6 DEF OnePlace
  <2>2. CASE Submit
    <3>1. PICK chunk \in SUBSET emb.backlog :
            emb' = [emb EXCEPT
              !.backlog = @ \ chunk,
              !.batches = @ \cup {[jobs |-> chunk, items |-> {}, errors |-> {}, lost |-> FALSE]}]
      BY <2>2 DEF Submit, kSubset
    <3> DEFINE c == [jobs |-> chunk, items |-> {}, errors |-> {}, lost |-> FALSE]
    <3>2. /\ emb'.backlog = emb.backlog \ chunk /\ emb'.batches = emb.batches \cup {c}
          /\ emb'.items = emb.items /\ emb'.errors = emb.errors /\ emb'.queue = emb.queue
      BY <3>1, <1>0 DEF EmbedStages
    <3>3. scan' = scan
      BY <2>2 DEF Submit
    <3>4. \A p \in Paths : InBatch(c, p) <=> \E x \in chunk : x.path = p
      BY DEF InBatch
    <3> HIDE DEF c
    <3>5. \A p \in Paths : InBatch(c, p) => InBacklog(p)
      BY <3>4 DEF InBacklog
    <3>6. \A p \in Paths : Upstream(p)' => Upstream(p)
      BY <3>2, <3>5 DEF Upstream, InBatch, InBacklog
    <3>7. QueueApart'
      BY <3>2, <3>3, <3>6 DEF OnePlace, QueueApart, Queued
    <3>8. BatchesApart'
      <4>1. ASSUME NEW p \in Paths, InBatch(c, p)
            PROVE  /\ \A d \in emb.batches : ~InBatch(d, p)
                   /\ ~InBacklog(p)' /\ ~InItems(p)' /\ p \notin emb'.errors
        <5>1. PICK x \in chunk : x.path = p
          BY <3>4, <4>1
        <5>2. \A y \in emb'.backlog : y.path # p
          BY <3>2, <5>1 DEF OnePlace, BacklogApart
        <5>3. InBacklog(p)
          BY <3>5, <4>1
        <5> QED BY <3>2, <5>2, <5>3 DEF OnePlace, BatchesApart, BacklogApart, InBacklog, InItems
      <4>2. ASSUME NEW p \in Paths, NEW d \in emb.batches, InBatch(d, p)
            PROVE  ~InBacklog(p)' /\ ~InItems(p)' /\ p \notin emb'.errors
        BY <3>2, <4>2 DEF OnePlace, BatchesApart, InBacklog, InItems
      <4>3. ASSUME NEW p \in Paths, NEW d \in emb'.batches, NEW e \in emb'.batches,
                   InBatch(d, p), InBatch(e, p)
            PROVE  d = e
        BY <3>2, <4>1, <4>3 DEF OnePlace, BatchesApart
      <4>4. ASSUME NEW p \in Paths, NEW d \in emb'.batches, InBatch(d, p)
            PROVE  ~InBacklog(p)' /\ ~InItems(p)' /\ p \notin emb'.errors
        BY <3>2, <4>1, <4>2, <4>4
      <4>5. \A d, e : InBatch(d, e)' <=> InBatch(d, e)
        BY DEF InBatch
      <4> QED BY <4>3, <4>4, <4>5 DEF BatchesApart, InBatch
    <3>9. BacklogApart'
      BY <3>2 DEF OnePlace, BacklogApart, InBacklog, InItems
    <3> QED BY <3>7, <3>8, <3>9 DEF OnePlace
  <2>3. CASE EnqueueBatch
    <3>1. CASE emb.dead
      <4>1. emb' = emb /\ scan' = scan
        BY <2>3, <3>1 DEF EnqueueBatch
      <4> QED BY <4>1, FewerApart DEF Queued
    <3>2. CASE ~emb.dead
      <4>1. /\ emb'.items = {} /\ emb'.backlog = emb.backlog /\ emb'.batches = emb.batches
            /\ emb'.errors = emb.errors /\ emb'.queue = Append(emb.queue, emb.items)
            /\ scan' = scan /\ run.pc = "flush"
        BY <2>3, <3>2, <1>0 DEF EnqueueBatch, EmbedStages
      <4>2. emb.queue \in Seq(SUBSET EmbedItems) /\ emb.items \in SUBSET EmbedItems
        BY <1>0 DEF EmbedStages
      <4>3. emb.errors = {} /\ scan.erring = {}
        BY <4>1 DEF Steps, WorkPcs, ErringWhen
      <4>4. ASSUME NEW p \in Paths, Queued(p)' PROVE Queued(p) \/ InItems(p)
        <5>1. PICK n \in DOMAIN emb'.queue : \E x \in emb'.queue[n] : x.path = p
          BY <4>4 DEF Queued
        <5>2. CASE n \in DOMAIN emb.queue
          BY <4>1, <4>2, <5>1, <5>2 DEF Queued
        <5>3. CASE n = Len(emb.queue) + 1
          BY <4>1, <4>2, <5>1, <5>3 DEF InItems
        <5> QED BY <4>1, <4>2, <5>2, <5>3
      <4>5. ASSUME NEW p \in Paths PROVE Upstream(p)' <=> InBacklog(p) \/ \E b \in emb.batches : InBatch(b, p)
        BY <4>1, <4>3 DEF Upstream, InBacklog, InBatch
      <4>6. ASSUME NEW p \in Paths, Queued(p)' PROVE ~Upstream(p)'
        <5>1. CASE Queued(p)
          BY <5>1, <4>5 DEF OnePlace, QueueApart, Upstream, InBacklog
        <5>2. CASE InItems(p)
          BY <5>2, <4>5 DEF OnePlace, BatchesApart, BacklogApart
        <5> QED BY <4>4, <4>6, <5>1, <5>2
      <4>7. QueueApart'
        BY <4>1, <4>3, <4>6 DEF QueueApart
      <4>8. BatchesApart'
        BY <4>1 DEF OnePlace, BatchesApart, InBatch, InBacklog, InItems
      <4>9. BacklogApart'
        BY <4>1 DEF OnePlace, BacklogApart, InBacklog, InItems
      <4> QED BY <4>7, <4>8, <4>9 DEF OnePlace
    <3> QED BY <3>1, <3>2
  <2>4. CASE WriterDies
    BY <2>4, <1>0, FewerApart DEF WriterDies, EmbedStages, Queued
  <2>5. ASSUME NEW b \in emb.batches, JoinBatch(b)
        PROVE  OnePlace'
    <3>1. CASE b.lost
      <4>1. emb' = emb /\ scan' = scan
        BY <2>5, <3>1 DEF JoinBatch
      <4> QED BY <4>1, FewerApart DEF Queued
    <3>2. CASE ~b.lost
      <4>1. /\ emb'.items = b.items /\ emb'.backlog = emb.backlog /\ emb'.batches = emb.batches \ {b}
            /\ emb'.errors = b.errors /\ emb'.queue = emb.queue
            /\ scan' = scan /\ run.pc = "join"
        BY <2>5, <3>2, <1>0 DEF JoinBatch, EmbedStages
      <4>2. \A p \in Paths : InItems(p)' \/ p \in emb'.errors => InBatch(b, p)
        BY <4>1 DEF InItems, InBatch
      <4>3. \A p \in Paths : Upstream(p)' => Upstream(p)
        BY <4>1, <4>2 DEF Upstream, InItems, InBatch
      <4>4. QueueApart'
        BY <4>1, <4>3 DEF OnePlace, QueueApart, Queued
      <4>5. \A d, e : InBatch(d, e)' <=> InBatch(d, e)
        BY DEF InBatch
      <4>6. BatchesApart'
        <5>1. ASSUME NEW p \in Paths, NEW d \in emb'.batches, InBatch(d, p)
              PROVE  ~InBatch(b, p) /\ ~InBacklog(p)
          BY <4>1, <5>1 DEF OnePlace, BatchesApart
        <5>2. \A p \in Paths, d \in emb'.batches : InBatch(d, p) => ~InBacklog(p)' /\ ~InItems(p)' /\ p \notin emb'.errors
          BY <4>1, <4>2, <5>1 DEF InBacklog
        <5>3. \A p \in Paths, d, e \in emb'.batches : InBatch(d, p) /\ InBatch(e, p) => d = e
          BY <4>1 DEF OnePlace, BatchesApart
        <5> QED BY <4>5, <5>2, <5>3 DEF BatchesApart, InBatch
      <4>7. BacklogApart'
        BY <4>1, <4>2 DEF OnePlace, BatchesApart, InBacklog, BacklogApart
      <4> QED BY <4>4, <4>6, <4>7 DEF OnePlace
    <3> QED BY <3>1, <3>2
  <2>6. ASSUME NEW b \in emb.batches, PrepareDies(b)
        PROVE  OnePlace'
    <3>1. PICK job \in b.jobs : Batched(b, [b EXCEPT !.jobs = @ \ {job}, !.lost = TRUE])
      BY <2>6 DEF PrepareDies
    <3>2. b \in Batches
      BY <1>0 DEF EmbedStages
    <3> DEFINE c == [b EXCEPT !.jobs = @ \ {job}, !.lost = TRUE]
    <3>3. \A p \in Paths : InBatch(c, p) => InBatch(b, p)
      BY <3>2 DEF InBatch, Batches
    <3>4. Batched(b, c) /\ scan' = scan
      BY <2>6, <3>1 DEF PrepareDies
    <3> HIDE DEF c
    <3> QED BY <3>3, <3>4, ReplacedApart
  <2>7. ASSUME NEW b \in emb.batches, NEW job \in b.jobs, PrepareAsset(b, job)
        PROVE  OnePlace'
    <3>1. b \in Batches
      BY <1>0 DEF EmbedStages
    <3>2. PICK c \in Batches :
            /\ Batched(b, c) /\ c.jobs = b.jobs \ {job}
            /\ \/ c.errors = b.errors \cup {job.path} /\ c.items = b.items
               \/ \E item \in EmbedItems :
                    /\ c.errors = b.errors /\ c.items = b.items \cup {item}
                    /\ item.path = job.path
      BY <2>7, <3>1, PreparedIs
    <3>3. \A p \in Paths : InBatch(c, p) => InBatch(b, p)
      BY <3>2 DEF InBatch
    <3>4. scan' = scan
      BY <2>7 DEF PrepareAsset
    <3> QED BY <3>2, <3>3, <3>4, ReplacedApart
  <2> QED BY <1>4, <2>1, <2>2, <2>3, <2>4, <2>5, <2>6, <2>7 DEF HandStep
<1>5. CASE TurnStep
  <2>1. emb' = emb /\ scan' = scan
    BY <1>5 DEF TurnStep
  <2> QED BY <2>1, FewerApart DEF Queued
<1>6. CASE TakeSnapshot
  <2>1. emb' = emb /\ scan' = scan
    BY <1>6 DEF TakeSnapshot
  <2> QED BY <2>1, FewerApart DEF Queued
<1>7. CASE WalkStep
  <2>1. emb' = emb /\ scan'.erring = scan.erring
    BY <1>7, <1>0 DEF ScanStages, Beside, WalkStep, Visit, SkipUnreadable, ReadFile, WorkerDies, EndWalk,
       ResultsMissing
  <2> QED BY <2>1, FewerApart DEF Queued
<1>8. CASE AssetStep
  <2>1. ASSUME NEW p \in Paths, VisitGone(p), Beside
        PROVE  OnePlace'
    BY <2>1, <1>0, NothingApart DEF ScanPcs, Beside, VisitGone, Meet, Walking, Steps,
      HandEmpty
  <2>2. ASSUME NEW p \in Paths, VisitFast(p), Beside
        PROVE  OnePlace'
    BY <2>2, <1>0, NothingApart DEF ScanPcs, Beside, VisitFast, Meet, Walking, Steps,
      HandEmpty
  <2>3. ASSUME NEW r \in scan.results, TakeResult(r), Beside
        PROVE  OnePlace'
    BY <2>3, <1>0, NothingApart DEF ScanPcs, Beside, TakeResult, Steps, HandEmpty
  <2>4. ASSUME FlushLast, Beside
        PROVE  OnePlace'
    BY <2>4, <1>0, NothingApart DEF ScanPcs, Beside, FlushLast, Steps, HandEmpty
  <2>5. ASSUME MarkMissingStale, Beside
        PROVE  OnePlace'
    BY <2>5, <1>0, NothingApart DEF ScanPcs, Beside, MarkMissingStale, Steps, HandEmpty
  <2>6. ASSUME NEW p \in emb.errors, RecordPrepareError(p)
        PROVE  OnePlace'
    <3>1. /\ emb'.backlog = emb.backlog /\ emb'.batches = emb.batches /\ emb'.items = emb.items
          /\ emb'.errors = emb.errors \ {p} /\ emb'.queue = emb.queue /\ scan'.erring = {p}
      BY <2>6, <1>0 DEF RecordPrepareError, EmbedStages, ScanStages
    <3>2. \A q \in Paths : Upstream(q)' => Upstream(q)
      BY <3>1 DEF Upstream, InBatch
    <3>3. \A q \in Paths : Queued(q)' <=> Queued(q)
      BY <3>1 DEF Queued
    <3>4. Upstream(p)
      BY DEF Upstream
    <3>5. QueueApart'
      BY <3>1, <3>2, <3>3, <3>4 DEF OnePlace, QueueApart
    <3>6. BatchesApart'
      BY <3>1 DEF OnePlace, BatchesApart, InBatch, InBacklog, InItems
    <3>7. BacklogApart'
      BY <3>1 DEF OnePlace, BacklogApart, InBacklog, InItems
    <3> QED BY <3>5, <3>6, <3>7 DEF OnePlace
  <2>7. ASSUME NEW i \in emb.items, SingleFails(i)
        PROVE  OnePlace'
    <3>1. /\ emb'.backlog = emb.backlog /\ emb'.batches = emb.batches /\ emb'.items = emb.items \ {i}
          /\ emb'.errors = emb.errors /\ emb'.queue = emb.queue /\ scan'.erring = {i.path}
      BY <2>7, <1>0 DEF SingleFails, EmbedStages, ScanStages
    <3>2. \A q \in Paths : Upstream(q)' => Upstream(q)
      BY <3>1 DEF Upstream, InBatch
    <3>3. \A q \in Paths : Queued(q)' <=> Queued(q)
      BY <3>1 DEF Queued
    <3>4. Upstream(i.path)
      BY DEF Upstream
    <3>5. QueueApart'
      BY <3>1, <3>2, <3>3, <3>4 DEF OnePlace, QueueApart
    <3>6. BatchesApart'
      BY <3>1 DEF OnePlace, BatchesApart, InBatch, InBacklog, InItems
    <3>7. BacklogApart'
      BY <3>1 DEF OnePlace, BacklogApart, InBacklog, InItems
    <3> QED BY <3>5, <3>6, <3>7 DEF OnePlace
  <2> QED BY <1>8, <2>1, <2>2, <2>3, <2>4, <2>5, <2>6, <2>7 DEF AssetStep
<1>9. CASE WriteStep
  <2>1. CASE FlushBatch
    BY <2>1, <1>0, FewerApart DEF FlushBatch, EmbedStages, Queued
  <2>2. CASE WriterStep
    BY <2>2, <1>0, FewerApart DEF WriterStep, EmbedStages, Queued
  <2>3. ASSUME NEW i \in emb.items, SingleOk(i) PROVE OnePlace'
    BY <2>3, <1>0, FewerApart DEF SingleOk, EmbedStages, Queued
  <2> QED BY <1>9, <2>1, <2>2, <2>3 DEF WriteStep
<1>10. CASE VecStep
  <2>1. ASSUME NEW p \in Paths, DropFeatures(p), Beside
        PROVE  OnePlace'
    <3>1. emb' = emb /\ scan'.erring \subseteq scan.erring
      BY <2>1, <1>0 DEF ScanStages, Beside, DropFeatures
    <3> QED BY <3>1, FewerApart DEF Queued
  <2>2. ASSUME NEW k \in Kinds, ReuseVectors(k)
        PROVE  OnePlace'
    BY <2>2, <1>0, FewerApart DEF ReuseVectors, EmbedStages, Queued
  <2> QED BY <1>10, <2>1, <2>2 DEF VecStep
<1>11. CASE ImportStep
  <2>1. emb' = emb /\ scan' = scan
    BY <1>11 DEF ImportStep, ImportEmbedding
  <2> QED BY <2>1, FewerApart DEF Queued
<1>12. CASE ViewStep
  <2>1. emb' = emb /\ scan' = scan
    BY <1>12 DEF Beside, ViewStep, Regroup, AdvanceGeneration, DropOverview, CloseRun
  <2> QED BY <2>1, FewerApart DEF Queued
<1> QED BY <1>1, <1>2, <1>3, <1>4, <1>5, <1>6, <1>7, <1>8, <1>9, <1>10, <1>11, <1>12 DEF BuildSteps

\* What the writer thread takes from its queue.
LEMMA WriterIs ==
  ASSUME Assumptions, TypeInv, WriterStep
  PROVE  \E items \in SUBSET EmbedItems :
           /\ WriteBatch(items) /\ scan' = scan
           /\ run' = [run EXCEPT !.filled = @ \/ FilledRows(items) # {}]
           /\ \A i \in items : \E n \in DOMAIN emb.queue : i \in emb.queue[n]
           /\ \A n \in DOMAIN emb'.queue : emb'.queue[n] = emb.queue[n + 1] /\ n + 1 \in DOMAIN emb.queue
           /\ \A p \in Paths : Queued(p) => Queued(p)' \/ \E i \in items : i.path = p
           /\ emb' = [emb EXCEPT !.queue = emb'.queue]
<1> DEFINE items == Head(emb.queue)
<1>1. emb.queue \in Seq(SUBSET EmbedItems) /\ emb.queue # <<>> /\ emb \in EmbedStages
  BY DEF WriterStep, TypeInv, EmbOK, EmbedStages
<1>2. items \in SUBSET EmbedItems /\ 1 \in DOMAIN emb.queue /\ items = emb.queue[1]
  BY <1>1
<1>3. emb' = [emb EXCEPT !.queue = Tail(emb.queue)]
  BY DEF WriterStep
<1>4. emb'.queue = Tail(emb.queue)
  BY <1>1, <1>3 DEF EmbedStages
<1>5. \A n \in DOMAIN emb'.queue : emb'.queue[n] = emb.queue[n + 1] /\ n + 1 \in DOMAIN emb.queue
  BY <1>1, <1>4
<1>6. ASSUME NEW p \in Paths, Queued(p) PROVE Queued(p)' \/ \E i \in items : i.path = p
  <2>1. PICK n \in DOMAIN emb.queue : \E x \in emb.queue[n] : x.path = p
    BY <1>6 DEF Queued
  <2>2. CASE n = 1
    BY <1>2, <2>1, <2>2
  <2>3. CASE n # 1
    <3>1. n - 1 \in DOMAIN emb'.queue /\ emb'.queue[n - 1] = emb.queue[n]
      BY <1>1, <1>4, <2>1, <2>3
    <3> QED BY <2>1, <3>1 DEF Queued
  <2> QED BY <2>2, <2>3
<1>7. /\ WriteBatch(items) /\ scan' = scan
      /\ run' = [run EXCEPT !.filled = @ \/ FilledRows(items) # {}]
  BY DEF WriterStep
<1>8. emb' = [emb EXCEPT !.queue = emb'.queue]
  BY <1>3, <1>4
<1> HIDE DEF items
<1> QED BY <1>2, <1>5, <1>6, <1>7, <1>8

\* Nobody writes a row between its error and the loss of its vectors.
LEMMA ErringRowsKept ==
  ASSUME Assumptions, TypeInv, HandInv, ErringWhen, OnePlace, ErringRows, BuildSteps
  PROVE  ErringRows'
<1>0. scan \in ScanStages
  BY DEF TypeInv, ScanOK
<1>1. CASE EditStep
  <2>1. asset' = asset /\ scan'.erring \subseteq scan.erring
    BY <1>1, <1>0 DEF ScanStages, Beside, manifest, EditStep, EditFile
  <2> QED BY <2>1 DEF ErringRows
<1>2. CASE BeginStep
  <2>1. asset' = asset /\ scan'.erring \subseteq scan.erring
    BY <1>2, <1>0 DEF ScanStages, Beside, manifest, BeginStep, BeginRun, NoScan
  <2> QED BY <2>1 DEF ErringRows
<1>3. CASE StopStep
  <2>1. asset' = asset /\ scan'.erring \subseteq scan.erring
    BY <1>3, StopForgets
  <2> QED BY <2>1 DEF ErringRows
<1>4. CASE HandStep
  <2>1. asset' = asset /\ scan'.erring \subseteq scan.erring
    BY <1>4, <1>0 DEF ScanStages, Beside, manifest, HandStep, QueryBacklog, Submit,
       EnqueueBatch, WriterDies, JoinBatch, PrepareDies, PrepareAsset
  <2> QED BY <2>1 DEF ErringRows
<1>5. CASE TurnStep
  <2>1. asset' = asset /\ scan'.erring \subseteq scan.erring
    BY <1>5, <1>0 DEF ScanStages, Beside, manifest, TurnStep
  <2> QED BY <2>1 DEF ErringRows
<1>6. CASE TakeSnapshot
  <2>1. asset' = asset /\ scan'.erring \subseteq scan.erring
    BY <1>6, <1>0 DEF ScanStages, Beside, manifest, TakeSnapshot
  <2> QED BY <2>1 DEF ErringRows
<1>7. CASE WalkStep
  <2>1. asset' = asset /\ scan'.erring \subseteq scan.erring
    BY <1>7, <1>0 DEF ScanStages, Beside, manifest, WalkStep, Visit, SkipUnreadable, ReadFile, WorkerDies,
       EndWalk, ResultsMissing
  <2> QED BY <2>1 DEF ErringRows
<1>8. CASE AssetStep
  <2>1. ASSUME NEW p \in Paths, VisitGone(p), Beside
        PROVE  ErringRows'
    BY <2>1, PathErrorIs, <1>0 DEF VisitGone, TypeInv, ScanStages, ErringRows,
      Assumptions, RowAssumption
  <2>2. ASSUME NEW p \in Paths, VisitFast(p), Beside
        PROVE  ErringRows'
    <3>1. scan.erring = {} /\ scan'.erring = {}
      BY <2>2, <1>0 DEF ScanStages, ErringWhen, VisitFast, Meet, Walking
    <3> QED BY <3>1 DEF ErringRows
  <2>3. ASSUME NEW r \in scan.results, TakeResult(r), Beside
        PROVE  ErringRows'
    <3>1. CASE r.content \in Goods
      <4>1. scan.erring = {} /\ scan'.erring = {}
        BY <2>3, <3>1, <1>0 DEF TakeResult, ScanStages
      <4> QED BY <4>1 DEF ErringRows
    <3>2. CASE r.content \notin Goods
      <4>1. RecordPathError(r.path) /\ scan'.erring = {r.path} /\ r.path \in Paths
        BY <2>3, <3>2, <1>0 DEF TakeResult, ScanStages, Results
      <4>2. asset'[r.path] \in Rows /\ asset'[r.path].error
        BY <4>1, PathErrorIs DEF TypeInv
      <4> QED BY <4>1, <4>2 DEF ErringRows, Assumptions, RowAssumption
    <3> QED BY <3>1, <3>2
  <2>4. ASSUME FlushLast, Beside
        PROVE  ErringRows'
    <3>1. scan.erring = {} /\ scan'.erring = {}
      BY <2>4, <1>0 DEF ScanStages, ErringWhen, FlushLast
    <3> QED BY <3>1 DEF ErringRows
  <2>5. ASSUME MarkMissingStale, Beside
        PROVE  ErringRows'
    <3>1. scan.erring = {} /\ scan'.erring = {}
      BY <2>5, <1>0 DEF ScanStages, ErringWhen, MarkMissingStale
    <3> QED BY <3>1 DEF ErringRows
  <2>6. ASSUME NEW p \in emb.errors, RecordPrepareError(p)
        PROVE  ErringRows'
    BY <2>6, PathErrorIs, <1>0 DEF TypeInv, EmbOK, EmbedStages, RecordPrepareError,
      ScanStages, ErringRows, Assumptions, RowAssumption
  <2>7. ASSUME NEW i \in emb.items, SingleFails(i)
        PROVE  ErringRows'
    <3>1. i.path \in Paths /\ Upstream(i.path)
      BY DEF TypeInv, EmbOK, EmbedStages, EmbedItems, Upstream
    <3>2. asset[i.path] # NoRow
      BY <3>1 DEF HandInv, HandActive, Active
    <3>3. asset'[i.path] \in Rows /\ asset'[i.path].error
      BY <2>7, <3>2, ItemErrorIs
    <3>4. scan'.erring = {i.path}
      BY <2>7, <1>0 DEF SingleFails, ScanStages
    <3> QED BY <3>3, <3>4 DEF ErringRows, Assumptions, RowAssumption
  <2> QED BY <1>8, <2>1, <2>2, <2>3, <2>4, <2>5, <2>6, <2>7 DEF AssetStep
<1>9. CASE WriteStep
  <2>1. CASE FlushBatch
    <3>1. scan.erring = {} /\ scan' = scan
      BY <2>1 DEF FlushBatch, ErringWhen
    <3> QED BY <3>1 DEF ErringRows
  <2>2. CASE WriterStep
    <3>1. PICK items \in SUBSET EmbedItems :
            /\ WriteBatch(items) /\ scan' = scan
            /\ \A i \in items : \E n \in DOMAIN emb.queue : i \in emb.queue[n]
      BY <2>2, WriterIs
    <3>2. \A i \in items : Queued(i.path)
      BY <3>1 DEF Queued
    <3>3. \A p \in Paths : asset'[p] = asset[p] \/ \E i \in FilledRows(items) : i.path = p
      <4>1. AssetOK /\ VecOK /\ EmbOK
        BY DEF TypeInv
      <4>2. \A p \in Paths :
              \/ /\ \A i \in FilledRows(items) : i.path # p
                 /\ asset'[p] = asset[p]
              \/ \E i \in FilledRows(items) :
                   /\ i.path = p
                   /\ asset'[p] = [stamp |-> i.stamp, sha |-> i.sha, error |-> FALSE,
                                   stale |-> FALSE]
        BY <3>1, <4>1, BatchWriteIs
      <4> QED BY <4>2
    <3>4. ASSUME NEW p \in scan.erring PROVE asset'[p] = asset[p]
      <4>1. p \in Paths /\ ~Queued(p)
        BY <1>0, <3>4 DEF ScanStages, OnePlace, QueueApart
      <4> QED BY <3>2, <3>3, <4>1 DEF FilledRows
    <3> QED BY <3>1, <3>4 DEF ErringRows
  <2>3. ASSUME NEW i \in emb.items, SingleOk(i) PROVE ErringRows'
    <3>1. scan.erring = {} /\ scan' = scan
      BY <2>3 DEF SingleOk
    <3> QED BY <3>1 DEF ErringRows
  <2> QED BY <1>9, <2>1, <2>2, <2>3 DEF WriteStep
<1>10. CASE VecStep
  <2>1. asset' = asset /\ scan'.erring \subseteq scan.erring
    BY <1>10, <1>0 DEF ScanStages, Beside, manifest, VecStep, DropFeatures, ReuseVectors
  <2> QED BY <2>1 DEF ErringRows
<1>11. CASE ImportStep
  <2>1. asset' = asset /\ scan'.erring \subseteq scan.erring
    BY <1>11, <1>0 DEF ScanStages, Beside, manifest, ImportStep, ImportEmbedding
  <2> QED BY <2>1 DEF ErringRows
<1>12. CASE ViewStep
  <2>1. asset' = asset /\ scan'.erring \subseteq scan.erring
    BY <1>12, <1>0 DEF ScanStages, Beside, manifest, ViewStep, Regroup, AdvanceGeneration,
       DropOverview, CloseRun
  <2> QED BY <2>1 DEF ErringRows
<1> QED BY <1>1, <1>2, <1>3, <1>4, <1>5, <1>6, <1>7, <1>8, <1>9, <1>10, <1>11, <1>12 DEF BuildSteps

\* What a batch writes lacks nothing afterwards.
LEMMA WriteFills ==
  ASSUME Assumptions, TypeInv, NEW items \in SUBSET EmbedItems, WriteBatch(items),
         emb'.kinds = emb.kinds, NEW p \in Paths, LacksAny(p)'
  PROVE  LacksAny(p) /\ \A i \in items : i.path # p
<1>1. PICK k \in emb.kinds : Lacking(p, k)'
  BY DEF LacksAny
<1>2. k \in Kinds
  BY DEF TypeInv, EmbOK, EmbedStages
<1>3. IF \E i \in items : i.path = p THEN vec'[p][k] # NoRow ELSE vec'[p][k] = vec[p][k]
  BY BatchWriteIs, <1>1, <1>2 DEF TypeInv
<1>4. vec'[p][k] = NoRow /\ NoError(p)'
  BY <1>1 DEF Lacking
<1>5. \A i \in items : i.path # p
  BY <1>3, <1>4
<1>6. asset'[p] = asset[p]
  <2>1. \A q \in Paths : asset'[q] = asset[q] \/ \E i \in FilledRows(items) : i.path = q
    <3>1. \A q \in Paths :
            \/ /\ \A i \in FilledRows(items) : i.path # q
               /\ asset'[q] = asset[q]
            \/ \E i \in FilledRows(items) :
                 /\ i.path = q
                 /\ asset'[q] = [stamp |-> i.stamp, sha |-> i.sha, error |-> FALSE,
                                 stale |-> FALSE]
      BY BatchWriteIs DEF TypeInv
    <3> QED BY <3>1
  <2> QED BY <1>5, <2>1 DEF FilledRows
<1>7. Lacking(p, k)
  BY <1>3, <1>4, <1>5, <1>6 DEF Lacking, NoError, Active
<1> QED BY <1>1, <1>5, <1>7 DEF LacksAny

\* Without a scan nothing comes to lack a vector.
LEMMA LackFrom ==
  ASSUME Assumptions, TypeInv, HandInv, ErringRows, BuildSteps, ~BeginStep,
         run.pc \notin {"scan", "drain", "stale"}, NEW p \in Paths, LacksAny(p)'
  PROVE  LacksAny(p)
<1>0. emb \in EmbedStages /\ scan \in ScanStages
  BY DEF TypeInv, EmbOK, ScanOK
<1>1. ASSUME asset' = asset, vec' = vec, emb'.kinds \subseteq emb.kinds PROVE LacksAny(p)
  BY <1>1 DEF LacksAny, Lacking, NoError, Active
<1>2. ASSUME NEW q \in Paths, asset'[q].error, \A r \in Paths \ {q} : asset'[r] = asset[r],
             vec' = vec, emb'.kinds = emb.kinds
      PROVE  LacksAny(p) /\ p # q
  <2>1. p # q
    BY <1>2 DEF LacksAny, Lacking, NoError
  <2> QED BY <1>2, <2>1 DEF LacksAny, Lacking, NoError, Active
<1>3. ASSUME asset' = asset, emb'.kinds = emb.kinds,
             \A k \in Kinds : vec'[p][k] = NoRow => vec[p][k] = NoRow
      PROVE  LacksAny(p)
  BY <1>3, <1>0 DEF LacksAny, Lacking, NoError, Active, EmbedStages
<1>4. CASE EditStep
  BY <1>1, <1>4 DEF EditStep, EditFile, Beside, manifest
<1>5. CASE StopStep
  <2>1. NoEmbed.kinds = {}
    BY DEF NoEmbed
  <2>2. CASE EndRun
    <3>1. asset' = asset /\ vec' = vec /\ emb'.kinds = emb.kinds
      BY <2>2 DEF EndRun, NoEmbed
    <3> QED BY <1>1, <3>1
  <2>3. CASE Unwound \/ Killed
    BY <1>1, <2>1, <2>3 DEF Unwound, Killed, manifest
  <2> QED BY <1>5, <2>2, <2>3 DEF StopStep
<1>6. CASE HandStep
  <2>1. asset' = asset /\ vec' = vec
    BY <1>6 DEF manifest, HandStep, QueryBacklog, Submit, EnqueueBatch, WriterDies, JoinBatch,
       PrepareDies, PrepareAsset
  <2>2. CASE QueryBacklog
    <3>1. emb'.kinds = emb.kinds
      BY <2>2, <1>0 DEF QueryBacklog, EmbedStages
    <3> QED BY <1>1, <2>1, <3>1
  <2>3. CASE Submit \/ EnqueueBatch \/ WriterDies
    <3>1. emb'.kinds = emb.kinds
      BY <2>3, <1>0 DEF Submit, EnqueueBatch, WriterDies, EmbedStages
    <3> QED BY <1>1, <2>1, <3>1
  <2>4. ASSUME NEW b \in emb.batches,
               JoinBatch(b) \/ PrepareDies(b) \/ \E job \in b.jobs : PrepareAsset(b, job)
        PROVE  LacksAny(p)
    <3>1. emb'.kinds = emb.kinds
      BY <2>4, <1>0 DEF JoinBatch, PrepareDies, PrepareAsset, Batched, EmbedStages
    <3> QED BY <1>1, <2>1, <3>1
  <2> QED BY <1>6, <2>2, <2>3, <2>4 DEF HandStep
<1>7. CASE TurnStep \/ TakeSnapshot
  BY <1>1, <1>7 DEF TurnStep, TakeSnapshot, manifest
<1>8. CASE WalkStep
  BY <1>1, <1>8 DEF WalkStep, Visit, SkipUnreadable, ReadFile, WorkerDies, EndWalk, ResultsMissing, Beside, manifest
<1>9. CASE AssetStep
  <2>1. ~\E q \in Paths : VisitGone(q) \/ VisitFast(q)
    BY DEF VisitGone, VisitFast, Meet, Walking
  <2>2. ~(\E r \in scan.results : TakeResult(r)) /\ ~FlushLast /\ ~MarkMissingStale
    BY DEF TakeResult, FlushLast, MarkMissingStale
  <2>3. ASSUME NEW q \in emb.errors, RecordPrepareError(q) PROVE LacksAny(p)
    BY <2>3, <1>0, PathErrorIs, <1>2 DEF EmbedStages, RecordPrepareError, TypeInv
  <2>4. ASSUME NEW i \in emb.items, SingleFails(i) PROVE LacksAny(p)
    BY <2>4, <1>0, ItemErrorIs, <1>2 DEF EmbedStages, EmbedItems, SingleFails, HandInv,
      HandActive, Active, Upstream
  <2> QED BY <1>9, <2>1, <2>2, <2>3, <2>4 DEF AssetStep
<1>10. CASE WriteStep
  <2>1. PICK items \in SUBSET EmbedItems : WriteBatch(items)
    BY <1>10, WriteStepIs
  <2>2. emb'.kinds = emb.kinds
    BY <1>10, <1>0 DEF WriteStep, FlushBatch, WriterStep, SingleOk, EmbedStages
  <2> QED BY <2>1, <2>2, WriteFills
<1>11. CASE VecStep
  <2>1. ASSUME NEW q \in Paths, DropFeatures(q), Beside PROVE LacksAny(p)
    BY <2>1, <1>3 DEF DropFeatures, DropVectors, Beside, ErringRows, LacksAny, Lacking,
      NoError, TypeInv, VecOK, Typed
  <2>2. ASSUME NEW l \in Kinds, ReuseVectors(l) PROVE LacksAny(p)
    <3>1. asset' = asset /\ emb'.kinds = emb.kinds
      BY <2>2, <1>0 DEF ReuseVectors, EmbedStages
    <3>2. \A k \in Kinds : vec'[p][k] = NoRow => vec[p][k] = NoRow
      BY <2>2, ReuseIs
    <3> QED BY <1>3, <3>1, <3>2
  <2> QED BY <1>11, <2>1, <2>2 DEF VecStep
<1>12. CASE ImportStep
  <2>1. PICK q \in Paths, l \in Kinds, c \in Goods : ImportEmbedding(q, l, c)
    BY <1>12 DEF ImportStep
  <2>2. vec' = Upserted(vec, {<<q, l, c>>}) /\ asset' = asset /\ emb' = emb
    BY <2>1 DEF ImportEmbedding
  <2>3. PICK new \in SUBSET (Paths \X Kinds \X Goods) : vec' = Upserted(vec, new)
    BY <2>2
  <2>4. \A k \in Kinds : vec'[p][k] = NoRow => vec[p][k] = NoRow
    BY <2>3, UpsertedIs DEF TypeInv, VecOK, Assumptions
  <2> QED BY <1>3, <2>2, <2>4
<1>13. CASE ViewStep
  BY <1>1, <1>13 DEF ViewStep, Regroup, AdvanceGeneration, DropOverview, CloseRun, Beside
<1> QED BY <1>4, <1>5, <1>6, <1>7, <1>8, <1>9, <1>10, <1>11, <1>12, <1>13 DEF BuildSteps

\* What lacks a vector keeps its place until it has one or an error.
LEMMA TrackedKept ==
  ASSUME Assumptions, TypeInv, HandInv, Steps, ErringRows, Tracked, BuildSteps
  PROVE  Tracked'
<1>0. run \in Runs /\ emb \in EmbedStages
  BY DEF TypeInv, RunOK, EmbOK
<1> SUFFICES ASSUME Complete', NEW p \in Paths, LacksAny(p)' PROVE Upstream(p)' \/ Queued(p)'
  BY DEF Tracked
<1>20. ASSUME Complete PROVE Upstream(p) \/ Queued(p)
  BY <1>20, LackFrom DEF Complete, WorkPcs, BeginStep, BeginRun, Idle, Tracked
<1>21. LacksAny(p)'
  OBVIOUS
<1>22. ASSUME emb' = emb, run'.pc \in WorkPcs => run.pc \in WorkPcs PROVE Upstream(p)' \/ Queued(p)'
  <2>1. Upstream(p) \/ Queued(p)
    BY <1>22, <1>20 DEF Complete
  <2> QED BY <1>22, <2>1 DEF Upstream, Queued, InBatch
<1>1. CASE EditStep
  <2>1. emb' = emb /\ (run'.pc \in WorkPcs => run.pc \in WorkPcs)
    BY <1>1, <1>0 DEF Beside, Runs, WorkPcs, EditStep, EditFile
  <2> QED BY <2>1, <1>22
<1>2. CASE BeginStep
  <2>1. ASSUME NEW stage \in SUBSET {"manifest", "embeddings"},
               NEW mode \in Modes \cup {"serial"}, NEW limit \in Nat,
               NEW kinds \in SUBSET Kinds, NEW async \in BOOLEAN,
               BeginRun(stage, mode, limit, kinds, async)
        PROVE  Upstream(p)' \/ Queued(p)'
    <3>1. run'.pc \notin WorkPcs
      BY <2>1, <1>0 DEF Runs, WorkPcs, BeginRun, NoRun
    <3> QED BY <3>1 DEF Complete
  <2> QED BY <1>2, <2>1 DEF BeginStep
<1>3. CASE StopStep
  <2>1. CASE EndRun
    <3>1. run'.pc \notin WorkPcs
      BY <2>1, <1>0 DEF Runs, WorkPcs, EndRun
    <3> QED BY <3>1 DEF Complete
  <2>2. CASE Unwound
    <3>1. run'.pc \notin WorkPcs
      BY <2>2, <1>0 DEF Runs, WorkPcs, Unwound, NoRun
    <3> QED BY <3>1 DEF Complete
  <2>3. CASE Killed
    <3>1. run'.pc \notin WorkPcs
      BY <2>3, <1>0 DEF Runs, WorkPcs, Killed, NoRun
    <3> QED BY <3>1 DEF Complete
  <2> QED BY <1>3, <2>1, <2>2, <2>3 DEF StopStep
<1>4. CASE HandStep
  <2>1. CASE QueryBacklog
    <3>1. PICK chosen \in SUBSET Wanted :
            emb' = [emb EXCEPT
              !.backlog = {[path |-> q, stamp |-> asset[q].stamp, sha |-> asset[q].sha] :
                             q \in chosen},
              !.truncated = chosen # Wanted]
      BY <2>1, QueryIs
    <3>2. /\ emb'.backlog = {[path |-> q, stamp |-> asset[q].stamp, sha |-> asset[q].sha] : q \in chosen}
          /\ emb'.truncated = (chosen # Wanted) /\ emb'.kinds = emb.kinds
      BY <3>1, <1>0 DEF EmbedStages
    <3>3. LacksAny(p)
      BY <2>1, LackFrom DEF QueryBacklog, BeginStep, BeginRun, Idle
    <3>4. p \in chosen
      BY <3>2, <3>3 DEF Complete, Wanted, Lacks, LacksAny, Lacking, NoError
    <3>5. [path |-> p, stamp |-> asset[p].stamp, sha |-> asset[p].sha] \in emb'.backlog
      BY <3>2, <3>4
    <3>6. \E x \in emb'.backlog : x.path = p
      BY <3>5
    <3> QED BY <3>6 DEF Upstream
  <2>2. CASE Submit
    <3>1. PICK chunk \in SUBSET emb.backlog :
            emb' = [emb EXCEPT
              !.backlog = @ \ chunk,
              !.batches = @ \cup {[jobs |-> chunk, items |-> {}, errors |-> {}, lost |-> FALSE]}]
      BY <2>2 DEF Submit, kSubset
    <3> DEFINE c == [jobs |-> chunk, items |-> {}, errors |-> {}, lost |-> FALSE]
    <3>2. /\ emb'.backlog = emb.backlog \ chunk /\ emb'.batches = emb.batches \cup {c}
          /\ emb'.items = emb.items /\ emb'.errors = emb.errors /\ emb'.queue = emb.queue
          /\ emb'.truncated = emb.truncated /\ emb'.dead = emb.dead
      BY <3>1, <1>0 DEF EmbedStages
    <3>3. run' = run /\ run.pc \in WorkPcs
      BY <2>2 DEF Submit, WorkPcs
    <3>4. \A x \in chunk : InBatch(c, x.path)
      BY DEF InBatch
    <3> HIDE DEF c
    <3>5. Upstream(p) \/ Queued(p)
      BY <3>2, <3>3, <1>20 DEF Complete
    <3>6. Queued(p) => Queued(p)'
      BY <3>2 DEF Queued
    <3>7. Upstream(p) => Upstream(p)'
      BY <3>2, <3>4 DEF Upstream, InBatch
    <3> QED BY <3>5, <3>6, <3>7
  <2>3. CASE EnqueueBatch
    <3>1. ~emb.dead
      BY <2>3, <1>0 DEF EnqueueBatch, Go, Runs, Complete, WorkPcs
    <3>2. /\ emb'.items = {} /\ emb'.backlog = emb.backlog /\ emb'.batches = emb.batches
          /\ emb'.errors = emb.errors /\ emb'.queue = Append(emb.queue, emb.items)
          /\ emb'.truncated = emb.truncated /\ emb'.dead = emb.dead /\ run.pc \in WorkPcs
      BY <2>3, <3>1, <1>0 DEF EnqueueBatch, EmbedStages, WorkPcs
    <3>3. emb.queue \in Seq(SUBSET EmbedItems) /\ emb.items \in SUBSET EmbedItems
      BY <1>0 DEF EmbedStages
    <3>4. Upstream(p) \/ Queued(p)
      BY <3>2, <1>20 DEF Complete
    <3>5. ASSUME Queued(p) PROVE Queued(p)'
      <4>1. PICK n \in DOMAIN emb.queue : \E x \in emb.queue[n] : x.path = p
        BY <3>5 DEF Queued
      <4>2. n \in DOMAIN emb'.queue /\ emb'.queue[n] = emb.queue[n]
        BY <3>2, <3>3
      <4> QED BY <4>1, <4>2 DEF Queued
    <3>6. ASSUME InItems(p) PROVE Queued(p)'
      BY <3>2, <3>3, <3>6 DEF Queued, InItems
    <3>7. Upstream(p) => Upstream(p)' \/ InItems(p)
      BY <3>2 DEF Upstream, InItems, InBatch
    <3> QED BY <3>4, <3>5, <3>6, <3>7
  <2>4. CASE WriterDies
    <3>1. emb'.dead
      BY <2>4, <1>0 DEF WriterDies, EmbedStages
    <3> QED BY <3>1 DEF Complete
  <2>5. ASSUME NEW b \in emb.batches, JoinBatch(b)
        PROVE  Upstream(p)' \/ Queued(p)'
    <3>1. ~b.lost
      BY <2>5, <1>0 DEF JoinBatch, Go, Runs, Complete, WorkPcs
    <3>2. /\ emb'.items = b.items /\ emb'.backlog = emb.backlog /\ emb'.batches = emb.batches \ {b}
          /\ emb'.errors = b.errors /\ emb'.queue = emb.queue
          /\ emb'.truncated = emb.truncated /\ emb'.dead = emb.dead
          /\ run.pc = "join" /\ b.jobs = {}
      BY ZenonT(40), <2>5, <3>1, <1>0 DEF JoinBatch, EmbedStages
    <3>3. Upstream(p) \/ Queued(p)
      BY <3>1, <3>2, <1>20 DEF Complete, WorkPcs
    <3>4. emb.items = {} /\ emb.errors = {}
      BY <3>2 DEF Steps, WorkPcs
    <3>5. InBatch(b, p) => Upstream(p)'
      BY <3>2 DEF InBatch, Upstream
    <3>6. Upstream(p) => Upstream(p)'
      BY <3>2, <3>4, <3>5 DEF Upstream, InBatch
    <3>7. Queued(p) => Queued(p)'
      BY <3>2 DEF Queued
    <3> QED BY <3>3, <3>6, <3>7
  <2>6. ASSUME NEW b \in emb.batches, PrepareDies(b)
        PROVE  Upstream(p)' \/ Queued(p)'
    <3>1. PICK job \in b.jobs : Batched(b, [b EXCEPT !.jobs = @ \ {job}, !.lost = TRUE])
      BY <2>6 DEF PrepareDies
    <3>2. b \in Batches
      BY <1>0 DEF EmbedStages
    <3> DEFINE c == [b EXCEPT !.jobs = @ \ {job}, !.lost = TRUE]
    <3>3. c \in emb'.batches /\ c.lost
      BY <3>1, <3>2, <1>0 DEF Batched, EmbedStages, Batches
    <3> HIDE DEF c
    <3> QED BY <3>3 DEF Complete
  <2>7. ASSUME NEW b \in emb.batches, NEW job \in b.jobs, PrepareAsset(b, job)
        PROVE  Upstream(p)' \/ Queued(p)'
    <3>1. b \in Batches
      BY <1>0 DEF EmbedStages
    <3>2. PICK c \in Batches :
            /\ Batched(b, c) /\ c.jobs = b.jobs \ {job} /\ c.lost = b.lost
            /\ \/ c.errors = b.errors \cup {job.path} /\ c.items = b.items
               \/ \E item \in EmbedItems :
                    /\ c.errors = b.errors /\ c.items = b.items \cup {item}
                    /\ item.path = job.path
      BY <2>7, <3>1, PreparedIs
    <3>3. InBatch(b, p) => InBatch(c, p)
      BY <3>2 DEF InBatch
    <3>4. /\ emb'.backlog = emb.backlog /\ emb'.batches = (emb.batches \ {b}) \cup {c}
          /\ emb'.items = emb.items /\ emb'.errors = emb.errors /\ emb'.queue = emb.queue
          /\ emb'.truncated = emb.truncated /\ emb'.dead = emb.dead /\ run' = run
      BY <2>7, <3>2, <1>0 DEF PrepareAsset, Batched, EmbedStages
    <3>5. Complete
      BY <3>2, <3>4 DEF Complete
    <3>6. Queued(p) => Queued(p)'
      BY <3>4 DEF Queued
    <3>7. Upstream(p) => Upstream(p)'
      BY <3>3, <3>4 DEF Upstream, InBatch
    <3> QED BY <3>5, <3>6, <3>7, <1>20
  <2> QED BY <1>4, <2>1, <2>2, <2>3, <2>4, <2>5, <2>6, <2>7 DEF HandStep
<1>5. CASE TurnStep
  <2>1. run'.pc \in WorkPcs => run.pc \in WorkPcs
    <3>2. CASE Submitted
      BY <3>2, <1>0 DEF Runs, WorkPcs, Submitted, Go
    <3>3. CASE ErrorsRecorded
      BY <3>3, <1>0 DEF Runs, WorkPcs, ErrorsRecorded, Go
    <3>4. CASE NothingToFlush
      BY <3>4, <1>0 DEF Runs, WorkPcs, NothingToFlush, Go
    <3>5. CASE SinglesDone
      BY <3>5, <1>0 DEF Runs, WorkPcs, SinglesDone, Go
    <3>6. CASE FinishEmbedding
      BY <3>6, <1>0 DEF Runs, WorkPcs, FinishEmbedding, Go
    <3>7. CASE BatchFails
      BY <3>7, <1>0 DEF Runs, WorkPcs, BatchFails, Go
    <3>8. CASE RunFails
      BY <3>8, <1>0 DEF Runs, WorkPcs, RunFails, Go
    <3> QED BY <1>5, <3>2, <3>3, <3>4, <3>5, <3>6, <3>7, <3>8 DEF TurnStep
  <2> QED BY <1>5, <2>1, <1>22 DEF TurnStep
<1>6. CASE TakeSnapshot
  <2>1. emb' = emb /\ (run'.pc \in WorkPcs => run.pc \in WorkPcs)
    BY <1>6, <1>0 DEF Beside, Runs, WorkPcs, TakeSnapshot
  <2> QED BY <2>1, <1>22
<1>7. CASE WalkStep
  <2>1. emb' = emb /\ (run'.pc \in WorkPcs => run.pc \in WorkPcs)
    BY <1>7, <1>0 DEF Beside, Runs, WorkPcs, WalkStep, Visit, SkipUnreadable, ReadFile, WorkerDies,
       EndWalk, ResultsMissing
  <2> QED BY <2>1, <1>22
<1>8. CASE AssetStep
  <2>1. ASSUME NEW q \in Paths, VisitGone(q), Beside
        PROVE  Upstream(p)' \/ Queued(p)'
    <3>1. run'.pc \notin WorkPcs
      BY <2>1, <1>0 DEF Runs, WorkPcs, VisitGone, Meet, Walking
    <3> QED BY <3>1 DEF Complete
  <2>2. ASSUME NEW q \in Paths, VisitFast(q), Beside
        PROVE  Upstream(p)' \/ Queued(p)'
    <3>1. run'.pc \notin WorkPcs
      BY <2>2, <1>0 DEF Runs, WorkPcs, VisitFast, Meet, Walking, Flush
    <3> QED BY <3>1 DEF Complete
  <2>3. ASSUME NEW r \in scan.results, TakeResult(r), Beside
        PROVE  Upstream(p)' \/ Queued(p)'
    <3>1. run'.pc \notin WorkPcs
      BY <2>3, <1>0 DEF Runs, WorkPcs, TakeResult, Flush
    <3> QED BY <3>1 DEF Complete
  <2>4. ASSUME FlushLast, Beside
        PROVE  Upstream(p)' \/ Queued(p)'
    <3>1. run'.pc \notin WorkPcs
      BY <2>4, <1>0 DEF Runs, WorkPcs, FlushLast
    <3> QED BY <3>1 DEF Complete
  <2>5. ASSUME MarkMissingStale, Beside
        PROVE  Upstream(p)' \/ Queued(p)'
    <3>1. run'.pc \notin WorkPcs
      BY <2>5, <1>0 DEF Runs, WorkPcs, MarkMissingStale
    <3> QED BY <3>1 DEF Complete
  <2>6. ASSUME NEW q \in emb.errors, RecordPrepareError(q)
        PROVE  Upstream(p)' \/ Queued(p)'
    <3>1. q \in Paths /\ run.pc \in WorkPcs
      BY <2>6, <1>0 DEF EmbedStages, RecordPrepareError, WorkPcs
    <3>2. asset'[q].error
      BY <2>6, <3>1, PathErrorIs DEF TypeInv, RecordPrepareError
    <3>3. /\ emb'.backlog = emb.backlog /\ emb'.batches = emb.batches /\ emb'.items = emb.items
          /\ emb'.errors = emb.errors \ {q} /\ emb'.queue = emb.queue
          /\ emb'.truncated = emb.truncated /\ emb'.dead = emb.dead
      BY <2>6, <1>0 DEF RecordPrepareError, EmbedStages
    <3>4. p # q
      BY <3>2, <1>21 DEF LacksAny, Lacking, NoError
    <3>5. Upstream(p) \/ Queued(p)
      BY <3>1, <3>3, <1>20 DEF Complete
    <3>6. Queued(p) => Queued(p)'
      BY <3>3 DEF Queued
    <3>7. Upstream(p) => Upstream(p)'
      BY <3>3, <3>4 DEF Upstream, InBatch
    <3> QED BY <3>5, <3>6, <3>7
  <2>7. ASSUME NEW i \in emb.items, SingleFails(i)
        PROVE  Upstream(p)' \/ Queued(p)'
    <3>1. i.path \in Paths /\ run.pc \in WorkPcs
      BY <2>7, <1>0 DEF EmbedStages, EmbedItems, SingleFails, WorkPcs
    <3>2. asset'[i.path].error
      <4>1. asset[i.path] # NoRow
        BY <3>1 DEF HandInv, HandActive, Active, Upstream
      <4> QED BY <2>7, <4>1, ItemErrorIs
    <3>3. /\ emb'.backlog = emb.backlog /\ emb'.batches = emb.batches /\ emb'.items = emb.items \ {i}
          /\ emb'.errors = emb.errors /\ emb'.queue = emb.queue
          /\ emb'.truncated = emb.truncated /\ emb'.dead = emb.dead
      BY <2>7, <1>0 DEF SingleFails, EmbedStages
    <3>4. p # i.path
      BY <3>2, <1>21 DEF LacksAny, Lacking, NoError
    <3>5. Upstream(p) \/ Queued(p)
      BY <3>1, <3>3, <1>20 DEF Complete
    <3>6. Queued(p) => Queued(p)'
      BY <3>3 DEF Queued
    <3>7. Upstream(p) => Upstream(p)'
      BY <3>3, <3>4 DEF Upstream, InBatch
    <3> QED BY <3>5, <3>6, <3>7
  <2> QED BY <1>8, <2>1, <2>2, <2>3, <2>4, <2>5, <2>6, <2>7 DEF AssetStep
<1>9. CASE WriteStep
  <2>1. CASE FlushBatch
    <3>1. emb.items \in SUBSET EmbedItems /\ WriteBatch(emb.items) /\ run.pc \in WorkPcs
      BY <2>1, <1>0 DEF FlushBatch, EmbedStages, WorkPcs
    <3>2. /\ emb'.backlog = emb.backlog /\ emb'.batches = emb.batches /\ emb'.items = {}
          /\ emb'.errors = emb.errors /\ emb'.queue = emb.queue /\ emb'.kinds = emb.kinds
          /\ emb'.truncated = emb.truncated /\ emb'.dead = emb.dead
      BY <2>1, <1>0 DEF FlushBatch, EmbedStages
    <3>3. \A x \in emb.items : x.path # p
      BY <3>1, <3>2, <1>21, WriteFills
    <3>4. Upstream(p) \/ Queued(p)
      BY <3>1, <3>2, <1>20 DEF Complete
    <3>5. Queued(p) => Queued(p)'
      BY <3>2 DEF Queued
    <3>6. Upstream(p) => Upstream(p)'
      BY <3>2, <3>3 DEF Upstream, InBatch
    <3> QED BY <3>4, <3>5, <3>6
  <2>2. CASE WriterStep
    <3>1. PICK items \in SUBSET EmbedItems :
            /\ WriteBatch(items)
            /\ run' = [run EXCEPT !.filled = @ \/ FilledRows(items) # {}]
            /\ \A q \in Paths : Queued(q) => Queued(q)' \/ \E i \in items : i.path = q
            /\ emb' = [emb EXCEPT !.queue = emb'.queue]
      BY <2>2, WriterIs
    <3>2. PICK queue : queue = emb'.queue
      OBVIOUS
    <3>3. emb' = [emb EXCEPT !.queue = queue]
      BY <3>1, <3>2
    <3>4. /\ emb'.backlog = emb.backlog /\ emb'.batches = emb.batches /\ emb'.items = emb.items
          /\ emb'.errors = emb.errors /\ emb'.kinds = emb.kinds
          /\ emb'.truncated = emb.truncated /\ emb'.dead = emb.dead
      BY <3>3, <1>0 DEF EmbedStages
    <3>5. run'.pc = run.pc
      BY <3>1, <1>0 DEF Runs
    <3>6. \A i \in items : i.path # p
      BY <3>1, <3>4, <1>21, WriteFills
    <3>7. Upstream(p) \/ Queued(p)
      BY <3>4, <3>5, <1>20 DEF Complete
    <3>8. Upstream(p) => Upstream(p)'
      BY <3>4 DEF Upstream, InBatch
    <3> QED BY <3>1, <3>6, <3>7, <3>8
  <2>3. ASSUME NEW i \in emb.items, SingleOk(i) PROVE Upstream(p)' \/ Queued(p)'
    <3>1. {i} \in SUBSET EmbedItems /\ WriteBatch({i}) /\ run.pc \in WorkPcs
      BY <2>3, <1>0 DEF SingleOk, EmbedStages, WorkPcs
    <3>2. /\ emb'.backlog = emb.backlog /\ emb'.batches = emb.batches /\ emb'.items = emb.items \ {i}
          /\ emb'.errors = emb.errors /\ emb'.queue = emb.queue /\ emb'.kinds = emb.kinds
          /\ emb'.truncated = emb.truncated /\ emb'.dead = emb.dead
      BY <2>3, <1>0 DEF SingleOk, EmbedStages
    <3>3. \A x \in {i} : x.path # p
      BY <3>1, <3>2, <1>21, WriteFills
    <3>4. Upstream(p) \/ Queued(p)
      BY <3>1, <3>2, <1>20 DEF Complete
    <3>5. Queued(p) => Queued(p)'
      BY <3>2 DEF Queued
    <3>6. Upstream(p) => Upstream(p)'
      BY <3>2, <3>3 DEF Upstream, InBatch
    <3> QED BY <3>4, <3>5, <3>6
  <2> QED BY <1>9, <2>1, <2>2, <2>3 DEF WriteStep
<1>10. CASE VecStep
  <2>1. ASSUME NEW q \in Paths, DropFeatures(q), Beside
        PROVE  Upstream(p)' \/ Queued(p)'
    <3>1. emb' = emb /\ run' = run
      BY <2>1 DEF DropFeatures, Beside
    <3> QED BY <3>1, <1>22
  <2>2. ASSUME NEW k \in Kinds, ReuseVectors(k)
        PROVE  Upstream(p)' \/ Queued(p)'
    <3>1. run'.pc \notin WorkPcs
      BY <2>2, <1>0 DEF Runs, WorkPcs, ReuseVectors
    <3> QED BY <3>1 DEF Complete
  <2> QED BY <1>10, <2>1, <2>2 DEF VecStep
<1>11. CASE ImportStep
  <2>1. emb' = emb /\ (run'.pc \in WorkPcs => run.pc \in WorkPcs)
    BY <1>11, <1>0 DEF Beside, Runs, WorkPcs, ImportStep, ImportEmbedding
  <2> QED BY <2>1, <1>22
<1>12. CASE ViewStep
  <2>1. emb' = emb /\ (run'.pc \in WorkPcs => run.pc \in WorkPcs)
    BY ZenonT(40), <1>12, <1>0 DEF Beside, Runs, WorkPcs, ViewStep, Regroup, AdvanceGeneration,
       DropOverview, CloseRun, AfterManifest, Go
  <2> QED BY <2>1, <1>22
<1> QED BY <1>1, <1>2, <1>3, <1>4, <1>5, <1>6, <1>7, <1>8, <1>9, <1>10, <1>11, <1>12 DEF BuildSteps

\* The embedding stage is done when its pool and its writer are.
LEMMA DoneFrom ==
  ASSUME Assumptions, TypeInv, HandInv, Steps, BuildSteps, EmbeddingDone'
  PROVE  FinishEmbedding \/ EmbeddingDone
<1>0. run \in Runs /\ emb \in EmbedStages
  BY DEF TypeInv, RunOK, EmbOK
<1>1. CASE EditStep
  <2>1. ASSUME NEW p \in Paths, NEW c \in Goods \cup {Bad, Gone}, EditFile(p, c),
               Beside
        PROVE  FinishEmbedding \/ EmbeddingDone
    BY <2>1, <1>0 DEF EmbeddingDone, Runs, EmbedStages, ScanPcs, WorkPcs, Beside,
       manifest, Idle, HandEmpty, EditFile
  <2> QED BY <1>1, <2>1 DEF EditStep
<1>2. CASE BeginStep
  <2>1. ASSUME NEW stage \in SUBSET {"manifest", "embeddings"},
               NEW mode \in Modes \cup {"serial"}, NEW limit \in Nat,
               NEW kinds \in SUBSET Kinds, NEW async \in BOOLEAN,
               BeginRun(stage, mode, limit, kinds, async)
        PROVE  FinishEmbedding \/ EmbeddingDone
    BY <2>1, <1>0 DEF EmbeddingDone, Runs, EmbedStages, ScanPcs, WorkPcs, Beside,
       manifest, Idle, HandEmpty, BeginRun, NoRun
  <2> QED BY <1>2, <2>1 DEF BeginStep
<1>3. CASE StopStep
  <2>1. CASE EndRun
    BY <2>1, <1>0 DEF EmbeddingDone, Runs, EmbedStages, ScanPcs, WorkPcs, Beside,
       manifest, Idle, HandEmpty, EndRun, NoEmbed
  <2>2. CASE Unwound
    BY <2>2, <1>0 DEF EmbeddingDone, Runs, EmbedStages, ScanPcs, WorkPcs, Beside,
       manifest, Idle, HandEmpty, Unwound, NoRun
  <2>3. CASE Killed
    BY <2>3, <1>0 DEF EmbeddingDone, Runs, EmbedStages, ScanPcs, WorkPcs, Beside,
       manifest, Idle, HandEmpty, Killed, NoRun
  <2> QED BY <1>3, <2>1, <2>2, <2>3 DEF StopStep
<1>4. CASE HandStep
  <2>1. CASE QueryBacklog
    <3>1. run'.pc \in {"finish", "submit"}
      BY <2>1, QueryIs
    <3> QED BY <3>1 DEF EmbeddingDone, Idle
  <2>2. CASE Submit
    BY <2>2, <1>0 DEF EmbeddingDone, Runs, EmbedStages, ScanPcs, WorkPcs, Beside,
       manifest, Idle, HandEmpty, Submit
  <2>3. CASE EnqueueBatch
    BY <2>3, <1>0 DEF EmbeddingDone, Runs, EmbedStages, ScanPcs, WorkPcs, Beside,
       manifest, Idle, HandEmpty, EnqueueBatch, Go, NextBatch
  <2>4. CASE WriterDies
    BY <2>4, <1>0 DEF EmbeddingDone, Runs, EmbedStages, ScanPcs, WorkPcs, Beside,
       manifest, Idle, HandEmpty, WriterDies
  <2>5. ASSUME NEW b \in emb.batches, JoinBatch(b)
        PROVE  FinishEmbedding \/ EmbeddingDone
    BY <2>5, <1>0 DEF EmbeddingDone, Runs, EmbedStages, ScanPcs, WorkPcs, Beside,
       manifest, Idle, HandEmpty, JoinBatch, Go, Batched
  <2>6. ASSUME NEW b \in emb.batches, PrepareDies(b)
        PROVE  FinishEmbedding \/ EmbeddingDone
    BY <2>6, <1>0 DEF EmbeddingDone, Runs, EmbedStages, ScanPcs, WorkPcs, Beside,
       manifest, Idle, HandEmpty, PrepareDies, Batched
  <2>7. ASSUME NEW b \in emb.batches, NEW job \in b.jobs, PrepareAsset(b, job)
        PROVE  FinishEmbedding \/ EmbeddingDone
    BY <2>7, <1>0 DEF EmbeddingDone, Runs, EmbedStages, ScanPcs, WorkPcs, Beside,
       manifest, Idle, HandEmpty, PrepareAsset, Batched
  <2> QED BY <1>4, <2>1, <2>2, <2>3, <2>4, <2>5, <2>6, <2>7 DEF HandStep
<1>5. CASE TurnStep
  <2>1. UNCHANGED <<disk, edits, manifest, scan, emb, snap, imports>>
    BY <1>5 DEF TurnStep
  <2>2. CASE Submitted
    BY <2>1, <2>2, <1>0 DEF EmbeddingDone, Idle, Runs, NextBatch, Submitted, Go
  <2>3. CASE ErrorsRecorded
    BY <2>1, <2>3, <1>0 DEF EmbeddingDone, Idle, Runs, NextBatch, ErrorsRecorded, Go
  <2>4. CASE NothingToFlush
    BY <2>1, <2>4, <1>0 DEF EmbeddingDone, Idle, Runs, NextBatch, NothingToFlush, Go
  <2>5. CASE SinglesDone
    BY <2>1, <2>5, <1>0 DEF EmbeddingDone, Idle, Runs, NextBatch, SinglesDone, Go
  <2>6. CASE FinishEmbedding
    BY <2>1, <2>6, <1>0 DEF EmbeddingDone, Idle, Runs, NextBatch, FinishEmbedding, Go
  <2>7. CASE BatchFails
    BY <2>1, <2>7, <1>0 DEF EmbeddingDone, Idle, Runs, NextBatch, BatchFails, Go
  <2>8. CASE RunFails
    BY <2>1, <2>8, <1>0 DEF EmbeddingDone, Idle, Runs, NextBatch, RunFails, Go
  <2> QED BY <1>5, <2>2, <2>3, <2>4, <2>5, <2>6, <2>7, <2>8 DEF TurnStep
<1>6. CASE TakeSnapshot
  <2>1. CASE TakeSnapshot
    BY <2>1, <1>0 DEF EmbeddingDone, Runs, EmbedStages, ScanPcs, WorkPcs, Beside,
       manifest, Idle, HandEmpty, TakeSnapshot
  <2> QED BY <1>6, <2>1 DEF TakeSnapshot
<1>7. CASE WalkStep
  <2>1. ASSUME NEW p \in Paths, Visit(p), Beside
        PROVE  FinishEmbedding \/ EmbeddingDone
    BY <2>1, <1>0 DEF EmbeddingDone, Runs, EmbedStages, ScanPcs, WorkPcs, Beside,
       manifest, Idle, HandEmpty, Visit, Meet, Walking
  <2>2. ASSUME NEW j \in scan.jobs, ReadFile(j), Beside
        PROVE  FinishEmbedding \/ EmbeddingDone
    BY <2>2, <1>0 DEF EmbeddingDone, Runs, EmbedStages, ScanPcs, WorkPcs, Beside,
       manifest, Idle, HandEmpty, ReadFile
  <2>3. ASSUME WorkerDies, Beside
        PROVE  FinishEmbedding \/ EmbeddingDone
    BY <2>3, <1>0 DEF EmbeddingDone, Runs, EmbedStages, ScanPcs, WorkPcs, Beside,
       manifest, Idle, HandEmpty, WorkerDies
  <2>4. ASSUME EndWalk, Beside
        PROVE  FinishEmbedding \/ EmbeddingDone
    BY <2>4, <1>0 DEF EmbeddingDone, Runs, EmbedStages, ScanPcs, WorkPcs, Beside,
       manifest, Idle, HandEmpty, EndWalk
  <2>5. ASSUME ResultsMissing, Beside
        PROVE  FinishEmbedding \/ EmbeddingDone
    BY <2>5, <1>0 DEF EmbeddingDone, Runs, EmbedStages, ScanPcs, WorkPcs, Beside,
       manifest, Idle, HandEmpty, ResultsMissing
  <2>6. ASSUME NEW p \in Paths, SkipUnreadable(p), Beside
        PROVE  FinishEmbedding \/ EmbeddingDone
    BY <2>6, <1>0 DEF EmbeddingDone, Runs, EmbedStages, ScanPcs, WorkPcs, Beside,
       manifest, Idle, HandEmpty, SkipUnreadable, Meet, Walking
  <2> QED BY <1>7, <2>1, <2>2, <2>3, <2>4, <2>5, <2>6 DEF WalkStep
<1>8. CASE AssetStep
  <2>1. ASSUME NEW p \in Paths, VisitGone(p), Beside
        PROVE  FinishEmbedding \/ EmbeddingDone
    BY <2>1, <1>0 DEF EmbeddingDone, Runs, EmbedStages, ScanPcs, WorkPcs, Beside,
       manifest, Idle, HandEmpty, VisitGone, Meet, Walking
  <2>2. ASSUME NEW p \in Paths, VisitFast(p), Beside
        PROVE  FinishEmbedding \/ EmbeddingDone
    BY <2>2, <1>0 DEF EmbeddingDone, Runs, EmbedStages, ScanPcs, WorkPcs, Beside,
       manifest, Idle, HandEmpty, VisitFast, Meet, Walking, Flush
  <2>3. ASSUME NEW r \in scan.results, TakeResult(r), Beside
        PROVE  FinishEmbedding \/ EmbeddingDone
    BY <2>3, <1>0 DEF EmbeddingDone, Runs, EmbedStages, ScanPcs, WorkPcs, Beside,
       manifest, Idle, HandEmpty, TakeResult, Flush
  <2>4. ASSUME FlushLast, Beside
        PROVE  FinishEmbedding \/ EmbeddingDone
    BY <2>4, <1>0 DEF EmbeddingDone, Runs, EmbedStages, ScanPcs, WorkPcs, Beside,
       manifest, Idle, HandEmpty, FlushLast
  <2>5. ASSUME MarkMissingStale, Beside
        PROVE  FinishEmbedding \/ EmbeddingDone
    BY <2>5, <1>0 DEF EmbeddingDone, Runs, EmbedStages, ScanPcs, WorkPcs, Beside,
       manifest, Idle, HandEmpty, MarkMissingStale
  <2>6. ASSUME NEW p \in emb.errors, RecordPrepareError(p)
        PROVE  FinishEmbedding \/ EmbeddingDone
    BY <2>6, <1>0 DEF EmbeddingDone, Runs, EmbedStages, ScanPcs, WorkPcs, Beside,
       manifest, Idle, HandEmpty, RecordPrepareError
  <2>7. ASSUME NEW i \in emb.items, SingleFails(i)
        PROVE  FinishEmbedding \/ EmbeddingDone
    BY <2>7, <1>0 DEF EmbeddingDone, Runs, EmbedStages, ScanPcs, WorkPcs, Beside,
       manifest, Idle, HandEmpty, SingleFails
  <2> QED BY <1>8, <2>1, <2>2, <2>3, <2>4, <2>5, <2>6, <2>7 DEF AssetStep
<1>9. CASE WriteStep
  <2>1. CASE FlushBatch
    BY <2>1, <1>0 DEF EmbeddingDone, Runs, EmbedStages, ScanPcs, WorkPcs, Beside,
       manifest, Idle, HandEmpty, FlushBatch, NextBatch
  <2>2. CASE WriterStep
    BY <2>2, <1>0 DEF EmbeddingDone, Runs, EmbedStages, ScanPcs, WorkPcs, Beside,
       manifest, Idle, HandEmpty, WriterStep
  <2>3. ASSUME NEW i \in emb.items, SingleOk(i)
        PROVE  FinishEmbedding \/ EmbeddingDone
    BY <2>3, <1>0 DEF EmbeddingDone, Runs, EmbedStages, ScanPcs, WorkPcs, Beside,
       manifest, Idle, HandEmpty, SingleOk
  <2> QED BY <1>9, <2>1, <2>2, <2>3 DEF WriteStep
<1>10. CASE VecStep
  <2>1. ASSUME NEW p \in Paths, DropFeatures(p), Beside
        PROVE  FinishEmbedding \/ EmbeddingDone
    BY <2>1, <1>0 DEF EmbeddingDone, Runs, EmbedStages, ScanPcs, WorkPcs, Beside,
       manifest, Idle, HandEmpty, DropFeatures
  <2>2. ASSUME NEW k \in Kinds, ReuseVectors(k)
        PROVE  FinishEmbedding \/ EmbeddingDone
    BY <2>2, <1>0 DEF EmbeddingDone, Runs, EmbedStages, ScanPcs, WorkPcs, Beside,
       manifest, Idle, HandEmpty, ReuseVectors
  <2> QED BY <1>10, <2>1, <2>2 DEF VecStep
<1>11. CASE ImportStep
  <2>1. ASSUME NEW p \in Paths, NEW k \in Kinds, NEW c \in Goods,
               ImportEmbedding(p, k, c)
        PROVE  FinishEmbedding \/ EmbeddingDone
    BY <2>1, <1>0 DEF EmbeddingDone, Runs, EmbedStages, ScanPcs, WorkPcs, Beside,
       manifest, Idle, HandEmpty, ImportEmbedding
  <2> QED BY <1>11, <2>1 DEF ImportStep
<1>12. CASE ViewStep
  <2>1. ASSUME Regroup, Beside
        PROVE  FinishEmbedding \/ EmbeddingDone
    BY <2>1, <1>0 DEF EmbeddingDone, Runs, EmbedStages, ScanPcs, WorkPcs, Beside,
       manifest, Idle, HandEmpty, Regroup, AfterManifest
  <2>2. CASE AdvanceGeneration
    BY <2>2, <1>0 DEF EmbeddingDone, Runs, EmbedStages, ScanPcs, WorkPcs, Beside,
       manifest, Idle, HandEmpty, AdvanceGeneration, Go
  <2>3. CASE DropOverview
    BY <2>3, <1>0 DEF EmbeddingDone, Runs, EmbedStages, ScanPcs, WorkPcs, Beside,
       manifest, Idle, HandEmpty, DropOverview, Go
  <2>4. CASE CloseRun
    BY <2>4, <1>0 DEF EmbeddingDone, Runs, EmbedStages, ScanPcs, WorkPcs, Beside,
       manifest, Idle, HandEmpty, CloseRun, Go
  <2> QED BY <1>12, <2>1, <2>2, <2>3, <2>4 DEF ViewStep
<1> QED BY <1>1, <1>2, <1>3, <1>4, <1>5, <1>6, <1>7, <1>8, <1>9, <1>10, <1>11, <1>12 DEF BuildSteps

\* Then nothing lacks a vector.
LEMMA EmbeddedKept ==
  ASSUME Assumptions, TypeInv, HandInv, Steps, ErringRows, Tracked, Embedded, BuildSteps
  PROVE  Embedded'
<1> SUFFICES ASSUME EmbeddingDone', NEW p \in Paths, LacksAny(p)' PROVE FALSE
  BY DEF Embedded
<1>1. CASE FinishEmbedding
  <2>1. run.pc = "finish" /\ emb.queue = <<>> /\ emb' = emb
    BY <1>1 DEF FinishEmbedding
  <2>2. ~emb.dead
    <3>1. emb.dead => run'.pc = "unwind"
      BY <1>1 DEF FinishEmbedding, Go, TypeInv, RunOK, Runs
    <3> QED BY <3>1 DEF EmbeddingDone, Idle
  <2>3. emb.backlog = {} /\ emb.batches = {} /\ emb.items = {} /\ emb.errors = {}
    BY <2>1 DEF Steps, WorkPcs
  <2>4. Complete
    BY <2>1, <2>2, <2>3 DEF Complete, WorkPcs, EmbeddingDone
  <2>5. ~Upstream(p) /\ ~Queued(p)
    BY <2>1, <2>3 DEF Upstream, Queued
  <2>6. LacksAny(p)
    BY <2>1, LackFrom DEF BeginStep, BeginRun, Idle
  <2> QED BY <2>4, <2>5, <2>6 DEF Tracked
<1>2. CASE EmbeddingDone
  <2>0. ~BeginStep
    <3>1. BeginStep => run'.done = FALSE /\ run'.pc \in {"scan", "advance"}
      BY DEF BeginStep, BeginRun, NoRun
    <3> QED BY <3>1 DEF EmbeddingDone, Idle
  <2>1. LacksAny(p)
    BY <1>2, <2>0, LackFrom DEF EmbeddingDone, Idle
  <2> QED BY <1>2, <2>1 DEF Embedded
<1> QED BY <1>1, <1>2, DoneFrom

LEMMA EmbedStep ==
  ASSUME Assumptions, TypeInv, HandInv, EmbedInv, BuildSteps
  PROVE  EmbedInv'
BY StepsKept, ErringWhenKept, ErringRowsKept, OnePlaceKept, TrackedKept, EmbeddedKept DEF EmbedInv

LEMMA EmbedInit ==
  ASSUME BuildInit
  PROVE  EmbedInv
<1>1. run.pc = "idle" /\ run.done = FALSE /\ HandEmpty /\ scan.erring = {}
  BY DEF BuildInit, NoRun, NoEmbed, NoScan, HandEmpty
<1>2. Steps
  BY <1>1 DEF Steps, HandEmpty, WorkPcs
<1>3. OnePlace
  BY <1>1 DEF OnePlace, QueueApart, BatchesApart, BacklogApart, HandEmpty, Queued, InBacklog
<1>4. ErringWhen /\ ErringRows
  BY <1>1 DEF ErringWhen, ErringRows
<1>5. Tracked /\ Embedded
  BY <1>1 DEF Tracked, Complete, WorkPcs, Embedded, EmbeddingDone, Idle
<1> QED BY <1>2, <1>3, <1>4, <1>5 DEF EmbedInv

----------------------------------------------------------------------------
(***************************************************************************)
(* What scans read.                                                        *)
(***************************************************************************)

\* Whoever has the stamp of the file as it is has its content.
Honest(p, stamp, content) ==
  /\ stamp <= disk[p].stamp
  /\ stamp = disk[p].stamp /\ content # Unknown => content = disk[p].content

HandItem(x) ==
  \/ x \in emb.items
  \/ \E b \in emb.batches : x \in b.items
  \/ \E n \in DOMAIN emb.queue : x \in emb.queue[n]

HandJob(x) == x \in emb.backlog \/ \E b \in emb.batches : x \in b.jobs

HandError(p) == p \in emb.errors \/ \E b \in emb.batches : p \in b.errors

DiskDated  == \A p \in Paths : disk[p].stamp <= edits
RowsHonest == \A p \in Paths : asset[p] # NoRow => Honest(p, asset[p].stamp, asset[p].sha)
ScanHonest ==
  /\ \A j \in scan.jobs : j.stamp <= disk[j.path].stamp
  /\ \A r \in scan.results : Honest(r.path, r.stamp, r.content)
  /\ \A i \in scan.pending : Honest(i.path, i.stamp, i.content)
HandHonest ==
  /\ \A x \in EmbedJobs : HandJob(x) => Honest(x.path, x.stamp, x.sha)
  /\ \A x \in EmbedItems : HandItem(x) => Honest(x.path, x.stamp, x.sha)

HonestInv == DiskDated /\ RowsHonest /\ ScanHonest /\ HandHonest

\* While no file changes, what a build has in hand is what is there.
WalkCalm ==
  run.calm /\ run.pc \in ScanPcs \ {"idle"}
    => scan.listed = Present /\ scan.must = Present /\ scan.seen \subseteq Present
ReadCalm ==
  run.calm =>
    /\ \A r \in scan.results : r.content = disk[r.path].content
    /\ \A i \in scan.pending : i.content = Unknown \/ i.content = disk[i.path].content
    /\ run.mode # "fast" => \A i \in scan.pending : i.content # Unknown
HandCalm ==
  run.calm =>
    /\ \A x \in EmbedItems : HandItem(x) => x.sha = disk[x.path].content
    /\ \A p \in Paths : HandError(p) => disk[p].content \notin Goods

CalmInv == WalkCalm /\ ReadCalm /\ HandCalm

\* The scan is done with a path.
Outcome(p) ==
  /\ p \in Active
  /\ run.mode # "fast" =>
       IF disk[p].content \in Goods THEN asset[p].sha = disk[p].content
       ELSE asset[p].error /\ (vec[p] = NoVector \/ p \in scan.erring)

InScan(p) ==
  \/ \E x \in scan.jobs : x.path = p
  \/ \E x \in scan.results : x.path = p
  \/ \E x \in scan.pending : x.path = p

Accounted ==
  run.calm /\ run.pc \in {"scan", "drain", "stale"} /\ ~scan.lost
    => \A p \in scan.seen : Outcome(p) \/ InScan(p)

\* The last batch is written.
Flushed == run.pc = "stale" => scan.jobs = {} /\ scan.results = {} /\ scan.pending = {} /\ ~scan.lost

ScanDone ==
  /\ run.calm /\ ~scan.hit /\ "manifest" \in run.stage
  /\ run.pc \in {"group"} \cup (EmbedPcs \ {"unwind"}) \/ (Idle /\ run.done)

ExactInv ==
  ScanDone => /\ Active \subseteq Present /\ Present \ scan.unread \subseteq Active
              /\ \A p \in Active : Outcome(p)

ScanInv == HonestInv /\ CalmInv /\ Accounted /\ Flushed /\ ExactInv

\* What a scan has in hand was there before, or was met or read in this step.
ScanMoves ==
  /\ \A j \in scan'.jobs :
       j \in scan.jobs \/ (UNCHANGED disk /\ j.stamp = disk[j.path].stamp)
  /\ \A r \in scan'.results :
       \/ r \in scan.results
       \/ \E j \in scan.jobs :
            /\ UNCHANGED disk
            /\ r = [path |-> j.path, stamp |-> j.stamp, content |-> disk[j.path].content]
  /\ \A i \in scan'.pending :
       \/ i \in scan.pending
       \/ i \in scan.results /\ i.content \in Goods
       \/ UNCHANGED disk /\ run.mode = "fast" /\ i.content = Unknown /\ i.stamp = disk[i.path].stamp

LEMMA ScanMovesOn ==
  ASSUME Assumptions, TypeInv, BuildSteps
  PROVE  ScanMoves
<1>0. run \in Runs /\ scan \in ScanStages
  BY DEF TypeInv, RunOK, ScanOK
<1>1. CASE EditStep
  <2>1. ASSUME NEW p \in Paths, NEW c \in Goods \cup {Bad, Gone}, EditFile(p, c),
               Beside
        PROVE  ScanMoves
    BY <2>1, <1>0 DEF ScanMoves, ScanStages, Runs, Beside, EditFile
  <2> QED BY <1>1, <2>1 DEF EditStep
<1>2. CASE BeginStep
  <2>1. ASSUME NEW stage \in SUBSET {"manifest", "embeddings"},
               NEW mode \in Modes \cup {"serial"}, NEW limit \in Nat,
               NEW kinds \in SUBSET Kinds, NEW async \in BOOLEAN,
               BeginRun(stage, mode, limit, kinds, async)
        PROVE  ScanMoves
    BY <2>1, <1>0 DEF ScanMoves, ScanStages, Runs, Beside, BeginRun, NoScan
  <2> QED BY <1>2, <2>1 DEF BeginStep
<1>3. CASE StopStep
  <2>1. CASE EndRun
    BY <2>1, <1>0 DEF ScanMoves, ScanStages, Runs, Beside, EndRun, NoScan
  <2>2. CASE Unwound
    BY <2>2, <1>0 DEF ScanMoves, ScanStages, Runs, Beside, Unwound, NoScan
  <2>3. CASE Killed
    BY <2>3, <1>0 DEF ScanMoves, ScanStages, Runs, Beside, Killed, NoScan
  <2> QED BY <1>3, <2>1, <2>2, <2>3 DEF StopStep
<1>4. CASE HandStep
  <2>1. scan' = scan
    BY <1>4 DEF HandStep, QueryBacklog, Submit, EnqueueBatch, WriterDies, JoinBatch,
       PrepareDies, PrepareAsset
  <2> QED BY <2>1 DEF ScanMoves
<1>5. CASE TurnStep
  <2>1. scan' = scan
    BY <1>5 DEF TurnStep
  <2> QED BY <2>1 DEF ScanMoves
<1>6. CASE TakeSnapshot
  <2>1. CASE TakeSnapshot
    BY <2>1, <1>0 DEF ScanMoves, ScanStages, Runs, Beside, TakeSnapshot
  <2> QED BY <1>6, <2>1 DEF TakeSnapshot
<1>7. CASE WalkStep
  <2>1. ASSUME NEW p \in Paths, Visit(p), Beside
        PROVE  ScanMoves
    BY <2>1, <1>0 DEF ScanMoves, ScanStages, Runs, Beside, Visit, Meet, Walking, manifest
  <2>2. ASSUME NEW j \in scan.jobs, ReadFile(j), Beside
        PROVE  ScanMoves
    BY <2>2, <1>0 DEF ScanMoves, ScanStages, Runs, Beside, ReadFile, manifest
  <2>3. ASSUME WorkerDies, Beside
        PROVE  ScanMoves
    BY <2>3, <1>0 DEF ScanMoves, ScanStages, Runs, Beside, WorkerDies
  <2>4. ASSUME EndWalk, Beside
        PROVE  ScanMoves
    BY <2>4, <1>0 DEF ScanMoves, ScanStages, Runs, Beside, EndWalk
  <2>5. ASSUME ResultsMissing, Beside
        PROVE  ScanMoves
    BY <2>5, <1>0 DEF ScanMoves, ScanStages, Runs, Beside, ResultsMissing
  <2>6. ASSUME NEW p \in Paths, SkipUnreadable(p), Beside
        PROVE  ScanMoves
    BY <2>6, <1>0 DEF ScanMoves, ScanStages, Runs, Beside, SkipUnreadable, Meet, Walking, manifest
  <2> QED BY <1>7, <2>1, <2>2, <2>3, <2>4, <2>5, <2>6 DEF WalkStep
<1>8. CASE AssetStep
  <2>1. ASSUME NEW p \in Paths, VisitGone(p), Beside
        PROVE  ScanMoves
    BY <2>1, <1>0 DEF ScanMoves, ScanStages, Runs, Beside, VisitGone, Meet, Walking
  <2>2. ASSUME NEW p \in Paths, VisitFast(p), Beside
        PROVE  ScanMoves
    BY <2>2, <1>0 DEF ScanMoves, ScanStages, Runs, Beside, VisitFast, Meet, Walking, Flush
  <2>3. ASSUME NEW r \in scan.results, TakeResult(r), Beside
        PROVE  ScanMoves
    <3>1. CASE r.content \in Goods
      <4>1. PICK pending \in {{}, scan.pending \cup {r}} :
              scan' = [scan EXCEPT !.results = @ \ {r}, !.pending = pending]
        BY <2>3, <3>1 DEF TakeResult
      <4>2. scan'.jobs = scan.jobs /\ scan'.results = scan.results \ {r} /\ scan'.pending = pending
        BY <4>1, <1>0 DEF ScanStages
      <4> QED BY <3>1, <4>1, <4>2 DEF ScanMoves
    <3>2. CASE r.content \notin Goods
      <4>1. /\ scan'.jobs = scan.jobs /\ scan'.results = scan.results \ {r}
            /\ scan'.pending = scan.pending
        BY <2>3, <3>2, <1>0 DEF TakeResult, ScanStages
      <4> QED BY <4>1 DEF ScanMoves
    <3> QED BY <3>1, <3>2
  <2>4. ASSUME FlushLast, Beside
        PROVE  ScanMoves
    BY <2>4, <1>0 DEF ScanMoves, ScanStages, Runs, Beside, FlushLast
  <2>5. ASSUME MarkMissingStale, Beside
        PROVE  ScanMoves
    BY <2>5, <1>0 DEF ScanMoves, ScanStages, Runs, Beside, MarkMissingStale
  <2>6. ASSUME NEW p \in emb.errors, RecordPrepareError(p)
        PROVE  ScanMoves
    BY <2>6, <1>0 DEF ScanMoves, ScanStages, Runs, Beside, RecordPrepareError
  <2>7. ASSUME NEW i \in emb.items, SingleFails(i)
        PROVE  ScanMoves
    BY <2>7, <1>0 DEF ScanMoves, ScanStages, Runs, Beside, SingleFails
  <2> QED BY <1>8, <2>1, <2>2, <2>3, <2>4, <2>5, <2>6, <2>7 DEF AssetStep
<1>9. CASE WriteStep
  <2>1. scan' = scan
    BY <1>9 DEF WriteStep, FlushBatch, WriterStep, SingleOk
  <2> QED BY <2>1 DEF ScanMoves
<1>10. CASE VecStep
  <2>1. ASSUME NEW p \in Paths, DropFeatures(p), Beside
        PROVE  ScanMoves
    BY <2>1, <1>0 DEF ScanMoves, ScanStages, Runs, Beside, DropFeatures
  <2>2. ASSUME NEW k \in Kinds, ReuseVectors(k)
        PROVE  ScanMoves
    BY <2>2, <1>0 DEF ScanMoves, ScanStages, Runs, Beside, ReuseVectors
  <2> QED BY <1>10, <2>1, <2>2 DEF VecStep
<1>11. CASE ImportStep
  <2>1. ASSUME NEW p \in Paths, NEW k \in Kinds, NEW c \in Goods,
               ImportEmbedding(p, k, c)
        PROVE  ScanMoves
    BY <2>1, <1>0 DEF ScanMoves, ScanStages, Runs, Beside, ImportEmbedding
  <2> QED BY <1>11, <2>1 DEF ImportStep
<1>12. CASE ViewStep
  <2>1. scan' = scan
    BY <1>12 DEF ViewStep, Regroup, AdvanceGeneration, DropOverview, CloseRun, Beside
  <2> QED BY <2>1 DEF ScanMoves
<1> QED BY <1>1, <1>2, <1>3, <1>4, <1>5, <1>6, <1>7, <1>8, <1>9, <1>10, <1>11, <1>12 DEF BuildSteps

\* Likewise for what the embedding stage has in hand.
PreparedFrom(x, job) ==
  /\ x.path = job.path /\ x.stamp = disk[job.path].stamp
  /\ disk[job.path].content \in Goods
  /\ x.sha = disk[job.path].content \/ (KnownFingerprint(job) /\ x.sha = job.sha)

HandMoves ==
  /\ \A x \in EmbedJobs : HandJob(x)' =>
       \/ HandJob(x)
       \/ /\ UNCHANGED disk /\ asset[x.path] # NoRow
          /\ x.stamp = asset[x.path].stamp /\ x.sha = asset[x.path].sha
  /\ \A x \in EmbedItems : HandItem(x)' =>
       \/ HandItem(x)
       \/ UNCHANGED disk /\ \E job \in EmbedJobs : HandJob(job) /\ PreparedFrom(x, job)
  /\ \A p \in Paths : HandError(p)' =>
       HandError(p) \/ (UNCHANGED disk /\ disk[p].content \notin Goods)

LEMMA SameMoves ==
  ASSUME emb'.backlog \subseteq emb.backlog, emb'.batches \subseteq emb.batches,
         emb'.items \subseteq emb.items, emb'.errors \subseteq emb.errors,
         \A n \in DOMAIN emb'.queue : \E m \in DOMAIN emb.queue : emb'.queue[n] = emb.queue[m]
  PROVE  HandMoves
BY DEF HandJob, HandItem, HandError, HandMoves

LEMMA HandMovesOn ==
  ASSUME Assumptions, TypeInv, BuildSteps
  PROVE  HandMoves
<1>0. emb \in EmbedStages
  BY DEF TypeInv, EmbOK
<1>1. CASE EditStep
  <2>1. emb' = emb
    BY <1>1 DEF Beside, EditStep
  <2> QED BY <2>1, SameMoves
<1>2. CASE BeginStep
  <2>1. ASSUME NEW stage \in SUBSET {"manifest", "embeddings"},
               NEW mode \in Modes \cup {"serial"}, NEW limit \in Nat,
               NEW kinds \in SUBSET Kinds, NEW async \in BOOLEAN,
               BeginRun(stage, mode, limit, kinds, async)
        PROVE  HandMoves
    BY <2>1, SameMoves DEF NoEmbed, BeginRun
  <2> QED BY <1>2, <2>1 DEF BeginStep
<1>3. CASE StopStep
  <2>1. CASE EndRun
    BY <2>1, SameMoves DEF NoEmbed, EndRun
  <2>2. CASE Unwound
    BY <2>2, SameMoves DEF NoEmbed, Unwound
  <2>3. CASE Killed
    BY <2>3, SameMoves DEF NoEmbed, Killed
  <2> QED BY <1>3, <2>1, <2>2, <2>3 DEF StopStep
<1>4. CASE HandStep
  <2>1. CASE QueryBacklog
    <3>1. PICK chosen \in SUBSET Wanted :
            emb' = [emb EXCEPT
              !.backlog = {[path |-> p, stamp |-> asset[p].stamp, sha |-> asset[p].sha] :
                             p \in chosen},
              !.truncated = chosen # Wanted]
      BY <2>1, QueryIs
    <3>2. /\ emb'.backlog = {[path |-> p, stamp |-> asset[p].stamp, sha |-> asset[p].sha] : p \in chosen}
          /\ emb'.batches = emb.batches /\ emb'.items = emb.items
          /\ emb'.errors = emb.errors /\ emb'.queue = emb.queue
      BY <3>1, <1>0 DEF EmbedStages
    <3>3. UNCHANGED disk
      BY <2>1 DEF QueryBacklog
    <3>4. ASSUME NEW x \in emb'.backlog
          PROVE  asset[x.path] # NoRow /\ x.stamp = asset[x.path].stamp /\ x.sha = asset[x.path].sha
      <4>1. PICK p \in chosen : x = [path |-> p, stamp |-> asset[p].stamp, sha |-> asset[p].sha]
        BY <3>2, <3>4
      <4>2. asset[p] # NoRow
        BY DEF Wanted, Active
      <4> QED BY <4>1, <4>2
    <3> QED BY <3>2, <3>3, <3>4 DEF HandMoves, HandJob, HandItem, HandError
  <2>2. CASE Submit
    <3>1. PICK chunk \in SUBSET emb.backlog :
            emb' = [emb EXCEPT
              !.backlog = @ \ chunk,
              !.batches = @ \cup {[jobs |-> chunk, items |-> {}, errors |-> {}, lost |-> FALSE]}]
      BY <2>2 DEF Submit, kSubset
    <3> DEFINE c == [jobs |-> chunk, items |-> {}, errors |-> {}, lost |-> FALSE]
    <3>2. /\ emb'.backlog = emb.backlog \ chunk /\ emb'.batches = emb.batches \cup {c}
          /\ emb'.items = emb.items /\ emb'.errors = emb.errors /\ emb'.queue = emb.queue
      BY <3>1, <1>0 DEF EmbedStages
    <3>3. c.jobs = chunk /\ c.items = {} /\ c.errors = {}
      OBVIOUS
    <3> HIDE DEF c
    <3>4. \A x : HandJob(x)' => HandJob(x)
      BY <3>2, <3>3 DEF HandJob
    <3>5. \A x : HandItem(x)' => HandItem(x)
      BY <3>2, <3>3 DEF HandItem
    <3>6. \A p : HandError(p)' => HandError(p)
      BY <3>2, <3>3 DEF HandError
    <3> QED BY <3>4, <3>5, <3>6 DEF HandMoves
  <2>3. CASE EnqueueBatch
    <3>1. CASE emb.dead
      BY <2>3, <3>1, SameMoves DEF EnqueueBatch
    <3>2. CASE ~emb.dead
      <4>1. /\ emb'.items = {} /\ emb'.backlog = emb.backlog /\ emb'.batches = emb.batches
            /\ emb'.errors = emb.errors /\ emb'.queue = Append(emb.queue, emb.items)
        BY <2>3, <3>2, <1>0 DEF EnqueueBatch, EmbedStages
      <4>2. emb.queue \in Seq(SUBSET EmbedItems) /\ emb.items \in SUBSET EmbedItems
        BY <1>0 DEF EmbedStages
      <4>3. \A n \in DOMAIN emb'.queue :
              emb'.queue[n] = emb.items \/ (n \in DOMAIN emb.queue /\ emb'.queue[n] = emb.queue[n])
        BY <4>1, <4>2
      <4>4. \A x : HandItem(x)' => HandItem(x)
        BY <4>1, <4>3 DEF HandItem
      <4> QED BY <4>1, <4>4 DEF HandMoves, HandJob, HandError
    <3> QED BY <3>1, <3>2
  <2>4. CASE WriterDies
    BY <2>4, <1>0, SameMoves DEF WriterDies, EmbedStages
  <2>5. ASSUME NEW b \in emb.batches, JoinBatch(b)
        PROVE  HandMoves
    <3>1. CASE b.lost
      BY <2>5, <3>1, SameMoves DEF JoinBatch
    <3>2. CASE ~b.lost
      <4>1. /\ emb'.items = b.items /\ emb'.backlog = emb.backlog /\ emb'.batches = emb.batches \ {b}
            /\ emb'.errors = b.errors /\ emb'.queue = emb.queue
        BY <2>5, <3>2, <1>0 DEF JoinBatch, EmbedStages
      <4> QED BY <4>1 DEF HandMoves, HandJob, HandItem, HandError
    <3> QED BY <3>1, <3>2
  <2>6. ASSUME NEW b \in emb.batches, PrepareDies(b)
        PROVE  HandMoves
    <3>1. PICK job \in b.jobs : Batched(b, [b EXCEPT !.jobs = @ \ {job}, !.lost = TRUE])
      BY <2>6 DEF PrepareDies
    <3>2. b \in Batches
      BY <1>0 DEF EmbedStages
    <3> DEFINE c == [b EXCEPT !.jobs = @ \ {job}, !.lost = TRUE]
    <3>3. c.jobs = b.jobs \ {job} /\ c.items = b.items /\ c.errors = b.errors
      BY <3>2 DEF Batches
    <3>4. /\ emb'.backlog = emb.backlog /\ emb'.batches = (emb.batches \ {b}) \cup {c}
          /\ emb'.items = emb.items /\ emb'.errors = emb.errors /\ emb'.queue = emb.queue
      BY <3>1, <1>0 DEF Batched, EmbedStages
    <3> HIDE DEF c
    <3> QED BY <3>3, <3>4 DEF HandMoves, HandJob, HandItem, HandError
  <2>7. ASSUME NEW b \in emb.batches, NEW job \in b.jobs, PrepareAsset(b, job)
        PROVE  HandMoves
    <3>1. b \in Batches /\ job \in EmbedJobs /\ HandJob(job)
      BY <1>0 DEF EmbedStages, Batches, HandJob
    <3>2. PICK c \in Batches :
            /\ Batched(b, c) /\ c.jobs = b.jobs \ {job}
            /\ \/ /\ disk[job.path].content \notin Goods
                  /\ c.errors = b.errors \cup {job.path} /\ c.items = b.items
               \/ \E item \in EmbedItems :
                    /\ c.errors = b.errors /\ c.items = b.items \cup {item}
                    /\ PreparedFrom(item, job)
      BY <2>7, <3>1, PreparedIs DEF PreparedFrom
    <3>3. /\ emb'.backlog = emb.backlog /\ emb'.batches = (emb.batches \ {b}) \cup {c}
          /\ emb'.items = emb.items /\ emb'.errors = emb.errors /\ emb'.queue = emb.queue
          /\ UNCHANGED disk
      BY <2>7, <3>2, <1>0 DEF PrepareAsset, Batched, EmbedStages
    <3>4. \A x : HandJob(x)' => HandJob(x)
      BY <3>2, <3>3 DEF HandJob
    <3>5. ASSUME NEW x \in EmbedItems, HandItem(x)' PROVE HandItem(x) \/ PreparedFrom(x, job)
      BY <3>2, <3>3, <3>5 DEF HandItem
    <3>6. ASSUME NEW p \in Paths, HandError(p)' PROVE HandError(p) \/ disk[p].content \notin Goods
      BY <3>2, <3>3, <3>6 DEF HandError
    <3> QED BY <3>1, <3>3, <3>4, <3>5, <3>6 DEF HandMoves
  <2> QED BY <1>4, <2>1, <2>2, <2>3, <2>4, <2>5, <2>6, <2>7 DEF HandStep
<1>5. CASE TurnStep
  <2>1. emb' = emb
    BY <1>5 DEF Beside, TurnStep
  <2> QED BY <2>1, SameMoves
<1>6. CASE TakeSnapshot
  <2>1. emb' = emb
    BY <1>6 DEF Beside, TakeSnapshot
  <2> QED BY <2>1, SameMoves
<1>7. CASE WalkStep
  <2>1. emb' = emb
    BY <1>7 DEF Beside, WalkStep
  <2> QED BY <2>1, SameMoves
<1>8. CASE AssetStep
  <2>1. ASSUME NEW p \in Paths, VisitGone(p), Beside
        PROVE  HandMoves
    <3>1. emb' = emb
      BY <2>1 DEF Beside, VisitGone
    <3> QED BY <3>1, SameMoves
  <2>2. ASSUME NEW p \in Paths, VisitFast(p), Beside
        PROVE  HandMoves
    <3>1. emb' = emb
      BY <2>2 DEF Beside, VisitFast
    <3> QED BY <3>1, SameMoves
  <2>3. ASSUME NEW r \in scan.results, TakeResult(r), Beside
        PROVE  HandMoves
    <3>1. emb' = emb
      BY <2>3 DEF Beside, TakeResult
    <3> QED BY <3>1, SameMoves
  <2>4. ASSUME FlushLast, Beside
        PROVE  HandMoves
    <3>1. emb' = emb
      BY <2>4 DEF Beside, FlushLast
    <3> QED BY <3>1, SameMoves
  <2>5. ASSUME MarkMissingStale, Beside
        PROVE  HandMoves
    <3>1. emb' = emb
      BY <2>5 DEF Beside, MarkMissingStale
    <3> QED BY <3>1, SameMoves
  <2>6. ASSUME NEW p \in emb.errors, RecordPrepareError(p)
        PROVE  HandMoves
    BY <2>6, <1>0, SameMoves DEF RecordPrepareError, EmbedStages
  <2>7. ASSUME NEW i \in emb.items, SingleFails(i)
        PROVE  HandMoves
    BY <2>7, <1>0, SameMoves DEF SingleFails, EmbedStages
  <2> QED BY <1>8, <2>1, <2>2, <2>3, <2>4, <2>5, <2>6, <2>7 DEF AssetStep
<1>9. CASE WriteStep
  <2>1. CASE FlushBatch
    BY <2>1, <1>0, SameMoves DEF FlushBatch, EmbedStages
  <2>2. CASE WriterStep
    <3>1. /\ \A n \in DOMAIN emb'.queue : emb'.queue[n] = emb.queue[n + 1] /\ n + 1 \in DOMAIN emb.queue
          /\ emb' = [emb EXCEPT !.queue = emb'.queue]
      BY <2>2, WriterIs
    <3>2. PICK queue : queue = emb'.queue
      OBVIOUS
    <3>3. emb' = [emb EXCEPT !.queue = queue]
      BY <3>1, <3>2
    <3>4. /\ emb'.backlog = emb.backlog /\ emb'.batches = emb.batches /\ emb'.items = emb.items
          /\ emb'.errors = emb.errors
      BY <3>3, <1>0 DEF EmbedStages
    <3> QED BY <3>1, <3>4, SameMoves
  <2>3. ASSUME NEW i \in emb.items, SingleOk(i) PROVE HandMoves
    BY <2>3, <1>0, SameMoves DEF SingleOk, EmbedStages
  <2> QED BY <1>9, <2>1, <2>2, <2>3 DEF WriteStep
<1>10. CASE VecStep
  <2>1. ASSUME NEW p \in Paths, DropFeatures(p), Beside
        PROVE  HandMoves
    <3>1. emb' = emb
      BY <2>1 DEF Beside, DropFeatures
    <3> QED BY <3>1, SameMoves
  <2>2. ASSUME NEW k \in Kinds, ReuseVectors(k)
        PROVE  HandMoves
    BY <2>2, <1>0, SameMoves DEF ReuseVectors, EmbedStages
  <2> QED BY <1>10, <2>1, <2>2 DEF VecStep
<1>11. CASE ImportStep
  <2>1. emb' = emb
    BY <1>11 DEF Beside, ImportStep, ImportEmbedding
  <2> QED BY <2>1, SameMoves
<1>12. CASE ViewStep
  <2>1. emb' = emb
    BY <1>12 DEF Beside, ViewStep, Regroup, AdvanceGeneration, DropOverview, CloseRun
  <2> QED BY <2>1, SameMoves
<1> QED BY <1>1, <1>2, <1>3, <1>4, <1>5, <1>6, <1>7, <1>8, <1>9, <1>10, <1>11, <1>12 DEF BuildSteps

\* What has the stamp of a file has its content, whatever happens to the file.
LEMMA HonestLater ==
  ASSUME Assumptions, TypeInv, BuildSteps, DiskDated, NEW p \in Paths, NEW s \in Stamps, NEW c,
         Honest(p, s, c)
  PROVE  /\ s <= disk'[p].stamp
         /\ s = disk'[p].stamp /\ c # Unknown => c = disk'[p].content
<1>1. CASE disk' = disk
  BY <1>1 DEF Honest
<1>2. CASE EditStep
  <2>1. PICK q \in Paths, d \in Goods \cup {Bad, Gone} : EditFile(q, d)
    BY <1>2 DEF EditStep
  <2>2. disk' = [disk EXCEPT ![q] = [content |-> d, stamp |-> edits + 1]]
    BY <2>1 DEF EditFile
  <2>3. /\ edits \in Nat /\ s \in Nat /\ disk[p].stamp \in Nat /\ disk[p].stamp <= edits
        /\ s <= disk[p].stamp
    BY DEF Assumptions, ScanAssumption, TypeInv, DiskOK, Files, Stamps, DiskDated, Honest
  <2>4. CASE p = q
    <3>1. disk'[p].stamp = edits + 1
      BY <2>2, <2>4 DEF TypeInv, DiskOK
    <3> QED BY <2>3, <3>1
  <2>5. CASE p # q
    <3>1. disk'[p] = disk[p]
      BY <2>2, <2>5 DEF TypeInv, DiskOK
    <3> QED BY <3>1 DEF Honest
  <2> QED BY <2>4, <2>5
<1> QED BY <1>1, <1>2, Writers

LEMMA DatedKept ==
  ASSUME Assumptions, TypeInv, BuildSteps, DiskDated
  PROVE  DiskDated'
<1>1. CASE disk' = disk /\ ~EditStep
  <2>1. edits \in Nat /\ (edits' = edits \/ edits' = edits + 1)
    BY <1>1, Writers, EditsCount DEF Assumptions, ScanAssumption, TypeInv, DiskOK
  <2>2. \A p \in Paths : disk[p].stamp \in Nat
    BY DEF Assumptions, ScanAssumption, TypeInv, DiskOK, Files, Stamps
  <2> QED BY <1>1, <2>1, <2>2 DEF DiskDated
<1>2. CASE EditStep
  <2>1. PICK q \in Paths, d \in Goods \cup {Bad, Gone} : EditFile(q, d)
    BY <1>2 DEF EditStep
  <2>2. disk' = [disk EXCEPT ![q] = [content |-> d, stamp |-> edits + 1]] /\ edits' = edits + 1
    BY <2>1 DEF EditFile
  <2>3. edits \in Nat /\ \A p \in Paths : disk[p].stamp \in Nat /\ disk[p].stamp <= edits
    BY DEF Assumptions, ScanAssumption, TypeInv, DiskOK, Files, Stamps, DiskDated
  <2>4. \A p \in Paths : disk'[p].stamp = edits + 1 \/ disk'[p].stamp = disk[p].stamp
    BY <2>2 DEF TypeInv, DiskOK
  <2> QED BY <2>2, <2>3, <2>4 DEF DiskDated
<1> QED BY <1>1, <1>2, Writers

\* The items of one batch of the scan, and those that wait for the next one.
LEMMA VisitFastIs ==
  ASSUME Assumptions, TypeInv, NEW p \in Paths, VisitFast(p)
  PROVE  \E items, pending \in SUBSET PendingItems :
           /\ asset' = Written(items)
           /\ scan' = [scan EXCEPT !.seen = @ \cup {p}, !.pending = pending]
           /\ items \cup pending =
                scan.pending \cup
                  IF FastUnchanged(p) THEN {}
                  ELSE {[path |-> p, stamp |-> disk[p].stamp, content |-> Unknown]}
<1> DEFINE item == [path |-> p, stamp |-> disk[p].stamp, content |-> Unknown]
           pending == scan.pending \cup IF FastUnchanged(p) THEN {} ELSE {item}
           full == (Cardinality(scan.seen) + 1) % BatchSize = 0
<1>1. pending \in SUBSET PendingItems
  BY DEF TypeInv, ScanOK, ScanStages, DiskOK, Files, PendingItems
<1>2. /\ asset' = Written(IF full THEN pending ELSE {})
      /\ scan' = [scan EXCEPT !.seen = @ \cup {p}, !.pending = IF full THEN {} ELSE pending]
  BY DEF VisitFast, Flush
<1>3. pending = scan.pending \cup IF FastUnchanged(p) THEN {}
                  ELSE {[path |-> p, stamp |-> disk[p].stamp, content |-> Unknown]}
  OBVIOUS
<1> HIDE DEF pending, full
<1>4. CASE full
  <2> DEFINE none == {}
  <2>1. none \in SUBSET PendingItems /\ pending \cup none = pending
    OBVIOUS
  <2>2. asset' = Written(pending) /\ scan' = [scan EXCEPT !.seen = @ \cup {p}, !.pending = none]
    BY <1>2, <1>4
  <2> HIDE DEF none
  <2> QED BY <1>1, <1>3, <2>1, <2>2
<1>5. CASE ~full
  <2> DEFINE none == {}
  <2>1. none \in SUBSET PendingItems /\ none \cup pending = pending
    OBVIOUS
  <2>2. asset' = Written(none) /\ scan' = [scan EXCEPT !.seen = @ \cup {p}, !.pending = pending]
    BY <1>2, <1>5
  <2> HIDE DEF none
  <2> QED BY <1>1, <1>3, <2>1, <2>2
<1> QED BY <1>4, <1>5

LEMMA TakeGoodIs ==
  ASSUME Assumptions, TypeInv, NEW r \in scan.results, TakeResult(r), r.content \in Goods
  PROVE  \E items, pending \in SUBSET PendingItems :
           /\ asset' = Written(items)
           /\ scan' = [scan EXCEPT !.results = @ \ {r}, !.pending = pending]
           /\ items \cup pending = scan.pending \cup {r}
<1> DEFINE pending == scan.pending \cup {r}
           full == Cardinality(pending) >= BatchSize
           none == {}
<1>1. pending \in SUBSET PendingItems
  BY DEF TypeInv, ScanOK, ScanStages, Results, PendingItems
<1>2. /\ asset' = Written(IF full THEN pending ELSE {})
      /\ scan' = [scan EXCEPT !.results = @ \ {r}, !.pending = IF full THEN {} ELSE pending]
  BY DEF TakeResult, Flush
<1>3. none \in SUBSET PendingItems /\ pending \cup none = pending /\ none \cup pending = pending
  OBVIOUS
<1>4. pending = scan.pending \cup {r}
  OBVIOUS
<1>5. CASE full
  <2>1. asset' = Written(pending) /\ scan' = [scan EXCEPT !.results = @ \ {r}, !.pending = none]
    BY <1>2, <1>5
  <2> HIDE DEF none, pending, full
  <2> QED BY <1>1, <1>3, <1>4, <2>1
<1>6. CASE ~full
  <2>1. asset' = Written(none) /\ scan' = [scan EXCEPT !.results = @ \ {r}, !.pending = pending]
    BY <1>2, <1>6
  <2> HIDE DEF none, pending, full
  <2> QED BY <1>1, <1>3, <1>4, <2>1
<1> HIDE DEF full
<1> QED BY <1>5, <1>6

\* Rows made of honest items are honest.
LEMMA WrittenHonest ==
  ASSUME Assumptions, AssetOK, RowsHonest, NEW items \in SUBSET PendingItems,
         \A i \in items : Honest(i.path, i.stamp, i.content),
         asset' = Written(items), disk' = disk
  PROVE  RowsHonest'
<1> SUFFICES ASSUME NEW p \in Paths, asset'[p] # NoRow
             PROVE  Honest(p, asset'[p].stamp, asset'[p].sha)
  BY DEF RowsHonest, Honest
<1>1. CASE asset'[p] = asset[p]
  BY <1>1 DEF RowsHonest
<1>2. CASE asset'[p] # asset[p]
  <2>1. PICK i \in items :
          /\ i.path = p
          /\ asset'[p] = [stamp |-> i.stamp, sha |-> i.content, error |-> FALSE, stale |-> FALSE]
    BY <1>2, WrittenIs
  <2> QED BY <2>1
<1> QED BY <1>1, <1>2

LEMMA ErrorHonest ==
  ASSUME Assumptions, TypeInv, RowsHonest, NEW q \in Paths, RecordPathError(q), disk' = disk
  PROVE  RowsHonest'
BY PathErrorIs DEF TypeInv, Assumptions, ScanAssumption, DiskOK, Files, Stamps,
  RowsHonest, Honest

LEMMA RowsStayHonest ==
  ASSUME Assumptions, TypeInv, HandInv, HonestInv, BuildSteps
  PROVE  RowsHonest'
<1>1. CASE asset' = asset
  <2>1. ASSUME NEW p \in Paths, asset[p] # NoRow
        PROVE  /\ asset[p].stamp <= disk'[p].stamp
               /\ asset[p].stamp = disk'[p].stamp /\ asset[p].sha # Unknown
                    => asset[p].sha = disk'[p].content
    <3>1. asset[p].stamp \in Stamps
      BY <2>1 DEF TypeInv, AssetOK, Rows
    <3>2. Honest(p, asset[p].stamp, asset[p].sha)
      BY <2>1 DEF HonestInv, RowsHonest
    <3>3. PICK s \in Stamps, c \in {asset[p].sha} : s = asset[p].stamp
      BY <3>1
    <3>4. Honest(p, s, c)
      BY <3>2, <3>3
    <3>5. /\ s <= disk'[p].stamp
          /\ s = disk'[p].stamp /\ c # Unknown => c = disk'[p].content
      BY <3>4, HonestLater DEF HonestInv
    <3> QED BY <3>3, <3>5
  <2> QED BY <1>1, <2>1 DEF RowsHonest, Honest
<1>2. CASE AssetStep
  <2>0. disk' = disk
    BY <1>2 DEF AssetStep, VisitGone, VisitFast, TakeResult, FlushLast, MarkMissingStale,
       RecordPrepareError, SingleFails
  <2>1. ASSUME NEW p \in Paths, VisitGone(p) PROVE RowsHonest'
    BY <2>0, <2>1, ErrorHonest DEF VisitGone, HonestInv
  <2>2. ASSUME NEW p \in Paths, VisitFast(p) PROVE RowsHonest'
    <3>1. PICK items \in SUBSET PendingItems :
            /\ asset' = Written(items)
            /\ items \subseteq scan.pending \cup
                 {[path |-> p, stamp |-> disk[p].stamp, content |-> Unknown]}
      BY <2>2, VisitFastIs
    <3>2. disk[p].stamp \in Nat
      BY DEF Assumptions, ScanAssumption, TypeInv, DiskOK, Files, Stamps
    <3>3. \A i \in items : Honest(i.path, i.stamp, i.content)
      BY <3>1, <3>2 DEF HonestInv, ScanHonest, Honest
    <3> QED BY <2>0, <3>1, <3>3, WrittenHonest DEF HonestInv, TypeInv
  <2>3. ASSUME NEW r \in scan.results, TakeResult(r) PROVE RowsHonest'
    <3>1. CASE r.content \in Goods
      <4>1. PICK items \in SUBSET PendingItems :
              asset' = Written(items) /\ items \subseteq scan.pending \cup {r}
        BY <2>3, <3>1, TakeGoodIs
      <4>2. \A i \in items : Honest(i.path, i.stamp, i.content)
        BY <4>1 DEF HonestInv, ScanHonest
      <4> QED BY <2>0, <4>1, <4>2, WrittenHonest DEF HonestInv, TypeInv
    <3>2. CASE r.content \notin Goods
      <4>1. RecordPathError(r.path) /\ r.path \in Paths
        BY <2>3, <3>2 DEF TakeResult, TypeInv, ScanOK, ScanStages, Results
      <4> QED BY <2>0, <4>1, ErrorHonest DEF HonestInv
    <3> QED BY <3>1, <3>2
  <2>4. CASE FlushLast
    <3>1. PICK items \in SUBSET PendingItems : items = scan.pending
      BY DEF TypeInv, ScanOK, ScanStages
    <3>2. asset' = Written(items) /\ \A i \in items : Honest(i.path, i.stamp, i.content)
      BY <2>4, <3>1 DEF FlushLast, HonestInv, ScanHonest
    <3> QED BY <2>0, <3>2, WrittenHonest DEF HonestInv, TypeInv
  <2>5. CASE MarkMissingStale
    <3>1. \A p \in Paths : asset'[p] # NoRow =>
            asset[p] # NoRow /\ asset'[p].stamp = asset[p].stamp /\ asset'[p].sha = asset[p].sha
      <4>1. ASSUME NEW p \in Paths, p \in Missing
            PROVE  /\ asset[p] # NoRow /\ asset'[p].stamp = asset[p].stamp
                   /\ asset'[p].sha = asset[p].sha
        BY <4>1, <2>5 DEF Missing, Active, TypeInv, AssetOK, MarkMissingStale, Rows
      <4>2. ASSUME NEW p \in Paths, p \notin Missing PROVE asset'[p] = asset[p]
        BY <2>5, <4>2 DEF MarkMissingStale
      <4> QED BY <4>1, <4>2
    <3> QED BY <2>0, <3>1 DEF HonestInv, RowsHonest, Honest
  <2>6. ASSUME NEW p \in emb.errors, RecordPrepareError(p) PROVE RowsHonest'
    <3>1. p \in Paths
      BY DEF TypeInv, EmbOK, EmbedStages
    <3> QED BY <2>0, <2>6, <3>1, ErrorHonest DEF RecordPrepareError, HonestInv
  <2>7. ASSUME NEW i \in emb.items, SingleFails(i) PROVE RowsHonest'
    BY <2>7, ItemErrorIs, <2>0 DEF TypeInv, EmbOK, EmbedStages, EmbedItems, Upstream,
      HandItem, HandInv, HandActive, Active, HonestInv, HandHonest, RowsHonest, Honest
  <2> QED BY <1>2, <2>1, <2>2, <2>3, <2>4, <2>5, <2>6, <2>7 DEF AssetStep
<1>3. CASE WriteStep
  <2>1. PICK items \in SUBSET EmbedItems :
          /\ WriteBatch(items) /\ disk' = disk
          /\ \A i \in items : i \in emb.items \/ (emb.queue # <<>> /\ i \in Head(emb.queue))
    BY <1>3, WriteStepIs
  <2>2. ASSUME NEW i \in items PROVE Honest(i.path, i.stamp, i.sha)
    <3>1. emb.queue \in Seq(SUBSET EmbedItems)
      BY DEF TypeInv, EmbOK, EmbedStages
    <3>2. HandItem(i)
      <4>1. CASE i \in emb.items
        BY <4>1 DEF HandItem
      <4>2. CASE emb.queue # <<>> /\ i \in Head(emb.queue)
        <5>1. 1 \in DOMAIN emb.queue /\ i \in emb.queue[1]
          BY <3>1, <4>2
        <5> QED BY <5>1 DEF HandItem
      <4> QED BY <2>1, <4>1, <4>2
    <3> QED BY <3>2 DEF HonestInv, HandHonest
  <2>3. \A p \in Paths :
          \/ asset'[p] = asset[p]
          \/ \E i \in FilledRows(items) :
               /\ i.path = p
               /\ asset'[p] = [stamp |-> i.stamp, sha |-> i.sha, error |-> FALSE, stale |-> FALSE]
    BY <2>1, BatchWriteIs DEF TypeInv
  <2>4. ASSUME NEW p \in Paths, asset'[p] # NoRow PROVE Honest(p, asset'[p].stamp, asset'[p].sha)
    <3>1. CASE asset'[p] = asset[p]
      BY <2>4, <3>1 DEF HonestInv, RowsHonest
    <3>2. ASSUME NEW i \in FilledRows(items), i.path = p,
                 asset'[p] = [stamp |-> i.stamp, sha |-> i.sha, error |-> FALSE, stale |-> FALSE]
          PROVE  Honest(p, asset'[p].stamp, asset'[p].sha)
      BY <2>2, <3>2 DEF FilledRows
    <3> QED BY <2>3, <3>1, <3>2
  <2> QED BY <2>1, <2>4 DEF RowsHonest, Honest
<1> QED BY <1>1, <1>2, <1>3, Writers

LEMMA ScanStaysHonest ==
  ASSUME Assumptions, TypeInv, HandInv, HonestInv, BuildSteps
  PROVE  ScanHonest'
<1>0. scan \in ScanStages /\ ScanStages' = ScanStages
  BY DEF TypeInv, ScanOK, ScanStages, ScanJobs, Results, PendingItems
<1>1. ASSUME NEW j \in scan'.jobs PROVE j.stamp <= disk'[j.path].stamp
  <2>1. CASE j \in scan.jobs
    BY <1>0, <2>1, HonestLater DEF ScanStages, ScanJobs, HonestInv, ScanHonest, Honest
  <2>2. CASE j \notin scan.jobs
    BY <1>1, <2>2, ScanMovesOn, <1>0, ScanTyped DEF ScanMoves, ScanOK, ScanStages,
      ScanJobs, Assumptions, ScanAssumption, TypeInv, DiskOK, Files, Stamps
  <2> QED BY <2>1, <2>2
<1>2. ASSUME NEW r \in scan.results
      PROVE  /\ r.stamp <= disk'[r.path].stamp
             /\ r.stamp = disk'[r.path].stamp /\ r.content # Unknown
                  => r.content = disk'[r.path].content
  BY <1>0, <1>2, HonestLater DEF ScanStages, Results, HonestInv, ScanHonest
<1>3. ASSUME NEW r \in scan'.results
      PROVE  /\ r.stamp <= disk'[r.path].stamp
             /\ r.stamp = disk'[r.path].stamp /\ r.content # Unknown
                  => r.content = disk'[r.path].content
  <2>1. CASE r \in scan.results
    BY <1>2, <2>1
  <2>2. CASE r \notin scan.results
    <3>1. PICK j \in scan.jobs :
            /\ UNCHANGED disk
            /\ r = [path |-> j.path, stamp |-> j.stamp, content |-> disk[j.path].content]
      BY <1>3, <2>2, ScanMovesOn DEF ScanMoves
    <3>2. j.stamp <= disk[j.path].stamp
      BY DEF HonestInv, ScanHonest
    <3> QED BY <3>1, <3>2
  <2> QED BY <2>1, <2>2
<1>4. ASSUME NEW i \in scan'.pending
      PROVE  /\ i.stamp <= disk'[i.path].stamp
             /\ i.stamp = disk'[i.path].stamp /\ i.content # Unknown
                  => i.content = disk'[i.path].content
  <2>1. CASE i \in scan.pending
    BY <1>0, <2>1, HonestLater DEF ScanStages, PendingItems, HonestInv, ScanHonest
  <2>2. CASE i \in scan.results
    BY <1>2, <2>2
  <2>3. CASE i \notin scan.pending /\ i \notin scan.results
    BY <1>4, <2>3, ScanMovesOn, <1>0, ScanTyped DEF ScanMoves, ScanOK, ScanStages,
      PendingItems, Assumptions, ScanAssumption, TypeInv, DiskOK, Files, Stamps
  <2> QED BY <2>1, <2>2, <2>3
<1> QED BY <1>1, <1>3, <1>4 DEF ScanHonest, Honest

\* A prepared item has the hash of the file: its own, or one under the same stamp.
LEMMA PreparedSha ==
  ASSUME Assumptions, HonestInv, NEW x, NEW job \in EmbedJobs, HandJob(job), PreparedFrom(x, job)
  PROVE  x.sha = disk[job.path].content
<1>1. Honest(job.path, job.stamp, job.sha)
  BY DEF HonestInv, HandHonest
<1> QED BY <1>1 DEF PreparedFrom, KnownFingerprint, Honest

LEMMA HandStaysHonest ==
  ASSUME Assumptions, TypeInv, HonestInv, BuildSteps
  PROVE  HandHonest'
<1>1. ASSUME NEW x \in EmbedJobs, HandJob(x)'
      PROVE  /\ x.stamp <= disk'[x.path].stamp
             /\ x.stamp = disk'[x.path].stamp /\ x.sha # Unknown => x.sha = disk'[x.path].content
  <2>1. x.path \in Paths /\ x.stamp \in Stamps
    BY DEF EmbedJobs
  <2>2. Honest(x.path, x.stamp, x.sha)
    <3>1. CASE HandJob(x)
      BY <3>1 DEF HonestInv, HandHonest
    <3>2. CASE ~HandJob(x)
      BY <1>1, <3>2, HandMovesOn, <2>1 DEF HandMoves, HonestInv, RowsHonest
    <3> QED BY <3>1, <3>2
  <2> QED BY <2>1, <2>2, HonestLater DEF HonestInv
<1>2. ASSUME NEW x \in EmbedItems, HandItem(x)'
      PROVE  /\ x.stamp <= disk'[x.path].stamp
             /\ x.stamp = disk'[x.path].stamp /\ x.sha # Unknown => x.sha = disk'[x.path].content
  <2>1. x.path \in Paths /\ x.stamp \in Stamps
    BY DEF EmbedItems
  <2>2. Honest(x.path, x.stamp, x.sha)
    <3>1. CASE HandItem(x)
      BY <3>1 DEF HonestInv, HandHonest
    <3>2. CASE ~HandItem(x)
      <4>1. PICK job \in EmbedJobs : HandJob(job) /\ PreparedFrom(x, job)
        BY <1>2, <3>2, HandMovesOn DEF HandMoves
      <4>2. x.sha = disk[x.path].content
        BY <4>1, PreparedSha DEF PreparedFrom
      <4>3. disk[x.path].stamp \in Nat
        BY <2>1 DEF Assumptions, ScanAssumption, TypeInv, DiskOK, Files, Stamps
      <4> QED BY <4>1, <4>2, <4>3 DEF Honest, PreparedFrom
    <3> QED BY <3>1, <3>2
  <2> QED BY <2>1, <2>2, HonestLater DEF HonestInv
<1>3. \A x : x \in EmbedJobs' <=> x \in EmbedJobs
  BY DEF EmbedJobs
<1>4. \A x : x \in EmbedItems' <=> x \in EmbedItems
  BY DEF EmbedItems
<1> QED BY <1>1, <1>2, <1>3, <1>4 DEF HandHonest, Honest

LEMMA HonestKept ==
  ASSUME Assumptions, TypeInv, HandInv, HonestInv, BuildSteps
  PROVE  HonestInv'
BY DatedKept, RowsStayHonest, ScanStaysHonest, HandStaysHonest DEF HonestInv

\* A build that is calm has been since it began.
LEMMA CalmFrom ==
  ASSUME Assumptions, TypeInv, BuildSteps, ~BeginStep, run'.calm
  PROVE  run.calm /\ disk' = disk /\ run'.mode = run.mode /\ run'.stage = run.stage
<1>0. run \in Runs
  BY DEF TypeInv, RunOK
<1>1. CASE EditStep
  <2>1. ASSUME NEW p \in Paths, NEW c \in Goods \cup {Bad, Gone}, EditFile(p, c),
               Beside
        PROVE  run.calm /\ disk' = disk /\ run'.mode = run.mode /\ run'.stage = run.stage
    BY <2>1, <1>0 DEF Runs, Beside, EditFile
  <2> QED BY <1>1, <2>1 DEF EditStep
<1>2. CASE BeginStep
  BY <1>2
<1>3. CASE StopStep
  <2>1. CASE EndRun
    BY <2>1, <1>0 DEF Runs, Beside, EndRun
  <2>2. CASE Unwound
    BY <2>2, <1>0 DEF Runs, Beside, Unwound, NoRun
  <2>3. CASE Killed
    BY <2>3, <1>0 DEF Runs, Beside, Killed, NoRun
  <2> QED BY <1>3, <2>1, <2>2, <2>3 DEF StopStep
<1>4. CASE HandStep
  <2>1. CASE QueryBacklog
    BY <2>1, <1>0 DEF Runs, Beside, QueryBacklog, Go
  <2>2. CASE Submit
    BY <2>2, <1>0 DEF Runs, Beside, Submit
  <2>3. CASE EnqueueBatch
    BY <2>3, <1>0 DEF Runs, Beside, EnqueueBatch, Go, NextBatch
  <2>4. CASE WriterDies
    BY <2>4, <1>0 DEF Runs, Beside, WriterDies
  <2>5. ASSUME NEW b \in emb.batches, JoinBatch(b)
        PROVE  run.calm /\ disk' = disk /\ run'.mode = run.mode /\ run'.stage = run.stage
    BY <2>5, <1>0 DEF Runs, Beside, JoinBatch, Go
  <2>6. ASSUME NEW b \in emb.batches, PrepareDies(b)
        PROVE  run.calm /\ disk' = disk /\ run'.mode = run.mode /\ run'.stage = run.stage
    BY <2>6, <1>0 DEF Runs, Beside, PrepareDies
  <2>7. ASSUME NEW b \in emb.batches, NEW job \in b.jobs, PrepareAsset(b, job)
        PROVE  run.calm /\ disk' = disk /\ run'.mode = run.mode /\ run'.stage = run.stage
    BY <2>7, <1>0 DEF Runs, Beside, PrepareAsset
  <2> QED BY <1>4, <2>1, <2>2, <2>3, <2>4, <2>5, <2>6, <2>7 DEF HandStep
<1>5. CASE TurnStep
  BY <1>5, <1>0 DEF TurnStep, Runs, Submitted, ErrorsRecorded, NothingToFlush,
     SinglesDone, FinishEmbedding, BatchFails, RunFails, Go, NextBatch
<1>6. CASE TakeSnapshot
  <2>1. CASE TakeSnapshot
    BY <2>1, <1>0 DEF Runs, Beside, TakeSnapshot
  <2> QED BY <1>6, <2>1 DEF TakeSnapshot
<1>7. CASE WalkStep
  <2>1. ASSUME NEW p \in Paths, Visit(p), Beside
        PROVE  run.calm /\ disk' = disk /\ run'.mode = run.mode /\ run'.stage = run.stage
    BY <2>1, <1>0 DEF Runs, Beside, Visit
  <2>2. ASSUME NEW j \in scan.jobs, ReadFile(j), Beside
        PROVE  run.calm /\ disk' = disk /\ run'.mode = run.mode /\ run'.stage = run.stage
    BY <2>2, <1>0 DEF Runs, Beside, ReadFile
  <2>3. ASSUME WorkerDies, Beside
        PROVE  run.calm /\ disk' = disk /\ run'.mode = run.mode /\ run'.stage = run.stage
    BY <2>3, <1>0 DEF Runs, Beside, WorkerDies
  <2>4. ASSUME EndWalk, Beside
        PROVE  run.calm /\ disk' = disk /\ run'.mode = run.mode /\ run'.stage = run.stage
    BY <2>4, <1>0 DEF Runs, Beside, EndWalk
  <2>5. ASSUME ResultsMissing, Beside
        PROVE  run.calm /\ disk' = disk /\ run'.mode = run.mode /\ run'.stage = run.stage
    BY <2>5, <1>0 DEF Runs, Beside, ResultsMissing
  <2>6. ASSUME NEW p \in Paths, SkipUnreadable(p), Beside
        PROVE  run.calm /\ disk' = disk /\ run'.mode = run.mode /\ run'.stage = run.stage
    BY <2>6, <1>0 DEF Runs, Beside, SkipUnreadable
  <2> QED BY <1>7, <2>1, <2>2, <2>3, <2>4, <2>5, <2>6 DEF WalkStep
<1>8. CASE AssetStep
  <2>1. ASSUME NEW p \in Paths, VisitGone(p), Beside
        PROVE  run.calm /\ disk' = disk /\ run'.mode = run.mode /\ run'.stage = run.stage
    BY <2>1, <1>0 DEF Runs, Beside, VisitGone
  <2>2. ASSUME NEW p \in Paths, VisitFast(p), Beside
        PROVE  run.calm /\ disk' = disk /\ run'.mode = run.mode /\ run'.stage = run.stage
    BY <2>2, <1>0 DEF Runs, Beside, VisitFast, Flush
  <2>3. ASSUME NEW r \in scan.results, TakeResult(r), Beside
        PROVE  run.calm /\ disk' = disk /\ run'.mode = run.mode /\ run'.stage = run.stage
    BY <2>3, <1>0 DEF Runs, Beside, TakeResult, Flush
  <2>4. ASSUME FlushLast, Beside
        PROVE  run.calm /\ disk' = disk /\ run'.mode = run.mode /\ run'.stage = run.stage
    BY <2>4, <1>0 DEF Runs, Beside, FlushLast
  <2>5. ASSUME MarkMissingStale, Beside
        PROVE  run.calm /\ disk' = disk /\ run'.mode = run.mode /\ run'.stage = run.stage
    BY <2>5, <1>0 DEF Runs, Beside, MarkMissingStale
  <2>6. ASSUME NEW p \in emb.errors, RecordPrepareError(p)
        PROVE  run.calm /\ disk' = disk /\ run'.mode = run.mode /\ run'.stage = run.stage
    BY <2>6, <1>0 DEF Runs, Beside, RecordPrepareError
  <2>7. ASSUME NEW i \in emb.items, SingleFails(i)
        PROVE  run.calm /\ disk' = disk /\ run'.mode = run.mode /\ run'.stage = run.stage
    BY <2>7, <1>0 DEF Runs, Beside, SingleFails
  <2> QED BY <1>8, <2>1, <2>2, <2>3, <2>4, <2>5, <2>6, <2>7 DEF AssetStep
<1>9. CASE WriteStep
  <2>1. CASE FlushBatch
    BY <2>1, <1>0 DEF Runs, Beside, FlushBatch, NextBatch
  <2>2. CASE WriterStep
    BY <2>2, <1>0 DEF Runs, Beside, WriterStep
  <2>3. ASSUME NEW i \in emb.items, SingleOk(i)
        PROVE  run.calm /\ disk' = disk /\ run'.mode = run.mode /\ run'.stage = run.stage
    BY <2>3, <1>0 DEF Runs, Beside, SingleOk
  <2> QED BY <1>9, <2>1, <2>2, <2>3 DEF WriteStep
<1>10. CASE VecStep
  <2>1. ASSUME NEW p \in Paths, DropFeatures(p), Beside
        PROVE  run.calm /\ disk' = disk /\ run'.mode = run.mode /\ run'.stage = run.stage
    BY <2>1, <1>0 DEF Runs, Beside, DropFeatures
  <2>2. ASSUME NEW k \in Kinds, ReuseVectors(k)
        PROVE  run.calm /\ disk' = disk /\ run'.mode = run.mode /\ run'.stage = run.stage
    BY <2>2, <1>0 DEF Runs, Beside, ReuseVectors
  <2> QED BY <1>10, <2>1, <2>2 DEF VecStep
<1>11. CASE ImportStep
  <2>1. ASSUME NEW p \in Paths, NEW k \in Kinds, NEW c \in Goods,
               ImportEmbedding(p, k, c)
        PROVE  run.calm /\ disk' = disk /\ run'.mode = run.mode /\ run'.stage = run.stage
    BY <2>1, <1>0 DEF Runs, Beside, ImportEmbedding
  <2> QED BY <1>11, <2>1 DEF ImportStep
<1>12. CASE ViewStep
  <2>1. ASSUME Regroup, Beside
        PROVE  run.calm /\ disk' = disk /\ run'.mode = run.mode /\ run'.stage = run.stage
    BY <2>1, <1>0 DEF Runs, Beside, Regroup
  <2>2. CASE AdvanceGeneration
    BY <2>2, <1>0 DEF Runs, Beside, AdvanceGeneration, Go
  <2>3. CASE DropOverview
    BY <2>3, <1>0 DEF Runs, Beside, DropOverview, Go
  <2>4. CASE CloseRun
    BY <2>4, <1>0 DEF Runs, Beside, CloseRun, Go
  <2> QED BY <1>12, <2>1, <2>2, <2>3, <2>4 DEF ViewStep
<1> QED BY <1>1, <1>2, <1>3, <1>4, <1>5, <1>6, <1>7, <1>8, <1>9, <1>10, <1>11, <1>12 DEF BuildSteps

\* The walk goes on among the files it has listed.
WalkOn ==
  /\ run.pc \in ScanPcs \ {"idle"}
  /\ scan'.listed = scan.listed /\ scan'.must = scan.must
  /\ scan'.seen = scan.seen \/ \E p \in scan.listed : scan'.seen = scan.seen \cup {p}
LEMMA WalkFrom ==
  ASSUME Assumptions, TypeInv, BuildSteps, ~BeginStep, ~EditStep, run'.pc \in ScanPcs \ {"idle"}
  PROVE  WalkOn
<1>0. run \in Runs /\ scan \in ScanStages
  BY DEF TypeInv, RunOK, ScanOK
<1>1. CASE EditStep
  BY <1>1
<1>2. CASE BeginStep
  BY <1>2
<1>3. CASE StopStep
  <2>1. CASE EndRun
    BY <2>1, <1>0 DEF Runs, ScanStages, ScanPcs, Beside, WalkOn, EndRun
  <2>2. CASE Unwound
    BY <2>2, <1>0 DEF Runs, ScanStages, ScanPcs, Beside, WalkOn, Unwound, NoRun
  <2>3. CASE Killed
    BY <2>3, <1>0 DEF Runs, ScanStages, ScanPcs, Beside, WalkOn, Killed, NoRun
  <2> QED BY <1>3, <2>1, <2>2, <2>3 DEF StopStep
<1>4. CASE HandStep
  <2>1. CASE QueryBacklog
    BY <2>1, <1>0 DEF Runs, ScanStages, ScanPcs, Beside, WalkOn, QueryBacklog, Go
  <2>2. CASE Submit
    BY <2>2, <1>0 DEF Runs, ScanStages, ScanPcs, Beside, WalkOn, Submit
  <2>3. CASE EnqueueBatch
    BY <2>3, <1>0 DEF Runs, ScanStages, ScanPcs, Beside, WalkOn, EnqueueBatch, Go, NextBatch
  <2>4. CASE WriterDies
    BY <2>4, <1>0 DEF Runs, ScanStages, ScanPcs, Beside, WalkOn, WriterDies
  <2>5. ASSUME NEW b \in emb.batches, JoinBatch(b)
        PROVE  WalkOn
    BY ZenonT(40), <2>5, <1>0 DEF Runs, ScanStages, ScanPcs, Beside, WalkOn, JoinBatch, Go
  <2>6. ASSUME NEW b \in emb.batches, PrepareDies(b)
        PROVE  WalkOn
    BY <2>6, <1>0 DEF Runs, ScanStages, ScanPcs, Beside, WalkOn, PrepareDies
  <2>7. ASSUME NEW b \in emb.batches, NEW job \in b.jobs, PrepareAsset(b, job)
        PROVE  WalkOn
    BY <2>7, <1>0 DEF Runs, ScanStages, ScanPcs, Beside, WalkOn, PrepareAsset
  <2> QED BY <1>4, <2>1, <2>2, <2>3, <2>4, <2>5, <2>6, <2>7 DEF HandStep
<1>5. CASE TurnStep
  BY <1>5, <1>0 DEF TurnStep, WalkOn, Runs, ScanPcs, Submitted, ErrorsRecorded,
     NothingToFlush, SinglesDone, FinishEmbedding, BatchFails, RunFails, Go, NextBatch
<1>6. CASE TakeSnapshot
  <2>1. CASE TakeSnapshot
    BY <2>1, <1>0 DEF Runs, ScanStages, ScanPcs, Beside, WalkOn, TakeSnapshot
  <2> QED BY <1>6, <2>1 DEF TakeSnapshot
<1>7. CASE WalkStep
  <2>1. ASSUME NEW p \in Paths, Visit(p), Beside
        PROVE  WalkOn
    BY <2>1, <1>0 DEF Runs, ScanStages, ScanPcs, Beside, WalkOn, Visit, Meet, Walking
  <2>2. ASSUME NEW j \in scan.jobs, ReadFile(j), Beside
        PROVE  WalkOn
    BY <2>2, <1>0 DEF Runs, ScanStages, ScanPcs, Beside, WalkOn, ReadFile
  <2>3. ASSUME WorkerDies, Beside
        PROVE  WalkOn
    BY <2>3, <1>0 DEF Runs, ScanStages, ScanPcs, Beside, WalkOn, WorkerDies
  <2>4. ASSUME EndWalk, Beside
        PROVE  WalkOn
    BY <2>4, <1>0 DEF Runs, ScanStages, ScanPcs, Beside, WalkOn, EndWalk
  <2>5. ASSUME ResultsMissing, Beside
        PROVE  WalkOn
    BY <2>5, <1>0 DEF Runs, ScanStages, ScanPcs, Beside, WalkOn, ResultsMissing
  <2>6. ASSUME NEW p \in Paths, SkipUnreadable(p), Beside
        PROVE  WalkOn
    BY <2>6, <1>0 DEF Runs, ScanStages, ScanPcs, Beside, WalkOn, SkipUnreadable, Meet, Walking
  <2> QED BY <1>7, <2>1, <2>2, <2>3, <2>4, <2>5, <2>6 DEF WalkStep
<1>8. CASE AssetStep
  <2>1. ASSUME NEW p \in Paths, VisitGone(p), Beside
        PROVE  WalkOn
    BY <2>1, <1>0 DEF Runs, ScanStages, ScanPcs, Beside, WalkOn, VisitGone, Meet, Walking
  <2>2. ASSUME NEW p \in Paths, VisitFast(p), Beside
        PROVE  WalkOn
    BY <2>2, <1>0 DEF Runs, ScanStages, ScanPcs, Beside, WalkOn, VisitFast, Flush, Meet,
       Walking
  <2>3. ASSUME NEW r \in scan.results, TakeResult(r), Beside
        PROVE  WalkOn
    BY ZenonT(40), <2>3, <1>0 DEF Runs, ScanStages, ScanPcs, Beside, WalkOn, TakeResult, Flush
  <2>4. ASSUME FlushLast, Beside
        PROVE  WalkOn
    BY <2>4, <1>0 DEF Runs, ScanStages, ScanPcs, Beside, WalkOn, FlushLast
  <2>5. ASSUME MarkMissingStale, Beside
        PROVE  WalkOn
    BY <2>5, <1>0 DEF Runs, ScanStages, ScanPcs, Beside, WalkOn, MarkMissingStale
  <2>6. ASSUME NEW p \in emb.errors, RecordPrepareError(p)
        PROVE  WalkOn
    BY <2>6, <1>0 DEF Runs, ScanStages, ScanPcs, Beside, WalkOn, RecordPrepareError
  <2>7. ASSUME NEW i \in emb.items, SingleFails(i)
        PROVE  WalkOn
    BY <2>7, <1>0 DEF Runs, ScanStages, ScanPcs, Beside, WalkOn, SingleFails
  <2> QED BY <1>8, <2>1, <2>2, <2>3, <2>4, <2>5, <2>6, <2>7 DEF AssetStep
<1>9. CASE WriteStep
  <2>1. CASE FlushBatch
    BY <2>1, <1>0 DEF Runs, ScanStages, ScanPcs, Beside, WalkOn, FlushBatch, NextBatch
  <2>2. CASE WriterStep
    BY <2>2, <1>0 DEF Runs, ScanStages, ScanPcs, Beside, WalkOn, WriterStep
  <2>3. ASSUME NEW i \in emb.items, SingleOk(i)
        PROVE  WalkOn
    BY <2>3, <1>0 DEF Runs, ScanStages, ScanPcs, Beside, WalkOn, SingleOk
  <2> QED BY <1>9, <2>1, <2>2, <2>3 DEF WriteStep
<1>10. CASE VecStep
  <2>1. ASSUME NEW p \in Paths, DropFeatures(p), Beside
        PROVE  WalkOn
    BY <2>1, <1>0 DEF Runs, ScanStages, ScanPcs, Beside, WalkOn, DropFeatures
  <2>2. ASSUME NEW k \in Kinds, ReuseVectors(k)
        PROVE  WalkOn
    BY <2>2, <1>0 DEF Runs, ScanStages, ScanPcs, Beside, WalkOn, ReuseVectors
  <2> QED BY <1>10, <2>1, <2>2 DEF VecStep
<1>11. CASE ImportStep
  <2>1. ASSUME NEW p \in Paths, NEW k \in Kinds, NEW c \in Goods,
               ImportEmbedding(p, k, c)
        PROVE  WalkOn
    BY <2>1, <1>0 DEF Runs, ScanStages, ScanPcs, Beside, WalkOn, ImportEmbedding
  <2> QED BY <1>11, <2>1 DEF ImportStep
<1>12. CASE ViewStep
  <2>1. ASSUME Regroup, Beside
        PROVE  WalkOn
    BY <2>1, <1>0 DEF Runs, ScanStages, ScanPcs, Beside, WalkOn, Regroup, AfterManifest
  <2>2. CASE AdvanceGeneration
    BY <2>2, <1>0 DEF Runs, ScanStages, ScanPcs, Beside, WalkOn, AdvanceGeneration, Go
  <2>3. CASE DropOverview
    BY <2>3, <1>0 DEF Runs, ScanStages, ScanPcs, Beside, WalkOn, DropOverview, Go
  <2>4. CASE CloseRun
    BY <2>4, <1>0 DEF Runs, ScanStages, ScanPcs, Beside, WalkOn, CloseRun, Go
  <2> QED BY <1>12, <2>1, <2>2, <2>3, <2>4 DEF ViewStep
<1> QED BY <1>1, <1>2, <1>3, <1>4, <1>5, <1>6, <1>7, <1>8, <1>9, <1>10, <1>11, <1>12 DEF BuildSteps

LEMMA WalkStaysCalm ==
  ASSUME Assumptions, TypeInv, WalkCalm, BuildSteps
  PROVE  WalkCalm'
<1> SUFFICES ASSUME run'.calm, run'.pc \in ScanPcs \ {"idle"}
             PROVE  /\ scan'.listed = Present' /\ scan'.must = Present'
                    /\ scan'.seen \subseteq Present'
  BY DEF WalkCalm, ScanPcs
<1>1. CASE BeginStep
  <2>1. PICK stage \in SUBSET {"manifest", "embeddings"}, mode \in Modes \cup {"serial"},
             limit \in Nat, kinds \in SUBSET Kinds, async \in BOOLEAN :
               BeginRun(stage, mode, limit, kinds, async)
    BY <1>1 DEF BeginStep
  <2>2. "manifest" \in stage
    BY <2>1 DEF BeginRun, NoRun, ScanPcs
  <2>3. scan' = [NoScan EXCEPT !.listed = Present, !.must = Present] /\ disk' = disk
    BY <2>1, <2>2 DEF BeginRun
  <2>4. Present' = Present
    BY <2>3 DEF Present
  <2> QED BY <2>3, <2>4 DEF NoScan
<1>2. CASE ~BeginStep
  <2>1. run.calm /\ disk' = disk
    BY <1>2, CalmFrom
  <2>2. ~EditStep
    BY <2>1 DEF EditStep, EditFile, TypeInv, DiskOK, RunOK, Runs
  <2>3. WalkOn
    BY <1>2, <2>2, WalkFrom
  <2>4. Present' = Present
    BY <2>1 DEF Present
  <2> QED BY <2>1, <2>3, <2>4 DEF WalkCalm, WalkOn
<1> QED BY <1>1, <1>2

LEMMA ReadStaysCalm ==
  ASSUME Assumptions, TypeInv, ReadCalm, BuildSteps
  PROVE  ReadCalm'
<1> SUFFICES ASSUME run'.calm
             PROVE  /\ \A r \in scan'.results : r.content = disk'[r.path].content
                    /\ \A i \in scan'.pending :
                         i.content = Unknown \/ i.content = disk'[i.path].content
                    /\ run'.mode # "fast" => \A i \in scan'.pending : i.content # Unknown
  BY DEF ReadCalm
<1>1. CASE BeginStep
  <2>1. scan'.results = {} /\ scan'.pending = {}
    BY <1>1 DEF BeginStep, BeginRun, NoScan
  <2> QED BY <2>1
<1>2. CASE ~BeginStep
  <2>1. run.calm /\ disk' = disk /\ run'.mode = run.mode
    BY <1>2, CalmFrom
  <2>2. ASSUME NEW r \in scan'.results PROVE r.content = disk[r.path].content
    <3>1. CASE r \in scan.results
      BY <2>1, <3>1 DEF ReadCalm
    <3>2. ASSUME NEW j \in scan.jobs,
                 r = [path |-> j.path, stamp |-> j.stamp, content |-> disk[j.path].content]
          PROVE  r.content = disk[r.path].content
      BY <3>2
    <3> QED BY <2>2, <3>1, <3>2, ScanMovesOn DEF ScanMoves
  <2>3. ASSUME NEW i \in scan'.pending
        PROVE  /\ i.content = Unknown \/ i.content = disk[i.path].content
               /\ run.mode # "fast" => i.content # Unknown
    <3>1. CASE i \in scan.pending
      BY <2>1, <3>1 DEF ReadCalm
    <3>2. CASE i \in scan.results /\ i.content \in Goods
      BY <2>1, <3>2 DEF ReadCalm, Assumptions, ScanAssumption
    <3> QED BY <2>3, <3>1, <3>2, ScanMovesOn DEF ScanMoves
  <2> QED BY <2>1, <2>2, <2>3
<1> QED BY <1>1, <1>2

LEMMA HandStaysCalm ==
  ASSUME Assumptions, TypeInv, HonestInv, HandCalm, BuildSteps
  PROVE  HandCalm'
<1>0. EmbedItems' = EmbedItems
  BY DEF EmbedItems
<1> SUFFICES ASSUME run'.calm
             PROVE  /\ \A x \in EmbedItems : HandItem(x)' => x.sha = disk'[x.path].content
                    /\ \A p \in Paths : HandError(p)' => disk'[p].content \notin Goods
  BY <1>0 DEF HandCalm, HandItem, HandError
<1>1. CASE BeginStep
  BY <1>1 DEF BeginStep, BeginRun, NoEmbed, HandItem, HandError
<1>2. CASE ~BeginStep
  <2>1. run.calm /\ disk' = disk
    BY <1>2, CalmFrom
  <2>2. ASSUME NEW x \in EmbedItems, HandItem(x)' PROVE x.sha = disk[x.path].content
    <3>1. CASE HandItem(x)
      BY <2>1, <3>1 DEF HandCalm
    <3>2. ASSUME NEW job \in EmbedJobs, HandJob(job), PreparedFrom(x, job)
          PROVE  x.sha = disk[x.path].content
      BY <3>2, PreparedSha DEF PreparedFrom
    <3> QED BY <2>2, <3>1, <3>2, HandMovesOn DEF HandMoves
  <2>3. ASSUME NEW p \in Paths, HandError(p)' PROVE disk[p].content \notin Goods
    BY <2>1, <2>3, HandMovesOn DEF HandMoves, HandCalm
  <2> QED BY <2>1, <2>2, <2>3
<1> QED BY <1>1, <1>2

LEMMA CalmKept ==
  ASSUME Assumptions, TypeInv, HonestInv, CalmInv, BuildSteps
  PROVE  CalmInv'
BY WalkStaysCalm, ReadStaysCalm, HandStaysCalm DEF CalmInv

\* Nothing of a scan is left once its last batch is written.
LEMMA FlushedKept ==
  ASSUME Assumptions, TypeInv, Flushed, BuildSteps
  PROVE  Flushed'
<1>0. run \in Runs /\ scan \in ScanStages
  BY DEF TypeInv, RunOK, ScanOK
<1>1. CASE EditStep
  <2>1. ASSUME NEW p \in Paths, NEW c \in Goods \cup {Bad, Gone}, EditFile(p, c),
               Beside
        PROVE  Flushed'
    BY <2>1, <1>0 DEF Runs, ScanStages, Beside, Flushed, EditFile
  <2> QED BY <1>1, <2>1 DEF EditStep
<1>2. CASE BeginStep
  BY <1>2, <1>0 DEF BeginStep, BeginRun, NoRun, Runs, ScanStages, Beside, Flushed
<1>3. CASE StopStep
  <2>1. CASE EndRun
    BY <2>1, <1>0 DEF Runs, ScanStages, Beside, Flushed, EndRun
  <2>2. CASE Unwound
    BY <2>2, <1>0 DEF Runs, ScanStages, Beside, Flushed, Unwound, NoRun
  <2>3. CASE Killed
    BY <2>3, <1>0 DEF Runs, ScanStages, Beside, Flushed, Killed, NoRun
  <2> QED BY <1>3, <2>1, <2>2, <2>3 DEF StopStep
<1>4. CASE HandStep
  <2>1. CASE QueryBacklog
    BY <2>1, <1>0 DEF Runs, ScanStages, Beside, Flushed, QueryBacklog, Go
  <2>2. CASE Submit
    BY <2>2, <1>0 DEF Runs, ScanStages, Beside, Flushed, Submit
  <2>3. CASE EnqueueBatch
    BY <2>3, <1>0 DEF Runs, ScanStages, Beside, Flushed, EnqueueBatch, Go, NextBatch
  <2>4. CASE WriterDies
    BY <2>4, <1>0 DEF Runs, ScanStages, Beside, Flushed, WriterDies
  <2>5. ASSUME NEW b \in emb.batches, JoinBatch(b)
        PROVE  Flushed'
    <3>1. run'.pc # "stale"
      BY <2>5, <1>0 DEF JoinBatch, Go, Runs
    <3> QED BY <3>1 DEF Flushed
  <2>6. ASSUME NEW b \in emb.batches, PrepareDies(b)
        PROVE  Flushed'
    BY <2>6, <1>0 DEF Runs, ScanStages, Beside, Flushed, PrepareDies
  <2>7. ASSUME NEW b \in emb.batches, NEW job \in b.jobs, PrepareAsset(b, job)
        PROVE  Flushed'
    BY <2>7, <1>0 DEF Runs, ScanStages, Beside, Flushed, PrepareAsset
  <2> QED BY <1>4, <2>1, <2>2, <2>3, <2>4, <2>5, <2>6, <2>7 DEF HandStep
<1>5. CASE TurnStep
  BY <1>5, <1>0 DEF TurnStep, Runs, ScanStages, Flushed, Submitted, ErrorsRecorded,
     NothingToFlush, SinglesDone, FinishEmbedding, BatchFails, RunFails, Go, NextBatch
<1>6. CASE TakeSnapshot
  <2>1. CASE TakeSnapshot
    BY <2>1, <1>0 DEF Runs, ScanStages, Beside, Flushed, TakeSnapshot
  <2> QED BY <1>6, <2>1 DEF TakeSnapshot
<1>7. CASE WalkStep
  <2>1. ASSUME NEW p \in Paths, Visit(p), Beside
        PROVE  Flushed'
    BY <2>1, <1>0 DEF Runs, ScanStages, Beside, Flushed, Visit, Meet, Walking
  <2>2. ASSUME NEW j \in scan.jobs, ReadFile(j), Beside
        PROVE  Flushed'
    BY <2>2, <1>0 DEF Runs, ScanStages, Beside, Flushed, ReadFile
  <2>3. ASSUME WorkerDies, Beside
        PROVE  Flushed'
    <3>1. PICK lost \in (SUBSET scan.jobs) \ {{}} :
            scan' = [scan EXCEPT !.jobs = @ \ lost, !.lost = TRUE] /\ run' = run
      BY <2>3 DEF WorkerDies
    <3>2. ASSUME run.pc = "stale" PROVE FALSE
      BY <3>2, <3>1 DEF Flushed
    <3> QED BY <3>1, <3>2 DEF Flushed
  <2>4. ASSUME EndWalk, Beside
        PROVE  Flushed'
    BY <2>4, <1>0 DEF Runs, ScanStages, Beside, Flushed, EndWalk
  <2>5. ASSUME ResultsMissing, Beside
        PROVE  Flushed'
    BY <2>5, <1>0 DEF Runs, ScanStages, Beside, Flushed, ResultsMissing
  <2>6. ASSUME NEW p \in Paths, SkipUnreadable(p), Beside
        PROVE  Flushed'
    BY <2>6, <1>0 DEF Runs, ScanStages, Beside, Flushed, SkipUnreadable, Meet, Walking
  <2> QED BY <1>7, <2>1, <2>2, <2>3, <2>4, <2>5, <2>6 DEF WalkStep
<1>8. CASE AssetStep
  <2>1. ASSUME NEW p \in Paths, VisitGone(p), Beside
        PROVE  Flushed'
    BY <2>1, <1>0 DEF Runs, ScanStages, Beside, Flushed, VisitGone, Meet, Walking
  <2>2. ASSUME NEW p \in Paths, VisitFast(p), Beside
        PROVE  Flushed'
    BY <2>2, <1>0 DEF Runs, ScanStages, Beside, Flushed, VisitFast, Flush, Meet, Walking
  <2>3. ASSUME NEW r \in scan.results, TakeResult(r), Beside
        PROVE  Flushed'
    BY <2>3, <1>0 DEF Runs, ScanStages, Beside, Flushed, TakeResult, Flush
  <2>4. ASSUME FlushLast, Beside
        PROVE  Flushed'
    BY <2>4, <1>0 DEF Runs, ScanStages, Beside, Flushed, FlushLast
  <2>5. ASSUME MarkMissingStale, Beside
        PROVE  Flushed'
    BY <2>5, <1>0 DEF Runs, ScanStages, Beside, Flushed, MarkMissingStale
  <2>6. ASSUME NEW p \in emb.errors, RecordPrepareError(p)
        PROVE  Flushed'
    BY <2>6, <1>0 DEF Runs, ScanStages, Beside, Flushed, RecordPrepareError
  <2>7. ASSUME NEW i \in emb.items, SingleFails(i)
        PROVE  Flushed'
    BY <2>7, <1>0 DEF Runs, ScanStages, Beside, Flushed, SingleFails
  <2> QED BY <1>8, <2>1, <2>2, <2>3, <2>4, <2>5, <2>6, <2>7 DEF AssetStep
<1>9. CASE WriteStep
  <2>1. CASE FlushBatch
    BY <2>1, <1>0 DEF Runs, ScanStages, Beside, Flushed, FlushBatch, NextBatch
  <2>2. CASE WriterStep
    BY <2>2, <1>0 DEF Runs, ScanStages, Beside, Flushed, WriterStep
  <2>3. ASSUME NEW i \in emb.items, SingleOk(i)
        PROVE  Flushed'
    BY <2>3, <1>0 DEF Runs, ScanStages, Beside, Flushed, SingleOk
  <2> QED BY <1>9, <2>1, <2>2, <2>3 DEF WriteStep
<1>10. CASE VecStep
  <2>1. ASSUME NEW p \in Paths, DropFeatures(p), Beside
        PROVE  Flushed'
    BY <2>1, <1>0 DEF Runs, ScanStages, Beside, Flushed, DropFeatures
  <2>2. ASSUME NEW k \in Kinds, ReuseVectors(k)
        PROVE  Flushed'
    BY <2>2, <1>0 DEF Runs, ScanStages, Beside, Flushed, ReuseVectors
  <2> QED BY <1>10, <2>1, <2>2 DEF VecStep
<1>11. CASE ImportStep
  <2>1. ASSUME NEW p \in Paths, NEW k \in Kinds, NEW c \in Goods,
               ImportEmbedding(p, k, c)
        PROVE  Flushed'
    BY <2>1, <1>0 DEF Runs, ScanStages, Beside, Flushed, ImportEmbedding
  <2> QED BY <1>11, <2>1 DEF ImportStep
<1>12. CASE ViewStep
  <2>1. ASSUME Regroup, Beside
        PROVE  Flushed'
    <3>1. run'.pc # "stale"
      BY <2>1, <1>0 DEF Regroup, AfterManifest, Runs
    <3> QED BY <3>1 DEF Flushed
  <2>2. CASE AdvanceGeneration
    BY <2>2, <1>0 DEF Runs, ScanStages, Beside, Flushed, AdvanceGeneration, Go
  <2>3. CASE DropOverview
    BY <2>3, <1>0 DEF Runs, ScanStages, Beside, Flushed, DropOverview, Go
  <2>4. CASE CloseRun
    BY <2>4, <1>0 DEF Runs, ScanStages, Beside, Flushed, CloseRun, Go
  <2> QED BY <1>12, <2>1, <2>2, <2>3, <2>4 DEF ViewStep
<1> QED BY <1>1, <1>2, <1>3, <1>4, <1>5, <1>6, <1>7, <1>8, <1>9, <1>10, <1>11, <1>12 DEF BuildSteps

\* What a calm scan does before it looks for missing files.
ScanMoving ==
  /\ run.pc \in {"scan", "drain", "stale"} /\ ~scan.lost
  /\ \/ \E p \in Paths : Visit(p) \/ VisitFast(p) \/ SkipUnreadable(p) \/ DropFeatures(p)
     \/ \E j \in scan.jobs : ReadFile(j)
     \/ \E r \in scan.results : TakeResult(r)
     \/ EndWalk \/ FlushLast
LEMMA ScanFrom ==
  ASSUME Assumptions, TypeInv, HandInv, WalkCalm, BuildSteps, ~BeginStep,
         run'.calm, run'.pc \in {"scan", "drain", "stale"}, ~scan'.lost
  PROVE  ScanMoving
<1>0. /\ run \in Runs /\ scan \in ScanStages
      /\ run.calm /\ disk' = disk
      /\ run.pc \in ScanPcs => HandEmpty
  BY CalmFrom DEF TypeInv, RunOK, ScanOK, HandInv, ScanAlone, HandEmpty
<1>1. CASE EditStep
  <2>1. ASSUME NEW p \in Paths, NEW c \in Goods \cup {Bad, Gone}, EditFile(p, c),
               Beside
        PROVE  ScanMoving
    BY <2>1, <1>0 DEF Runs, ScanStages, Beside, ScanMoving, EditFile
  <2> QED BY <1>1, <2>1 DEF EditStep
<1>2. CASE BeginStep
  BY <1>2
<1>3. CASE StopStep
  <2>1. CASE EndRun
    BY <2>1, <1>0 DEF Runs, ScanStages, Beside, ScanMoving, EndRun
  <2>2. CASE Unwound
    BY <2>2, <1>0 DEF Runs, ScanStages, Beside, ScanMoving, Unwound, NoRun
  <2>3. CASE Killed
    BY <2>3, <1>0 DEF Runs, ScanStages, Beside, ScanMoving, Killed, NoRun
  <2> QED BY <1>3, <2>1, <2>2, <2>3 DEF StopStep
<1>4. CASE HandStep
  <2>1. CASE QueryBacklog
    BY <2>1, <1>0 DEF Runs, ScanStages, Beside, ScanMoving, HandEmpty, ScanPcs,
       QueryBacklog, Go
  <2>2. CASE Submit
    BY <2>2, <1>0 DEF Runs, ScanStages, Beside, ScanMoving, HandEmpty, ScanPcs, Submit
  <2>3. CASE EnqueueBatch
    BY <2>3, <1>0 DEF Runs, ScanStages, Beside, ScanMoving, HandEmpty, ScanPcs,
       EnqueueBatch, Go, NextBatch
  <2>4. CASE WriterDies
    BY <2>4, <1>0 DEF Runs, ScanStages, Beside, ScanMoving, HandEmpty, ScanPcs, WriterDies
  <2>5. ASSUME NEW b \in emb.batches, JoinBatch(b)
        PROVE  ScanMoving
    <3>1. run'.pc \in {"unwind", "errors"}
      BY <2>5, <1>0 DEF JoinBatch, Go, Runs
    <3> QED BY <3>1
  <2>6. ASSUME NEW b \in emb.batches, PrepareDies(b)
        PROVE  ScanMoving
    BY <2>6, <1>0 DEF PrepareDies, HandEmpty, ScanPcs
  <2>7. ASSUME NEW b \in emb.batches, NEW job \in b.jobs, PrepareAsset(b, job)
        PROVE  ScanMoving
    BY <2>7, <1>0 DEF PrepareAsset, HandEmpty, ScanPcs
  <2> QED BY <1>4, <2>1, <2>2, <2>3, <2>4, <2>5, <2>6, <2>7 DEF HandStep
<1>5. CASE TurnStep
  BY <1>5, <1>0 DEF TurnStep, Runs, ScanStages, ScanMoving, Submitted, ErrorsRecorded,
     NothingToFlush, SinglesDone, FinishEmbedding, BatchFails, RunFails, Go, NextBatch
<1>6. CASE TakeSnapshot
  <2>1. CASE TakeSnapshot
    BY <2>1, <1>0 DEF Runs, ScanStages, Beside, ScanMoving, TakeSnapshot, Settled, Idle
  <2> QED BY <1>6, <2>1 DEF TakeSnapshot
<1>7. CASE WalkStep
  <2>1. ASSUME NEW p \in Paths, Visit(p), Beside
        PROVE  ScanMoving
    BY <2>1, <1>0 DEF Runs, ScanStages, Beside, ScanMoving, Visit, Meet, Walking
  <2>2. ASSUME NEW j \in scan.jobs, ReadFile(j), Beside
        PROVE  ScanMoving
    BY <2>2, <1>0 DEF Runs, ScanStages, Beside, ScanMoving, ReadFile
  <2>3. ASSUME WorkerDies, Beside
        PROVE  ScanMoving
    BY <2>3, <1>0 DEF Runs, ScanStages, Beside, ScanMoving, WorkerDies
  <2>4. ASSUME EndWalk, Beside
        PROVE  ScanMoving
    BY <2>4, <1>0 DEF Runs, ScanStages, Beside, ScanMoving, EndWalk
  <2>5. ASSUME ResultsMissing, Beside
        PROVE  ScanMoving
    BY <2>5, <1>0 DEF Runs, ScanStages, Beside, ScanMoving, ResultsMissing
  <2>6. ASSUME NEW p \in Paths, SkipUnreadable(p), Beside
        PROVE  ScanMoving
    BY <2>6, <1>0 DEF Runs, ScanStages, Beside, ScanMoving, SkipUnreadable, Meet, Walking
  <2> QED BY <1>7, <2>1, <2>2, <2>3, <2>4, <2>5, <2>6 DEF WalkStep
<1>8. CASE AssetStep
  <2>1. ASSUME NEW p \in Paths, VisitGone(p), Beside
        PROVE  ScanMoving
    BY <2>1, <1>0 DEF Runs, ScanStages, Beside, ScanMoving, VisitGone, Meet, Walking,
       WalkCalm, ScanPcs, Present
  <2>2. ASSUME NEW p \in Paths, VisitFast(p), Beside
        PROVE  ScanMoving
    BY <2>2, <1>0 DEF Runs, ScanStages, Beside, ScanMoving, VisitFast, Flush, Meet, Walking
  <2>3. ASSUME NEW r \in scan.results, TakeResult(r), Beside
        PROVE  ScanMoving
    BY <2>3, <1>0 DEF Runs, ScanStages, Beside, ScanMoving, TakeResult, Flush
  <2>4. ASSUME FlushLast, Beside
        PROVE  ScanMoving
    BY <2>4, <1>0 DEF Runs, ScanStages, Beside, ScanMoving, FlushLast
  <2>5. ASSUME MarkMissingStale, Beside
        PROVE  ScanMoving
    BY <2>5, <1>0 DEF Runs, ScanStages, Beside, ScanMoving, MarkMissingStale
  <2>6. ASSUME NEW p \in emb.errors, RecordPrepareError(p)
        PROVE  ScanMoving
    BY <2>6, <1>0 DEF Runs, ScanStages, Beside, ScanMoving, RecordPrepareError
  <2>7. ASSUME NEW i \in emb.items, SingleFails(i)
        PROVE  ScanMoving
    BY <2>7, <1>0 DEF Runs, ScanStages, Beside, ScanMoving, SingleFails
  <2> QED BY <1>8, <2>1, <2>2, <2>3, <2>4, <2>5, <2>6, <2>7 DEF AssetStep
<1>9. CASE WriteStep
  <2>1. CASE FlushBatch
    BY <2>1, <1>0 DEF Runs, ScanStages, Beside, ScanMoving, HandEmpty, ScanPcs,
       FlushBatch, NextBatch
  <2>2. CASE WriterStep
    BY <2>2, <1>0 DEF WriterStep, HandEmpty, ScanPcs, Runs
  <2>3. ASSUME NEW i \in emb.items, SingleOk(i)
        PROVE  ScanMoving
    BY <2>3, <1>0 DEF Runs, ScanStages, Beside, ScanMoving, HandEmpty, ScanPcs, SingleOk
  <2> QED BY <1>9, <2>1, <2>2, <2>3 DEF WriteStep
<1>10. CASE VecStep
  <2>1. ASSUME NEW p \in Paths, DropFeatures(p), Beside
        PROVE  ScanMoving
    BY <2>1, <1>0 DEF Runs, ScanStages, Beside, ScanMoving, DropFeatures
  <2>2. ASSUME NEW k \in Kinds, ReuseVectors(k)
        PROVE  ScanMoving
    BY <2>2, <1>0 DEF Runs, ScanStages, Beside, ScanMoving, ReuseVectors
  <2> QED BY <1>10, <2>1, <2>2 DEF VecStep
<1>11. CASE ImportStep
  <2>1. ASSUME NEW p \in Paths, NEW k \in Kinds, NEW c \in Goods,
               ImportEmbedding(p, k, c)
        PROVE  ScanMoving
    BY <2>1, <1>0 DEF Runs, ScanStages, Beside, ScanMoving, ImportEmbedding, Idle
  <2> QED BY <1>11, <2>1 DEF ImportStep
<1>12. CASE ViewStep
  <2>1. ASSUME Regroup, Beside
        PROVE  ScanMoving
    <3>1. run'.pc = AfterManifest
      <4> HIDE DEF AfterManifest
      <4> QED BY <2>1, <1>0 DEF Runs, Regroup
    <3> QED BY <3>1 DEF AfterManifest
  <2>2. CASE AdvanceGeneration
    BY <2>2, <1>0 DEF Runs, ScanStages, Beside, ScanMoving, AdvanceGeneration, Go
  <2>3. CASE DropOverview
    BY <2>3, <1>0 DEF Runs, ScanStages, Beside, ScanMoving, DropOverview, Go
  <2>4. CASE CloseRun
    BY <2>4, <1>0 DEF Runs, ScanStages, Beside, ScanMoving, CloseRun, Go
  <2> QED BY <1>12, <2>1, <2>2, <2>3, <2>4 DEF ViewStep
<1> QED BY <1>1, <1>2, <1>3, <1>4, <1>5, <1>6, <1>7, <1>8, <1>9, <1>10, <1>11, <1>12 DEF BuildSteps

\* A path that is dealt with stays so while its row and its vectors stay.
LEMMA OutcomeStays ==
  ASSUME Assumptions, TypeInv, NEW p \in Paths, Outcome(p),
         disk' = disk, run'.mode = run.mode, asset'[p] = asset[p],
         \/ disk[p].content \in Goods
         \/ vec'[p] = NoVector
         \/ vec'[p] = vec[p] /\ (p \in scan.erring => p \in scan'.erring)
  PROVE  Outcome(p)'
<1>1. p \in Active'
  BY DEF Outcome, Active
<1> QED BY <1>1 DEF Outcome, NoVector

\* What a scan writes is the outcome of the files it has read.
LEMMA WrittenOutcome ==
  ASSUME Assumptions, TypeInv, NEW items \in SUBSET PendingItems, asset' = Written(items),
         \A i \in items : i.content = Unknown \/ i.content = disk[i.path].content,
         run.mode # "fast" => \A i \in items : i.content # Unknown,
         disk' = disk, vec' = vec, run'.mode = run.mode, scan'.erring = scan.erring,
         NEW p \in Paths, Outcome(p) \/ \E i \in items : i.path = p
  PROVE  Outcome(p)'
<1>1. CASE /\ \A i \in items : i.path # p
           /\ Written(items)[p] = asset[p]
  BY <1>1, OutcomeStays
<1>2. ASSUME NEW i \in items, i.path = p,
             Written(items)[p] = [stamp |-> i.stamp, sha |-> i.content,
                                  error |-> FALSE, stale |-> FALSE]
      PROVE  Outcome(p)'
  <2>1. asset'[p] \in Rows /\ asset'[p].sha = i.content /\ ~asset'[p].stale
    BY <1>2 DEF PendingItems, Rows
  <2>2. p \in Active'
    BY <2>1 DEF Active, Assumptions, RowAssumption
  <2>3. run.mode # "fast" => disk[p].content \in Goods /\ i.content = disk[p].content
    BY <1>2 DEF PendingItems
  <2> QED BY <2>1, <2>2, <2>3 DEF Outcome
<1> QED BY <1>1, <1>2, WrittenIs DEF TypeInv

\* An unchanged file has its outcome already.
LEMMA UnchangedOutcome ==
  ASSUME Assumptions, TypeInv, HonestInv, NEW p \in Paths, p \in Present, Unchanged(p)
  PROVE  Outcome(p)
BY DEF Unchanged, Active, TypeInv, AssetOK, Rows, HonestInv, RowsHonest, Honest,
  Assumptions, ScanAssumption, Outcome

\* A calm scan has dealt with what it has met, or is about to.
LEMMA AccountedKept ==
  ASSUME Assumptions, TypeInv, HandInv, HonestInv, CalmInv, Accounted, BuildSteps
  PROVE  Accounted'
<1> SUFFICES ASSUME run'.calm, run'.pc \in {"scan", "drain", "stale"}, ~scan'.lost,
                    NEW p \in scan'.seen
             PROVE  Outcome(p)' \/ InScan(p)'
  BY DEF Accounted
<1>0. run \in Runs /\ scan \in ScanStages
  BY DEF TypeInv, RunOK, ScanOK
<1>1. CASE BeginStep
  BY <1>1 DEF BeginStep, BeginRun, NoScan
<1>2. CASE ~BeginStep
  <2>0. /\ run.calm /\ disk' = disk /\ run'.mode = run.mode
        /\ ScanMoving
    BY <1>2, CalmFrom, ScanFrom DEF CalmInv
  <2>1. \A q \in scan.seen : q \in Paths /\ (Outcome(q) \/ InScan(q))
    BY <2>0, <1>0 DEF ScanMoving, Accounted, ScanStages
  <2>2. ASSUME NEW q \in Paths, Visit(q) PROVE Outcome(p)' \/ InScan(p)'
    <3>1. /\ asset' = asset /\ vec' = vec /\ scan'.erring = scan.erring
          /\ scan'.seen = scan.seen \cup {q} /\ scan.jobs \subseteq scan'.jobs
          /\ scan'.results = scan.results /\ scan'.pending = scan.pending
      BY <2>2, <1>0 DEF Visit, ScanStages, manifest
    <3>2. CASE p \in scan.seen /\ InScan(p)
      BY <3>1, <3>2 DEF InScan
    <3>3. CASE p \in Paths /\ Outcome(p)
      BY <3>1, <3>3, <2>0, OutcomeStays
    <3>4. CASE p = q /\ Unchanged(q)
      BY <3>3, <3>4, <2>2, UnchangedOutcome DEF Visit
    <3>5. CASE p = q /\ ~Unchanged(q)
      <4>1. [path |-> q, stamp |-> disk[q].stamp] \in scan'.jobs
        BY <3>5, <2>2, <1>0 DEF Visit, ScanStages
      <4> QED BY <3>5, <4>1 DEF InScan
    <3> QED BY <2>1, <3>1, <3>2, <3>3, <3>4, <3>5
  <2>3. ASSUME NEW q \in Paths, VisitFast(q) PROVE Outcome(p)' \/ InScan(p)'
    <3>1. PICK items \in SUBSET PendingItems, pending \in SUBSET PendingItems :
            /\ asset' = Written(items)
            /\ scan' = [scan EXCEPT !.seen = @ \cup {q}, !.pending = pending]
            /\ items \cup pending =
                 scan.pending \cup
                   IF FastUnchanged(q) THEN {}
                   ELSE {[path |-> q, stamp |-> disk[q].stamp, content |-> Unknown]}
      BY <2>3, VisitFastIs
    <3>2. /\ vec' = vec /\ run.mode = "fast" /\ scan'.erring = scan.erring
          /\ scan'.seen = scan.seen \cup {q} /\ scan'.pending = pending
          /\ scan'.jobs = scan.jobs /\ scan'.results = scan.results
      BY <2>3, <3>1, <1>0 DEF VisitFast, ScanStages
    <3>3. \A i \in items : i.content = Unknown \/ i.content = disk[i.path].content
      BY <3>1, <2>0 DEF CalmInv, ReadCalm
    <3>4. CASE p \in Paths /\ (Outcome(p) \/ \E i \in items : i.path = p)
      BY <3>1, <3>2, <3>3, <3>4, <2>0, WrittenOutcome
    <3>5. CASE \E i \in pending : i.path = p
      BY <3>2, <3>5 DEF InScan
    <3>6. CASE p = q /\ FastUnchanged(q)
      BY <3>2, <3>4, <3>6 DEF Outcome, FastUnchanged
    <3>7. CASE p = q /\ ~FastUnchanged(q)
      <4>1. [path |-> q, stamp |-> disk[q].stamp, content |-> Unknown] \in items \cup pending
        BY <3>1, <3>7
      <4> QED BY <3>4, <3>5, <3>7, <4>1
    <3>8. CASE p \in Paths /\ \E i \in scan.pending : i.path = p
      BY <3>1, <3>4, <3>5, <3>8
    <3>9. CASE p \in Paths /\ InScan(p)
      BY <3>2, <3>8, <3>9 DEF InScan
    <3> QED BY <2>1, <3>2, <3>4, <3>6, <3>7, <3>9
  <2>4. ASSUME NEW q \in Paths, DropFeatures(q) PROVE Outcome(p)' \/ InScan(p)'
    <3>1. /\ asset' = asset /\ scan'.seen = scan.seen /\ scan'.jobs = scan.jobs
          /\ scan'.results = scan.results /\ scan'.pending = scan.pending
          /\ scan.erring = {q} /\ vec' = [vec EXCEPT ![q] = NoVector]
      BY <2>4, <1>0 DEF DropFeatures, DropVectors, ScanStages, HandInv
    <3>2. CASE p \in Paths /\ Outcome(p)
      BY <3>1, <3>2, <2>0, OutcomeStays DEF TypeInv, VecOK, Typed
    <3>3. CASE InScan(p)
      BY <3>1, <3>3 DEF InScan
    <3> QED BY <2>1, <3>1, <3>2, <3>3
  <2>5. ASSUME NEW j \in scan.jobs, ReadFile(j) PROVE Outcome(p)' \/ InScan(p)'
    <3>1. /\ asset' = asset /\ vec' = vec /\ scan'.erring = scan.erring
          /\ scan'.seen = scan.seen /\ scan'.pending = scan.pending
          /\ scan'.jobs = scan.jobs \ {j}
          /\ scan'.results = scan.results \cup
               {[path |-> j.path, stamp |-> j.stamp, content |-> disk[j.path].content]}
      BY <2>5, <1>0 DEF ReadFile, ScanStages, manifest
    <3>2. CASE p \in Paths /\ Outcome(p)
      BY <3>1, <3>2, <2>0, OutcomeStays
    <3>3. CASE InScan(p)
      <4>1. CASE j.path = p
        <5>1. [path |-> j.path, stamp |-> j.stamp, content |-> disk[j.path].content] \in scan'.results
          BY <3>1
        <5> QED BY <4>1, <5>1 DEF InScan
      <4>2. CASE j.path # p
        BY <3>1, <3>3, <4>2 DEF InScan
      <4> QED BY <4>1, <4>2
    <3> QED BY <2>1, <3>1, <3>2, <3>3
  <2>6. ASSUME NEW r \in scan.results, TakeResult(r), r.content \in Goods
        PROVE  Outcome(p)' \/ InScan(p)'
    <3>1. PICK items \in SUBSET PendingItems, pending \in SUBSET PendingItems :
            /\ asset' = Written(items)
            /\ scan' = [scan EXCEPT !.results = @ \ {r}, !.pending = pending]
            /\ items \cup pending = scan.pending \cup {r}
      BY <2>6, TakeGoodIs
    <3>2. /\ vec' = vec /\ scan'.erring = scan.erring /\ scan'.seen = scan.seen
          /\ scan'.pending = pending /\ scan'.jobs = scan.jobs
          /\ scan'.results = scan.results \ {r}
      BY <2>6, <3>1, <1>0 DEF TakeResult, ScanStages
    <3>3. /\ \A i \in items : i.content = Unknown \/ i.content = disk[i.path].content
          /\ run.mode # "fast" => \A i \in items : i.content # Unknown
      BY <2>6, <3>1, <2>0 DEF CalmInv, ReadCalm, Assumptions, ScanAssumption
    <3>4. CASE p \in Paths /\ (Outcome(p) \/ \E i \in items : i.path = p)
      BY <3>1, <3>2, <3>3, <3>4, <2>0, WrittenOutcome
    <3>5. CASE \E i \in pending : i.path = p
      BY <3>2, <3>5 DEF InScan
    <3>6. CASE p \in Paths /\ \E i \in scan.pending \cup {r} : i.path = p
      BY <3>1, <3>4, <3>5, <3>6
    <3>7. CASE p \in Paths /\ InScan(p)
      <4>1. CASE \E x \in scan.jobs \cup (scan.results \ {r}) : x.path = p
        BY <3>2, <4>1 DEF InScan
      <4> QED BY <3>6, <3>7, <4>1 DEF InScan
    <3> QED BY <2>1, <3>2, <3>4, <3>7
  <2>7. ASSUME NEW r \in scan.results, TakeResult(r), r.content \notin Goods
        PROVE  Outcome(p)' \/ InScan(p)'
    <3>1. /\ RecordPathError(r.path) /\ vec' = vec /\ scan'.seen = scan.seen
          /\ scan'.jobs = scan.jobs /\ scan'.results = scan.results \ {r}
          /\ scan'.pending = scan.pending
          /\ scan.erring = {} /\ scan'.erring = {r.path}
      BY <2>7, <1>0 DEF TakeResult, ScanStages
    <3>2. r.path \in Paths /\ disk[r.path].content \notin Goods
      BY <2>7, <2>0, <1>0 DEF CalmInv, ReadCalm, ScanStages, Results
    <3>3. /\ asset'[r.path] \in Rows /\ asset'[r.path].error /\ ~asset'[r.path].stale
          /\ \A q \in Paths \ {r.path} : asset'[q] = asset[q]
      BY <3>1, <3>2, PathErrorIs DEF TypeInv
    <3>4. CASE p = r.path
      BY <3>1, <3>2, <3>3, <3>4, <2>0 DEF Outcome, Active, Assumptions, RowAssumption
    <3>5. CASE p \in Paths /\ p # r.path /\ Outcome(p)
      BY <3>1, <3>3, <3>5, <2>0, OutcomeStays
    <3>6. CASE p # r.path /\ InScan(p)
      BY <3>1, <3>6 DEF InScan
    <3> QED BY <2>1, <3>1, <3>4, <3>5, <3>6
  <2>8. CASE EndWalk
    <3>1. /\ asset' = asset /\ vec' = vec /\ scan'.erring = scan.erring
          /\ scan'.seen = scan.seen /\ scan'.pending = scan.pending
          /\ scan'.jobs = scan.jobs /\ scan'.results = scan.results
      BY <2>8, <1>0 DEF EndWalk, ScanStages, manifest
    <3>2. CASE p \in Paths /\ Outcome(p)
      BY <3>1, <3>2, <2>0, OutcomeStays
    <3>3. CASE InScan(p)
      BY <3>1, <3>3 DEF InScan
    <3> QED BY <2>1, <3>1, <3>2, <3>3
  <2>9. CASE FlushLast
    BY <2>9, <1>0, <2>0, <2>1, WrittenOutcome DEF FlushLast, ScanStages, CalmInv,
      ReadCalm, InScan
  <2>10. ASSUME NEW q \in Paths, SkipUnreadable(q) PROVE Outcome(p)' \/ InScan(p)'
    <3>1. /\ asset' = asset /\ vec' = vec /\ scan'.erring = scan.erring
          /\ scan'.seen = scan.seen /\ scan'.jobs = scan.jobs
          /\ scan'.results = scan.results /\ scan'.pending = scan.pending
      BY <2>10, <1>0 DEF SkipUnreadable, ScanStages, manifest
    <3>2. CASE p \in Paths /\ Outcome(p)
      BY <3>1, <3>2, <2>0, OutcomeStays
    <3>3. CASE InScan(p)
      BY <3>1, <3>3 DEF InScan
    <3> QED BY <2>1, <3>1, <3>2, <3>3
  <2> QED BY <2>0, <2>2, <2>3, <2>4, <2>5, <2>6, <2>7, <2>8, <2>9, <2>10 DEF ScanMoving
<1> QED BY <1>1, <1>2

\* A scan is done when it has marked what is missing.
LEMMA DoneScan ==
  ASSUME Assumptions, TypeInv, BuildSteps, ~BeginStep, ScanDone'
  PROVE  ScanDone \/ MarkMissingStale
<1>0. /\ run \in Runs /\ scan \in ScanStages
      /\ run.calm /\ run'.stage = run.stage /\ run'.calm /\ ~scan'.hit
      /\ "manifest" \in run.stage
  BY CalmFrom DEF TypeInv, RunOK, ScanOK, ScanDone
<1>1. CASE EditStep
  BY <1>1, <1>0 DEF EditStep, EditFile, Runs
<1>2. CASE BeginStep
  BY <1>2
<1>3. CASE StopStep
  <2>1. CASE EndRun
    BY <2>1, <1>0 DEF ScanDone, Idle, EmbedPcs, Runs, ScanStages, Beside, EndRun
  <2>2. CASE Unwound
    BY <2>2, <1>0 DEF ScanDone, Idle, EmbedPcs, Runs, ScanStages, Beside, Unwound, NoRun
  <2>3. CASE Killed
    BY <2>3, <1>0 DEF ScanDone, Idle, EmbedPcs, Runs, ScanStages, Beside, Killed, NoRun
  <2> QED BY <1>3, <2>1, <2>2, <2>3 DEF StopStep
<1>4. CASE HandStep
  <2>1. CASE QueryBacklog
    BY <2>1, <1>0 DEF ScanDone, Idle, EmbedPcs, Runs, ScanStages, Beside, QueryBacklog, Go
  <2>2. CASE Submit
    BY <2>2, <1>0 DEF ScanDone, Idle, EmbedPcs, Runs, ScanStages, Beside, Submit
  <2>3. CASE EnqueueBatch
    BY <2>3, <1>0 DEF ScanDone, Idle, EmbedPcs, Runs, ScanStages, Beside, EnqueueBatch,
       Go, NextBatch
  <2>4. CASE WriterDies
    BY <2>4, <1>0 DEF ScanDone, Idle, EmbedPcs, Runs, ScanStages, Beside, WriterDies
  <2>5. ASSUME NEW b \in emb.batches, JoinBatch(b)
        PROVE  ScanDone \/ MarkMissingStale
    BY <2>5, <1>0 DEF ScanDone, Idle, EmbedPcs, Runs, ScanStages, Beside, JoinBatch, Go
  <2>6. ASSUME NEW b \in emb.batches, PrepareDies(b)
        PROVE  ScanDone \/ MarkMissingStale
    BY <2>6, <1>0 DEF ScanDone, Idle, EmbedPcs, Runs, ScanStages, Beside, PrepareDies
  <2>7. ASSUME NEW b \in emb.batches, NEW job \in b.jobs, PrepareAsset(b, job)
        PROVE  ScanDone \/ MarkMissingStale
    BY <2>7, <1>0 DEF ScanDone, Idle, EmbedPcs, Runs, ScanStages, Beside, PrepareAsset
  <2> QED BY <1>4, <2>1, <2>2, <2>3, <2>4, <2>5, <2>6, <2>7 DEF HandStep
<1>5. CASE TurnStep
  BY <1>5, <1>0 DEF TurnStep, ScanDone, Idle, EmbedPcs, Runs, ScanStages, Submitted,
     ErrorsRecorded, NothingToFlush, SinglesDone, FinishEmbedding, BatchFails, RunFails, Go,
     NextBatch
<1>6. CASE TakeSnapshot
  <2>1. CASE TakeSnapshot
    BY <2>1, <1>0 DEF ScanDone, Idle, EmbedPcs, Runs, ScanStages, Beside, TakeSnapshot,
       Settled
  <2> QED BY <1>6, <2>1 DEF TakeSnapshot
<1>7. CASE WalkStep
  <2>1. ASSUME NEW p \in Paths, Visit(p), Beside
        PROVE  ScanDone \/ MarkMissingStale
    BY <2>1, <1>0 DEF ScanDone, Idle, EmbedPcs, Runs, ScanStages, Beside, Visit, Meet,
       Walking
  <2>2. ASSUME NEW j \in scan.jobs, ReadFile(j), Beside
        PROVE  ScanDone \/ MarkMissingStale
    BY <2>2, <1>0 DEF ScanDone, Idle, EmbedPcs, Runs, ScanStages, Beside, ReadFile
  <2>3. ASSUME WorkerDies, Beside
        PROVE  ScanDone \/ MarkMissingStale
    BY <2>3, <1>0 DEF ScanDone, Idle, EmbedPcs, Runs, ScanStages, Beside, WorkerDies
  <2>4. ASSUME EndWalk, Beside
        PROVE  ScanDone \/ MarkMissingStale
    BY <2>4, <1>0 DEF ScanDone, Idle, EmbedPcs, Runs, ScanStages, Beside, EndWalk
  <2>5. ASSUME ResultsMissing, Beside
        PROVE  ScanDone \/ MarkMissingStale
    BY <2>5, <1>0 DEF ScanDone, Idle, EmbedPcs, Runs, ScanStages, Beside, ResultsMissing
  <2>6. ASSUME NEW p \in Paths, SkipUnreadable(p), Beside
        PROVE  ScanDone \/ MarkMissingStale
    BY <2>6, <1>0 DEF ScanDone, Idle, EmbedPcs, Runs, ScanStages, Beside, SkipUnreadable, Meet,
       Walking
  <2> QED BY <1>7, <2>1, <2>2, <2>3, <2>4, <2>5, <2>6 DEF WalkStep
<1>8. CASE AssetStep
  <2>1. ASSUME NEW p \in Paths, VisitGone(p), Beside
        PROVE  ScanDone \/ MarkMissingStale
    BY <2>1, <1>0 DEF ScanDone, Idle, EmbedPcs, Runs, ScanStages, Beside, VisitGone, Meet,
       Walking
  <2>2. ASSUME NEW p \in Paths, VisitFast(p), Beside
        PROVE  ScanDone \/ MarkMissingStale
    BY <2>2, <1>0 DEF ScanDone, Idle, EmbedPcs, Runs, ScanStages, Beside, VisitFast,
       Flush, Meet, Walking
  <2>3. ASSUME NEW r \in scan.results, TakeResult(r), Beside
        PROVE  ScanDone \/ MarkMissingStale
    BY <2>3, <1>0 DEF ScanDone, Idle, EmbedPcs, Runs, ScanStages, Beside, TakeResult, Flush
  <2>4. ASSUME FlushLast, Beside
        PROVE  ScanDone \/ MarkMissingStale
    BY <2>4, <1>0 DEF ScanDone, Idle, EmbedPcs, Runs, ScanStages, Beside, FlushLast
  <2>5. ASSUME MarkMissingStale, Beside
        PROVE  ScanDone \/ MarkMissingStale
    BY <2>5
  <2>6. ASSUME NEW p \in emb.errors, RecordPrepareError(p)
        PROVE  ScanDone \/ MarkMissingStale
    BY <2>6, <1>0 DEF ScanDone, Idle, EmbedPcs, Runs, ScanStages, Beside, RecordPrepareError
  <2>7. ASSUME NEW i \in emb.items, SingleFails(i)
        PROVE  ScanDone \/ MarkMissingStale
    BY <2>7, <1>0 DEF ScanDone, Idle, EmbedPcs, Runs, ScanStages, Beside, SingleFails
  <2> QED BY <1>8, <2>1, <2>2, <2>3, <2>4, <2>5, <2>6, <2>7 DEF AssetStep
<1>9. CASE WriteStep
  <2>1. CASE FlushBatch
    BY <2>1, <1>0 DEF ScanDone, Idle, EmbedPcs, Runs, ScanStages, Beside, FlushBatch,
       NextBatch
  <2>2. CASE WriterStep
    BY <2>2, <1>0 DEF ScanDone, Idle, EmbedPcs, Runs, ScanStages, Beside, WriterStep
  <2>3. ASSUME NEW i \in emb.items, SingleOk(i)
        PROVE  ScanDone \/ MarkMissingStale
    BY <2>3, <1>0 DEF ScanDone, Idle, EmbedPcs, Runs, ScanStages, Beside, SingleOk
  <2> QED BY <1>9, <2>1, <2>2, <2>3 DEF WriteStep
<1>10. CASE VecStep
  <2>1. ASSUME NEW p \in Paths, DropFeatures(p), Beside
        PROVE  ScanDone \/ MarkMissingStale
    BY <2>1, <1>0 DEF ScanDone, Idle, EmbedPcs, Runs, ScanStages, Beside, DropFeatures
  <2>2. ASSUME NEW k \in Kinds, ReuseVectors(k)
        PROVE  ScanDone \/ MarkMissingStale
    BY <2>2, <1>0 DEF ScanDone, Idle, EmbedPcs, Runs, ScanStages, Beside, ReuseVectors
  <2> QED BY <1>10, <2>1, <2>2 DEF VecStep
<1>11. CASE ImportStep
  <2>1. ASSUME NEW p \in Paths, NEW k \in Kinds, NEW c \in Goods,
               ImportEmbedding(p, k, c)
        PROVE  ScanDone \/ MarkMissingStale
    BY <2>1, <1>0 DEF ScanDone, Idle, EmbedPcs, Runs, ScanStages, Beside, ImportEmbedding
  <2> QED BY <1>11, <2>1 DEF ImportStep
<1>12. CASE ViewStep
  <2>1. ASSUME Regroup, Beside
        PROVE  ScanDone \/ MarkMissingStale
    BY <2>1, <1>0 DEF ScanDone, Idle, EmbedPcs, Runs, ScanStages, Beside, Regroup,
       AfterManifest
  <2>2. CASE AdvanceGeneration
    BY <2>2, <1>0 DEF ScanDone, Idle, EmbedPcs, Runs, ScanStages, Beside,
       AdvanceGeneration, Go
  <2>3. CASE DropOverview
    BY <2>3, <1>0 DEF ScanDone, Idle, EmbedPcs, Runs, ScanStages, Beside, DropOverview, Go
  <2>4. CASE CloseRun
    BY <2>4, <1>0 DEF ScanDone, Idle, EmbedPcs, Runs, ScanStages, Beside, CloseRun, Go
  <2> QED BY <1>12, <2>1, <2>2, <2>3, <2>4 DEF ViewStep
<1> QED BY <1>1, <1>2, <1>3, <1>4, <1>5, <1>6, <1>7, <1>8, <1>9, <1>10, <1>11, <1>12 DEF BuildSteps

\* Vectors are the same when each of them is.
LEMMA SameVectors ==
  ASSUME Assumptions, Typed(vec), Typed(vec'), NEW p \in Paths,
         \A k \in Kinds : vec'[p][k] = vec[p][k]
  PROVE  vec'[p] = vec[p]
BY DEF Typed

\* A writing statement leaves the outcome of a done scan.
LEMMA WriteOutcome ==
  ASSUME Assumptions, TypeInv, HandInv, HandCalm, NEW items \in SUBSET EmbedItems,
         WriteBatch(items), \A i \in items : HandItem(i) /\ i.path \in Active,
         run.calm, disk' = disk, run'.mode = run.mode, scan' = scan
  PROVE  Active' = Active /\ \A p \in Paths : Outcome(p) => Outcome(p)'
<1>1. /\ VecOK'
      /\ \A p \in Paths :
           \/ /\ \A i \in FilledRows(items) : i.path # p
              /\ asset'[p] = asset[p]
           \/ \E i \in FilledRows(items) :
                /\ i.path = p
                /\ asset'[p] = [stamp |-> i.stamp, sha |-> i.sha, error |-> FALSE,
                                stale |-> FALSE]
      /\ \A p \in Paths, k \in Kinds :
           IF (\E i \in items : i.path = p) /\ k \in emb.kinds
             THEN vec'[p][k] # NoRow ELSE vec'[p][k] = vec[p][k]
  BY BatchWriteIs DEF TypeInv
<1>2. \A i \in items : i.sha = disk[i.path].content /\ i.sha \in Goods /\ i.stamp \in Stamps
  BY DEF HandCalm, EmbedItems
<1>3. ASSUME NEW p \in Paths, NEW i \in items, i.path = p,
             asset'[p] = [stamp |-> i.stamp, sha |-> i.sha, error |-> FALSE, stale |-> FALSE]
      PROVE  /\ p \in Active /\ p \in Active'
             /\ disk[p].content \in Goods /\ asset'[p].sha = disk[p].content
  <2>1. asset'[p] \in Rows /\ ~asset'[p].stale
    BY <1>2, <1>3 DEF Rows
  <2> QED BY <1>2, <1>3, <2>1 DEF Active, Assumptions, RowAssumption
<1>4. FilledRows(items) \subseteq items
  BY DEF FilledRows
<1>5. ASSUME NEW p \in Paths PROVE p \in Active' <=> p \in Active
  <2>1. CASE asset'[p] = asset[p]
    BY <2>1 DEF Active
  <2>2. CASE \E i \in items : /\ i.path = p
                              /\ asset'[p] = [stamp |-> i.stamp, sha |-> i.sha,
                                              error |-> FALSE, stale |-> FALSE]
    BY <2>2, <1>3
  <2> QED BY <1>1, <1>4, <2>1, <2>2
<1>6. ASSUME NEW p \in Paths, Outcome(p) PROVE Outcome(p)'
  <2>1. CASE /\ \A i \in FilledRows(items) : i.path # p
             /\ asset'[p] = asset[p]
    <3>1. CASE disk[p].content \in Goods
      BY <1>6, <2>1, <3>1, OutcomeStays
    <3>2. CASE disk[p].content \notin Goods
      BY <1>2, <3>2, <1>1, SameVectors, <1>6, <2>1, OutcomeStays DEF TypeInv, VecOK
    <3> QED BY <3>1, <3>2
  <2>2. ASSUME NEW i \in FilledRows(items), i.path = p,
               asset'[p] = [stamp |-> i.stamp, sha |-> i.sha, error |-> FALSE,
                            stale |-> FALSE]
        PROVE  Outcome(p)'
    BY <1>3, <1>4, <2>2 DEF Outcome
  <2> QED BY <1>1, <2>1, <2>2
<1>7. Active' = Active
  BY <1>5 DEF Active
<1> QED BY <1>6, <1>7

\* The embedding stage and what comes after it leave the outcome of a done scan.
LEMMA OutcomesKept ==
  ASSUME Assumptions, TypeInv, HandInv, HonestInv, HandCalm, ErringWhen, ScanDone,
         BuildSteps, ~BeginStep, ~MarkMissingStale, ScanDone'
  PROVE  Active' = Active /\ \A p \in Paths : Outcome(p) => Outcome(p)'
<1> DEFINE Same == Active' = Active /\ \A p \in Paths : Outcome(p) => Outcome(p)'
<1>0. /\ run \in Runs /\ scan \in ScanStages
      /\ run.calm /\ disk' = disk /\ run'.mode = run.mode
      /\ run.pc \notin {"scan", "drain", "stale"}
  BY CalmFrom DEF TypeInv, RunOK, ScanOK, ScanDone, Idle, EmbedPcs
<1>1. ASSUME asset' = asset, vec' = vec, scan'.erring = scan.erring PROVE Same
  <2>1. Active' = Active
    BY <1>1 DEF Active
  <2>2. ASSUME NEW p \in Paths, Outcome(p) PROVE Outcome(p)'
    BY <1>0, <1>1, <2>2, OutcomeStays
  <2> QED BY <2>1, <2>2
<1>2. CASE EditStep
  BY <1>0, <1>2 DEF EditStep, EditFile, TypeInv, DiskOK
<1>3. CASE StopStep
  <2>1. CASE EndRun
    BY <2>1, <1>1 DEF EndRun, ErringWhen, NoScan
  <2>2. CASE Unwound \/ Killed
    BY <2>2 DEF Unwound, Killed, NoRun, ScanDone
  <2> QED BY <1>3, <2>1, <2>2 DEF StopStep
<1>4. CASE HandStep
  BY <1>1, <1>4 DEF HandStep, QueryBacklog, Submit, EnqueueBatch, WriterDies, JoinBatch,
     PrepareDies, PrepareAsset, manifest
<1>5. CASE TurnStep
  BY <1>1, <1>5 DEF TurnStep, manifest
<1>6. CASE TakeSnapshot
  BY <1>1, <1>6 DEF TakeSnapshot, manifest
<1>7. CASE WalkStep
  BY <1>7, <1>0, <1>1 DEF WalkStep, Visit, SkipUnreadable, ReadFile, WorkerDies, EndWalk,
    ResultsMissing, manifest, ScanStages
<1>8. CASE AssetStep
  <2>1. ASSUME NEW p \in Paths, VisitGone(p) \/ VisitFast(p) PROVE Same
    BY <1>0, <2>1 DEF VisitGone, VisitFast, Meet, Walking
  <2>2. ASSUME NEW r \in scan.results, TakeResult(r) PROVE Same
    BY <1>0, <2>2 DEF TakeResult
  <2>3. CASE FlushLast
    BY <1>0, <2>3 DEF FlushLast
  <2>4. ASSUME NEW q \in emb.errors, RecordPrepareError(q) PROVE Same
    <3>1. /\ q \in Paths /\ RecordPathError(q) /\ vec' = vec /\ scan.erring = {}
      BY <2>4 DEF RecordPrepareError, TypeInv, EmbOK, EmbedStages
    <3>2. q \in Active /\ disk[q].content \notin Goods
      BY <2>4, <3>1, <1>0 DEF HandInv, HandActive, Upstream, HandCalm, HandError
    <3>3. /\ asset'[q] \in Rows /\ asset'[q].error /\ ~asset'[q].stale
          /\ \A p \in Paths \ {q} : asset'[p] = asset[p]
      BY <3>1, PathErrorIs DEF TypeInv
    <3>4. q \in Active' /\ q \in scan'.erring
      BY <2>4, <3>1, <3>3, <1>0 DEF Active, RecordPrepareError, Assumptions, RowAssumption, ScanStages
    <3>5. Active' = Active
      BY <3>2, <3>3, <3>4 DEF Active
    <3>6. ASSUME NEW p \in Paths, Outcome(p) PROVE Outcome(p)'
      <4>1. CASE p = q
        BY <1>0, <3>2, <3>3, <3>4, <4>1 DEF Outcome
      <4>2. CASE p # q
        BY <1>0, <3>1, <3>3, <3>6, <4>2, OutcomeStays
      <4> QED BY <4>1, <4>2
    <3> QED BY <3>5, <3>6
  <2>5. ASSUME NEW i \in emb.items, SingleFails(i) PROVE Same
    <3>1. /\ i \in EmbedItems /\ i.path \in Paths /\ i.sha \in Goods
          /\ vec' = vec /\ scan.erring = {}
      BY <2>5 DEF SingleFails, TypeInv, EmbOK, EmbedStages, EmbedItems
    <3>2. i.path \in Active /\ disk[i.path].content = i.sha
      <4>1. HandItem(i) /\ Upstream(i.path)
        BY <2>5 DEF HandItem, Upstream
      <4> QED BY <3>1, <4>1, <1>0 DEF HandInv, HandActive, HandCalm
    <3>3. /\ asset'[i.path] \in Rows /\ asset'[i.path].error /\ ~asset'[i.path].stale
          /\ IF i.reuse THEN asset'[i.path].sha = asset[i.path].sha
             ELSE asset'[i.path].sha = i.sha
          /\ \A p \in Paths \ {i.path} : asset'[p] = asset[p]
      BY <2>5, <3>2, ItemErrorIs DEF Active
    <3>4. i.path \in Active'
      BY <3>1, <3>3 DEF Active, Assumptions, RowAssumption
    <3>5. Active' = Active
      BY <3>2, <3>3, <3>4 DEF Active
    <3>6. ASSUME NEW p \in Paths, Outcome(p) PROVE Outcome(p)'
      <4>1. CASE p = i.path
        BY <3>1, <3>2, <3>3, <3>6, <4>1, <1>0, <3>4 DEF Outcome
      <4>2. CASE p # i.path
        BY <1>0, <3>1, <3>3, <3>6, <4>2, OutcomeStays
      <4> QED BY <4>1, <4>2
    <3> QED BY <3>5, <3>6
  <2> QED BY <1>8, <2>1, <2>2, <2>3, <2>4, <2>5 DEF AssetStep
<1>9. CASE WriteStep
  <2>1. PICK items \in SUBSET EmbedItems, pc \in RunPcs :
          /\ WriteBatch(items)
          /\ UNCHANGED <<disk, edits, groups, gen, ovw, scan, snap, imports>>
          /\ \A i \in items : i \in emb.items \/ (emb.queue # <<>> /\ i \in Head(emb.queue))
    BY <1>9, WriteStepIs
  <2>2. \A i \in items : HandItem(i) /\ i.path \in Paths /\ (Queued(i.path) \/ Upstream(i.path))
    BY <2>1 DEF TypeInv, EmbOK, EmbedStages, HandItem, Queued, Upstream, EmbedItems
  <2>3. \A i \in items : i.path \in Active
    BY <2>2 DEF HandInv, HandActive
  <2> QED BY <1>0, <2>1, <2>2, <2>3, WriteOutcome
<1>10. CASE VecStep
  <2>1. ASSUME NEW q \in Paths, DropFeatures(q) PROVE Same
    <3>1. /\ asset' = asset /\ scan.erring = {q} /\ vec' = [vec EXCEPT ![q] = NoVector]
      BY <2>1 DEF DropFeatures, DropVectors, HandInv
    <3>2. Active' = Active
      BY <3>1 DEF Active
    <3>3. ASSUME NEW p \in Paths, Outcome(p) PROVE Outcome(p)'
      BY <3>1, <1>0, <3>3, OutcomeStays DEF TypeInv, VecOK, Typed
    <3> QED BY <3>2, <3>3
  <2>2. ASSUME NEW k \in Kinds, ReuseVectors(k) PROVE Same
    <3>1. /\ VecOK' /\ asset' = asset /\ scan' = scan
          /\ \A p \in Paths, l \in Kinds :
               IF l = k /\ p \in Takers(k) THEN vec'[p][l] # NoRow ELSE vec'[p][l] = vec[p][l]
      BY <2>2, ReuseIs DEF ReuseVectors
    <3>2. Active' = Active
      BY <3>1 DEF Active
    <3>3. ASSUME NEW p \in Paths, Outcome(p) PROVE Outcome(p)'
      <4>1. CASE disk[p].content \in Goods
        BY <1>0, <3>1, <3>3, <4>1, OutcomeStays
      <4>2. CASE run.mode = "fast"
        BY <1>0, <3>1, <3>2, <3>3, <4>2 DEF Outcome
      <4>3. CASE disk[p].content \notin Goods /\ run.mode # "fast"
        BY <3>3, <4>3, <3>1, SameVectors, <1>0, OutcomeStays DEF Outcome, Takers,
          Lacking, NoError, TypeInv, VecOK
      <4> QED BY <4>1, <4>2, <4>3
    <3> QED BY <3>2, <3>3
  <2> QED BY <1>10, <2>1, <2>2 DEF VecStep
<1>11. CASE ImportStep
  <2>1. PICK q \in Paths, k \in Kinds, c \in Goods : ImportEmbedding(q, k, c)
    BY <1>11 DEF ImportStep
  <2>2. /\ asset' = asset /\ scan' = scan /\ NoError(q)
        /\ vec' = Upserted(vec, {<<q, k, c>>})
    BY <2>1 DEF ImportEmbedding
  <2>3. /\ Typed(vec')
        /\ \A p \in Paths \ {q}, l \in Kinds : vec'[p][l] = vec[p][l]
    <3>1. {<<q, k, c>>} \in SUBSET (Paths \X Kinds \X Goods)
      OBVIOUS
    <3>2. /\ Typed(Upserted(vec, {<<q, k, c>>}))
          /\ \A p \in Paths, l \in Kinds :
               IF \E t \in {<<q, k, c>>} : t[1] = p /\ t[2] = l
                 THEN Upserted(vec, {<<q, k, c>>})[p][l] # NoRow
                 ELSE Upserted(vec, {<<q, k, c>>})[p][l] = vec[p][l]
      BY <3>1, UpsertedIs DEF TypeInv, VecOK, Assumptions
    <3>3. Typed(vec')
      BY <2>2, <3>2
    <3>4. ASSUME NEW p \in Paths \ {q}, NEW l \in Kinds PROVE vec'[p][l] = vec[p][l]
      <4>1. ~\E t \in {<<q, k, c>>} : t[1] = p /\ t[2] = l
        OBVIOUS
      <4>2. Upserted(vec, {<<q, k, c>>})[p][l] = vec[p][l]
        BY <3>2, <4>1
      <4> QED BY <2>2, <4>2
    <3> QED BY <3>3, <3>4
  <2>4. Active' = Active
    BY <2>2 DEF Active
  <2>5. ASSUME NEW p \in Paths, Outcome(p) PROVE Outcome(p)'
    <3>1. CASE disk[p].content \in Goods
      BY <1>0, <2>2, <2>5, <3>1, OutcomeStays
    <3>2. CASE run.mode = "fast"
      BY <1>0, <2>2, <2>4, <2>5, <3>2 DEF Outcome
    <3>3. CASE disk[p].content \notin Goods /\ run.mode # "fast"
      <4>1. p # q
        BY <2>2, <2>5, <3>3 DEF Outcome, NoError
      <4>2. vec'[p] = vec[p]
        BY <2>3, <4>1, SameVectors DEF TypeInv, VecOK
      <4> QED BY <1>0, <2>2, <2>5, <4>2, OutcomeStays
    <3> QED BY <3>1, <3>2, <3>3
  <2> QED BY <2>4, <2>5
<1>12. CASE ViewStep
  BY <1>1, <1>12 DEF ViewStep, Regroup, AdvanceGeneration, DropOverview, CloseRun
<1> QED BY <1>2, <1>3, <1>4, <1>5, <1>6, <1>7, <1>8, <1>9, <1>10, <1>11, <1>12 DEF BuildSteps

\* Which directories a scan could not read is known until the next one.
LEMMA UnreadKept ==
  ASSUME Assumptions, TypeInv, BuildSteps, ~BeginStep, ScanDone, ScanDone'
  PROVE  scan.unread \ Active \subseteq scan'.unread
<1>0. run \in Runs /\ scan \in ScanStages /\ run.pc # "scan"
  BY DEF TypeInv, RunOK, ScanOK, ScanDone, Idle, EmbedPcs
<1>1. CASE EditStep
  BY <1>1, <1>0 DEF EditStep, EditFile
<1>3. CASE StopStep
  BY <1>3, <1>0 DEF StopStep, EndRun, Unwound, Killed, NoScan, NoRun, ScanDone
<1>4. CASE HandStep
  BY <1>4 DEF HandStep, QueryBacklog, Submit, EnqueueBatch, WriterDies, JoinBatch, PrepareDies,
              PrepareAsset, Beside
<1>5. CASE TurnStep
  BY <1>5 DEF TurnStep
<1>6. CASE TakeSnapshot
  BY <1>6 DEF TakeSnapshot, Beside
<1>7. CASE WalkStep
  BY <1>7, <1>0 DEF WalkStep, Visit, SkipUnreadable, Meet, Walking, ReadFile, WorkerDies, EndWalk,
                    ResultsMissing, ScanStages
<1>8. CASE AssetStep
  BY <1>8, <1>0 DEF AssetStep, VisitGone, VisitFast, Meet, Walking, TakeResult, FlushLast,
                    MarkMissingStale, RecordPrepareError, SingleFails, Flush, ScanStages, Beside
<1>9. CASE WriteStep
  BY <1>9 DEF WriteStep, FlushBatch, WriterStep, SingleOk, Beside
<1>10. CASE VecStep
  BY <1>10, <1>0 DEF VecStep, DropFeatures, ReuseVectors, ScanStages, Beside
<1>11. CASE ImportStep
  BY <1>11 DEF ImportStep, ImportEmbedding, Beside
<1>12. CASE ViewStep
  BY <1>12 DEF ViewStep, Regroup, AdvanceGeneration, DropOverview, CloseRun, Beside
<1> QED BY <1>1, <1>3, <1>4, <1>5, <1>6, <1>7, <1>8, <1>9, <1>10, <1>11, <1>12 DEF BuildSteps

\* A calm scan that is done leaves what it could read.
LEMMA ExactKept ==
  ASSUME Assumptions, TypeInv, HandInv, MetInv, ErringWhen, ScanInv, BuildSteps
  PROVE  ExactInv'
<1> SUFFICES ASSUME ScanDone'
             PROVE  /\ Active' \subseteq Present' /\ Present' \ scan'.unread \subseteq Active'
                    /\ \A p \in Active' : Outcome(p)'
  BY DEF ExactInv
<1>1. CASE BeginStep
  BY <1>1 DEF BeginStep, BeginRun, NoRun, ScanDone, Idle, EmbedPcs
<1>2. CASE ~BeginStep
  <2>0. /\ run.calm /\ disk' = disk /\ run'.mode = run.mode
        /\ Present' = Present
    BY <1>2, CalmFrom DEF ScanDone, Present
  <2>1. CASE MarkMissingStale
    <3>1. /\ run.pc = "stale" /\ vec' = vec /\ scan' = scan
          /\ asset' = [p \in Paths |-> IF p \in Missing THEN [asset[p] EXCEPT !.stale = TRUE]
                                       ELSE asset[p]]
      BY <2>1 DEF MarkMissingStale
    <3>2. scan.seen \subseteq Present /\ Present \ scan.unread \subseteq scan.seen
      BY <2>0, <3>1 DEF MetInv, ToMeet, ScanInv, CalmInv, WalkCalm, ScanPcs
    <3>3. \A p \in scan.seen : Outcome(p)
      BY <2>0, <3>1 DEF ScanInv, Accounted, Flushed, InScan
    <3>4. \A p \in scan.seen : p \in Paths /\ p \in Active /\ asset'[p] = asset[p]
      BY <3>1, <3>2, <3>3 DEF Outcome, Missing, Present
    <3>5. ASSUME NEW p \in Paths, p \notin scan.seen PROVE p \notin Active'
      <4>1. CASE p \in Active
        BY <3>1, <3>5, <4>1 DEF Missing, Active, TypeInv, AssetOK, Rows
      <4>2. CASE p \notin Active
        <5>1. asset'[p] = asset[p]
          BY <3>1, <4>2 DEF Missing
        <5> QED BY <4>2, <5>1 DEF Active
      <4> QED BY <4>1, <4>2
    <3>6. Active' = scan.seen
      BY <3>4, <3>5 DEF Active
    <3>7. \A p \in scan.seen : Outcome(p)'
      BY <2>0, <3>1, <3>3, <3>4, OutcomeStays
    <3> QED BY <2>0, <3>1, <3>2, <3>6, <3>7
  <2>2. CASE ~MarkMissingStale
    <3>1. ScanDone
      BY <1>2, <2>2, DoneScan
    <3>2. Active' = Active /\ \A p \in Paths : Outcome(p) => Outcome(p)'
      BY <1>2, <2>2, <3>1, OutcomesKept DEF ScanInv, CalmInv
    <3>3. scan.unread \ Active \subseteq scan'.unread
      BY <1>2, <3>1, UnreadKept
    <3> QED BY <2>0, <3>1, <3>2, <3>3 DEF ScanInv, ExactInv, Active
  <2> QED BY <2>1, <2>2
<1> QED BY <1>1, <1>2

\* What scans owe, after every step.
LEMMA ScanInvStep ==
  ASSUME Assumptions, TypeInv, HandInv, MetInv, ErringWhen, ScanInv, BuildSteps
  PROVE  ScanInv'
BY HonestKept, CalmKept, AccountedKept, FlushedKept, ExactKept DEF ScanInv

LEMMA ScanInvInit ==
  ASSUME Assumptions, BuildInit
  PROVE  ScanInv
<1>1. /\ run = NoRun /\ scan = NoScan /\ emb = NoEmbed
      /\ asset = [p \in Paths |-> NoRow]
      /\ edits = 0 /\ \A p \in Paths : disk[p].stamp = 0
  BY DEF BuildInit, ScanInit
<1>2. HonestInv
  BY <1>1 DEF NoScan, NoEmbed, HonestInv, DiskDated, RowsHonest, ScanHonest, HandHonest,
     HandJob, HandItem
<1>3. CalmInv /\ Accounted /\ Flushed /\ ExactInv
  BY <1>1 DEF NoRun, CalmInv, WalkCalm, ReadCalm, HandCalm, Accounted, Flushed, ExactInv,
     ScanDone
<1> QED BY <1>2, <1>3 DEF ScanInv

\* Neither stage leaves out a file: what build_index leaves when it was not cut
\* short is what the walk found (mark_missing_stale, write_asset_row,
\* record_path_error) and, for every kind, a vector of each file without an
\* error (pending_embedding_paths, write_embedding_batch).
THEOREM NothingIsLeftOut == BuildSpec => []NothingLeftOut
<1> DEFINE Inv == TypeInv /\ HandInv /\ MetInv /\ EmbedInv /\ ScanInv
<1>1. BuildInit => Inv
  <2> SUFFICES ASSUME BuildInit PROVE Inv
    OBVIOUS
  <2>1. MetInv
    BY DEF BuildInit, NoRun, MetInv
  <2> QED BY <2>1, Assumed, TypeInit, EmbedInit, ScanInvInit
<1>2. Inv /\ [BuildNext]_buildVars => Inv'
  <2> SUFFICES ASSUME Inv, [BuildNext]_buildVars PROVE Inv'
    OBVIOUS
  <2>1. CASE BuildNext
    BY <2>1, Assumed, StepsOfBuild, TypeNext, MetKept, EmbedStep, ScanInvStep DEF
      TypeInv, EmbedInv
  <2>2. CASE UNCHANGED buildVars
    <3>1. TypeInv' /\ HandInv'
      BY <2>2, TypeNext
    <3>2. /\ disk' = disk /\ edits' = edits /\ asset' = asset /\ vec' = vec /\ run' = run
          /\ scan' = scan /\ emb' = emb
      BY <2>2 DEF buildVars, scanVars, manifest
    <3>3. MetInv'
      BY <3>2 DEF MetInv, ToMeet
    <3>4. EmbedInv'
      BY <3>2 DEF EmbedInv, Steps, HandEmpty, ErringWhen, ErringRows, OnePlace, QueueApart,
         BatchesApart, BacklogApart, Queued, Upstream, InBatch, InBacklog, InItems, Tracked,
         Complete, LacksAny, Lacking, NoError, Active, Embedded, EmbeddingDone, Idle
    <3>5. ScanInv'
      BY <3>2 DEF ScanInv, HonestInv, DiskDated, RowsHonest, ScanHonest, HandHonest, Honest,
         HandJob, HandItem, HandError, EmbedJobs, EmbedItems, CalmInv, WalkCalm, ReadCalm, HandCalm,
         Accounted, Outcome, InScan, Flushed, ExactInv, ScanDone, Active, Present, Idle
    <3> QED BY <3>1, <3>3, <3>4, <3>5
  <2> QED BY <2>1, <2>2
<1>3. Inv => NothingLeftOut
  <2> SUFFICES ASSUME Inv PROVE NothingLeftOut
    OBVIOUS
  <2>1. Idle => scan.erring = {}
    BY DEF EmbedInv, ErringWhen, Idle
  <2>2. ScannedExactly
    <3>1. WholeScan => ScanDone
      BY DEF WholeScan, ScanDone, Idle
    <3> QED BY <2>1, <3>1 DEF ScannedExactly, WholeScan, ScanInv, ExactInv, Outcome
  <2>3. EveryFileEmbedded
    BY DEF EveryFileEmbedded, EmbedInv, Embedded, EmbeddingDone, LacksAny, Lacking
  <2> QED BY <2>2, <2>3 DEF NothingLeftOut
<1> QED BY <1>1, <1>2, <1>3, PTL DEF BuildSpec
=============================================================================
