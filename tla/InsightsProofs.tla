--------------------------- MODULE InsightsProofs ---------------------------
(***************************************************************************)
(* Proofs about two parts of image_insights.rs.                            *)
(*                                                                         *)
(* The migration of old message facts, for every set of occurrences, every *)
(* batch size, every interruption, and a linker that works while a build   *)
(* runs: a row is never copied twice, and the fact table is given up only  *)
(* when its facts are stored elsewhere.  When the linker only adds,        *)
(* between the builds, no occurrence is lost.                              *)
(*                                                                         *)
(* The cache of same images, for any number of callers, any images, any    *)
(* limits and a manifest that changes at any moment: its lists agree with  *)
(* each other, it keeps to its limits, no call waits for an answer that    *)
(* nobody will give, and a ranking that was not cancelled has a result for *)
(* each of its candidates.                                                 *)
(***************************************************************************)
EXTENDS LegacyMigration, SameImageCache, FiniteSetTheorems, FunctionTheorems, SequenceTheorems,
        WellFoundedInduction, TLAPS

----------------------------------------------------------------------------
(* The largest and the smallest of a set.                                  *)

LEMMA Largest ==
  ASSUME NEW B \in Nat, NEW S \in SUBSET (0 .. B), S # {}
  PROVE  Max(S) \in S /\ \A y \in S : Max(S) >= y
<1> DEFINE R == OpToRel(<, Nat)
           T == {B - x : x \in S}
<1>1. T \subseteq Nat /\ T # {}
  <2>1. \A x \in S : B - x \in Nat
    OBVIOUS
  <2>2. PICK x \in S : TRUE
    OBVIOUS
  <2>3. B - x \in T
    BY <2>2
  <2>4. QED
    BY <2>1, <2>3
<1>2. PICK x \in T : \A y \in T : <<y, x>> \notin R
  <2>1. IsWellFoundedOn(R, Nat)
    BY NatLessThanWellFounded
  <2> HIDE DEF R, T
  <2>2. QED
    BY <1>1, <2>1, WFMin
<1>3. \A y \in Nat, z \in Nat : y < z => <<y, z>> \in R
  BY DEF OpToRel
<1>4. PICK s \in S : x = B - s
  OBVIOUS
<1>5. \A y \in S : s >= y
  <2> SUFFICES ASSUME NEW y \in S, ~(s >= y) PROVE FALSE
    OBVIOUS
  <2>1. B - y \in T /\ B - y \in Nat /\ x \in Nat /\ B - y < x
    BY <1>4
  <2> HIDE DEF R, T
  <2>2. QED
    BY <1>2, <1>3, <2>1
<1>6. QED
  BY <1>5 DEF Max

LEMMA SmallerOfTwo ==
  ASSUME NEW a \in Nat, NEW b \in Nat
  PROVE  /\ Min({a, b}) \in {a, b} /\ Min({a, b}) <= a /\ Min({a, b}) <= b
<1>1. \E x \in {a, b} : \A y \in {a, b} : x =< y
  <2>1. CASE a <= b
    BY <2>1
  <2>2. CASE b <= a
    BY <2>2
  <2>3. QED
    BY <2>1, <2>2
<1>2. Min({a, b}) \in {a, b} /\ \A y \in {a, b} : Min({a, b}) =< y
  BY <1>1 DEF Min
<1>3. QED
  BY <1>2

LEMMA LastRowidIs ==
  ASSUME NEW rows \in SUBSET Row
  PROVE  /\ LastRowid(rows) \in 0 .. MaxRowid
         /\ \A row \in rows : row.rowid <= LastRowid(rows)
         /\ LastRowid(rows) = 0 \/ \E row \in rows : row.rowid = LastRowid(rows)
<1> DEFINE S == {row.rowid : row \in rows} \cup {0}
<1>1. MaxRowid \in Nat /\ S \in SUBSET (0 .. MaxRowid) /\ S # {}
  BY MigrationAssumption DEF Row
<1>2. Max(S) \in S /\ \A y \in S : Max(S) >= y
  <2> HIDE DEF S
  <2>1. QED
    BY <1>1, Largest
<1>3. LastRowid(rows) = Max(S)
  BY DEF LastRowid
<1>4. \A row \in rows : row.rowid \in S /\ row.rowid \in Nat
  BY DEF Row
<1>5. LastRowid(rows) \in S
  BY <1>2, <1>3
<1>6. \A row \in rows : row.rowid <= LastRowid(rows)
  <2>1. LastRowid(rows) \in Nat
    BY <1>1, <1>5
  <2>2. QED
    BY <1>2, <1>3, <1>4, <2>1
<1>7. QED
  BY <1>1, <1>5, <1>6

----------------------------------------------------------------------------
(* The rows of a table are finite and are copied in order, each once.      *)

LEMMA RowsFinite ==
  ASSUME NEW rows \in SUBSET Row, Distinct(rows)
  PROVE  IsFiniteSet(rows) /\ Cardinality(rows) \in Nat
<1> DEFINE f == [row \in rows |-> row.rowid]
<1>1. f \in Injection(rows, 1 .. MaxRowid)
  BY DEF Injection, IsInjective, Row, Distinct
<1>2. IsFiniteSet(1 .. MaxRowid)
  BY MigrationAssumption, FS_Interval
<1>3. IsFiniteSet(rows)
  BY <1>1, <1>2, FS_Injection
<1>4. QED
  BY <1>3, FS_CardinalityType

LEMMA PositionsOnce ==
  ASSUME NEW rows \in SUBSET Row, Distinct(rows)
  PROVE  /\ \A x \in rows : Position(x, rows) \in 1 .. Cardinality(rows)
         /\ \A x, y \in rows : Position(x, rows) = Position(y, rows) => x = y
         /\ \A i \in 1 .. Cardinality(rows) : \E x \in rows : Position(x, rows) = i
<1> DEFINE upto(x) == {other \in rows : other.rowid <= x.rowid}
<1>1. IsFiniteSet(rows) /\ Cardinality(rows) \in Nat
  BY RowsFinite
<1>2. \A x \in rows : /\ upto(x) \in SUBSET rows /\ x \in upto(x)
                      /\ IsFiniteSet(upto(x)) /\ Cardinality(upto(x)) \in Nat
                      /\ Cardinality(upto(x)) <= Cardinality(rows)
  <2> SUFFICES ASSUME NEW x \in rows
               PROVE  /\ upto(x) \in SUBSET rows /\ x \in upto(x)
                      /\ IsFiniteSet(upto(x)) /\ Cardinality(upto(x)) \in Nat
                      /\ Cardinality(upto(x)) <= Cardinality(rows)
    OBVIOUS
  <2>1. upto(x) \in SUBSET rows /\ x \in upto(x)
    BY DEF Row
  <2>2. QED
    BY <2>1, <1>1, FS_Subset, FS_CardinalityType
<1>3. \A x \in rows : Position(x, rows) = Cardinality(upto(x))
  BY DEF Position
<1>4. \A x \in rows : Position(x, rows) \in 1 .. Cardinality(rows)
  <2> SUFFICES ASSUME NEW x \in rows PROVE Cardinality(upto(x)) \in 1 .. Cardinality(rows)
    BY <1>3
  <2>1. Cardinality(upto(x)) # 0
    BY <1>2, FS_EmptySet
  <2>2. QED
    BY <1>1, <1>2, <2>1
<1>5. \A x, y \in rows : Position(x, rows) = Position(y, rows) => x = y
  <2> SUFFICES ASSUME NEW x \in rows, NEW y \in rows,
                      Cardinality(upto(x)) = Cardinality(upto(y))
               PROVE  x = y
    BY <1>3
  <2>1. \A a, b \in rows : a.rowid <= b.rowid => upto(a) \in SUBSET upto(b)
    BY DEF Row
  <2>2. upto(x) = upto(y)
    <3>1. CASE x.rowid <= y.rowid
      BY <2>1, <1>2, <3>1, FS_Subset
    <3>2. CASE y.rowid <= x.rowid
      BY <2>1, <1>2, <3>2, FS_Subset
    <3>3. QED
      BY <3>1, <3>2 DEF Row
  <2>3. x \in upto(y) /\ y \in upto(x)
    BY <1>2, <2>2
  <2>4. x.rowid = y.rowid
    BY <2>3 DEF Row
  <2>5. QED
    BY <2>4 DEF Distinct
<1>6. \A i \in 1 .. Cardinality(rows) : \E x \in rows : Position(x, rows) = i
  <2> DEFINE f == [x \in rows |-> Position(x, rows)]
  <2>1. f \in Injection(rows, 1 .. Cardinality(rows))
    BY <1>4, <1>5 DEF Injection, IsInjective
  <2>2. /\ IsFiniteSet(1 .. Cardinality(rows))
        /\ Cardinality(1 .. Cardinality(rows)) = Cardinality(rows)
    BY <1>1, FS_Interval
  <2>3. f \in Surjection(rows, 1 .. Cardinality(rows))
    BY <2>1, <2>2, FS_Injection
  <2>4. QED
    BY <2>3 DEF Surjection
<1>7. QED
  BY <1>4, <1>5, <1>6

\* What a copy of a table in rowid order holds.
LEMMA InOrderIs ==
  ASSUME NEW rows \in SUBSET Row, Distinct(rows)
  PROVE  /\ InOrder(rows) \in Seq(StagedRow)
         /\ \A i \in DOMAIN InOrder(rows) : \E row \in rows :
              InOrder(rows)[i].key = row.key /\ InOrder(rows)[i].facts = row.facts
         /\ \A row \in rows : \E i \in DOMAIN InOrder(rows) : InOrder(rows)[i].key = row.key
         /\ \A i, j \in DOMAIN InOrder(rows) :
              InOrder(rows)[i].key = InOrder(rows)[j].key => i = j
<1> DEFINE n == Cardinality(rows)
           at(i) == CHOOSE row \in rows : Position(row, rows) = i
           q == InOrder(rows)
<1>1. n \in Nat
  BY RowsFinite
<1>2. \A i \in 1 .. n : at(i) \in rows /\ Position(at(i), rows) = i
  BY PositionsOnce
<1>3. /\ DOMAIN q = 1 .. n
      /\ \A i \in 1 .. n : q[i] = [key |-> at(i).key, facts |-> at(i).facts]
  BY DEF InOrder
<1>4. q \in Seq(StagedRow)
  <2>1. \A i \in 1 .. n : [key |-> at(i).key, facts |-> at(i).facts] \in StagedRow
    BY <1>2 DEF Row, StagedRow
  <2>2. q \in [1 .. n -> StagedRow]
    BY <2>1 DEF InOrder
  <2> HIDE DEF q, n
  <2>3. QED
    BY <1>1, <2>2
<1>5. \A i \in 1 .. n : q[i].key = at(i).key /\ q[i].facts = at(i).facts
  BY <1>3
<1>6. \A row \in rows : Position(row, rows) \in 1 .. n /\ at(Position(row, rows)) = row
  BY <1>2, PositionsOnce
<1>7. \A i, j \in 1 .. n : q[i].key = q[j].key => i = j
  <2> SUFFICES ASSUME NEW i \in 1 .. n, NEW j \in 1 .. n, q[i].key = q[j].key
               PROVE  i = j
    OBVIOUS
  <2>1. at(i) = at(j)
    BY <1>2, <1>5 DEF Distinct
  <2>2. QED
    BY <1>2, <2>1
<1> HIDE DEF q, at, n
<1>8. \A row \in rows : \E i \in 1 .. n : q[i].key = row.key
  BY <1>5, <1>6
<1>9. \A i \in 1 .. n : \E row \in rows : q[i].key = row.key /\ q[i].facts = row.facts
  BY <1>2, <1>5
<1>10. QED
  BY <1>3, <1>4, <1>7, <1>8, <1>9 DEF q

LEMMA SubsetDistinct ==
  ASSUME NEW rows, Distinct(rows), NEW some \in SUBSET rows
  PROVE  Distinct(some)
BY DEF Distinct

LEMMA Appended ==
  ASSUME NEW s \in Seq(StagedRow), NEW q \in Seq(StagedRow),
         \A i, j \in DOMAIN s : s[i].key = s[j].key => i = j,
         \A i, j \in DOMAIN q : q[i].key = q[j].key => i = j,
         \A i \in DOMAIN s, j \in DOMAIN q : s[i].key # q[j].key
  PROVE  /\ s \o q \in Seq(StagedRow)
         /\ \A i \in DOMAIN s : \E k \in DOMAIN (s \o q) : (s \o q)[k] = s[i]
         /\ \A i \in DOMAIN q : \E k \in DOMAIN (s \o q) : (s \o q)[k] = q[i]
         /\ \A k \in DOMAIN (s \o q) : \/ \E i \in DOMAIN s : (s \o q)[k] = s[i]
                                       \/ \E i \in DOMAIN q : (s \o q)[k] = q[i]
         /\ \A i, j \in DOMAIN (s \o q) : (s \o q)[i].key = (s \o q)[j].key => i = j
<1> DEFINE m == Len(s)
           n == Len(q)
           c == s \o q
<1>1. /\ m \in Nat /\ n \in Nat /\ DOMAIN s = 1 .. m /\ DOMAIN q = 1 .. n
      /\ c \in Seq(StagedRow) /\ DOMAIN c = 1 .. (m + n)
      /\ \A k \in 1 .. (m + n) : c[k] = IF k <= m THEN s[k] ELSE q[k - m]
  OBVIOUS
<1> HIDE DEF m, n, c
<1>2. \A k \in 1 .. (m + n) : \/ k \in 1 .. m /\ c[k] = s[k]
                              \/ k - m \in 1 .. n /\ c[k] = q[k - m]
  BY <1>1
<1>3. \A i \in 1 .. m : i \in 1 .. (m + n) /\ c[i] = s[i]
  BY <1>1
<1>4. \A i \in 1 .. n : i + m \in 1 .. (m + n) /\ c[i + m] = q[i]
  BY <1>1
<1>5. \A i, j \in 1 .. (m + n) : c[i].key = c[j].key => i = j
  <2> SUFFICES ASSUME NEW i \in 1 .. (m + n), NEW j \in 1 .. (m + n), c[i].key = c[j].key
               PROVE  i = j
    OBVIOUS
  <2>1. CASE i \in 1 .. m /\ c[i] = s[i] /\ j \in 1 .. m /\ c[j] = s[j]
    BY <2>1, <1>1
  <2>2. CASE i \in 1 .. m /\ c[i] = s[i] /\ j - m \in 1 .. n /\ c[j] = q[j - m]
    BY <2>2, <1>1
  <2>3. CASE i - m \in 1 .. n /\ c[i] = q[i - m] /\ j \in 1 .. m /\ c[j] = s[j]
    BY <2>3, <1>1
  <2>4. CASE i - m \in 1 .. n /\ c[i] = q[i - m] /\ j - m \in 1 .. n /\ c[j] = q[j - m]
    <3>1. i - m = j - m
      BY <2>4, <1>1
    <3>2. QED
      BY <3>1, <1>1
  <2>5. QED
    BY <1>2, <2>1, <2>2, <2>3, <2>4
<1>6. /\ \A i \in 1 .. m : \E k \in 1 .. (m + n) : c[k] = s[i]
      /\ \A i \in 1 .. n : \E k \in 1 .. (m + n) : c[k] = q[i]
  BY <1>3, <1>4
<1>7. \A k \in 1 .. (m + n) : \/ \E i \in 1 .. m : c[k] = s[i]
                              \/ \E i \in 1 .. n : c[k] = q[i]
  BY <1>2
<1>8. QED
  BY <1>1, <1>5, <1>6, <1>7 DEF c

----------------------------------------------------------------------------
(* The invariant.                                                          *)

\* The columns the invariant speaks of, one fact each.
LEMMA MigrationTypes ==
  ASSUME MigrationTypeOK
  PROVE  /\ occ \in SUBSET Row /\ (legacy # Missing => legacy \in SUBSET Row)
         /\ mg.pc \in MigrationPcs /\ mg.last \in Nat /\ mg.max \in Nat
         /\ mg.last \in 0 .. MaxRowid /\ mg.max \in 0 .. MaxRowid
         /\ (progress # Missing => progress \in Progress /\ progress.last \in Nat)
         /\ MaxRowid \in Nat
BY MigrationAssumption DEF MigrationTypeOK, Migration, Progress

\* What the build knows depends on the tables only as far as named here.
LEMMA KnowsKept ==
  ASSUME UNCHANGED <<occ, legacy, staging, progress>>
  PROVE  /\ MissingUsefulFacts' = MissingUsefulFacts
         /\ StagedSound' = StagedSound
         /\ legacy' # Missing => LastRowid(legacy)' = LastRowid(legacy)
BY DEF MissingUsefulFacts, StagedSound, CopiedRows, StagedKeys, KeysOf, LastRowid

\* The tables of the migration stay; what the build knows changes.
LEMMA TablesStay ==
  ASSUME MigrationInv, UNCHANGED <<occ, legacy, staging, progress>>,
         superseded' \in BOOLEAN, ready' \in BOOLEAN, mg' \in Migration,
         MigrationKnows'
  PROVE  MigrationInv'
BY KnowsKept DEF MigrationInv, MigrationTypeOK, LastRowid, Distinct

LEMMA GotoIs ==
  ASSUME mg \in Migration, NEW pc \in MigrationPcs, mg' = [mg EXCEPT !.pc = pc]
  PROVE  mg' \in Migration /\ mg'.pc = pc /\ mg'.last = mg.last /\ mg'.max = mg.max
         /\ mg'.grown = mg.grown /\ mg'.cancel = mg.cancel
BY DEF Migration

LEMMA IdleIs == MigrationIdle \in Migration /\ MigrationIdle.pc = "idle"
BY MigrationAssumption DEF MigrationIdle, Migration, MigrationPcs

LEMMA BackToIdle ==
  ASSUME MigrationInv, UNCHANGED <<occ, legacy, staging, progress>>,
         superseded' \in BOOLEAN, ready' \in BOOLEAN, mg' = MigrationIdle
  PROVE  MigrationInv'
BY IdleIs, TablesStay DEF MigrationKnows, AfterCopy

LEMMA StartStep == MigrationInv /\ StartMigration => MigrationInv'
<1> SUFFICES ASSUME MigrationInv, StartMigration PROVE MigrationInv'
  OBVIOUS
<1>1. /\ UNCHANGED <<occ, legacy, staging, superseded, progress, ready>> /\ legacy # Missing
      /\ mg'.pc \in {"redundant", "mark"} /\ mg' \in Migration
  <2>1. PICK pc \in {"redundant", "mark"} : mg' = [MigrationIdle EXCEPT !.pc = pc]
    BY DEF StartMigration
  <2>2. [MigrationIdle EXCEPT !.pc = pc] \in Migration
    BY IdleIs DEF Migration, MigrationPcs
  <2>3. mg'.pc = pc
    BY <2>1, IdleIs DEF Migration
  <2>4. QED
    BY <2>1, <2>2, <2>3 DEF StartMigration, tables
<1>2. MigrationKnows'
  BY <1>1 DEF MigrationKnows, AfterCopy
<1>3. superseded' \in BOOLEAN /\ ready' \in BOOLEAN
  BY <1>1 DEF MigrationInv, MigrationTypeOK
<1>4. QED
  BY <1>1, <1>2, <1>3, TablesStay

LEMMA GotoStep ==
  ASSUME MigrationInv, NEW pc \in MigrationPcs, mg' = [mg EXCEPT !.pc = pc],
         UNCHANGED <<occ, legacy, staging, progress>>,
         superseded' \in BOOLEAN, ready' \in BOOLEAN,
         legacy # Missing,
         pc = "drop" => ~MissingUsefulFacts,
         pc \notin {"create", "copy", "analyse"},
         pc \in AfterCopy => mg.pc \in AfterCopy \/ (mg.pc = "copy" /\ mg.last >= mg.max)
  PROVE  MigrationInv'
BY GotoIs, KnowsKept, TablesStay DEF MigrationInv, MigrationTypeOK, MigrationKnows

----------------------------------------------------------------------------
(* The steps of the copy.                                                  *)

LEMMA ReadProgressStep == MigrationInv /\ ReadProgress => MigrationInv'
<1> SUFFICES ASSUME MigrationInv, ReadProgress PROVE MigrationInv'
  OBVIOUS
<1> DEFINE max == LastRowid(legacy)
           last == IF CanResume THEN Min({progress.last, max}) ELSE 0
<1>1. /\ mg.pc = "resume" /\ UNCHANGED <<occ, legacy, staging, superseded, progress, ready>>
      /\ mg' = [mg EXCEPT !.pc = IF last = 0 THEN "create" ELSE "copy",
                          !.max = max, !.last = last]
  BY DEF ReadProgress, tables
<1>2. MigrationTypeOK /\ MigrationKnows /\ (staging # Missing => StagedSound)
  BY DEF MigrationInv
<1>3. legacy # Missing /\ legacy \in SUBSET Row
  BY <1>1, <1>2, MigrationTypes DEF MigrationKnows
<1>4. max \in 0 .. MaxRowid /\ max \in Nat
  BY <1>3, LastRowidIs, MigrationAssumption
<1>5. CanResume => /\ last = progress.last /\ progress # Missing
                   /\ staging \in Seq(StagedRow) /\ StagedSound
  <2> SUFFICES ASSUME CanResume PROVE /\ last = progress.last /\ progress # Missing
                                      /\ staging \in Seq(StagedRow) /\ StagedSound
    OBVIOUS
  <2>1. progress # Missing /\ staging # Missing
    BY DEF CanResume
  <2>2. progress.last \in Nat /\ progress.last <= max
    BY <1>2, <1>3, <2>1, MigrationTypes DEF MigrationTypeOK
  <2>3. last = progress.last
    BY <1>4, <2>2, SmallerOfTwo
  <2>4. QED
    BY <1>2, <2>1, <2>3 DEF MigrationTypeOK
<1>6. last \in 0 .. MaxRowid
  <2>1. CASE CanResume
    BY <1>2, <1>3, <1>5, <2>1, MigrationTypes, <1>4, MigrationAssumption DEF
      MigrationTypeOK
  <2>2. CASE ~CanResume
    BY <2>2, MigrationAssumption
  <2>3. QED
    BY <2>1, <2>2
<1> HIDE DEF max, last
<1>7. /\ mg' \in Migration /\ mg'.pc = (IF last = 0 THEN "create" ELSE "copy")
      /\ mg'.max = max /\ mg'.last = last
  BY <1>1, <1>2, <1>4, <1>6 DEF MigrationTypeOK, Migration, MigrationPcs
<1>8. last # 0 => CanResume
  BY DEF last
<1>9. MigrationKnows'
  BY <1>1, KnowsKept, <1>3, <1>5, <1>7, <1>8 DEF max, MigrationKnows, AfterCopy
<1>10. superseded' \in BOOLEAN /\ ready' \in BOOLEAN
  BY <1>1, <1>2 DEF MigrationTypeOK
<1>11. QED
  BY <1>1, <1>7, <1>9, <1>10, TablesStay

LEMMA CreateStep == MigrationInv /\ CreateStaging => MigrationInv'
<1> SUFFICES ASSUME MigrationInv, CreateStaging PROVE MigrationInv'
  OBVIOUS
<1>1. /\ mg.pc = "create" /\ staging' = <<>> /\ mg' = [mg EXCEPT !.pc = "copy"]
      /\ progress' = [v4 |-> TRUE, last |-> 0, completed |-> FALSE]
      /\ UNCHANGED <<occ, legacy, superseded, ready>>
  BY DEF CreateStaging, Goto
<1>2. MigrationTypeOK /\ MigrationKnows
  BY DEF MigrationInv
<1>3. /\ legacy # Missing /\ legacy \in SUBSET Row /\ mg.max = LastRowid(legacy) /\ mg.last = 0
  BY <1>1, <1>2, MigrationTypes DEF MigrationKnows
<1>4. /\ progress' \in Progress /\ progress' # Missing /\ progress'.last = 0 /\ progress'.v4
  <2>1. progress' \in Progress
    BY <1>1, MigrationAssumption DEF Progress
  <2>2. QED
    BY <1>1, <2>1, MissingAssumption
<1>5. mg' \in Migration /\ mg'.pc = "copy" /\ mg'.last = mg.last /\ mg'.max = mg.max
  BY <1>1, <1>2, GotoIs DEF MigrationTypeOK, MigrationPcs
<1>6. LastRowid(legacy) \in Nat
  BY <1>3, LastRowidIs
<1>7. StagedSound' /\ staging' \in Seq(StagedRow)
  BY <1>1, <1>3, <1>4 DEF CopiedRows, Row, StagedKeys, KeysOf, StagedSound
<1>8. MigrationTypeOK'
  BY <1>1, <1>2, <1>3, <1>4, <1>5, <1>6, <1>7 DEF MigrationTypeOK
<1>9. MigrationKnows'
  BY <1>1, <1>3, <1>4, <1>5, <1>7 DEF MigrationKnows, AfterCopy
<1>10. QED
  BY <1>1, <1>7, <1>8, <1>9 DEF MigrationInv, Distinct

\* What is staged, one row at a time.
LEMMA StagedPointwise ==
  /\ StagedSound =>
       \A i, j \in DOMAIN staging : staging[i].key = staging[j].key => i = j
  /\ StagedSound /\ legacy # Missing =>
       /\ progress # Missing /\ progress.v4
       /\ \A row \in legacy : row.rowid <= progress.last =>
            \E i \in DOMAIN staging : staging[i].key = row.key
       /\ progress.last < LastRowid(legacy) => \A i \in DOMAIN staging :
            \E row \in legacy : row.rowid <= progress.last /\ staging[i].key = row.key
       /\ \A i \in DOMAIN staging, row \in legacy :
            staging[i].key = row.key => staging[i].facts # "none"
BY DEF StagedSound, CopiedRows, KeysOf, StagedKeys

LEMMA PointwiseStaged ==
  ASSUME \A i, j \in DOMAIN staging' : staging'[i].key = staging'[j].key => i = j,
         legacy' # Missing =>
           /\ progress' # Missing /\ progress'.v4
           /\ \A row \in legacy' : row.rowid <= progress'.last =>
                \E i \in DOMAIN staging' : staging'[i].key = row.key
           /\ progress'.last < LastRowid(legacy') => \A i \in DOMAIN staging' :
                \E row \in legacy' : row.rowid <= progress'.last /\ staging'[i].key = row.key
           /\ \A i \in DOMAIN staging', row \in legacy' :
                staging'[i].key = row.key => staging'[i].facts # "none"
  PROVE  StagedSound'
BY DEF StagedSound, CopiedRows, KeysOf, StagedKeys

LEMMA CopyStep == MigrationInv /\ CopyRows => MigrationInv'
<1> SUFFICES ASSUME MigrationInv, CopyRows PROVE MigrationInv'
  OBVIOUS
<1> DEFINE end == Min({mg.last + CopyBatch, mg.max})
           rows == {row \in legacy : row.rowid > mg.last /\ row.rowid <= end}
           q == InOrder(rows)
<1>1. /\ mg.pc = "copy" /\ mg.last < mg.max
      /\ staging' = staging \o q
      /\ progress' = [v4 |-> TRUE, last |-> end, completed |-> end >= mg.max]
      /\ mg' = [mg EXCEPT !.last = end]
      /\ UNCHANGED <<occ, legacy, superseded, ready>>
  BY DEF CopyRows, Copied, CheckpointAt
<1>2. /\ MigrationTypeOK /\ MigrationKnows /\ Distinct(occ)
      /\ (legacy # Missing => Distinct(legacy) /\ \A row \in legacy : row.facts # "none")
  BY DEF MigrationInv
<1>3. /\ legacy # Missing /\ legacy \in SUBSET Row /\ mg.max = LastRowid(legacy)
      /\ staging \in Seq(StagedRow) /\ StagedSound
      /\ progress # Missing /\ mg.last = progress.last
  BY <1>1, <1>2, MigrationTypes DEF MigrationKnows
<1>4. end \in Nat /\ end > mg.last /\ end <= mg.max /\ end \in 0 .. MaxRowid
  <2>1. mg.last \in Nat /\ mg.max \in Nat /\ mg.max \in 0 .. MaxRowid /\ MaxRowid \in Nat
    BY <1>2, MigrationTypes
  <2>2. CopyBatch \in Nat /\ CopyBatch > 0
    BY MigrationAssumption
  <2>3. /\ end \in {mg.last + CopyBatch, mg.max} /\ end <= mg.max
    BY <2>1, <2>2, SmallerOfTwo
  <2>4. QED
    BY <1>1, <2>1, <2>2, <2>3
<1>5. rows \in SUBSET legacy /\ rows \in SUBSET Row /\ Distinct(rows) /\ Distinct(legacy)
  BY <1>2, <1>3, SubsetDistinct
<1> HIDE DEF end
<1>6. /\ q \in Seq(StagedRow)
      /\ \A i \in DOMAIN q : \E row \in rows : q[i].key = row.key /\ q[i].facts = row.facts
      /\ \A row \in rows : \E i \in DOMAIN q : q[i].key = row.key
      /\ \A i, j \in DOMAIN q : q[i].key = q[j].key => i = j
  BY <1>5, InOrderIs
<1>7. /\ \A i, j \in DOMAIN staging : staging[i].key = staging[j].key => i = j
      /\ \A row \in legacy : row.rowid <= mg.last =>
           \E i \in DOMAIN staging : staging[i].key = row.key
      /\ \A i \in DOMAIN staging :
           \E row \in legacy : row.rowid <= mg.last /\ staging[i].key = row.key
      /\ \A i \in DOMAIN staging, row \in legacy :
           staging[i].key = row.key => staging[i].facts # "none"
  BY <1>1, <1>3, StagedPointwise
<1>8. \A row \in legacy : row.rowid \in Nat
  BY <1>3 DEF Row
<1>9. \A i \in DOMAIN staging, j \in DOMAIN q : staging[i].key # q[j].key
  <2> SUFFICES ASSUME NEW i \in DOMAIN staging, NEW j \in DOMAIN q, staging[i].key = q[j].key
               PROVE  FALSE
    OBVIOUS
  <2>1. PICK a \in legacy : a.rowid <= mg.last /\ staging[i].key = a.key
    BY <1>7
  <2>2. PICK b \in rows : q[j].key = b.key
    BY <1>6
  <2>3. a = b
    BY <1>5, <2>1, <2>2 DEF Distinct
  <2>4. b.rowid > mg.last /\ b.rowid \in Nat /\ mg.last \in Nat
    BY <1>2, <1>8, <2>2, MigrationTypes
  <2>5. QED
    BY <2>1, <2>3, <2>4
<1>10. \A row \in legacy : row.rowid <= end <=> row.rowid <= mg.last \/ row \in rows
  <2>1. mg.last \in Nat
    BY <1>2, MigrationTypes
  <2>2. QED
    BY <1>4, <1>8, <2>1
<1>11. \A row \in rows : row \in legacy /\ row.facts # "none"
  BY <1>2, <1>3
<1> HIDE DEF q, rows
<1>12. /\ staging' \in Seq(StagedRow)
       /\ \A i \in DOMAIN staging : \E k \in DOMAIN staging' : staging'[k] = staging[i]
       /\ \A i \in DOMAIN q : \E k \in DOMAIN staging' : staging'[k] = q[i]
       /\ \A k \in DOMAIN staging' : \/ \E i \in DOMAIN staging : staging'[k] = staging[i]
                                     \/ \E i \in DOMAIN q : staging'[k] = q[i]
       /\ \A i, j \in DOMAIN staging' : staging'[i].key = staging'[j].key => i = j
  <2>1. staging \in Seq(StagedRow) /\ q \in Seq(StagedRow) /\ staging' = staging \o q
    BY <1>1, <1>3, <1>6
  <2>2. /\ \A i, j \in DOMAIN staging : staging[i].key = staging[j].key => i = j
        /\ \A i, j \in DOMAIN q : q[i].key = q[j].key => i = j
    BY <1>6, <1>7
  <2> DEFINE c == staging \o q
  <2>3. /\ c \in Seq(StagedRow)
        /\ \A i \in DOMAIN staging : \E k \in DOMAIN c : c[k] = staging[i]
        /\ \A i \in DOMAIN q : \E k \in DOMAIN c : c[k] = q[i]
        /\ \A k \in DOMAIN c : \/ \E i \in DOMAIN staging : c[k] = staging[i]
                              \/ \E i \in DOMAIN q : c[k] = q[i]
        /\ \A i, j \in DOMAIN c : c[i].key = c[j].key => i = j
    BY <2>1, <2>2, <1>9, Appended
  <2>4. QED
    BY <2>1, <2>3
<1>13. /\ progress' \in Progress /\ progress' # Missing /\ progress'.last = end
       /\ progress'.v4 = TRUE
  <2>1. progress' \in Progress
    BY <1>1, <1>4 DEF Progress
  <2>2. QED
    BY <1>1, <2>1, MissingAssumption
<1>14. StagedSound'
  <2>1. \A row \in legacy : row.rowid <= end =>
          \E k \in DOMAIN staging' : staging'[k].key = row.key
    <3> SUFFICES ASSUME NEW row \in legacy, row.rowid <= end
                 PROVE  \E k \in DOMAIN staging' : staging'[k].key = row.key
      OBVIOUS
    <3>1. CASE row.rowid <= mg.last
      BY <3>1, <1>7, <1>12
    <3>2. CASE row \in rows
      BY <3>2, <1>6, <1>12
    <3>3. QED
      BY <1>10, <3>1, <3>2
  <2>2. \A k \in DOMAIN staging' : \E row \in legacy :
          row.rowid <= end /\ staging'[k].key = row.key
    <3> SUFFICES ASSUME NEW k \in DOMAIN staging'
                 PROVE  \E row \in legacy : row.rowid <= end /\ staging'[k].key = row.key
      OBVIOUS
    <3>1. CASE \E i \in DOMAIN staging : staging'[k] = staging[i]
      BY <3>1, <1>7, <1>10
    <3>2. CASE \E i \in DOMAIN q : staging'[k] = q[i]
      BY <3>2, <1>6, <1>10, <1>11
    <3>3. QED
      BY <1>12, <3>1, <3>2
  <2>3. \A k \in DOMAIN staging', row \in legacy :
          staging'[k].key = row.key => staging'[k].facts # "none"
    <3> SUFFICES ASSUME NEW k \in DOMAIN staging', NEW row \in legacy, staging'[k].key = row.key
                 PROVE  staging'[k].facts # "none"
      OBVIOUS
    <3>1. CASE \E i \in DOMAIN staging : staging'[k] = staging[i]
      BY <3>1, <1>7
    <3>2. CASE \E i \in DOMAIN q : staging'[k] = q[i]
      BY <3>2, <1>6, <1>11
    <3>3. QED
      BY <1>12, <3>1, <3>2
  <2>4. legacy' = legacy /\ progress'.last = end
    BY <1>1, <1>13
  <2>5. /\ progress' # Missing /\ progress'.v4
        /\ \A row \in legacy' : row.rowid <= progress'.last =>
             \E i \in DOMAIN staging' : staging'[i].key = row.key
        /\ progress'.last < LastRowid(legacy') => \A i \in DOMAIN staging' :
             \E row \in legacy' : row.rowid <= progress'.last /\ staging'[i].key = row.key
        /\ \A i \in DOMAIN staging', row \in legacy' :
             staging'[i].key = row.key => staging'[i].facts # "none"
    BY <1>13, <2>1, <2>2, <2>3, <2>4
  <2>6. QED
    BY <1>12, <2>5, PointwiseStaged
<1>15. /\ mg' \in Migration /\ mg'.pc = "copy" /\ mg'.last = end /\ mg'.max = mg.max
  BY <1>1, <1>2, <1>4 DEF MigrationTypeOK, Migration
<1>16. MigrationTypeOK'
  BY <1>1, <1>2, <1>3, <1>4, <1>12, <1>13, <1>15 DEF MigrationTypeOK
<1>17. MigrationKnows'
  BY <1>1, <1>3, <1>12, <1>13, <1>14, <1>15 DEF MigrationKnows, AfterCopy
<1>18. QED
  BY <1>1, <1>2, <1>14, <1>16, <1>17 DEF MigrationInv

LEMMA FinalBoundsStep == MigrationInv /\ ReadFinalBounds => MigrationInv'
<1> SUFFICES ASSUME MigrationInv, ReadFinalBounds PROVE MigrationInv'
  OBVIOUS
<1>1. /\ mg.pc = "final" /\ UNCHANGED <<occ, legacy, staging, superseded, progress, ready>>
      /\ mg' = [mg EXCEPT !.pc = "unique", !.grown = ~SameBounds]
  BY DEF ReadFinalBounds, tables
<1>2. MigrationTypeOK /\ MigrationKnows
  BY DEF MigrationInv
<1>3. /\ mg' \in Migration /\ mg'.pc = "unique" /\ mg'.last = mg.last /\ mg'.max = mg.max
  <2>1. (~SameBounds) \in BOOLEAN
    BY DEF SameBounds
  <2> HIDE DEF SameBounds
  <2>2. QED
    BY <1>1, <1>2, <2>1 DEF MigrationTypeOK, Migration, MigrationPcs
<1>4. MigrationKnows'
  BY <1>1, <1>2, <1>3, KnowsKept DEF MigrationKnows, AfterCopy
<1>5. superseded' \in BOOLEAN /\ ready' \in BOOLEAN
  BY <1>1, <1>2 DEF MigrationTypeOK
<1>6. QED
  BY <1>1, <1>3, <1>4, <1>5, TablesStay

\* The staging table when it takes in the occurrences it has not yet.
LEMMA AppendStep == MigrationInv /\ AppendOccurrences => MigrationInv'
<1> SUFFICES ASSUME MigrationInv, AppendOccurrences PROVE MigrationInv'
  OBVIOUS
<1> DEFINE rows == {row \in occ : row.key \notin StagedKeys}
           q == InOrder(rows)
<1>1. /\ mg.pc = "append" /\ staging' = staging \o q /\ mg' = [mg EXCEPT !.pc = "swap"]
      /\ UNCHANGED <<occ, legacy, superseded, progress, ready>>
  BY DEF AppendOccurrences, Goto
<1>2. /\ MigrationTypeOK /\ MigrationKnows /\ Distinct(occ)
      /\ (legacy # Missing => Distinct(legacy) /\ \A row \in legacy : row.facts # "none")
  BY DEF MigrationInv
<1>3. /\ legacy # Missing /\ legacy \in SUBSET Row /\ mg.max = LastRowid(legacy)
      /\ staging \in Seq(StagedRow) /\ StagedSound
      /\ progress # Missing /\ mg.last = progress.last /\ mg.last >= mg.max
  BY <1>1, <1>2, MigrationTypes DEF MigrationKnows, AfterCopy
<1>4. rows \in SUBSET Row /\ Distinct(rows)
  BY <1>2, SubsetDistinct, MigrationTypes
<1>5. \A row \in rows, i \in DOMAIN staging : staging[i].key # row.key
  BY DEF StagedKeys
<1>6. /\ q \in Seq(StagedRow)
      /\ \A i \in DOMAIN q : \E row \in rows : q[i].key = row.key /\ q[i].facts = row.facts
      /\ \A row \in rows : \E i \in DOMAIN q : q[i].key = row.key
      /\ \A i, j \in DOMAIN q : q[i].key = q[j].key => i = j
  BY <1>4, InOrderIs
<1>7. /\ \A i, j \in DOMAIN staging : staging[i].key = staging[j].key => i = j
      /\ progress.v4
      /\ \A row \in legacy : row.rowid <= progress.last =>
           \E i \in DOMAIN staging : staging[i].key = row.key
      /\ \A i \in DOMAIN staging, row \in legacy :
           staging[i].key = row.key => staging[i].facts # "none"
  BY <1>3, StagedPointwise
<1> HIDE DEF q, rows
<1>8. \A i \in DOMAIN staging, j \in DOMAIN q : staging[i].key # q[j].key
  BY <1>5, <1>6
<1>9. /\ progress.last \in Nat /\ LastRowid(legacy) \in Nat
      /\ \A row \in legacy : row.rowid \in Nat /\ row.rowid <= LastRowid(legacy)
  BY <1>3, LastRowidIs, <1>2, MigrationTypes DEF Row
<1>10. \A row \in legacy : \E i \in DOMAIN staging : staging[i].key = row.key
  <2>1. \A row \in legacy : row.rowid <= progress.last
    BY <1>3, <1>9
  <2>2. QED
    BY <1>7, <2>1
<1>11. \A j \in DOMAIN q, row \in legacy : q[j].key # row.key
  BY <1>8, <1>10
<1>12. /\ staging' \in Seq(StagedRow)
       /\ \A i \in DOMAIN staging : \E k \in DOMAIN staging' : staging'[k] = staging[i]
       /\ \A k \in DOMAIN staging' : \/ \E i \in DOMAIN staging : staging'[k] = staging[i]
                                     \/ \E i \in DOMAIN q : staging'[k] = q[i]
       /\ \A i, j \in DOMAIN staging' : staging'[i].key = staging'[j].key => i = j
  <2>1. /\ staging \in Seq(StagedRow) /\ q \in Seq(StagedRow)
        /\ \A i, j \in DOMAIN staging : staging[i].key = staging[j].key => i = j
        /\ \A i, j \in DOMAIN q : q[i].key = q[j].key => i = j
    BY <1>3, <1>6, <1>7
  <2> DEFINE c == staging \o q
  <2>2. /\ c \in Seq(StagedRow)
        /\ \A i \in DOMAIN staging : \E k \in DOMAIN c : c[k] = staging[i]
        /\ \A k \in DOMAIN c : \/ \E i \in DOMAIN staging : c[k] = staging[i]
                              \/ \E i \in DOMAIN q : c[k] = q[i]
        /\ \A i, j \in DOMAIN c : c[i].key = c[j].key => i = j
    BY <2>1, <1>8, Appended
  <2>3. QED
    BY <1>1, <2>2
<1>13. StagedSound'
  <2>1. \A row \in legacy : \E k \in DOMAIN staging' : staging'[k].key = row.key
    BY <1>10, <1>12
  <2>2. \A k \in DOMAIN staging', row \in legacy :
          staging'[k].key = row.key => staging'[k].facts # "none"
    <3> SUFFICES ASSUME NEW k \in DOMAIN staging', NEW row \in legacy, staging'[k].key = row.key
                 PROVE  staging'[k].facts # "none"
      OBVIOUS
    <3>1. CASE \E i \in DOMAIN staging : staging'[k] = staging[i]
      BY <3>1, <1>7
    <3>2. CASE \E i \in DOMAIN q : staging'[k] = q[i]
      BY <3>2, <1>11
    <3>3. QED
      BY <1>12, <3>1, <3>2
  <2>3. legacy' = legacy /\ progress' = progress
    BY <1>1
  <2>4. ~(progress.last < LastRowid(legacy))
    BY <1>3, <1>9
  <2>5. /\ progress' # Missing /\ progress'.v4
        /\ \A row \in legacy' : row.rowid <= progress'.last =>
             \E i \in DOMAIN staging' : staging'[i].key = row.key
        /\ progress'.last < LastRowid(legacy') => \A i \in DOMAIN staging' :
             \E row \in legacy' : row.rowid <= progress'.last /\ staging'[i].key = row.key
        /\ \A i \in DOMAIN staging', row \in legacy' :
             staging'[i].key = row.key => staging'[i].facts # "none"
    BY <1>3, <1>7, <2>1, <2>2, <2>3, <2>4
  <2>6. QED
    BY <1>12, <2>5, PointwiseStaged
<1>14. /\ mg' \in Migration /\ mg'.pc = "swap" /\ mg'.last = mg.last /\ mg'.max = mg.max
  BY <1>1, <1>2, GotoIs DEF MigrationTypeOK, MigrationPcs
<1>15. MigrationTypeOK'
  BY <1>1, <1>2, <1>12, <1>14 DEF MigrationTypeOK
<1>16. MigrationKnows'
  BY <1>1, <1>3, <1>12, <1>13, <1>14 DEF MigrationKnows, AfterCopy
<1>17. QED
  BY <1>1, <1>2, <1>13, <1>15, <1>16 DEF MigrationInv

----------------------------------------------------------------------------
(* The steps that end a migration.                                         *)

\* A table whose keys are distinct numbers its rows within the bound.
LEMMA StagedBounded ==
  ASSUME NEW s \in Seq(StagedRow), \A i, j \in DOMAIN s : s[i].key = s[j].key => i = j
  PROVE  /\ Len(s) <= MaxRowid
         /\ Cardinality({s[i].key : i \in DOMAIN s}) = Len(s)
<1> DEFINE f == [i \in 1 .. Len(s) |-> s[i].key]
           K == {s[i].key : i \in DOMAIN s}
<1>1. /\ Len(s) \in Nat /\ DOMAIN s = 1 .. Len(s) /\ \A i \in 1 .. Len(s) : s[i] \in StagedRow
  OBVIOUS
<1>2. \A i \in 1 .. Len(s) : s[i].key \in Keys
  BY <1>1 DEF StagedRow
<1>3. K \in SUBSET Keys /\ f \in Bijection(1 .. Len(s), K)
  BY <1>1, <1>2 DEF Bijection, Injection, Surjection, IsInjective
<1>4. IsFiniteSet(1 .. Len(s)) /\ Cardinality(1 .. Len(s)) = Len(s)
  BY <1>1, FS_Interval
<1>5. Cardinality(K) = Len(s)
  BY <1>3, <1>4, FS_Bijection DEF ExistsBijection
<1>6. Cardinality(K) <= Cardinality(Keys) /\ Cardinality(Keys) \in Nat
  BY <1>3, MigrationAssumption, FS_Subset, FS_CardinalityType
<1>7. MaxRowid \in Nat /\ Cardinality(Keys) <= MaxRowid
  BY MigrationAssumption
<1> HIDE DEF K, f
<1>8. Len(s) <= MaxRowid
  BY <1>1, <1>5, <1>6, <1>7
<1>9. QED
  BY <1>5, <1>8 DEF K

LEMMA SwapStep == MigrationInv /\ Swap => MigrationInv'
<1> SUFFICES ASSUME MigrationInv, Swap PROVE MigrationInv'
  OBVIOUS
<1>1. /\ mg.pc = "swap" /\ mg' = [mg EXCEPT !.pc = "analyse"]
      /\ occ' = {[rowid |-> i, key |-> staging[i].key, facts |-> staging[i].facts] :
                   i \in DOMAIN staging}
      /\ staging' = Missing /\ legacy' = Missing /\ progress' = Missing
      /\ UNCHANGED <<superseded, ready>>
  BY DEF Swap, Goto
<1>2. MigrationTypeOK /\ MigrationKnows
  BY DEF MigrationInv
<1>3. /\ staging \in Seq(StagedRow)
      /\ \A i, j \in DOMAIN staging : staging[i].key = staging[j].key => i = j
  BY <1>1, <1>2, StagedPointwise DEF MigrationKnows, AfterCopy
<1>4. Len(staging) <= MaxRowid
  BY <1>3, StagedBounded
<1>5. /\ \A i \in DOMAIN staging : i \in 1 .. MaxRowid /\ staging[i] \in StagedRow
  BY <1>3, <1>4, MigrationAssumption
<1>6. occ' \in SUBSET Row
  BY <1>1, <1>5 DEF Row, StagedRow
<1>7. Distinct(occ')
  <2> SUFFICES ASSUME NEW x \in occ', NEW y \in occ', x.rowid = y.rowid \/ x.key = y.key
               PROVE  x = y
    BY DEF Distinct
  <2>1. PICK i \in DOMAIN staging :
          x = [rowid |-> i, key |-> staging[i].key, facts |-> staging[i].facts]
    BY <1>1
  <2>2. PICK j \in DOMAIN staging :
          y = [rowid |-> j, key |-> staging[j].key, facts |-> staging[j].facts]
    BY <1>1
  <2>3. i = j
    BY <1>3, <2>1, <2>2
  <2>4. QED
    BY <2>1, <2>2, <2>3
<1>8. mg' \in Migration /\ mg'.pc = "analyse"
  BY <1>1, <1>2, GotoIs DEF MigrationTypeOK, MigrationPcs
<1>9. MigrationTypeOK'
  BY <1>1, <1>2, <1>6, <1>8 DEF MigrationTypeOK
<1>10. MigrationKnows'
  BY <1>1, <1>8 DEF MigrationKnows, AfterCopy
<1>11. Distinct(occ)'
  BY <1>7
<1>12. QED
  BY <1>1, <1>9, <1>10, <1>11 DEF MigrationInv

LEMMA AdoptStep == MigrationInv /\ (Adopt \/ DropRedundant) => MigrationInv'
<1> SUFFICES ASSUME MigrationInv, Adopt \/ DropRedundant PROVE MigrationInv'
  OBVIOUS
<1>1. /\ MigrationTypeOK /\ MigrationKnows /\ Distinct(occ)
      /\ (legacy # Missing => Distinct(legacy))
      /\ (staging # Missing => StagedSound)
  BY DEF MigrationInv
<1>2. /\ legacy # Missing /\ legacy' = Missing /\ progress' = Missing
      /\ superseded' \in BOOLEAN /\ UNCHANGED <<staging, ready>>
      /\ occ' = legacy \/ occ' = occ
  BY <1>1 DEF Adopt, DropRedundant, MigrationKnows, MigrationTypeOK
<1>3. mg' \in Migration /\ mg'.pc \in {"idle", "analyse"}
  <2>1. CASE Adopt
    BY <2>1, <1>1, GotoIs DEF Adopt, Goto, MigrationTypeOK, MigrationPcs
  <2>2. CASE DropRedundant
    BY <2>2, IdleIs DEF DropRedundant
  <2>3. QED
    BY <2>1, <2>2
<1>4. Distinct(occ') /\ occ' \in SUBSET Row
  BY <1>1, <1>2, MigrationTypes
<1>5. MigrationTypeOK'
  BY <1>1, <1>2, <1>3, <1>4 DEF MigrationTypeOK
<1>6. staging' # Missing => StagedSound'
  BY <1>1, StagedPointwise, <1>2, PointwiseStaged
<1>7. MigrationKnows'
  BY <1>2, <1>3 DEF MigrationKnows, AfterCopy
<1>8. Distinct(occ)'
  BY <1>4
<1>9. QED
  BY <1>2, <1>5, <1>6, <1>7, <1>8 DEF MigrationInv

LEMMA AnalyseStep == MigrationInv /\ Analyse => MigrationInv'
<1> SUFFICES ASSUME MigrationInv, Analyse PROVE MigrationInv'
  OBVIOUS
<1> DEFINE known(row) == [row EXCEPT !.facts = IF @ = "none" THEN "new" ELSE @]
<1>1. /\ mg' = MigrationIdle /\ ready' = TRUE /\ occ' = {known(row) : row \in occ}
      /\ UNCHANGED <<legacy, staging, superseded, progress>>
  BY DEF Analyse
<1>2. /\ MigrationTypeOK /\ Distinct(occ) /\ occ \in SUBSET Row
      /\ (legacy # Missing => Distinct(legacy) /\ \A row \in legacy : row.facts # "none")
      /\ (staging # Missing => StagedSound)
  BY MigrationTypes DEF MigrationInv
<1>3. \A row \in occ : /\ known(row) \in Row /\ known(row).rowid = row.rowid
                       /\ known(row).key = row.key
  BY <1>2 DEF Row
<1> HIDE DEF known
<1>4. occ' \in SUBSET Row /\ Distinct(occ')
  BY <1>1, <1>2, <1>3 DEF Distinct
<1>5. mg' \in Migration /\ mg'.pc = "idle"
  BY <1>1, IdleIs
<1>6. MigrationTypeOK'
  BY <1>1, <1>2, <1>4, <1>5 DEF MigrationTypeOK
<1>7. staging' # Missing => StagedSound'
  BY <1>1, <1>2 DEF StagedSound, CopiedRows, StagedKeys
<1>8. MigrationKnows'
  BY <1>5 DEF MigrationKnows, AfterCopy
<1>9. Distinct(occ)'
  BY <1>4
<1>10. legacy' # Missing => Distinct(legacy)' /\ \A row \in legacy' : row.facts # "none"
  BY <1>1, <1>2 DEF Distinct
<1>11. QED
  BY <1>6, <1>7, <1>8, <1>9, <1>10 DEF MigrationInv

LEMMA CleanupStep == MigrationInv /\ CleanupTables => MigrationInv'
<1> SUFFICES ASSUME MigrationInv, CleanupTables PROVE MigrationInv'
  OBVIOUS
<1>1. /\ legacy = Missing /\ superseded' = FALSE /\ staging' = Missing
      /\ UNCHANGED <<occ, legacy, progress, ready, mg>>
  BY DEF CleanupTables
<1>2. MigrationTypeOK /\ MigrationKnows /\ Distinct(occ)
  BY DEF MigrationInv
<1>3. MigrationTypeOK'
  BY <1>1, <1>2 DEF MigrationTypeOK
<1>4. MigrationKnows'
  BY <1>1, <1>2 DEF MigrationKnows, AfterCopy
<1>5. Distinct(occ)'
  BY <1>1, <1>2 DEF Distinct
<1>6. QED
  BY <1>1, <1>3, <1>4, <1>5 DEF MigrationInv

\* The linker adds an occurrence or takes some away.
LEMMA LinkerStep == MigrationInv /\ (LinkOccurrence \/ RebuildTable) => MigrationInv'
<1> SUFFICES ASSUME MigrationInv, LinkOccurrence \/ RebuildTable PROVE MigrationInv'
  OBVIOUS
<1>1. /\ MigrationTypeOK /\ MigrationKnows /\ Distinct(occ) /\ occ \in SUBSET Row
      /\ (legacy # Missing => Distinct(legacy) /\ \A row \in legacy : row.facts # "none")
      /\ (staging # Missing => StagedSound)
  BY MigrationTypes DEF MigrationInv
<1>2. ready' = FALSE /\ UNCHANGED <<legacy, staging, superseded, progress, mg>>
  BY DEF LinkOccurrence, RebuildTable
<1>3. /\ occ' \in SUBSET Row /\ Distinct(occ')
      /\ \A row \in occ' : row \in occ \/ row.facts = "new"
  <2>1. CASE LinkOccurrence
    <3>1. PICK k \in Keys \ KeysOf(occ) :
            occ' = occ \cup {[rowid |-> LastRowid(occ) + 1, key |-> k, facts |-> "new"]}
      BY <2>1 DEF LinkOccurrence
    <3>2. /\ LastRowid(occ) \in Nat /\ LastRowid(occ) + 1 \in 1 .. MaxRowid
          /\ \A row \in occ : row.rowid \in Nat /\ row.rowid <= LastRowid(occ)
      BY <1>1, <2>1, LastRowidIs, MigrationAssumption DEF LinkOccurrence, Row
    <3>3. \A row \in occ : row.key # k
      BY DEF KeysOf
    <3>4. occ' \in SUBSET Row
      BY <1>1, <3>1, <3>2 DEF Row
    <3> DEFINE new == [rowid |-> LastRowid(occ) + 1, key |-> k, facts |-> "new"]
    <3>5. /\ occ' = occ \cup {new} /\ new.facts = "new"
          /\ \A row \in occ : row.rowid # new.rowid /\ row.key # new.key
      BY <3>1, <3>2, <3>3
    <3> HIDE DEF new
    <3>6. Distinct(occ')
      BY <1>1, <3>5 DEF Distinct
    <3>7. QED
      BY <3>4, <3>5, <3>6
  <2>2. CASE RebuildTable
    <3>1. occ' \subseteq occ
      BY <2>2 DEF RebuildTable
    <3>2. QED
      BY <1>1, <3>1 DEF Distinct
  <2>3. QED
    BY <2>1, <2>2
<1>4. MigrationTypeOK'
  BY <1>1, <1>2, <1>3 DEF MigrationTypeOK
<1>5. StagedSound' = StagedSound /\ LastRowid(legacy') = LastRowid(legacy)
  BY <1>2 DEF StagedSound, CopiedRows, StagedKeys
<1>6. MissingUsefulFacts' => MissingUsefulFacts
  <2> SUFFICES ASSUME MissingUsefulFacts' PROVE MissingUsefulFacts
    OBVIOUS
  <2>1. PICK row \in occ' : row.key \in KeysOf(legacy') /\ row.facts = "none"
    BY DEF MissingUsefulFacts
  <2>2. row \in occ /\ row.key \in KeysOf(legacy)
    BY <1>2, <1>3, <2>1
  <2>3. QED
    BY <2>1, <2>2 DEF MissingUsefulFacts
<1>7. MigrationKnows'
  BY <1>1, <1>2, <1>5, <1>6 DEF MigrationKnows
<1>8. Distinct(occ)'
  BY <1>3
<1>9. legacy' # Missing => Distinct(legacy)' /\ \A row \in legacy' : row.facts # "none"
  BY <1>1, <1>2 DEF Distinct
<1>10. QED
  BY <1>1, <1>2, <1>4, <1>5, <1>7, <1>8, <1>9 DEF MigrationInv

----------------------------------------------------------------------------
(* The initial states and the theorem.                                     *)

\* A numbering of K names each key once.
LEMMA NumberedOnce ==
  ASSUME NEW K \in SUBSET Keys, NEW s \in Numberings(K)
  PROVE  /\ Cardinality(K) \in Nat /\ IsFiniteSet(K)
         /\ s \in [1 .. Cardinality(K) -> K] /\ DOMAIN s = 1 .. Cardinality(K)
         /\ \A i, j \in DOMAIN s : s[i] = s[j] => i = j
         /\ \A k \in K : \E i \in DOMAIN s : s[i] = k
<1>1. Cardinality(K) \in Nat /\ IsFiniteSet(K)
  BY MigrationAssumption, FS_Subset, FS_CardinalityType
<1>2. /\ s \in [1 .. Cardinality(K) -> K] /\ DOMAIN s = 1 .. Cardinality(K)
      /\ \A k \in K : \E i \in DOMAIN s : s[i] = k
  BY DEF Numberings
<1>3. s \in Surjection(1 .. Cardinality(K), K)
  BY <1>2 DEF Surjection
<1>4. /\ IsFiniteSet(1 .. Cardinality(K))
      /\ Cardinality(1 .. Cardinality(K)) = Cardinality(K)
  BY <1>1, FS_Interval
<1>5. s \in Injection(1 .. Cardinality(K), K)
  BY <1>3, <1>4, FS_Surjection
<1>6. QED
  BY <1>1, <1>2, <1>5 DEF Injection, IsInjective

LEMMA FirstTables ==
  ASSUME NEW K \in SUBSET Keys, Cardinality(K) <= MaxRowid, NEW s \in Numberings(K),
         NEW facts \in [Keys -> {"none", "old", "new"}]
  PROVE  /\ Table(s, facts) \in SUBSET Row /\ Distinct(Table(s, facts))
         /\ \A row \in Table(s, facts) : row.facts = facts[row.key]
         /\ KeysOf(Table(s, facts)) = K
         /\ \A row \in Table(s, facts) : row.rowid \in 1 .. Cardinality(K)
         /\ \A i \in 1 .. Cardinality(K) : \E row \in Table(s, facts) : row.rowid = i
<1> DEFINE T == Table(s, facts)
           n == Cardinality(K)
           row(i) == [rowid |-> i, key |-> s[i], facts |-> facts[s[i]]]
<1>1. /\ n \in Nat /\ n <= MaxRowid /\ MaxRowid \in Nat
      /\ s \in [1 .. n -> K] /\ DOMAIN s = 1 .. n
      /\ \A i, j \in 1 .. n : s[i] = s[j] => i = j
      /\ \A k \in K : \E i \in 1 .. n : s[i] = k
  BY NumberedOnce, MigrationAssumption
<1>2. T = {row(i) : i \in 1 .. n}
  BY <1>1 DEF Table
<1>3. \A i \in 1 .. n : /\ row(i).rowid = i /\ row(i).key = s[i]
                        /\ row(i).facts = facts[s[i]] /\ row(i) \in Row
  BY <1>1 DEF Row
<1> HIDE DEF T, n, row
<1>4. T \in SUBSET Row /\ Distinct(T)
  BY <1>1, <1>2, <1>3 DEF Distinct
<1>5. /\ \A r \in T : r.facts = facts[r.key] /\ r.rowid \in 1 .. n
      /\ \A i \in 1 .. n : \E r \in T : r.rowid = i
  BY <1>2, <1>3
<1>6. KeysOf(T) = K
  BY <1>1, <1>2, <1>3 DEF KeysOf
<1>7. QED
  BY <1>4, <1>5, <1>6 DEF T, n

LEMMA MigrationInitially == MigrationInit => MigrationInv
<1> SUFFICES ASSUME MigrationInit PROVE MigrationInv
  OBVIOUS
<1>1. PICK K \in SUBSET Keys, merged \in SUBSET Keys, found \in SUBSET Keys :
        /\ Cardinality(K) <= MaxRowid /\ merged \subseteq found /\ found \subseteq K
        /\ \E s \in Numberings(K), f \in Numberings(found) :
             /\ occ = Table(s, [k \in Keys |-> IF k \in merged THEN "old" ELSE "none"])
             /\ legacy = Table(f, [k \in Keys |-> "old"])
  BY DEF MigrationInit
<1>2. Cardinality(found) <= MaxRowid
  BY MigrationAssumption, FS_Subset, FS_CardinalityType, <1>1
<1> DEFINE known == [k \in Keys |-> IF k \in merged THEN "old" ELSE "none"]
           all == [k \in Keys |-> "old"]
<1>3. known \in [Keys -> {"none", "old", "new"}] /\ all \in [Keys -> {"none", "old", "new"}]
  OBVIOUS
<1>4. PICK s \in Numberings(K), f \in Numberings(found) :
        occ = Table(s, known) /\ legacy = Table(f, all)
  BY <1>1
<1>5. \A k \in Keys : all[k] = "old"
  OBVIOUS
<1> HIDE DEF known, all
<1>6. occ \in SUBSET Row /\ Distinct(occ)
  BY <1>1, <1>3, <1>4, FirstTables
<1>7. /\ legacy \in SUBSET Row /\ Distinct(legacy)
      /\ \A row \in legacy : row.facts # "none"
  BY <1>2, <1>3, <1>4, FirstTables, <1>5 DEF Row
<1>8. /\ staging = Missing /\ superseded = FALSE /\ ready \in BOOLEAN
      /\ mg \in Migration /\ mg.pc = "idle"
  BY IdleIs DEF MigrationInit
<1>9. /\ progress \in Progress \cup {Missing}
      /\ progress # Missing => progress.last = 0
  <2>1. CASE progress = Missing
    BY <2>1
  <2>2. CASE progress \in [v4 : {FALSE}, last : {0}, completed : BOOLEAN]
    <3>1. progress.last = 0 /\ 0 \in 0 .. MaxRowid
      BY <2>2, MigrationAssumption
    <3>2. progress \in Progress
      BY <2>2, <3>1 DEF Progress
    <3>3. QED
      BY <3>1, <3>2
  <2>3. QED
    BY <2>1, <2>2 DEF MigrationInit
<1>10. LastRowid(legacy) \in Nat /\ 0 <= LastRowid(legacy)
  BY <1>7, LastRowidIs
<1>11. MigrationTypeOK
  BY <1>9, <1>10, <1>7, <1>8, <1>6 DEF MigrationTypeOK
<1>12. MigrationKnows
  BY <1>8 DEF MigrationKnows, AfterCopy
<1>13. QED
  BY <1>6, <1>7, <1>8, <1>11, <1>12 DEF MigrationInv

LEMMA MigrationInduction == MigrationInv /\ [MigrationNext]_migrationVars => MigrationInv'
<1> SUFFICES ASSUME MigrationInv, [MigrationNext]_migrationVars PROVE MigrationInv'
  OBVIOUS
<1>1. /\ MigrationTypeOK /\ MigrationKnows /\ superseded \in BOOLEAN /\ ready \in BOOLEAN
      /\ mg \in Migration
  BY DEF MigrationInv, MigrationTypeOK
<1>2. CASE UNCHANGED migrationVars
  BY <1>2, <1>1, KnowsKept, TablesStay DEF migrationVars, tables, MigrationKnows
<1>3. ASSUME CheckRedundant PROVE MigrationInv'
  <2>1. PICK pc \in {"mark", "drop"} : /\ mg' = [mg EXCEPT !.pc = pc]
                                       /\ pc = "drop" => ~MissingUsefulFacts
    BY <1>3 DEF CheckRedundant, Goto
  <2>2. /\ UNCHANGED <<occ, legacy, staging, progress>>
        /\ superseded' \in BOOLEAN /\ ready' \in BOOLEAN /\ legacy # Missing
    BY <1>1, <1>3 DEF CheckRedundant, tables, MigrationKnows
  <2>3. pc \in MigrationPcs /\ pc \notin AfterCopy /\ pc \notin {"create", "copy", "analyse"}
    BY DEF MigrationPcs, AfterCopy
  <2>4. QED
    BY <2>1, <2>2, <2>3, GotoStep
<1>4. ASSUME MarkNotReady \/ CompareBounds \/ CompareBoundsAgain PROVE MigrationInv'
  <2>1. PICK pc \in {"bounds", "again", "resume", "adopt"} : mg' = [mg EXCEPT !.pc = pc]
    BY <1>4 DEF MarkNotReady, CompareBounds, CompareBoundsAgain, Goto
  <2>2. /\ UNCHANGED <<occ, legacy, staging, progress>>
        /\ superseded' \in BOOLEAN /\ ready' \in BOOLEAN /\ legacy # Missing
    BY <1>1, <1>4 DEF MarkNotReady, CompareBounds, CompareBoundsAgain, tables, MigrationKnows
  <2>3. pc \in MigrationPcs /\ pc \notin AfterCopy /\ pc \notin {"create", "copy", "drop", "analyse"}
    BY DEF MigrationPcs, AfterCopy
  <2>4. QED
    BY <2>1, <2>2, <2>3, GotoStep
<1>5. ASSUME EndCopy PROVE MigrationInv'
  BY <1>5, <1>1, GotoStep DEF EndCopy, Goto, tables, MigrationKnows, MigrationPcs
<1>6. ASSUME UniqueIndex PROVE MigrationInv'
  <2>1. /\ mg.pc = "unique" /\ UNCHANGED <<occ, legacy, staging, progress, superseded, ready>>
        /\ \/ \E pc \in {"append", "swap"} : mg' = [mg EXCEPT !.pc = pc]
           \/ mg' = MigrationIdle
    BY <1>6 DEF UniqueIndex, Goto, tables
  <2>2. superseded' \in BOOLEAN /\ ready' \in BOOLEAN /\ legacy # Missing
    BY <1>1, <2>1 DEF MigrationKnows
  <2>3. ASSUME NEW pc \in {"append", "swap"}, mg' = [mg EXCEPT !.pc = pc] PROVE MigrationInv'
    BY <2>1, <2>2, <2>3, GotoStep DEF MigrationPcs, AfterCopy
  <2>4. QED
    BY <2>1, <2>2, <2>3, BackToIdle
<1>7. ASSUME EndCancelled \/ CrashMigration PROVE MigrationInv'
  BY <1>1, <1>7, BackToIdle DEF EndCancelled, CrashMigration, tables
<1>8. ASSUME CancelMigration PROVE MigrationInv'
  <2>1. /\ mg' = [mg EXCEPT !.cancel = TRUE]
        /\ UNCHANGED <<occ, legacy, staging, progress, superseded, ready>>
    BY <1>8 DEF CancelMigration, tables
  <2>2. /\ mg' \in Migration /\ mg'.pc = mg.pc /\ mg'.last = mg.last /\ mg'.max = mg.max
    BY <1>1, <2>1 DEF Migration
  <2>3. MigrationKnows'
    BY <1>1, <2>1, <2>2, KnowsKept DEF MigrationKnows
  <2>4. QED
    BY <1>1, <2>1, <2>2, <2>3, TablesStay
<1>9. ASSUME MigrationNext PROVE MigrationInv'
  BY <1>3, <1>4, <1>5, <1>6, <1>7, <1>8, <1>9, StartStep, ReadProgressStep, CreateStep,
     CopyStep, FinalBoundsStep, AppendStep, SwapStep, AdoptStep, AnalyseStep, CleanupStep,
     LinkerStep
     DEF MigrationNext, MigrationStep
<1>10. QED
  BY <1>2, <1>9

(***************************************************************************)
(* The inductive invariant, for a linker that adds and deletes occurrences *)
(* whenever it likes.                                                      *)
(***************************************************************************)
THEOREM MigrationInvariant == MigrationSpec => []MigrationInv
<1>1. MigrationInit => MigrationInv
  BY MigrationInitially
<1>2. MigrationInv /\ [MigrationNext]_migrationVars => MigrationInv'
  BY MigrationInduction
<1>3. QED
  BY <1>1, <1>2, PTL DEF MigrationSpec

(***************************************************************************)
(* However often a migration is cancelled, dies and is resumed, no row is  *)
(* copied twice: create unique index cannot fail.                          *)
(***************************************************************************)
THEOREM RowsCopiedOnce == MigrationSpec => []CopiedOnce
<1>1. MigrationInv => CopiedOnce
  <2> SUFFICES ASSUME MigrationInv PROVE CopiedOnce
    OBVIOUS
  <2>1. MigrationTypeOK /\ (staging # Missing => StagedSound)
    BY DEF MigrationInv
  <2>2. ASSUME staging # Missing PROVE StagedOnce
    BY <2>1, <2>2, StagedPointwise, StagedBounded DEF MigrationTypeOK, StagedOnce,
      StagedKeys
  <2>3. QED
    BY <2>1, <2>2 DEF CopiedOnce
<1>2. QED
  BY <1>1, MigrationInvariant, PTL

(***************************************************************************)
(* The fact table is given up only when each of its facts is stored with   *)
(* its occurrence, whatever the linker does meanwhile.                     *)
(***************************************************************************)
THEOREM FactsKept ==
  MigrationSpec =>
    [][legacy # Missing /\ legacy' = Missing =>
         \A row \in occ' : row.key \in KeysOf(legacy) => row.facts # "none"]_migrationVars
<1> DEFINE Kept == legacy # Missing /\ legacy' = Missing =>
              \A row \in occ' : row.key \in KeysOf(legacy) => row.facts # "none"
<1>1. MigrationInv /\ [MigrationNext]_migrationVars => [Kept]_migrationVars
  <2> SUFFICES ASSUME MigrationInv, MigrationNext, legacy # Missing, legacy' = Missing,
                      NEW row \in occ', row.key \in KeysOf(legacy)
               PROVE  row.facts # "none"
    OBVIOUS
  <2>1. Adopt \/ DropRedundant \/ Swap
    BY DEF MigrationNext, MigrationStep, StartMigration, CleanupTables, CancelMigration,
       CrashMigration, LinkOccurrence, RebuildTable, CheckRedundant, MarkNotReady,
       CompareBounds, CompareBoundsAgain, ReadProgress, CreateStaging, CopyRows, EndCopy,
       ReadFinalBounds, UniqueIndex, AppendOccurrences, Analyse, EndCancelled, tables
  <2>2. /\ MigrationKnows /\ \A old \in legacy : old.facts # "none"
    BY DEF MigrationInv
  <2>3. CASE Adopt
    BY <2>2, <2>3 DEF Adopt
  <2>4. CASE DropRedundant
    BY <2>2, <2>4 DEF DropRedundant, MigrationKnows, MissingUsefulFacts
  <2>5. CASE Swap
    <3>1. StagedSound
      BY <2>2, <2>5 DEF Swap, MigrationKnows, AfterCopy
    <3>2. PICK i \in DOMAIN staging :
            row = [rowid |-> i, key |-> staging[i].key, facts |-> staging[i].facts]
      BY <2>5 DEF Swap
    <3>3. staging[i].key \in KeysOf(legacy)
      BY <3>2
    <3>4. staging[i].facts # "none"
      BY <3>1, <3>3 DEF StagedSound
    <3>5. QED
      BY <3>2, <3>4
  <2>6. QED
    BY <2>1, <2>3, <2>4, <2>5
<1>2. QED
  BY <1>1, MigrationInvariant, PTL DEF MigrationSpec

----------------------------------------------------------------------------
(* A linker that only adds, between the builds.                            *)

LEMMA AsManyKeys ==
  ASSUME NEW rows \in SUBSET Row, Distinct(rows)
  PROVE  /\ IsFiniteSet(KeysOf(rows)) /\ Cardinality(KeysOf(rows)) = Cardinality(rows)
<1> DEFINE f == [row \in rows |-> row.key]
<1>1. f \in Bijection(rows, KeysOf(rows))
  BY DEF Bijection, Injection, Surjection, IsInjective, KeysOf, Distinct
<1>2. QED
  BY <1>1, RowsFinite, FS_Bijection DEF ExistsBijection

LEMMA SameKeys ==
  ASSUME MigrationInv, OccurrencesKnown, legacy # Missing, SameBounds
  PROVE  KeysOf(occ) = KeysOf(legacy)
BY MigrationTypes, AsManyKeys, FS_Subset DEF MigrationInv, OccurrencesKnown, Dense,
  SameBounds

LEMMA DenseTable ==
  ASSUME NEW rows \in SUBSET Row, Distinct(rows), NEW n \in Nat,
         \A row \in rows : row.rowid \in 1 .. n,
         \A i \in 1 .. n : \E row \in rows : row.rowid = i
  PROVE  Dense(rows)
<1> DEFINE f == [row \in rows |-> row.rowid]
<1>1. f \in Bijection(rows, 1 .. n)
  BY DEF Bijection, Injection, Surjection, IsInjective, Distinct
<1>2. Cardinality(rows) = n
  <2>1. IsFiniteSet(rows)
    BY RowsFinite
  <2>2. Cardinality(1 .. n) = Cardinality(rows)
    BY <1>1, <2>1, FS_Bijection DEF ExistsBijection
  <2>3. Cardinality(1 .. n) = n
    BY FS_Interval
  <2>4. QED
    BY <2>2, <2>3
<1>3. LastRowid(rows) = n
  <2>1. /\ LastRowid(rows) \in Nat
        /\ \A row \in rows : row.rowid <= LastRowid(rows)
        /\ LastRowid(rows) = 0 \/ \E row \in rows : row.rowid = LastRowid(rows)
    BY LastRowidIs, MigrationAssumption
  <2>2. LastRowid(rows) <= n
    BY <2>1
  <2>3. n <= LastRowid(rows)
    <3>1. CASE n = 0
      BY <2>1, <3>1
    <3>2. CASE n > 0
      <4>1. PICK row \in rows : row.rowid = n
        BY <3>2
      <4>2. QED
        BY <2>1, <4>1
    <3>3. QED
      BY <3>1, <3>2
  <2>4. QED
    BY <2>1, <2>2, <2>3
<1>4. QED
  BY <1>2, <1>3 DEF Dense

LEMMA QuietInitially == MigrationInit => OccurrencesKnown
<1> SUFFICES ASSUME MigrationInit PROVE OccurrencesKnown
  OBVIOUS
<1>1. PICK K \in SUBSET Keys, merged \in SUBSET Keys, found \in SUBSET Keys :
        /\ Cardinality(K) <= MaxRowid /\ merged \subseteq found /\ found \subseteq K
        /\ \E s \in Numberings(K), f \in Numberings(found) :
             /\ occ = Table(s, [k \in Keys |-> IF k \in merged THEN "old" ELSE "none"])
             /\ legacy = Table(f, [k \in Keys |-> "old"])
  BY DEF MigrationInit
<1>2. /\ Cardinality(K) \in Nat /\ Cardinality(found) \in Nat
      /\ Cardinality(found) <= MaxRowid
  BY MigrationAssumption, FS_Subset, FS_CardinalityType, <1>1
<1> DEFINE known == [k \in Keys |-> IF k \in merged THEN "old" ELSE "none"]
           all == [k \in Keys |-> "old"]
<1>3. known \in [Keys -> {"none", "old", "new"}] /\ all \in [Keys -> {"none", "old", "new"}]
  OBVIOUS
<1>4. PICK s \in Numberings(K), f \in Numberings(found) :
        occ = Table(s, known) /\ legacy = Table(f, all)
  BY <1>1
<1> HIDE DEF known, all
<1>5. /\ Dense(occ) /\ KeysOf(occ) = K
  BY <1>1, <1>3, <1>4, FirstTables, <1>2, DenseTable
<1>6. /\ Dense(legacy) /\ KeysOf(legacy) = found
  BY <1>2, <1>3, <1>4, FirstTables, DenseTable
<1>7. mg.pc = "idle"
  BY IdleIs DEF MigrationInit
<1>8. QED
  BY <1>1, <1>5, <1>6, <1>7 DEF OccurrencesKnown

LEMMA LinkedDense ==
  ASSUME MigrationInv, LinkOccurrence, Dense(occ)
  PROVE  Dense(occ') /\ KeysOf(occ) \subseteq KeysOf(occ')
<1> DEFINE new(k) == [rowid |-> LastRowid(occ) + 1, key |-> k, facts |-> "new"]
<1>1. /\ occ \in SUBSET Row /\ Distinct(occ) /\ occ' \in SUBSET Row
  BY LinkerStep, MigrationTypes DEF MigrationInv, MigrationTypeOK
<1>2. PICK k \in Keys : occ' = occ \cup {new(k)}
  BY DEF LinkOccurrence
<1>3. /\ LastRowid(occ) \in Nat /\ LastRowid(occ') \in Nat /\ MaxRowid \in Nat
      /\ \A row \in occ : row.rowid \in Nat /\ row.rowid <= LastRowid(occ)
      /\ \A row \in occ' : row.rowid <= LastRowid(occ')
      /\ LastRowid(occ') = 0 \/ \E row \in occ' : row.rowid = LastRowid(occ')
  BY <1>1, LastRowidIs, MigrationAssumption DEF Row
<1>4. new(k).rowid = LastRowid(occ) + 1 /\ new(k) \in occ' /\ new(k) \notin occ
  <2>1. new(k).rowid = LastRowid(occ) + 1
    OBVIOUS
  <2> HIDE DEF new
  <2>2. QED
    BY <1>2, <1>3, <2>1
<1> HIDE DEF new
<1>5. Cardinality(occ') = Cardinality(occ) + 1
  BY <1>1, <1>2, <1>4, RowsFinite, FS_AddElement
<1>6. LastRowid(occ') = LastRowid(occ) + 1
  <2>1. LastRowid(occ') >= LastRowid(occ) + 1
    BY <1>3, <1>4
  <2>2. PICK row \in occ' : row.rowid = LastRowid(occ')
    BY <1>3, <2>1
  <2>3. row \in occ \/ row = new(k)
    BY <1>2
  <2>4. QED
    BY <1>3, <1>4, <2>1, <2>2, <2>3
<1>7. KeysOf(occ) \subseteq KeysOf(occ')
  BY <1>2 DEF KeysOf
<1>8. QED
  BY <1>5, <1>6, <1>7 DEF Dense

\* After the copy the staging table has every key of the fact table; after
\* the append it has every occurrence.
LEMMA AllCopied ==
  ASSUME MigrationInv, mg.pc \in AfterCopy
  PROVE  KeysOf(legacy) \subseteq StagedKeys
BY MigrationTypes, LastRowidIs DEF MigrationInv, MigrationKnows, AfterCopy, Row,
  StagedSound, CopiedRows, KeysOf

LEMMA AllAppended ==
  ASSUME MigrationInv, AppendOccurrences
  PROVE  KeysOf(occ) \subseteq StagedKeys'
<1> DEFINE rows == {row \in occ : row.key \notin StagedKeys}
           q == InOrder(rows)
<1>1. MigrationTypeOK /\ MigrationKnows /\ Distinct(occ) /\ occ \in SUBSET Row
  BY MigrationTypes DEF MigrationInv
<1>2. /\ mg.pc = "append" /\ staging' = staging \o q /\ staging \in Seq(StagedRow)
  BY <1>1 DEF AppendOccurrences, MigrationKnows, AfterCopy
<1>3. rows \in SUBSET Row /\ Distinct(rows)
  BY <1>1, SubsetDistinct
<1>4. q \in Seq(StagedRow) /\ \A row \in rows : \E i \in DOMAIN q : q[i].key = row.key
  BY <1>3, InOrderIs
<1> HIDE DEF q
<1>5. /\ \A i \in DOMAIN staging : i \in DOMAIN staging' /\ staging'[i] = staging[i]
      /\ \A i \in DOMAIN q : i + Len(staging) \in DOMAIN staging'
                             /\ staging'[i + Len(staging)] = q[i]
  BY <1>2, <1>4
<1>6. ASSUME NEW row \in occ PROVE \E k \in DOMAIN staging' : staging'[k].key = row.key
  <2>1. CASE row.key \in StagedKeys
    BY <1>5, <2>1 DEF StagedKeys
  <2>2. CASE row.key \notin StagedKeys
    <3>1. PICK i \in DOMAIN q : q[i].key = row.key
      BY <1>4, <2>2
    <3>2. QED
      BY <1>5, <3>1
  <2>3. QED
    BY <2>1, <2>2
<1>7. QED
  BY <1>6 DEF KeysOf, StagedKeys

LEMMA QuietStep ==
  MigrationInv /\ QuietLinker /\ OccurrencesKnown /\ [MigrationNext]_migrationVars
    => OccurrencesKnown'
<1> SUFFICES ASSUME MigrationInv, QuietLinker, OccurrencesKnown,
                    [MigrationNext]_migrationVars
             PROVE  OccurrencesKnown'
  OBVIOUS
<1>1. /\ MigrationTypeOK /\ MigrationKnows /\ mg \in Migration
  BY DEF MigrationInv, MigrationTypeOK
<1> DEFINE Watched == {"adopt", "unique", "swap", "append"}
\* Most steps leave the tables and lead elsewhere.
<1>2. ASSUME UNCHANGED <<occ, legacy>>, mg'.pc \notin Watched PROVE OccurrencesKnown'
  BY <1>2 DEF OccurrencesKnown
<1>3. ASSUME legacy' = Missing, mg'.pc \notin Watched PROVE OccurrencesKnown'
  BY <1>3 DEF OccurrencesKnown
<1>4. ASSUME UNCHANGED <<occ, legacy, staging>>, mg'.pc = mg.pc, mg'.grown = mg.grown
      PROVE  OccurrencesKnown'
  BY <1>4 DEF OccurrencesKnown, Dense, SameBounds, StagedKeys
<1>5. CASE UNCHANGED migrationVars
  BY <1>5, <1>4 DEF migrationVars, tables
<1>6. ASSUME StartMigration \/ EndCancelled \/ CrashMigration PROVE OccurrencesKnown'
  <2>1. UNCHANGED <<occ, legacy>>
    BY <1>6 DEF StartMigration, EndCancelled, CrashMigration, tables
  <2>2. mg'.pc \in {"redundant", "mark", "idle"}
    <3>1. CASE StartMigration
      <4>1. PICK pc \in {"redundant", "mark"} : mg' = [MigrationIdle EXCEPT !.pc = pc]
        BY <3>1 DEF StartMigration
      <4>2. QED
        BY <4>1, IdleIs DEF Migration
    <3>2. CASE EndCancelled \/ CrashMigration
      BY <3>2, IdleIs DEF EndCancelled, CrashMigration
    <3>3. QED
      BY <1>6, <3>1, <3>2
  <2>3. QED
    BY <2>1, <2>2, <1>2
<1>7. ASSUME CheckRedundant \/ MarkNotReady \/ CompareBounds \/ CreateStaging \/ EndCopy
      PROVE  OccurrencesKnown'
  <2>1. UNCHANGED <<occ, legacy>>
    BY <1>7 DEF CheckRedundant, MarkNotReady, CompareBounds, CreateStaging, EndCopy, tables
  <2>2. PICK pc \in {"mark", "drop", "bounds", "again", "resume", "copy", "final"} :
          mg' = [mg EXCEPT !.pc = pc]
    BY <1>7 DEF CheckRedundant, MarkNotReady, CompareBounds, CreateStaging, EndCopy, Goto
  <2>3. mg'.pc = pc
    BY <1>1, <2>2 DEF Migration
  <2>4. QED
    BY <2>1, <2>2, <2>3, <1>2
<1>8. ASSUME ReadProgress \/ CopyRows PROVE OccurrencesKnown'
  BY <1>8, <1>1, <1>2 DEF ReadProgress, CopyRows, tables, Migration
<1>9. ASSUME CompareBoundsAgain PROVE OccurrencesKnown'
  BY <1>9, <1>1 DEF CompareBoundsAgain, tables, Goto, Migration, SameBounds,
    OccurrencesKnown
<1>10. ASSUME ReadFinalBounds PROVE OccurrencesKnown'
  BY <1>10, <1>1 DEF ReadFinalBounds, tables, Migration, SameBounds, OccurrencesKnown
<1>11. ASSUME UniqueIndex PROVE OccurrencesKnown'
  BY <1>11, <1>1, IdleIs DEF UniqueIndex, tables, Goto, Migration, SameBounds,
    OccurrencesKnown
<1>12. ASSUME AppendOccurrences PROVE OccurrencesKnown'
  BY <1>12, <1>1, AllAppended DEF AppendOccurrences, Goto, Migration, OccurrencesKnown
<1>13. ASSUME Swap \/ Adopt \/ DropRedundant PROVE OccurrencesKnown'
  BY <1>13, <1>1, IdleIs, <1>3 DEF Swap, Adopt, DropRedundant, Goto, Migration
<1>14. ASSUME Analyse PROVE OccurrencesKnown'
  <2>1. legacy' = Missing /\ mg'.pc = "idle"
    BY <1>1, <1>14, IdleIs DEF Analyse, MigrationKnows
  <2>2. QED
    BY <2>1, <1>3
<1>15. ASSUME CancelMigration PROVE OccurrencesKnown'
  BY <1>15, <1>1, <1>4 DEF CancelMigration, tables, Migration
<1>16. ASSUME CleanupTables PROVE OccurrencesKnown'
  <2>1. legacy' = Missing /\ mg'.pc \in {"idle", "analyse"}
    BY <1>1, <1>16 DEF CleanupTables, MigrationKnows
  <2>2. QED
    BY <2>1, <1>3
<1>17. ASSUME LinkOccurrence \/ RebuildTable PROVE OccurrencesKnown'
  <2>1. mg' = mg /\ legacy' = legacy /\ mg.pc = "idle"
    BY <1>17 DEF LinkOccurrence, RebuildTable, QuietLinker
  <2>2. CASE LinkOccurrence
    BY <2>1, <2>2, LinkedDense DEF OccurrencesKnown, Dense
  <2>3. CASE RebuildTable
    <3>1. legacy' = Missing
      BY <2>1, <2>3 DEF RebuildTable, QuietLinker
    <3>2. QED
      BY <2>1, <3>1, <1>3
  <2>4. QED
    BY <1>17, <2>2, <2>3
<1>18. QED
  BY <1>5, <1>6, <1>7, <1>8, <1>9, <1>10, <1>11, <1>12, <1>13, <1>14, <1>15, <1>16, <1>17
     DEF MigrationNext, MigrationStep

(***************************************************************************)
(* When the linker only adds, and only between the builds, the migration   *)
(* loses neither an occurrence nor a fact, however it is interrupted.      *)
(***************************************************************************)
THEOREM NothingIsLost == QuietLinker => (MigrationSpec => NothingLost)
<1> SUFFICES ASSUME QuietLinker PROVE MigrationSpec => NothingLost
  OBVIOUS
<1> DEFINE Kept == /\ mg' # mg => KeysOf(occ) \subseteq KeysOf(occ')
                   /\ legacy # Missing /\ legacy' = Missing =>
                        \A row \in occ' : row.key \in KeysOf(legacy) => row.facts # "none"
           Stored == legacy # Missing /\ legacy' = Missing =>
                       \A row \in occ' : row.key \in KeysOf(legacy) => row.facts # "none"
<1>1. MigrationInit => OccurrencesKnown
  BY QuietInitially
<1>2. MigrationInv /\ OccurrencesKnown /\ [MigrationNext]_migrationVars => OccurrencesKnown'
  BY QuietStep
<1>3. MigrationInv /\ OccurrencesKnown /\ [MigrationNext]_migrationVars
        => (mg' # mg => KeysOf(occ) \subseteq KeysOf(occ'))
  <2> SUFFICES ASSUME MigrationInv, OccurrencesKnown, MigrationNext, mg' # mg
               PROVE  KeysOf(occ) \subseteq KeysOf(occ')
    BY DEF migrationVars
  <2>1. CASE occ' = occ
    BY <2>1
  <2>2. CASE Adopt
    <3>1. legacy # Missing /\ SameBounds /\ occ' = legacy
      BY <2>2 DEF MigrationInv, MigrationKnows, OccurrencesKnown, Adopt
    <3>2. QED
      BY <3>1, SameKeys
  <2>3. CASE Swap
    <3>1. mg.pc = "swap" /\ mg.pc \in AfterCopy /\ legacy # Missing
      BY <2>3 DEF Swap, AfterCopy, MigrationInv, MigrationKnows
    <3>2. KeysOf(legacy) \subseteq StagedKeys
      BY <3>1, AllCopied
    <3>3. KeysOf(occ) \subseteq StagedKeys
      <4>1. CASE mg.grown
        BY <3>1, <4>1 DEF OccurrencesKnown
      <4>2. CASE ~mg.grown
        BY <3>1, <3>2, <4>2, SameKeys DEF OccurrencesKnown
      <4>3. QED
        BY <4>1, <4>2
    <3>4. StagedKeys \subseteq KeysOf(occ')
      <4>1. \A i \in DOMAIN staging :
              [rowid |-> i, key |-> staging[i].key, facts |-> staging[i].facts] \in occ'
        BY <2>3 DEF Swap
      <4>2. \A i \in DOMAIN staging : \E row \in occ' : row.key = staging[i].key
        <5> SUFFICES ASSUME NEW i \in DOMAIN staging
                     PROVE  \E row \in occ' : row.key = staging[i].key
          OBVIOUS
        <5> DEFINE new == [rowid |-> i, key |-> staging[i].key, facts |-> staging[i].facts]
        <5>1. new \in occ' /\ new.key = staging[i].key
          BY <4>1
        <5>2. QED
          BY <5>1
      <4>3. QED
        BY <4>2 DEF StagedKeys, KeysOf
    <3>5. QED
      BY <3>3, <3>4
  <2>4. CASE Analyse
    <3>1. occ \in SUBSET Row
      BY MigrationTypes DEF MigrationInv
    <3>2. \A row \in occ : \E new \in occ' : new.key = row.key
      <4>1. \A row \in occ :
              LET new == [row EXCEPT !.facts = IF @ = "none" THEN "new" ELSE @]
              IN  new \in occ' /\ new.key = row.key
        BY <2>4, <3>1 DEF Analyse, Row
      <4>2. QED
        BY <4>1
    <3>3. QED
      BY <3>2 DEF KeysOf
  <2>5. occ' = occ \/ Adopt \/ Swap \/ Analyse
    BY DEF MigrationNext, MigrationStep, StartMigration, CleanupTables, CancelMigration,
       CrashMigration, LinkOccurrence, RebuildTable, CheckRedundant, MarkNotReady,
       CompareBounds, CompareBoundsAgain, ReadProgress, CreateStaging, CopyRows, EndCopy,
       ReadFinalBounds, UniqueIndex, AppendOccurrences, EndCancelled, DropRedundant, tables
  <2>6. QED
    BY <2>1, <2>2, <2>3, <2>4, <2>5
<1>4. MigrationSpec => [][Stored]_migrationVars
  BY FactsKept
<1>5. MigrationSpec => [][Kept]_migrationVars
  <2>1. MigrationInv /\ OccurrencesKnown /\ [MigrationNext]_migrationVars
          /\ [Stored]_migrationVars => [Kept]_migrationVars
    BY <1>3
  <2>2. QED
    BY <1>1, <1>2, <1>4, <2>1, MigrationInvariant, PTL DEF MigrationSpec
<1>6. QED
  BY <1>5 DEF NothingLost

----------------------------------------------------------------------------
(***************************************************************************)
(* The cache of same images.                                               *)
(***************************************************************************)

\* From the lookup that found nobody computing until the result is published,
\* a call has an Inflight to its name; it answers for it after that.
Owning == {"permit", "query", "expand", "publish"}

\* A cache has its six fields.
CacheFields(inner) ==
  inner = [identity |-> inner.identity, entries |-> inner.entries, aliases |-> inner.aliases,
           lru |-> inner.lru, members |-> inner.members, inflight |-> inner.inflight]

\* Every group is in the list once, every alias leads to a group, and no
\* member goes uncounted.
CacheLists(inner) ==
  /\ CacheFields(inner)
  /\ inner.identity \in Versions \cup {NoneYet} /\ inner.members \in Nat
  /\ inner.lru \in Seq(Assets) /\ IsInjective(inner.lru)
  /\ Range(inner.lru) = DOMAIN inner.entries
  /\ \A k \in DOMAIN inner.entries : inner.entries[k] \in Groups
  /\ \A a \in DOMAIN inner.aliases : inner.aliases[a] \in DOMAIN inner.entries
  /\ Cardinality(Members(inner.entries)) <= inner.members

CacheLimits(inner) ==
  /\ Cardinality(DOMAIN inner.entries) <= MaxGroups
  /\ Cardinality(Members(inner.entries)) <= MaxMembers

RankFields ==
  rank = [pc |-> rank.pc, next |-> rank.next, resolved |-> rank.resolved,
          failed |-> rank.failed, cancel |-> rank.cancel]

SameTypes ==
  /\ version \in Versions /\ checked \in BOOLEAN
  /\ calls \in [Callers -> Call]
  /\ RankFields /\ rank.pc \in {"off", "running", "resolved", "cancelled", "error"}
  /\ rank.next \in Nat /\ rank.cancel \in BOOLEAN /\ rank.resolved \subseteq 1 .. Len(Candidates)

CallsSound ==
  \A c \in Callers :
    /\ calls[c].pc \notin {"idle", "done"} => calls[c].asset \in Assets
    /\ calls[c].pc = "expand" => calls[c].group.reps # {}
    /\ calls[c].pc = "publish" => calls[c].group = Failure \/ calls[c].group.reps # {}

\* The call that an Inflight names computes its image.
FlightsOwned ==
  \A a \in DOMAIN cache.inflight :
    /\ a \in Assets /\ cache.inflight[a] \in Callers
    /\ calls[cache.inflight[a]].pc \in Owning /\ calls[cache.inflight[a]].asset = a

WaitersOwned ==
  \A c \in Callers :
    calls[c].pc = "wait" =>
      /\ calls[calls[c].flight].pc \in Owning \cup {"answer"}
      /\ calls[calls[c].flight].asset = calls[c].asset

HasLeft == {w \in RankWorkers : Left(w)}

\* A candidate that was taken has its result or a worker at it; workers leave
\* when none is left, or when they see the flag.
CandidatesHeld ==
  /\ rank.next <= Len(Candidates) + Cardinality(HasLeft)
  /\ ~rank.cancel /\ HasLeft # {} => rank.next >= Len(Candidates)
  /\ \A i \in 1 .. Len(Candidates) :
       i <= rank.next =>
         \/ i \in rank.resolved
         \/ \E w \in RankWorkers : calls[w].pc # "idle" /\ calls[w].asset = Candidates[i]
  /\ rank.pc \in {"resolved", "error"} => 1 .. Len(Candidates) \subseteq rank.resolved

\* A group as the manifest had it first.
FirstExact == ExactOf[Min(Versions)]
AllSelf(reps) == \A r \in reps : FirstExact[r] = r
Whole(group)  ==
  /\ group.reps # {} /\ AllSelf(group.reps)
  /\ group.assets = {a \in Assets : FirstExact[a] \in group.reps}

\* The first identity that is checked replaces an empty cache nobody used.
BeforeChecked ==
  cache.identity = NoneYet =>
    /\ ~checked
    /\ \A c \in Callers : /\ calls[c].pc \in {"idle", "identity", "lookup", "done"}
                          /\ calls[c].pc = "lookup" => Checks(c)

FirstVersion ==
  /\ cache.identity \in {NoneYet, version}
  /\ \A c \in Callers : calls[c].identity \in {NoneYet, version}
  /\ BeforeChecked
  /\ \A c \in Callers :
       calls[c].pc \in Owning =>
         calls[c].asset \in DOMAIN cache.inflight /\ cache.inflight[calls[c].asset] = c
  /\ \A c \in Callers :
       /\ calls[c].pc = "expand" => AllSelf(calls[c].group.reps)
       /\ calls[c].pc = "publish" => calls[c].group = Failure \/ Whole(calls[c].group)

\* Every representative of a group leads to it; one of them is its key.
GroupsWhole(inner) ==
  /\ inner.members = Cardinality(Members(inner.entries))
  /\ \A k \in DOMAIN inner.entries :
       /\ Whole(inner.entries[k]) /\ k \in inner.entries[k].reps
       /\ \A r \in inner.entries[k].reps : r \in DOMAIN inner.aliases /\ inner.aliases[r] = k

SameInv ==
  /\ SameTypes /\ CallsSound /\ FlightsOwned /\ WaitersOwned /\ CandidatesHeld
  /\ CacheLists(cache) /\ CacheLimits(cache)
  /\ Undisturbed => FirstVersion /\ GroupsWhole(cache)

----------------------------------------------------------------------------
(* The bookkeeping of one cache.                                           *)

LEMMA LeastOf ==
  ASSUME NEW S \in SUBSET Nat, S # {}
  PROVE  Min(S) \in S /\ \A y \in S : Min(S) <= y
<1> DEFINE R == OpToRel(<, Nat)
<1>1. PICK x \in S : \A y \in S : <<y, x>> \notin R
  <2>1. IsWellFoundedOn(R, Nat)
    BY NatLessThanWellFounded
  <2> HIDE DEF R
  <2>2. QED
    BY <2>1, WFMin
<1>2. \A y \in Nat, z \in Nat : y < z => <<y, z>> \in R
  BY DEF OpToRel
<1>3. ASSUME NEW y \in S PROVE x <= y
  <2> SUFFICES ASSUME ~(x <= y) PROVE FALSE
    OBVIOUS
  <2>1. x \in Nat /\ y \in Nat /\ y < x
    OBVIOUS
  <2> HIDE DEF R
  <2> QED BY <1>1, <1>2, <1>3, <2>1
<1> QED BY <1>3 DEF Min

\* What is left of a list when one element is taken out.
LEMMA Removed ==
  ASSUME NEW S, NEW s \in Seq(S), NEW p \in 1 .. Len(s), IsInjective(s)
  PROVE  /\ RemoveAt(s, p) \in Seq(S) /\ IsInjective(RemoveAt(s, p))
         /\ Range(RemoveAt(s, p)) = Range(s) \ {s[p]}
<1> DEFINE t == RemoveAt(s, p)
<1>1. /\ t \in Seq(S) /\ Len(t) = Len(s) - 1 /\ Len(s) \in Nat
      /\ \A i \in 1 .. Len(s) - 1 : t[i] = IF i < p THEN s[i] ELSE s[i + 1]
      /\ DOMAIN t = 1 .. Len(s) - 1 /\ DOMAIN s = 1 .. Len(s)
  <2> DEFINE u == SubSeq(s, 1, p - 1)
             v == SubSeq(s, p + 1, Len(s))
  <2>1. Len(s) \in Nat /\ DOMAIN s = 1 .. Len(s)
    OBVIOUS
  <2>2. u \in Seq(S) /\ Len(u) = p - 1 /\ \A i \in 1 .. p - 1 : u[i] = s[i]
    OBVIOUS
  <2>3. v \in Seq(S) /\ Len(v) = Len(s) - p /\ \A i \in 1 .. Len(s) - p : v[i] = s[i + p]
    OBVIOUS
  <2>4. t = u \o v
    BY DEF RemoveAt
  <2> HIDE DEF t, u, v
  <2>5. /\ t \in Seq(S) /\ Len(t) = Len(u) + Len(v)
        /\ \A i \in 1 .. Len(u) + Len(v) : t[i] = IF i <= Len(u) THEN u[i] ELSE v[i - Len(u)]
    BY <2>2, <2>3, <2>4, ConcatProperties
  <2>6. ASSUME NEW i \in 1 .. Len(s) - 1 PROVE t[i] = IF i < p THEN s[i] ELSE s[i + 1]
    <3>1. i - (p - 1) + p = i + 1
      BY <2>1
    <3>2. CASE i < p
      <4>1. i \in 1 .. p - 1 /\ i <= Len(u) /\ i \in 1 .. Len(u) + Len(v)
        BY <2>1, <2>2, <2>3, <3>2
      <4> QED BY <2>2, <2>5, <3>2, <4>1
    <3>3. CASE ~(i < p)
      <4>1. i - (p - 1) \in 1 .. Len(s) - p /\ ~(i <= Len(u)) /\ i \in 1 .. Len(u) + Len(v)
        BY <2>1, <2>2, <2>3, <3>3
      <4>2. t[i] = v[i - (p - 1)]
        BY <2>2, <2>5, <4>1
      <4> QED BY <2>3, <3>1, <3>3, <4>1, <4>2
    <3> QED BY <3>2, <3>3
  <2> QED BY <2>1, <2>2, <2>3, <2>5, <2>6
<1> HIDE DEF t
<1>2. \A i \in 1 .. Len(s), j \in 1 .. Len(s) : s[i] = s[j] => i = j
  BY <1>1 DEF IsInjective
<1>3. IsInjective(t)
  <2> SUFFICES ASSUME NEW i \in 1 .. Len(s) - 1, NEW j \in 1 .. Len(s) - 1, t[i] = t[j]
               PROVE  i = j
    BY <1>1 DEF IsInjective
  <2> DEFINE a == IF i < p THEN i ELSE i + 1
             b == IF j < p THEN j ELSE j + 1
  <2>1. t[i] = s[a] /\ t[j] = s[b] /\ a \in 1 .. Len(s) /\ b \in 1 .. Len(s)
    BY <1>1
  <2>2. a = b
    BY <1>2, <2>1
  <2> QED BY <2>2, <1>1
<1>4. ASSUME NEW x \in Range(t) PROVE x \in Range(s) \ {s[p]}
  <2>1. PICK i \in 1 .. Len(s) - 1 : x = t[i]
    BY <1>1 DEF Range
  <2>2. PICK a \in 1 .. Len(s) : a # p /\ x = s[a]
    BY <1>1, <2>1
  <2> QED BY <1>1, <1>2, <2>2 DEF Range
<1>5. ASSUME NEW x \in Range(s) \ {s[p]} PROVE x \in Range(t)
  <2>1. PICK a \in 1 .. Len(s) : x = s[a]
    BY <1>1 DEF Range
  <2>2. a # p
    BY <2>1
  <2>3. CASE a < p
    <3>1. a \in 1 .. Len(s) - 1 /\ t[a] = x
      BY <1>1, <2>1, <2>3
    <3> QED BY <1>1, <3>1 DEF Range
  <2>4. CASE a > p
    <3>1. a - 1 \in 1 .. Len(s) - 1 /\ t[a - 1] = x
      BY <1>1, <2>1, <2>4
    <3> QED BY <1>1, <3>1 DEF Range
  <2> QED BY <2>2, <2>3, <2>4, <1>1
<1> QED BY <1>1, <1>3, <1>4, <1>5 DEF t

LEMMA AppendedKey ==
  ASSUME NEW S, NEW s \in Seq(S), NEW e \in S, IsInjective(s), e \notin Range(s)
  PROVE  /\ Append(s, e) \in Seq(S) /\ IsInjective(Append(s, e))
         /\ Range(Append(s, e)) = Range(s) \cup {e}
<1> DEFINE t == Append(s, e)
<1>1. /\ t \in Seq(S) /\ Len(t) = Len(s) + 1 /\ t[Len(s) + 1] = e
      /\ \A i \in 1 .. Len(s) : t[i] = s[i]
      /\ DOMAIN t = 1 .. Len(s) + 1 /\ DOMAIN s = 1 .. Len(s) /\ Len(s) \in Nat
  OBVIOUS
<1> HIDE DEF t
<1>2. \A i \in 1 .. Len(s) : s[i] \in Range(s)
  BY <1>1 DEF Range
<1>3. IsInjective(t)
  <2> SUFFICES ASSUME NEW i \in 1 .. Len(s) + 1, NEW j \in 1 .. Len(s) + 1, t[i] = t[j]
               PROVE  i = j
    BY <1>1 DEF IsInjective
  <2>1. CASE i <= Len(s) /\ j <= Len(s)
    BY <1>1, <2>1 DEF IsInjective
  <2>2. CASE i <= Len(s) /\ j = Len(s) + 1
    <3>1. i \in 1 .. Len(s)
      BY <1>1, <2>2
    <3> QED BY <1>1, <1>2, <2>2, <3>1
  <2>3. CASE j <= Len(s) /\ i = Len(s) + 1
    <3>1. j \in 1 .. Len(s)
      BY <1>1, <2>3
    <3> QED BY <1>1, <1>2, <2>3, <3>1
  <2> QED BY <1>1, <2>1, <2>2, <2>3
<1>4. ASSUME NEW x \in Range(t) PROVE x \in Range(s) \cup {e}
  <2>1. PICK i \in 1 .. Len(s) + 1 : x = t[i]
    BY <1>1 DEF Range
  <2>2. i \in 1 .. Len(s) => x \in Range(s)
    BY <1>1, <1>2, <2>1
  <2>3. i \notin 1 .. Len(s) => i = Len(s) + 1
    BY <1>1
  <2> QED BY <1>1, <2>1, <2>2, <2>3
<1>5. ASSUME NEW x \in Range(s) \cup {e} PROVE x \in Range(t)
  <2>1. CASE x \in Range(s)
    <3>1. PICK i \in 1 .. Len(s) : x = s[i]
      BY <1>1, <2>1 DEF Range
    <3>2. i \in 1 .. Len(s) + 1 /\ x = t[i]
      BY <1>1, <3>1
    <3> QED BY <1>1, <3>2 DEF Range
  <2>2. CASE x = e
    <3>1. Len(s) + 1 \in 1 .. Len(s) + 1
      BY <1>1
    <3> QED BY <1>1, <2>2, <3>1 DEF Range
  <2> QED BY <2>1, <2>2
<1> QED BY <1>1, <1>3, <1>4, <1>5 DEF t

\* A key that is used is in the list once, wherever it was.
LEMMA TouchedList ==
  ASSUME NEW S, NEW s \in Seq(S), NEW e \in S, IsInjective(s)
  PROVE  /\ Touched(s, e) \in Seq(S) /\ IsInjective(Touched(s, e))
         /\ Range(Touched(s, e)) = Range(s) \cup {e}
<1> DEFINE p == CHOOSE i \in DOMAIN s : s[i] = e
<1>1. CASE e \in Range(s)
  <2>1. \E i \in DOMAIN s : s[i] = e
    BY <1>1 DEF Range
  <2>2. p \in DOMAIN s /\ s[p] = e
    BY <2>1
  <2>3. p \in 1 .. Len(s)
    <3>1. DOMAIN s = 1 .. Len(s)
      OBVIOUS
    <3> QED BY <2>2, <3>1
  <2>4. Touched(s, e) = Append(RemoveAt(s, p), e)
    BY <1>1 DEF Touched
  <2> HIDE DEF p
  <2> DEFINE t == RemoveAt(s, p)
  <2>5. t \in Seq(S) /\ IsInjective(t) /\ Range(t) = Range(s) \ {e}
    BY <2>2, <2>3, Removed
  <2> HIDE DEF t
  <2>6. /\ Append(t, e) \in Seq(S) /\ IsInjective(Append(t, e))
        /\ Range(Append(t, e)) = Range(t) \cup {e}
    BY <2>5, AppendedKey
  <2>7. Touched(s, e) = Append(t, e)
    BY <2>4 DEF t
  <2> QED BY <1>1, <2>5, <2>6, <2>7
<1>2. CASE e \notin Range(s)
  <2>1. Touched(s, e) = Append(s, e)
    BY <1>2 DEF Touched
  <2> QED BY <1>2, <2>1, AppendedKey
<1> QED BY <1>1, <1>2

\* A list without its oldest keys.
LEMMA ShortenedList ==
  ASSUME NEW S, NEW s \in Seq(S), IsInjective(s), NEW n \in 0 .. Len(s)
  PROVE  LET t == SubSeq(s, n + 1, Len(s)) IN
         /\ t \in Seq(S) /\ IsInjective(t)
         /\ Range(t) = Range(s) \ {s[i] : i \in 1 .. n}
<1> DEFINE t == SubSeq(s, n + 1, Len(s))
<1>1. /\ t \in Seq(S) /\ Len(t) = Len(s) - n /\ Len(s) \in Nat
      /\ \A i \in 1 .. Len(s) - n : t[i] = s[i + n]
      /\ DOMAIN t = 1 .. Len(s) - n /\ DOMAIN s = 1 .. Len(s)
  OBVIOUS
<1> HIDE DEF t
<1>2. \A i \in 1 .. Len(s), j \in 1 .. Len(s) : s[i] = s[j] => i = j
  BY <1>1 DEF IsInjective
<1>3. IsInjective(t)
  <2> SUFFICES ASSUME NEW i \in 1 .. Len(s) - n, NEW j \in 1 .. Len(s) - n, t[i] = t[j]
               PROVE  i = j
    BY <1>1 DEF IsInjective
  <2>1. i + n \in 1 .. Len(s) /\ j + n \in 1 .. Len(s) /\ s[i + n] = s[j + n]
    BY <1>1
  <2>2. i + n = j + n
    BY <1>2, <2>1
  <2> QED BY <1>1, <2>2
<1>4. ASSUME NEW x \in Range(t) PROVE x \in Range(s) \ {s[i] : i \in 1 .. n}
  <2>1. PICK i \in 1 .. Len(s) - n : x = t[i]
    BY <1>1 DEF Range
  <2>2. i + n \in 1 .. Len(s) /\ x = s[i + n]
    BY <1>1, <2>1
  <2>3. x \in Range(s)
    BY <1>1, <2>2 DEF Range
  <2>4. ASSUME NEW j \in 1 .. n, x = s[j] PROVE FALSE
    <3>1. j \in 1 .. Len(s)
      BY <1>1
    <3>2. j = i + n
      BY <1>2, <2>2, <2>4, <3>1
    <3> QED BY <1>1, <3>2
  <2> QED BY <2>3, <2>4
<1>5. ASSUME NEW x \in Range(s) \ {s[i] : i \in 1 .. n} PROVE x \in Range(t)
  <2>1. PICK i \in 1 .. Len(s) : x = s[i]
    BY <1>1 DEF Range
  <2>2. i \notin 1 .. n
    BY <2>1
  <2>3. i - n \in 1 .. Len(s) - n /\ t[i - n] = x
    BY <1>1, <2>1, <2>2
  <2> QED BY <1>1, <2>3 DEF Range
<1> QED BY <1>1, <1>3, <1>4, <1>5 DEF t

\* A list without repetition is as long as its set.
LEMMA ListSize ==
  ASSUME NEW S, NEW s \in Seq(S), IsInjective(s)
  PROVE  IsFiniteSet(Range(s)) /\ Cardinality(Range(s)) = Len(s)
<1>1. DOMAIN s = 1 .. Len(s) /\ Len(s) \in Nat /\ s \in [1 .. Len(s) -> S]
  OBVIOUS
<1>2. s \in [1 .. Len(s) -> Range(s)]
  BY <1>1 DEF Range
<1>3. s \in Bijection(1 .. Len(s), Range(s))
  BY <1>1, <1>2 DEF Bijection, Injection, Surjection, Range, IsInjective
<1>4. IsFiniteSet(1 .. Len(s)) /\ Cardinality(1 .. Len(s)) = Len(s)
  BY <1>1, FS_Interval
<1> QED BY <1>3, <1>4, FS_Bijection DEF ExistsBijection
----------------------------------------------------------------------------
(* What the constants are.                                                 *)

LEMMA SameConstants ==
  /\ Assets \subseteq Nat \ {0} /\ IsFiniteSet(Assets)
  /\ Versions # {} /\ Versions \subseteq Nat \ {0}
  /\ NoneYet \notin Assets /\ NoneYet \notin Versions
  /\ MaxGroups \in Nat /\ MaxMembers \in Nat
  /\ Candidates \in Seq(Assets) /\ Len(Candidates) \in Nat
  /\ Readers \cap RankWorkers = {} /\ AskedFor \subseteq Assets
  /\ IsFiniteSet(RankWorkers) /\ (Candidates # <<>> => RankWorkers # {})
BY SameCacheAssumption DEF Versions, NoneYet

LEMMA ExactGroups ==
  ASSUME NEW v \in Versions, NEW a \in Assets
  PROVE  /\ ExactOf[v][a] \in Assets /\ NearOf[v][a] \subseteq Assets
         /\ v = Min(Versions) =>
              \A r \in {ExactOf[v][a]} \cup NearOf[v][a] : ExactOf[v][r] = r
BY SameCacheAssumption DEF Versions

LEMMA FirstOfVersions ==
  Min(Versions) \in Versions /\ \A v \in Versions : Min(Versions) <= v
<1>1. Versions \in SUBSET Nat /\ Versions # {}
  BY SameConstants
<1> QED BY <1>1, LeastOf

LEMMA KeyOfGroup ==
  ASSUME NEW group \in Groups, group.reps # {}
  PROVE  Key(group) \in Assets /\ Key(group) \in group.reps
BY SameConstants, LeastOf DEF Groups, Key

----------------------------------------------------------------------------
(* The members of the groups are counted with their keys.                  *)

LEMMA InMembers ==
  ASSUME NEW entries, NEW p
  PROVE  p \in Members(entries) <=>
           \E k \in DOMAIN entries : \E a \in entries[k].assets : p = <<k, a>>
BY DEF Members

LEMMA MembersFinite ==
  ASSUME NEW entries, DOMAIN entries \subseteq Assets,
         \A k \in DOMAIN entries : entries[k] \in Groups
  PROVE  /\ IsFiniteSet(Members(entries)) /\ Cardinality(Members(entries)) \in Nat
<1>1. \A k \in DOMAIN entries : entries[k].assets \subseteq Assets
  BY DEF Groups
<1>2. Members(entries) \subseteq Assets \X Assets
  BY <1>1, InMembers
<1>3. IsFiniteSet(Assets \X Assets)
  BY SameConstants, FS_Product
<1>4. IsFiniteSet(Members(entries))
  BY <1>2, <1>3, FS_Subset
<1> QED BY <1>4, FS_CardinalityType

\* Two groups of entries without a common key.
LEMMA SplitMembers ==
  ASSUME NEW entries, DOMAIN entries \subseteq Assets,
         \A k \in DOMAIN entries : entries[k] \in Groups,
         NEW gone \in SUBSET (DOMAIN entries)
  PROVE  LET rest == Restrict(entries, DOMAIN entries \ gone)
             out  == Restrict(entries, gone)
         IN  /\ Cardinality(Members(rest)) \in Nat /\ Cardinality(Members(out)) \in Nat
             /\ Cardinality(Members(entries)) =
                  Cardinality(Members(rest)) + Cardinality(Members(out))
<1> DEFINE rest == Restrict(entries, DOMAIN entries \ gone)
           out  == Restrict(entries, gone)
<1>1. /\ DOMAIN rest = DOMAIN entries \ gone /\ DOMAIN out = gone
      /\ \A k \in DOMAIN entries \ gone : rest[k] = entries[k]
      /\ \A k \in gone : out[k] = entries[k]
  BY DEF Restrict
<1> HIDE DEF rest, out
<1>2. /\ IsFiniteSet(Members(rest)) /\ Cardinality(Members(rest)) \in Nat
      /\ IsFiniteSet(Members(out)) /\ Cardinality(Members(out)) \in Nat
  BY <1>1, MembersFinite
<1>3. Members(entries) = Members(rest) \cup Members(out)
  <2>1. ASSUME NEW p PROVE p \in Members(entries) <=> p \in Members(rest) \cup Members(out)
    BY <1>1, InMembers
  <2> QED BY <2>1
<1>4. Members(rest) \cap Members(out) = {}
  <2> SUFFICES ASSUME NEW p, p \in Members(rest), p \in Members(out) PROVE FALSE
    OBVIOUS
  <2>1. PICK k \in DOMAIN entries \ gone : \E a \in entries[k].assets : p = <<k, a>>
    BY <1>1, InMembers
  <2>2. PICK j \in gone : \E a \in entries[j].assets : p = <<j, a>>
    BY <1>1, InMembers
  <2> QED BY <2>1, <2>2
<1>5. Cardinality(Members(rest) \cup Members(out)) =
        Cardinality(Members(rest)) + Cardinality(Members(out))
  <2>1. Cardinality(Members(rest) \cap Members(out)) = 0
    BY <1>4, FS_EmptySet
  <2>2. Cardinality(Members(rest) \cup Members(out)) =
          Cardinality(Members(rest)) + Cardinality(Members(out))
            - Cardinality(Members(rest) \cap Members(out))
    BY <1>2, FS_Union
  <2> QED BY <1>2, <2>1, <2>2
<1> QED BY <1>2, <1>3, <1>5 DEF rest, out

Entered(entries, key, group) ==
  [k \in {key} \cup DOMAIN entries |-> IF k = key THEN group ELSE entries[k]]

LEMMA EnteredMembers ==
  ASSUME NEW entries, DOMAIN entries \subseteq Assets,
         \A k \in DOMAIN entries : entries[k] \in Groups,
         NEW key \in Assets, NEW group \in Groups
  PROVE  LET new == Entered(entries, key, group)
         IN  /\ Cardinality(Members(new)) <=
                  Cardinality(Members(entries)) + Cardinality(group.assets)
             /\ key \notin DOMAIN entries =>
                  Cardinality(Members(new)) =
                    Cardinality(Members(entries)) + Cardinality(group.assets)
             /\ Cardinality(group.assets) \in Nat
<1> DEFINE new == Entered(entries, key, group)
           own == {key} \X group.assets
<1>1. /\ DOMAIN new = {key} \cup DOMAIN entries /\ new[key] = group
      /\ \A k \in DOMAIN entries : k # key => new[k] = entries[k]
  BY DEF Entered
<1> HIDE DEF new
<1>2. IsFiniteSet(own) /\ Cardinality(own) = Cardinality(group.assets)
      /\ Cardinality(group.assets) \in Nat
  <2>1. group.assets \subseteq Assets
    BY DEF Groups
  <2>2. IsFiniteSet(group.assets) /\ Cardinality(group.assets) \in Nat
    BY <2>1, SameConstants, FS_Subset, FS_CardinalityType
  <2>3. IsFiniteSet({key}) /\ Cardinality({key}) = 1
    BY FS_Singleton
  <2>4. IsFiniteSet(own) /\ Cardinality(own) = Cardinality({key}) * Cardinality(group.assets)
    BY <2>2, <2>3, FS_Product
  <2> QED BY <2>2, <2>3, <2>4
<1>3. ASSUME NEW p
      PROVE  p \in own <=> \E a \in group.assets : p = <<key, a>>
  OBVIOUS
<1> HIDE DEF own
<1>4. ASSUME NEW p
      PROVE  /\ p \in Members(new) => p \in Members(entries) \cup own
             /\ p \in own => p \in Members(new)
             /\ key \notin DOMAIN entries =>
                  /\ p \in Members(entries) => p \in Members(new) /\ p \notin own
  <2>1. p \in Members(new) <=>
          \E k \in {key} \cup DOMAIN entries : \E a \in new[k].assets : p = <<k, a>>
    BY <1>1, InMembers
  <2>2. p \in Members(entries) <=>
          \E k \in DOMAIN entries : \E a \in entries[k].assets : p = <<k, a>>
    BY InMembers
  <2>3. p \in Members(new) => p \in Members(entries) \cup own
    BY <1>1, <1>3, <2>1, <2>2
  <2>4. p \in own => p \in Members(new)
    BY <1>1, <1>3, <2>1
  <2>5. ASSUME key \notin DOMAIN entries, p \in Members(entries)
        PROVE  p \in Members(new) /\ p \notin own
    <3>1. PICK k \in DOMAIN entries : \E a \in entries[k].assets : p = <<k, a>>
      BY <2>2, <2>5
    <3>2. k # key /\ new[k] = entries[k]
      BY <1>1, <2>5
    <3>3. p \in Members(new)
      BY <2>1, <3>1, <3>2
    <3>4. p \notin own
      BY <1>3, <3>1, <3>2
    <3> QED BY <3>3, <3>4
  <2> QED BY <2>3, <2>4, <2>5
<1>5. IsFiniteSet(Members(entries)) /\ Cardinality(Members(entries)) \in Nat
  BY MembersFinite
<1>6. IsFiniteSet(Members(entries) \cup own) /\ IsFiniteSet(Members(entries) \cap own)
      /\ Cardinality(Members(entries) \cup own) =
           Cardinality(Members(entries)) + Cardinality(own)
             - Cardinality(Members(entries) \cap own)
      /\ Cardinality(Members(entries) \cap own) \in Nat
  <2>1. IsFiniteSet(Members(entries) \cap own)
    BY <1>2, FS_Intersection
  <2> QED BY <1>2, <1>5, <2>1, FS_Union, FS_CardinalityType
<1>7. Cardinality(Members(new)) <= Cardinality(Members(entries) \cup own)
  <2>1. Members(new) \subseteq Members(entries) \cup own
    BY <1>4
  <2> QED BY <1>6, <2>1, FS_Subset
<1>8. Cardinality(Members(new)) \in Nat
  BY <1>1, MembersFinite
<1>9. ASSUME key \notin DOMAIN entries
      PROVE  Cardinality(Members(new)) = Cardinality(Members(entries)) + Cardinality(own)
  <2>1. Members(new) = Members(entries) \cup own
    BY <1>4, <1>9
  <2>2. Members(entries) \cap own = {}
    BY <1>4, <1>9
  <2>3. Cardinality(Members(entries) \cap own) = 0
    BY <2>2, FS_EmptySet
  <2> QED BY <1>2, <1>5, <1>6, <2>1, <2>3
<1>10. Cardinality(Members(new)) <= Cardinality(Members(entries)) + Cardinality(group.assets)
  <2>1. Cardinality(Members(entries) \cup own) \in Nat
    BY <1>6, FS_CardinalityType
  <2> QED BY <1>2, <1>5, <1>6, <1>7, <1>8, <2>1
<1> QED BY <1>2, <1>9, <1>10 DEF new
----------------------------------------------------------------------------
(* Groups leave a cache, oldest first, and come in.                        *)

LEMMA CacheTypes ==
  ASSUME NEW inner, CacheLists(inner)
  PROVE  /\ DOMAIN inner.entries \subseteq Assets
         /\ \A k \in DOMAIN inner.entries : inner.entries[k] \in Groups
         /\ inner.lru \in Seq(Assets) /\ Len(inner.lru) \in Nat
         /\ Cardinality(Members(inner.entries)) \in Nat
         /\ IsFiniteSet(DOMAIN inner.entries)
         /\ Cardinality(DOMAIN inner.entries) = Len(inner.lru)
<1>1. inner.lru \in Seq(Assets) /\ Range(inner.lru) = DOMAIN inner.entries
      /\ IsInjective(inner.lru)
  BY DEF CacheLists
<1>2. Len(inner.lru) \in Nat /\ DOMAIN inner.lru = 1 .. Len(inner.lru)
      /\ \A i \in 1 .. Len(inner.lru) : inner.lru[i] \in Assets
  BY <1>1
<1>3. DOMAIN inner.entries \subseteq Assets
  BY <1>1, <1>2 DEF Range
<1>4. \A k \in DOMAIN inner.entries : inner.entries[k] \in Groups
  BY DEF CacheLists
<1> QED BY <1>1, <1>2, <1>3, <1>4, ListSize, MembersFinite

LEMMA DroppedCache ==
  ASSUME NEW inner, CacheLists(inner), NEW n \in 0 .. Len(inner.lru)
  PROVE  LET gone == {inner.lru[i] : i \in 1 .. n}
             left == Dropped(inner, n)
         IN  /\ CacheFields(left)
             /\ left.identity = inner.identity /\ left.inflight = inner.inflight
             /\ left.lru = SubSeq(inner.lru, n + 1, Len(inner.lru))
             /\ gone \in SUBSET (DOMAIN inner.entries)
             /\ left.entries = Restrict(inner.entries, DOMAIN inner.entries \ gone)
             /\ left.aliases = AliasesWithout(inner, gone)
             /\ left.members = inner.members - Cardinality(Members(Restrict(inner.entries, gone)))
<1> DEFINE gone  == {inner.lru[i] : i \in 1 .. n}
           freed == Cardinality(Members(Restrict(inner.entries, gone)))
<1>1. gone \in SUBSET (DOMAIN inner.entries)
  BY CacheTypes DEF CacheLists, Range
<1>2. gone \cap DOMAIN inner.entries = gone
  BY <1>1
<1>3. freed \in Nat /\ inner.members \in Nat /\ freed <= inner.members
  <2>1. /\ Cardinality(Members(Restrict(inner.entries, DOMAIN inner.entries \ gone))) \in Nat
        /\ freed \in Nat
        /\ Cardinality(Members(inner.entries)) =
             Cardinality(Members(Restrict(inner.entries, DOMAIN inner.entries \ gone))) + freed
    BY <1>1, CacheTypes, SplitMembers
  <2>2. Cardinality(Members(inner.entries)) <= inner.members /\ inner.members \in Nat
    BY DEF CacheLists
  <2> HIDE DEF freed
  <2> QED BY <2>1, <2>2
<1>4. CacheFields(inner)
  BY DEF CacheLists
<1>5. Dropped(inner, n) =
        [inner EXCEPT !.lru = SubSeq(@, n + 1, Len(@)),
                      !.entries = Restrict(@, DOMAIN @ \ gone),
                      !.members = IF freed > @ THEN 0 ELSE @ - freed,
                      !.aliases = AliasesWithout(inner, gone)]
  <2> HIDE DEF gone
  <2>1. Dropped(inner, n) =
          [inner EXCEPT
            !.lru = SubSeq(@, n + 1, Len(@)),
            !.entries = Restrict(@, DOMAIN @ \ (gone \cap DOMAIN inner.entries)),
            !.members = IF Cardinality(Members(Restrict(inner.entries, gone \cap DOMAIN inner.entries))) > @
                        THEN 0
                        ELSE @ - Cardinality(Members(Restrict(inner.entries, gone \cap DOMAIN inner.entries))),
            !.aliases = AliasesWithout(inner, gone \cap DOMAIN inner.entries)]
    BY DEF Dropped, gone
  <2> QED BY <1>2, <2>1
<1> DEFINE l == SubSeq(inner.lru, n + 1, Len(inner.lru))
           e == Restrict(inner.entries, DOMAIN inner.entries \ gone)
           a == AliasesWithout(inner, gone)
<1> HIDE DEF gone, freed
<1>6. ~(freed > inner.members)
  BY <1>3
<1>7. Dropped(inner, n) =
        [inner EXCEPT !.lru = l, !.entries = e, !.members = inner.members - freed, !.aliases = a]
  BY <1>4, <1>5, <1>6 DEF CacheFields
<1> HIDE DEF l, e, a
<1>8. Dropped(inner, n) =
        [identity |-> inner.identity, entries |-> e, aliases |-> a, lru |-> l,
         members |-> inner.members - freed, inflight |-> inner.inflight]
  BY <1>4, <1>7 DEF CacheFields
<1>9. CacheFields(Dropped(inner, n))
  BY <1>8 DEF CacheFields
<1> QED BY <1>1, <1>8, <1>9 DEF gone, freed, l, e, a

LEMMA DroppedLists ==
  ASSUME NEW inner, CacheLists(inner), NEW n \in 0 .. Len(inner.lru)
  PROVE  /\ CacheLists(Dropped(inner, n))
         /\ n = Len(inner.lru) => DOMAIN Dropped(inner, n).entries = {}
         /\ GroupsWhole(inner) => GroupsWhole(Dropped(inner, n))
<1> DEFINE gone == {inner.lru[i] : i \in 1 .. n}
           left == Dropped(inner, n)
           freed == Cardinality(Members(Restrict(inner.entries, gone)))
<1>1. /\ CacheFields(left)
      /\ left.identity = inner.identity /\ left.inflight = inner.inflight
      /\ left.lru = SubSeq(inner.lru, n + 1, Len(inner.lru))
      /\ gone \in SUBSET (DOMAIN inner.entries)
      /\ left.entries = Restrict(inner.entries, DOMAIN inner.entries \ gone)
      /\ left.aliases = AliasesWithout(inner, gone)
      /\ left.members = inner.members - freed
  BY DroppedCache
<1>2. /\ inner.lru \in Seq(Assets) /\ IsInjective(inner.lru)
      /\ Range(inner.lru) = DOMAIN inner.entries
  BY DEF CacheLists
<1>3. /\ left.lru \in Seq(Assets) /\ IsInjective(left.lru)
      /\ Range(left.lru) = Range(inner.lru) \ gone
  <2> DEFINE l == SubSeq(inner.lru, n + 1, Len(inner.lru))
  <2>1. l \in Seq(Assets) /\ IsInjective(l) /\ Range(l) = Range(inner.lru) \ gone
    BY <1>2, ShortenedList
  <2>2. left.lru = l
    BY <1>1
  <2> HIDE DEF l, left
  <2> QED BY <2>1, <2>2
<1>4. /\ DOMAIN left.entries = DOMAIN inner.entries \ gone
      /\ \A k \in DOMAIN inner.entries \ gone : left.entries[k] = inner.entries[k]
  BY <1>1 DEF Restrict
<1>5. /\ DOMAIN left.aliases = {a \in DOMAIN inner.aliases : inner.aliases[a] \notin gone}
      /\ \A a \in DOMAIN left.aliases : left.aliases[a] = inner.aliases[a]
  BY <1>1 DEF AliasesWithout, Restrict
<1>6. /\ Cardinality(Members(left.entries)) \in Nat /\ freed \in Nat
      /\ Cardinality(Members(inner.entries)) = Cardinality(Members(left.entries)) + freed
  BY <1>1, CacheTypes, SplitMembers
<1> HIDE DEF left, freed
<1>7. CacheLists(left)
  <2>1. inner.members \in Nat /\ Cardinality(Members(inner.entries)) <= inner.members
        /\ inner.identity \in Versions \cup {NoneYet}
    BY DEF CacheLists
  <2>2. left.members \in Nat /\ Cardinality(Members(left.entries)) <= left.members
    BY <1>1, <1>6, <2>1
  <2>3. \A k \in DOMAIN left.entries : left.entries[k] \in Groups
    BY <1>4 DEF CacheLists
  <2>4. \A a \in DOMAIN left.aliases : left.aliases[a] \in DOMAIN left.entries
    BY <1>4, <1>5 DEF CacheLists
  <2>5. Range(left.lru) = DOMAIN left.entries
    BY <1>2, <1>3, <1>4
  <2> QED BY <1>1, <1>3, <2>1, <2>2, <2>3, <2>4, <2>5 DEF CacheLists
<1>8. n = Len(inner.lru) => DOMAIN left.entries = {}
  <2> SUFFICES ASSUME n = Len(inner.lru) PROVE DOMAIN inner.entries \subseteq gone
    BY <1>4
  <2>1. DOMAIN inner.lru = 1 .. n
    BY <1>2
  <2> QED BY <1>2, <2>1 DEF Range
<1>9. ASSUME GroupsWhole(inner) PROVE GroupsWhole(left)
  <2>1. inner.members = Cardinality(Members(inner.entries))
    BY <1>9 DEF GroupsWhole
  <2>2. left.members = Cardinality(Members(left.entries))
    BY <1>1, <1>6, <2>1
  <2>3. ASSUME NEW k \in DOMAIN left.entries
        PROVE  /\ Whole(left.entries[k]) /\ k \in left.entries[k].reps
               /\ \A r \in left.entries[k].reps : r \in DOMAIN left.aliases /\ left.aliases[r] = k
    <3>1. k \in DOMAIN inner.entries /\ k \notin gone /\ left.entries[k] = inner.entries[k]
      BY <1>4, <2>3
    <3>2. /\ Whole(inner.entries[k]) /\ k \in inner.entries[k].reps
          /\ \A r \in inner.entries[k].reps : r \in DOMAIN inner.aliases /\ inner.aliases[r] = k
      BY <1>9, <3>1 DEF GroupsWhole
    <3> HIDE DEF gone
    <3> QED BY <1>5, <3>1, <3>2
  <2> QED BY <2>2, <2>3 DEF GroupsWhole
<1> QED BY <1>7, <1>8, <1>9 DEF left

\* Groups are dropped until the cache fits, or until none is left.
LEMMA EvictedLists ==
  ASSUME NEW inner, CacheLists(inner)
  PROVE  LET left == Evicted(inner)
         IN  /\ CacheLists(left) /\ CacheLimits(left)
             /\ left.identity = inner.identity /\ left.inflight = inner.inflight
             /\ GroupsWhole(inner) => GroupsWhole(left)
<1> DEFINE fits == {n \in 0 .. Len(inner.lru) : ~Over(Dropped(inner, n))}
           m    == IF fits = {} THEN Len(inner.lru) ELSE Min(fits)
           left == Dropped(inner, m)
<1>1. Len(inner.lru) \in Nat
  BY CacheTypes
<1>2. m \in 0 .. Len(inner.lru) /\ (fits = {} \/ m \in fits)
  <2>1. CASE fits = {}
    BY <1>1, <2>1
  <2>2. CASE fits # {}
    <3>1. fits \in SUBSET Nat
      BY <1>1
    <3> HIDE DEF fits
    <3>2. Min(fits) \in fits
      BY <2>2, <3>1, LeastOf
    <3>3. m \in fits
      BY <2>2, <3>2
    <3> QED BY <3>3 DEF fits
  <2> QED BY <2>1, <2>2
<1>3. Evicted(inner) = left
  BY DEF Evicted
<1>4. /\ CacheLists(left)
      /\ m = Len(inner.lru) => DOMAIN left.entries = {}
      /\ GroupsWhole(inner) => GroupsWhole(left)
      /\ left.identity = inner.identity /\ left.inflight = inner.inflight
  <2> HIDE DEF m
  <2> QED BY <1>2, DroppedLists, DroppedCache
<1>5. CacheLimits(left)
  <2>0. /\ Cardinality(Members(left.entries)) \in Nat
        /\ Cardinality(DOMAIN left.entries) \in Nat
        /\ left.members \in Nat /\ Cardinality(Members(left.entries)) <= left.members
    <3> HIDE DEF left
    <3>1. /\ Cardinality(Members(left.entries)) \in Nat
          /\ Cardinality(DOMAIN left.entries) = Len(left.lru) /\ Len(left.lru) \in Nat
      BY <1>4, CacheTypes
    <3> QED BY <1>4, <3>1 DEF CacheLists
  <2>1. CASE fits = {}
    <3>1. m = Len(inner.lru)
      BY <2>1
    <3>2. DOMAIN left.entries = {}
      BY <1>4, <3>1
    <3> HIDE DEF left
    <3>3. Members(left.entries) = {}
      BY <3>2 DEF Members
    <3>4. Cardinality(Members(left.entries)) = 0 /\ Cardinality(DOMAIN left.entries) = 0
      BY <3>2, <3>3, FS_EmptySet
    <3> QED BY <3>4, SameConstants DEF CacheLimits
  <2>2. CASE fits # {}
    <3>1. m \in fits
      BY <1>2, <2>2
    <3>2. ~Over(left)
      <4> HIDE DEF m
      <4> QED BY <3>1
    <3> HIDE DEF left
    <3> QED BY <2>0, <3>2, SameConstants DEF Over, CacheLimits
  <2> QED BY <2>1, <2>2
<1> HIDE DEF left
<1> QED BY <1>3, <1>4, <1>5
\* A group that is asked for moves to the end of the list.
LEMMA TouchedLists ==
  ASSUME NEW inner, CacheLists(inner), CacheLimits(inner), NEW key \in DOMAIN inner.entries
  PROVE  LET used == [inner EXCEPT !.lru = Touched(@, key)]
         IN  /\ CacheLists(used) /\ CacheLimits(used)
             /\ used.identity = inner.identity /\ used.inflight = inner.inflight
             /\ GroupsWhole(inner) => GroupsWhole(used)
<1> DEFINE l    == Touched(inner.lru, key)
           used == [inner EXCEPT !.lru = l]
<1>1. CacheFields(inner) /\ inner.lru \in Seq(Assets) /\ IsInjective(inner.lru)
      /\ Range(inner.lru) = DOMAIN inner.entries /\ key \in Assets
  BY CacheTypes DEF CacheLists
<1>2. l \in Seq(Assets) /\ IsInjective(l) /\ Range(l) = DOMAIN inner.entries
  <2>1. l \in Seq(Assets) /\ IsInjective(l) /\ Range(l) = Range(inner.lru) \cup {key}
    BY <1>1, TouchedList
  <2> HIDE DEF l
  <2> QED BY <1>1, <2>1
<1> HIDE DEF l
<1>3. used = [identity |-> inner.identity, entries |-> inner.entries, aliases |-> inner.aliases,
              lru |-> l, members |-> inner.members, inflight |-> inner.inflight]
  BY <1>1 DEF CacheFields
<1>4. CacheFields(used)
  BY <1>3 DEF CacheFields
<1>5. CacheLists(used)
  BY <1>1, <1>2, <1>3, <1>4 DEF CacheLists
<1>6. CacheLimits(used)
  BY <1>3 DEF CacheLimits
<1>7. GroupsWhole(inner) => GroupsWhole(used)
  BY <1>3 DEF GroupsWhole
<1> QED BY <1>3, <1>5, <1>6, <1>7 DEF l

\* A cache of a new identity.
LEMMA EmptyLists ==
  ASSUME NEW i \in Versions \cup {NoneYet}
  PROVE  /\ CacheLists(EmptyCache(i)) /\ CacheLimits(EmptyCache(i))
         /\ EmptyCache(i).identity = i /\ DOMAIN EmptyCache(i).inflight = {}
         /\ GroupsWhole(EmptyCache(i)) /\ DOMAIN EmptyCache(i).aliases = {}
<1> DEFINE e == EmptyCache(i)
<1>1. /\ CacheFields(e) /\ e.identity = i /\ e.members = 0
      /\ e.entries = <<>> /\ e.aliases = <<>> /\ e.lru = <<>> /\ e.inflight = <<>>
  BY DEF EmptyCache, CacheFields
<1> HIDE DEF e
<1>2. DOMAIN <<>> = {}
  OBVIOUS
<1>3. Members(e.entries) = {}
  BY <1>1, <1>2 DEF Members
<1>4. Cardinality(Members(e.entries)) = 0 /\ Cardinality(DOMAIN e.entries) = 0
  BY <1>1, <1>2, <1>3, FS_EmptySet
<1>5. <<>> \in Seq(Assets)
  OBVIOUS
<1>6. IsInjective(e.lru) /\ Range(e.lru) = {}
  BY <1>1, <1>2 DEF IsInjective, Range
<1>7. CacheLists(e)
  BY <1>1, <1>2, <1>4, <1>5, <1>6 DEF CacheLists
<1>8. CacheLimits(e)
  BY <1>4, SameConstants DEF CacheLimits
<1>9. GroupsWhole(e)
  BY <1>1, <1>2, <1>4 DEF GroupsWhole
<1> QED BY <1>1, <1>2, <1>7, <1>8, <1>9 DEF e

\* Another list of the calls that compute.
LEMMA FlightsChanged ==
  ASSUME NEW inner, CacheLists(inner), CacheLimits(inner), NEW flights
  PROVE  LET left == [inner EXCEPT !.inflight = flights]
         IN  /\ CacheLists(left) /\ CacheLimits(left)
             /\ left.identity = inner.identity /\ left.inflight = flights
             /\ left.aliases = inner.aliases /\ left.entries = inner.entries
             /\ GroupsWhole(inner) => GroupsWhole(left)
<1> DEFINE left == [inner EXCEPT !.inflight = flights]
<1>1. left = [identity |-> inner.identity, entries |-> inner.entries, aliases |-> inner.aliases,
              lru |-> inner.lru, members |-> inner.members, inflight |-> flights]
  BY DEF CacheLists, CacheFields
<1>2. CacheFields(left)
  BY <1>1 DEF CacheFields
<1>3. CacheLists(left)
  BY <1>1, <1>2 DEF CacheLists
<1>4. CacheLimits(left)
  BY <1>1 DEF CacheLimits
<1>5. GroupsWhole(inner) => GroupsWhole(left)
  BY <1>1 DEF GroupsWhole
<1> QED BY <1>1, <1>3, <1>4, <1>5

Renew(inner, m, a, e, l) ==
  [inner EXCEPT !.members = m, !.aliases = a, !.entries = e, !.lru = l]

LEMMA Renewed ==
  ASSUME NEW inner, CacheFields(inner), NEW m, NEW a, NEW e, NEW l
  PROVE  Renew(inner, m, a, e, l) =
           [identity |-> inner.identity, entries |-> e, aliases |-> a, lru |-> l,
            members |-> m, inflight |-> inner.inflight]
<1>1. PICK x1, x2, x3, x4, x5, x6 :
        inner = [identity |-> x1, entries |-> x2, aliases |-> x3, lru |-> x4,
                 members |-> x5, inflight |-> x6]
  BY DEF CacheFields
<1>2. x1 = inner.identity /\ x6 = inner.inflight
  BY <1>1
<1> DEFINE new == Renew(inner, m, a, e, l)
           fields == {"identity", "entries", "aliases", "lru", "members", "inflight"}
<1>3. DOMAIN inner = fields
  BY <1>1
<1>4. DOMAIN new = fields
  BY <1>3 DEF Renew
<1>5. new.identity = x1
  BY <1>1 DEF Renew
<1>6. new.entries = e
  BY <1>1 DEF Renew
<1>7. new.aliases = a
  BY <1>1 DEF Renew
<1>8. new.lru = l
  BY <1>1 DEF Renew
<1>9. new.members = m
  BY <1>1 DEF Renew
<1>10. new.inflight = x6
  BY <1>1 DEF Renew
<1> DEFINE rec == [identity |-> inner.identity, entries |-> e, aliases |-> a, lru |-> l,
                   members |-> m, inflight |-> inner.inflight]
<1>11. DOMAIN rec = fields
  OBVIOUS
<1>12. ASSUME NEW f \in fields PROVE new[f] = rec[f]
  <2>1. /\ rec.identity = x1 /\ rec.entries = e /\ rec.aliases = a /\ rec.lru = l
        /\ rec.members = m /\ rec.inflight = x6
    BY <1>2
  <2> HIDE DEF new, rec
  <2> QED BY <1>5, <1>6, <1>7, <1>8, <1>9, <1>10, <2>1
<1>13. new = [f \in DOMAIN new |-> new[f]]
  BY DEF Renew
<1>14. rec = [f \in DOMAIN rec |-> rec[f]]
  OBVIOUS
<1> HIDE DEF new, rec, fields
<1>15. new = rec
  BY <1>4, <1>11, <1>12, <1>13, <1>14
<1> QED BY <1>15 DEF new, rec

\* A group that comes in may take the place of one with its key, and the
\* aliases of others; what it pushes out takes its own aliases along.
LEMMA InsertedLists ==
  ASSUME NEW inner, CacheLists(inner), NEW group \in Groups, group.reps # {}
  PROVE  LET left == InsertSameGroup(inner, group)
         IN  /\ CacheLists(left) /\ CacheLimits(left)
             /\ left.identity = inner.identity /\ left.inflight = inner.inflight
             /\ (/\ GroupsWhole(inner) /\ Whole(group)
                 /\ \A r \in group.reps : r \notin DOMAIN inner.aliases)
                => GroupsWhole(left)
<1> DEFINE key   == Key(group)
           named == group.reps \cup group.assets
           m == inner.members + Cardinality(group.assets)
           a == [x \in named \cup DOMAIN inner.aliases |->
                   IF x \in named THEN key ELSE inner.aliases[x]]
           e == Entered(inner.entries, key, group)
           l == Touched(inner.lru, key)
           new == Renew(inner, m, a, e, l)
<1>1. key \in Assets /\ key \in group.reps
  BY KeyOfGroup
<1>2. InsertSameGroup(inner, group) = Evicted(new)
  BY DEF InsertSameGroup, Entered, Renew
<1> HIDE DEF key
<1>3. /\ DOMAIN a = named \cup DOMAIN inner.aliases
      /\ \A x \in DOMAIN a : a[x] = IF x \in named THEN key ELSE inner.aliases[x]
  OBVIOUS
<1>4. /\ DOMAIN e = {key} \cup DOMAIN inner.entries /\ e[key] = group
      /\ \A k \in DOMAIN inner.entries : k # key => e[k] = inner.entries[k]
  BY DEF Entered
<1>5. /\ CacheFields(inner) /\ inner.lru \in Seq(Assets) /\ IsInjective(inner.lru)
      /\ Range(inner.lru) = DOMAIN inner.entries /\ inner.members \in Nat
      /\ inner.identity \in Versions \cup {NoneYet}
      /\ \A x \in DOMAIN inner.aliases : inner.aliases[x] \in DOMAIN inner.entries
      /\ \A k \in DOMAIN inner.entries : inner.entries[k] \in Groups
      /\ Cardinality(Members(inner.entries)) <= inner.members
      /\ Cardinality(Members(inner.entries)) \in Nat
  BY CacheTypes DEF CacheLists
<1>6. l \in Seq(Assets) /\ IsInjective(l) /\ Range(l) = Range(inner.lru) \cup {key}
  BY <1>1, <1>5, TouchedList
<1>7. /\ Cardinality(Members(e)) <= Cardinality(Members(inner.entries)) + Cardinality(group.assets)
      /\ key \notin DOMAIN inner.entries =>
           Cardinality(Members(e)) = Cardinality(Members(inner.entries)) + Cardinality(group.assets)
      /\ Cardinality(group.assets) \in Nat
  BY <1>1, CacheTypes, EnteredMembers
<1>8. Cardinality(Members(e)) \in Nat
  <2>1. DOMAIN e \subseteq Assets /\ \A k \in DOMAIN e : e[k] \in Groups
    <3> HIDE DEF e
    <3> QED BY <1>1, <1>4, CacheTypes
  <2> HIDE DEF e
  <2> QED BY <2>1, MembersFinite
<1> HIDE DEF a, e, l, named
<1>9. m \in Nat /\ Cardinality(Members(e)) <= m
      /\ (key \notin DOMAIN inner.entries /\ inner.members = Cardinality(Members(inner.entries))
          => m = Cardinality(Members(e)))
  <2>1. ASSUME NEW x \in Nat, NEW y \in Nat, NEW z \in Nat, NEW w \in Nat, y <= x, w <= y + z
        PROVE  x + z \in Nat /\ w <= x + z
    BY <2>1
  <2>2. Cardinality(Members(e)) <= Cardinality(Members(inner.entries)) + Cardinality(group.assets)
        /\ Cardinality(group.assets) \in Nat
    BY <1>7
  <2>3. inner.members \in Nat /\ Cardinality(Members(inner.entries)) <= inner.members
        /\ Cardinality(Members(inner.entries)) \in Nat
    BY <1>5
  <2>4. m \in Nat /\ Cardinality(Members(e)) <= m
    BY <1>8, <2>1, <2>2, <2>3
  <2> QED BY <1>7, <2>4
<1> HIDE DEF m
<1>10. new = [identity |-> inner.identity, entries |-> e, aliases |-> a, lru |-> l,
              members |-> m, inflight |-> inner.inflight]
  <2>1. CacheFields(inner)
    BY <1>5
  <2> QED BY <2>1, Renewed
<1> HIDE DEF new
<1>11. CacheFields(new)
  BY <1>10 DEF CacheFields
<1>12. CacheLists(new)
  <2>1. Range(l) = DOMAIN e
    BY <1>4, <1>5, <1>6
  <2>2. \A k \in DOMAIN e : e[k] \in Groups
    <3> SUFFICES ASSUME NEW k \in DOMAIN e PROVE e[k] \in Groups
      OBVIOUS
    <3>1. CASE k = key
      BY <1>4, <3>1
    <3>2. CASE k # key
      BY <1>4, <1>5, <3>2
    <3> QED BY <3>1, <3>2
  <2>3. \A x \in DOMAIN a : a[x] \in DOMAIN e
    <3> SUFFICES ASSUME NEW x \in DOMAIN a PROVE a[x] \in DOMAIN e
      OBVIOUS
    <3>1. CASE x \in named
      BY <1>3, <1>4, <3>1
    <3>2. CASE x \notin named
      BY <1>3, <1>4, <1>5, <3>2
    <3> QED BY <3>1, <3>2
  <2> QED BY <1>5, <1>6, <1>9, <1>10, <1>11, <2>1, <2>2, <2>3 DEF CacheLists
<1>13. ASSUME GroupsWhole(inner), Whole(group),
              \A r \in group.reps : r \notin DOMAIN inner.aliases
       PROVE  GroupsWhole(new)
  <2>1. /\ inner.members = Cardinality(Members(inner.entries))
        /\ \A k \in DOMAIN inner.entries :
             /\ Whole(inner.entries[k]) /\ k \in inner.entries[k].reps
             /\ \A r \in inner.entries[k].reps :
                  r \in DOMAIN inner.aliases /\ inner.aliases[r] = k
    BY <1>13 DEF GroupsWhole
  <2>2. key \notin DOMAIN inner.entries
    BY <1>1, <1>13, <2>1
  <2>3. new.members = Cardinality(Members(new.entries))
    BY <1>9, <1>10, <2>1, <2>2
  <2>4. ASSUME NEW k \in DOMAIN inner.entries, NEW r \in inner.entries[k].reps
        PROVE  r \notin named
    BY <2>1, <1>13 DEF Whole, AllSelf, named
  <2>5. ASSUME NEW k \in DOMAIN e
        PROVE  /\ Whole(e[k]) /\ k \in e[k].reps
               /\ \A r \in e[k].reps : r \in DOMAIN a /\ a[r] = k
    <3>1. CASE k = key
      BY <1>4, <3>1, <1>3, <1>1, <1>13 DEF named
    <3>2. CASE k # key
      BY <1>4, <3>2, <2>1, <2>4, <1>3
    <3> QED BY <3>1, <3>2
  <2>6. new.entries = e /\ new.aliases = a
    BY <1>10
  <2> QED BY <2>3, <2>5, <2>6 DEF GroupsWhole
<1>14. new.identity = inner.identity /\ new.inflight = inner.inflight
  BY <1>10
<1>15. LET left == Evicted(new)
       IN  /\ CacheLists(left) /\ CacheLimits(left)
           /\ left.identity = new.identity /\ left.inflight = new.inflight
           /\ GroupsWhole(new) => GroupsWhole(left)
  BY <1>12, EvictedLists
<1> QED BY <1>2, <1>13, <1>14, <1>15
----------------------------------------------------------------------------
(* One call changes.                                                       *)

Only(c) ==
  /\ calls' \in [Callers -> Call]
  /\ \A d \in Callers : d # c => calls'[d] = calls[d]

CallOf(p, a, i, f, g) == [pc |-> p, asset |-> a, identity |-> i, flight |-> f, group |-> g]

LEMMA CallTypes ==
  ASSUME SameTypes, NEW c \in Callers
  PROVE  /\ calls[c] \in Call
         /\ calls[c].pc \in CallSteps /\ calls[c].asset \in Assets \cup {NoneYet}
         /\ calls[c].identity \in Versions \cup {NoneYet} /\ calls[c].flight \in Callers
         /\ calls[c].group \in Groups
         /\ calls[c] = CallOf(calls[c].pc, calls[c].asset, calls[c].identity,
                              calls[c].flight, calls[c].group)
<1>1. calls[c] \in Call
  BY DEF SameTypes
<1>2. NoGroup \in Groups /\ Failure \in Groups
  BY DEF NoGroup, Failure, Groups
<1>3. calls[c].group \in Groups \cup {NoGroup, Failure}
  BY <1>1 DEF Call
<1>4. calls[c].group \in Groups
  BY <1>2, <1>3
<1>5. /\ calls[c].pc \in CallSteps /\ calls[c].asset \in Assets \cup {NoneYet}
      /\ calls[c].identity \in Versions \cup {NoneYet} /\ calls[c].flight \in Callers
  BY <1>1 DEF Call
<1>6. calls[c] = CallOf(calls[c].pc, calls[c].asset, calls[c].identity,
                        calls[c].flight, calls[c].group)
  BY <1>1 DEF Call, CallOf
<1> QED BY <1>1, <1>4, <1>5, <1>6

LEMMA CallChanged ==
  ASSUME SameTypes, NEW c \in Callers,
         NEW p \in CallSteps, NEW a \in Assets \cup {NoneYet},
         NEW i \in Versions \cup {NoneYet}, NEW f \in Callers,
         NEW g \in Groups,
         calls' = [calls EXCEPT ![c] = CallOf(p, a, i, f, g)]
  PROVE  /\ Only(c)
         /\ calls'[c].pc = p /\ calls'[c].asset = a /\ calls'[c].identity = i
         /\ calls'[c].flight = f /\ calls'[c].group = g
BY DEF SameTypes, Call, CallOf, Only

\* A record with the fields of a call, however it was put together.
LEMMA CallByFields ==
  ASSUME NEW v, NEW p, NEW a, NEW i, NEW f, NEW g,
         v = [n \in {"pc", "asset", "identity", "flight", "group"} |-> v[n]],
         v.pc = p, v.asset = a, v.identity = i, v.flight = f, v.group = g
  PROVE  v = CallOf(p, a, i, f, g)
<1> DEFINE rec == CallOf(p, a, i, f, g)
           fields == {"pc", "asset", "identity", "flight", "group"}
<1>1. rec = [n \in fields |-> rec[n]]
  BY DEF CallOf
<1>2. rec.pc = p /\ rec.asset = a /\ rec.identity = i /\ rec.flight = f /\ rec.group = g
  BY DEF CallOf
<1>3. ASSUME NEW n \in fields PROVE v[n] = rec[n]
  <2> HIDE DEF rec
  <2> QED BY <1>2
<1>4. v = [n \in fields |-> v[n]]
  OBVIOUS
<1> HIDE DEF rec, fields
<1> QED BY <1>1, <1>3, <1>4 DEF rec

LEMMA GroupConstants ==
  NoGroup \in Groups /\ Failure \in Groups
BY DEF NoGroup, Failure, Groups

\* A call that returns.
LEMMA ReturnedCall ==
  ASSUME SameTypes, NEW c \in Callers, NEW g \in Groups, Returns(c, g)
  PROVE  /\ Only(c)
         /\ calls'[c].pc = "done" /\ calls'[c].asset = calls[c].asset
         /\ calls'[c].identity = NoneYet /\ calls'[c].flight = c /\ calls'[c].group = g
<1> DEFINE v == [IdleCall(c) EXCEPT !.pc = "done", !.asset = calls[c].asset, !.group = g]
<1>3. v = [n \in {"pc", "asset", "identity", "flight", "group"} |-> v[n]]
  BY DEF IdleCall
<1>4. /\ v.pc = "done" /\ v.asset = calls[c].asset /\ v.identity = NoneYet
      /\ v.flight = c /\ v.group = g
  BY DEF IdleCall
<1>5. calls' = [calls EXCEPT ![c] = v]
  BY DEF Returns
<1> HIDE DEF v
<1>1. calls' = [calls EXCEPT ![c] = CallOf("done", calls[c].asset, NoneYet, c, g)]
  <2>1. v = CallOf("done", calls[c].asset, NoneYet, c, g)
    BY <1>3, <1>4, CallByFields
  <2> QED BY <1>5, <2>1
<1>2. "done" \in CallSteps /\ calls[c].asset \in Assets \cup {NoneYet}
      /\ NoneYet \in Versions \cup {NoneYet}
  BY CallTypes DEF CallSteps
<1> QED BY ZenonT(40), <1>1, <1>2, CallChanged

\* A call for an image begins.
LEMMA AskingCall ==
  ASSUME SameTypes, NEW c \in Callers, NEW a \in Assets, Asks(c, a)
  PROVE  /\ Only(c)
         /\ calls'[c].pc = IF checked THEN "lookup" ELSE "identity"
         /\ calls'[c].asset = a
         /\ calls'[c].identity = NoneYet /\ calls'[c].flight = c /\ calls'[c].group = NoGroup
<1> DEFINE p == IF checked THEN "lookup" ELSE "identity"
<1> DEFINE v == [IdleCall(c) EXCEPT !.pc = p, !.asset = a]
<1>4. v = [n \in {"pc", "asset", "identity", "flight", "group"} |-> v[n]]
  BY DEF IdleCall
<1>5. /\ v.pc = p /\ v.asset = a /\ v.identity = NoneYet
      /\ v.flight = c /\ v.group = NoGroup
  BY DEF IdleCall
<1>6. calls' = [calls EXCEPT ![c] = v]
  BY DEF Asks
<1> HIDE DEF v
<1>1. calls' = [calls EXCEPT ![c] = CallOf(p, a, NoneYet, c, NoGroup)]
  <2>1. v = CallOf(p, a, NoneYet, c, NoGroup)
    BY <1>4, <1>5, CallByFields
  <2> QED BY <1>6, <2>1
<1>2. p \in CallSteps /\ a \in Assets \cup {NoneYet} /\ NoneYet \in Versions \cup {NoneYet}
  BY DEF CallSteps
<1> HIDE DEF p
<1>3. /\ Only(c)
      /\ calls'[c].pc = p /\ calls'[c].asset = a /\ calls'[c].identity = NoneYet
      /\ calls'[c].flight = c /\ calls'[c].group = NoGroup
  BY <1>1, <1>2, CallChanged, GroupConstants
<1> QED BY <1>3 DEF p

\* Only the step changes.
LEMMA MovedCall ==
  ASSUME SameTypes, NEW c \in Callers, NEW p \in CallSteps, Moves(c, p)
  PROVE  /\ Only(c)
         /\ calls'[c].pc = p /\ calls'[c].asset = calls[c].asset
         /\ calls'[c].identity = calls[c].identity
         /\ calls'[c].flight = calls[c].flight /\ calls'[c].group = calls[c].group
<1>1. calls[c] = CallOf(calls[c].pc, calls[c].asset, calls[c].identity,
                        calls[c].flight, calls[c].group)
  BY CallTypes
<1>2. [calls[c] EXCEPT !.pc = p] =
        CallOf(p, calls[c].asset, calls[c].identity, calls[c].flight, calls[c].group)
  BY <1>1 DEF CallOf
<1>3. calls' = [calls EXCEPT ![c] = [calls[c] EXCEPT !.pc = p]]
  BY DEF Moves, SameTypes
<1>4. calls' = [calls EXCEPT ![c] =
        CallOf(p, calls[c].asset, calls[c].identity, calls[c].flight, calls[c].group)]
  BY <1>2, <1>3
<1>5. /\ calls[c].asset \in Assets \cup {NoneYet}
      /\ calls[c].identity \in Versions \cup {NoneYet} /\ calls[c].flight \in Callers
      /\ calls[c].group \in Groups
  BY CallTypes
<1> DEFINE oa == calls[c].asset
           oi == calls[c].identity
           of == calls[c].flight
           og == calls[c].group
<1>6. calls' = [calls EXCEPT ![c] = CallOf(p, oa, oi, of, og)]
  BY <1>4
<1>7. oa \in Assets \cup {NoneYet} /\ oi \in Versions \cup {NoneYet} /\ of \in Callers
      /\ og \in Groups
  BY <1>5
<1> HIDE DEF oa, oi, of, og
<1>8. /\ Only(c) /\ calls'[c].pc = p /\ calls'[c].asset = oa
      /\ calls'[c].identity = oi /\ calls'[c].flight = of /\ calls'[c].group = og
  BY <1>6, <1>7, CallChanged
<1> QED BY <1>8 DEF oa, oi, of, og

\* The step and some fields.
LEMMA UpdatedCall ==
  ASSUME SameTypes, NEW c \in Callers, NEW p \in CallSteps,
         NEW i \in Versions \cup {NoneYet}, NEW f \in Callers, NEW g \in Groups
  PROVE  calls' = [calls EXCEPT ![c].pc = p, ![c].identity = i, ![c].flight = f, ![c].group = g]
         => /\ Only(c)
            /\ calls'[c].pc = p /\ calls'[c].asset = calls[c].asset
            /\ calls'[c].identity = i /\ calls'[c].flight = f /\ calls'[c].group = g
<1> DEFINE o == calls[c]
           oa == calls[c].asset
           v == [o EXCEPT !.pc = p, !.identity = i, !.flight = f, !.group = g]
<1>1. oa \in Assets \cup {NoneYet}
  BY CallTypes
<1>2. o = [n \in {"pc", "asset", "identity", "flight", "group"} |-> o[n]]
  BY CallTypes DEF CallOf
<1>3. v = CallOf(p, oa, i, f, g)
  <2>1. o.asset = oa
    OBVIOUS
  <2> HIDE DEF o, oa
  <2>2. DOMAIN o = {"pc", "asset", "identity", "flight", "group"}
    BY <1>2
  <2>3. v = [n \in {"pc", "asset", "identity", "flight", "group"} |-> v[n]]
    BY <2>2
  <2>4. v.pc = p /\ v.asset = oa /\ v.identity = i /\ v.flight = f /\ v.group = g
    BY <2>1, <2>2
  <2> HIDE DEF v
  <2> QED BY <2>3, <2>4, CallByFields
<1>4. ASSUME calls' = [calls EXCEPT ![c] = v]
      PROVE  /\ Only(c) /\ calls'[c].pc = p /\ calls'[c].asset = oa
             /\ calls'[c].identity = i /\ calls'[c].flight = f /\ calls'[c].group = g
  <2> HIDE DEF v, oa
  <2>1. calls' = [calls EXCEPT ![c] = CallOf(p, oa, i, f, g)]
    BY <1>3, <1>4
  <2> QED BY <1>1, <2>1, CallChanged
<1>5. [calls EXCEPT ![c].pc = p, ![c].identity = i, ![c].flight = f, ![c].group = g]
        = [calls EXCEPT ![c] = v]
  BY DEF SameTypes
<1> HIDE DEF v, o
<1> QED BY <1>4, <1>5
----------------------------------------------------------------------------
(* The steps of a call.                                                    *)

Fields == {"pc", "asset", "identity", "flight", "group"}

LEMMA ChangedBy ==
  ASSUME SameTypes, NEW c \in Callers, NEW v,
         DOMAIN v = Fields, v = [n \in DOMAIN v |-> v[n]],
         v.pc \in CallSteps, v.asset \in Assets \cup {NoneYet},
         v.identity \in Versions \cup {NoneYet}, v.flight \in Callers, v.group \in Groups
  PROVE  calls' = [calls EXCEPT ![c] = v] => Only(c) /\ calls'[c] = v
<1> DEFINE p == v.pc
           a == v.asset
           i == v.identity
           f == v.flight
           g == v.group
<1>1. v = CallOf(p, a, i, f, g)
  BY CallByFields DEF Fields
<1>2. p \in CallSteps /\ a \in Assets \cup {NoneYet} /\ i \in Versions \cup {NoneYet}
      /\ f \in Callers /\ g \in Groups
  OBVIOUS
<1> HIDE DEF p, a, i, f, g
<1>3. v \in Call
  BY <1>1, <1>2 DEF Call, CallOf
<1>4. calls \in [Callers -> Call]
  BY DEF SameTypes
<1> SUFFICES ASSUME calls' = [calls EXCEPT ![c] = v] PROVE Only(c) /\ calls'[c] = v
  OBVIOUS
<1>5. calls' \in [Callers -> Call] /\ calls'[c] = v
      /\ \A d \in Callers : d # c => calls'[d] = calls[d]
  BY <1>3, <1>4
<1> QED BY <1>5 DEF Only

LEMMA CallDomain ==
  ASSUME SameTypes, NEW c \in Callers
  PROVE  DOMAIN calls[c] = Fields /\ calls[c] = [n \in DOMAIN calls[c] |-> calls[c][n]]
BY CallTypes DEF CallOf, Fields

\* Before the lookup the identity is read, unless that fails.
LEMMA ReadIdentityCall ==
  ASSUME SameTypes, NEW c \in Callers, ReadIdentity(c)
  PROVE  /\ Only(c) /\ calls[c].pc = "identity"
         /\ calls'[c].asset = calls[c].asset
         /\ \/ calls'[c].pc = "lookup" /\ calls'[c].identity = version
            \/ calls'[c].pc = "done" /\ calls'[c].identity = NoneYet
<1>1. CASE calls' = [calls EXCEPT ![c].pc = "lookup", ![c].identity = version]
  <2> DEFINE o == calls[c]
             v == [o EXCEPT !.pc = "lookup", !.identity = version]
  <2>1. calls' = [calls EXCEPT ![c] = v]
    BY <1>1 DEF SameTypes
  <2>2. DOMAIN o = Fields
    BY CallDomain
  <2>3. o.asset \in Assets \cup {NoneYet} /\ o.flight \in Callers /\ o.group \in Groups
        /\ version \in Versions
    BY CallTypes DEF SameTypes
  <2> HIDE DEF o
  <2>4. DOMAIN v = Fields /\ v = [n \in DOMAIN v |-> v[n]]
    BY <2>2
  <2>5. v.pc = "lookup" /\ v.asset = o.asset /\ v.identity = version
        /\ v.flight = o.flight /\ v.group = o.group
    BY <2>2 DEF Fields
  <2> HIDE DEF v
  <2>6. "lookup" \in CallSteps
    BY DEF CallSteps
  <2>8. v.pc \in CallSteps /\ v.asset \in Assets \cup {NoneYet}
        /\ v.identity \in Versions \cup {NoneYet} /\ v.flight \in Callers /\ v.group \in Groups
    BY <2>3, <2>5, <2>6
  <2>7. Only(c) /\ calls'[c] = v
    BY <2>1, <2>4, <2>8, ChangedBy
  <2> QED BY <2>5, <2>7 DEF ReadIdentity, o
<1>2. CASE Returns(c, Failure)
  BY <1>2, ReturnedCall, GroupConstants DEF ReadIdentity
<1> QED BY <1>1, <1>2 DEF ReadIdentity

LEMMA JoinFlightCall ==
  ASSUME SameTypes, NEW c \in Callers, JoinFlight(c), Lookup(c),
         Inner(c).inflight[calls[c].asset] \in Callers
  PROVE  /\ Only(c) /\ calls[c].pc = "lookup"
         /\ calls'[c].pc = "wait" /\ calls'[c].asset = calls[c].asset
         /\ calls'[c].identity = NoneYet
         /\ calls'[c].flight = Inner(c).inflight[calls[c].asset]
<1> DEFINE o == calls[c]
           f == Inner(c).inflight[calls[c].asset]
           v == [o EXCEPT !.pc = "wait", !.identity = NoneYet, !.flight = f]
<1>1. calls' = [calls EXCEPT ![c] = v]
  <2> HIDE DEF Inner
  <2>1. calls' = [calls EXCEPT ![c].pc = "wait", ![c].identity = NoneYet, ![c].flight = f]
    BY DEF JoinFlight
  <2> HIDE DEF f
  <2> QED BY <2>1 DEF SameTypes
<1>2. DOMAIN o = Fields
  BY CallDomain
<1>3. o.asset \in Assets \cup {NoneYet} /\ f \in Callers /\ o.group \in Groups
  BY CallTypes
<1>4. calls[c].pc = "lookup"
  BY DEF Lookup
<1> HIDE DEF o, f
<1>5. DOMAIN v = Fields /\ v = [n \in DOMAIN v |-> v[n]]
  BY <1>2
<1>6. v.pc = "wait" /\ v.asset = o.asset /\ v.identity = NoneYet
      /\ v.flight = f /\ v.group = o.group
  BY <1>2 DEF Fields
<1> HIDE DEF v
<1>7. "wait" \in CallSteps
  BY DEF CallSteps
<1>9. v.pc \in CallSteps /\ v.asset \in Assets \cup {NoneYet}
      /\ v.identity \in Versions \cup {NoneYet} /\ v.flight \in Callers /\ v.group \in Groups
  BY <1>3, <1>6, <1>7
<1>8. Only(c) /\ calls'[c] = v
  BY <1>1, <1>5, <1>9, ChangedBy
<1> QED BY <1>4, <1>6, <1>8 DEF o, f

LEMMA OwnFlightCall ==
  ASSUME SameTypes, NEW c \in Callers, OwnFlight(c), Lookup(c)
  PROVE  /\ Only(c) /\ calls[c].pc = "lookup"
         /\ calls'[c].pc = "permit" /\ calls'[c].asset = calls[c].asset
         /\ calls'[c].identity = NoneYet
<1> DEFINE o == calls[c]
           v == [o EXCEPT !.pc = "permit", !.identity = NoneYet]
<1>1. calls' = [calls EXCEPT ![c] = v]
  BY DEF OwnFlight, SameTypes
<1>2. DOMAIN o = Fields
  BY CallDomain
<1>3. o.asset \in Assets \cup {NoneYet} /\ o.flight \in Callers /\ o.group \in Groups
  BY CallTypes
<1>4. calls[c].pc = "lookup"
  BY DEF Lookup
<1> HIDE DEF o
<1>5. DOMAIN v = Fields /\ v = [n \in DOMAIN v |-> v[n]]
  BY <1>2
<1>6. v.pc = "permit" /\ v.asset = o.asset /\ v.identity = NoneYet
      /\ v.flight = o.flight /\ v.group = o.group
  BY <1>2 DEF Fields
<1> HIDE DEF v
<1>7. "permit" \in CallSteps
  BY DEF CallSteps
<1>9. v.pc \in CallSteps /\ v.asset \in Assets \cup {NoneYet}
      /\ v.identity \in Versions \cup {NoneYet} /\ v.flight \in Callers /\ v.group \in Groups
  BY <1>3, <1>6, <1>7
<1>8. Only(c) /\ calls'[c] = v
  BY <1>1, <1>5, <1>9, ChangedBy
<1> QED BY <1>4, <1>6, <1>8 DEF o

\* The representatives are read: the exact one, and those over the threshold.
LEMMA QueryCall ==
  ASSUME SameTypes, NEW c \in Callers, Query(c), calls[c].asset \in Assets
  PROVE  /\ Only(c) /\ calls[c].pc = "query"
         /\ calls'[c].pc = "expand" /\ calls'[c].asset = calls[c].asset
         /\ calls'[c].identity = calls[c].identity /\ calls'[c].flight = calls[c].flight
         /\ calls'[c].group.reps # {}
         /\ Undisturbed => AllSelf(calls'[c].group.reps)
<1> DEFINE o == calls[c]
           og == calls[c].group
           S == {ExactOf[version][calls[c].asset]} \cup
                  NearOf[version][ExactOf[version][calls[c].asset]]
           g == [og EXCEPT !.seen = version, !.reps = S]
           v == [o EXCEPT !.pc = "expand", !.group = g]
<1>0. version \in Versions
  BY DEF SameTypes
<1>1. S \subseteq Assets /\ S # {} /\ (Undisturbed => AllSelf(S))
  <2> DEFINE e == ExactOf[version][calls[c].asset]
  <2>1. e \in Assets /\ (Undisturbed => ExactOf[version][e] = e)
    BY <1>0, ExactGroups DEF Undisturbed
  <2> HIDE DEF e
  <2>2. /\ NearOf[version][e] \subseteq Assets
        /\ Undisturbed => \A r \in NearOf[version][e] : ExactOf[version][r] = r
    BY <1>0, <2>1, ExactGroups DEF Undisturbed
  <2>3. S = {e} \cup NearOf[version][e]
    BY DEF e
  <2> HIDE DEF S
  <2>4. Undisturbed => \A r \in S : ExactOf[version][r] = r
    BY <2>1, <2>2, <2>3
  <2>5. Undisturbed => AllSelf(S)
    BY <2>4 DEF Undisturbed, AllSelf, FirstExact
  <2> QED BY <2>1, <2>2, <2>3, <2>5
<1>2. calls' = [calls EXCEPT ![c].pc = "expand", ![c].group.seen = version, ![c].group.reps = S]
      /\ calls[c].pc = "query"
  BY DEF Query, Similar
<1> HIDE DEF S
<1>3. DOMAIN o = Fields /\ og = o.group
  BY CallDomain
<1>4. calls' = [calls EXCEPT ![c] = v]
  BY <1>2, <1>3 DEF SameTypes, Fields
<1>5. o.asset \in Assets \cup {NoneYet} /\ o.flight \in Callers /\ og \in Groups
      /\ o.identity \in Versions \cup {NoneYet}
  BY CallTypes
<1> HIDE DEF o, og
<1>6. g \in Groups /\ g.reps = S
  BY <1>0, <1>1, <1>5 DEF Groups
<1> HIDE DEF g
<1>7. DOMAIN v = Fields /\ v = [n \in DOMAIN v |-> v[n]]
  BY <1>3
<1>8. v.pc = "expand" /\ v.asset = o.asset /\ v.identity = o.identity
      /\ v.flight = o.flight /\ v.group = g
  BY <1>3 DEF Fields
<1> HIDE DEF v
<1>9. "expand" \in CallSteps
  BY DEF CallSteps
<1>10. Only(c) /\ calls'[c] = v
  BY ZenonT(40), <1>4, <1>5, <1>6, <1>7, <1>8, <1>9, ChangedBy
<1> QED BY <1>1, <1>2, <1>6, <1>8, <1>10 DEF o

\* The assets of the groups are read, unless that fails.
LEMMA ExpandCall ==
  ASSUME SameTypes, NEW c \in Callers, Expand(c)
  PROVE  /\ Only(c) /\ calls[c].pc = "expand"
         /\ calls'[c].pc = "publish" /\ calls'[c].asset = calls[c].asset
         /\ calls'[c].identity = calls[c].identity /\ calls'[c].flight = calls[c].flight
         /\ \/ calls'[c].group = Failure
            \/ /\ calls'[c].group.reps = calls[c].group.reps
               /\ calls'[c].group.assets =
                    {a \in Assets : ExactOf[version][a] \in calls[c].group.reps}
<1> DEFINE o == calls[c]
           og == calls[c].group
           S == {a \in Assets : ExactOf[version][a] \in calls[c].group.reps}
<1>1. calls[c].pc = "expand" /\ "publish" \in CallSteps
  BY DEF Expand, CallSteps
<1>2. /\ o.asset \in Assets \cup {NoneYet} /\ o.flight \in Callers /\ og \in Groups
      /\ o.identity \in Versions \cup {NoneYet} /\ version \in Versions
      /\ DOMAIN o = Fields /\ og = o.group
  BY CallTypes, CallDomain DEF SameTypes
<1>3. ASSUME NEW h \in Groups, calls' = [calls EXCEPT ![c] = [calls[c] EXCEPT !.pc = "publish", !.group = h]]
      PROVE  /\ Only(c)
             /\ calls'[c].pc = "publish" /\ calls'[c].asset = calls[c].asset
             /\ calls'[c].identity = calls[c].identity /\ calls'[c].flight = calls[c].flight
             /\ calls'[c].group = h
  <2> DEFINE v == [o EXCEPT !.pc = "publish", !.group = h]
  <2>1. calls' = [calls EXCEPT ![c] = v]
    BY <1>3
  <2> HIDE DEF o
  <2>2. DOMAIN v = Fields /\ v = [n \in DOMAIN v |-> v[n]]
    BY <1>2
  <2>3. v.pc = "publish" /\ v.asset = o.asset /\ v.identity = o.identity
        /\ v.flight = o.flight /\ v.group = h
    BY <1>2 DEF Fields
  <2> HIDE DEF v
  <2>4. v.pc \in CallSteps /\ v.asset \in Assets \cup {NoneYet}
        /\ v.identity \in Versions \cup {NoneYet} /\ v.flight \in Callers /\ v.group \in Groups
    BY <1>1, <1>2, <2>3
  <2>5. Only(c) /\ calls'[c] = v
    BY <2>1, <2>2, <2>4, ChangedBy
  <2> QED BY <2>3, <2>5 DEF o
<1>4. CASE calls' = [calls EXCEPT ![c].pc = "publish", ![c].group.expanded = version,
                     ![c].group.assets = S]
  <2> DEFINE g == [og EXCEPT !.expanded = version, !.assets = S]
  <2> HIDE DEF S
  <2>1. calls' = [calls EXCEPT ![c] = [calls[c] EXCEPT !.pc = "publish", !.group = g]]
    BY <1>2, <1>4 DEF SameTypes, Fields
  <2>2. S \subseteq Assets
    BY DEF S
  <2> HIDE DEF og
  <2>3. g \in Groups /\ g.assets = S /\ g.reps = og.reps
    BY <1>2, <2>2 DEF Groups
  <2> HIDE DEF g
  <2>4. /\ Only(c)
        /\ calls'[c].pc = "publish" /\ calls'[c].asset = calls[c].asset
        /\ calls'[c].identity = calls[c].identity /\ calls'[c].flight = calls[c].flight
        /\ calls'[c].group = g
    BY <1>3, <2>1, <2>3
  <2> QED BY <1>1, <2>3, <2>4 DEF og, S
<1>5. CASE calls' = [calls EXCEPT ![c].pc = "publish", ![c].group = Failure]
  BY <1>5, <1>3, GroupConstants, <1>1 DEF SameTypes
<1> QED BY <1>4, <1>5 DEF Expand

\* A group is published, or the group that is known already is served.
LEMMA PublishCall ==
  ASSUME SameTypes, CacheLists(cache), NEW c \in Callers, Publish(c)
  PROVE  /\ Only(c) /\ calls[c].pc = "publish"
         /\ calls'[c].pc = "answer" /\ calls'[c].asset = calls[c].asset
         /\ calls'[c].identity = calls[c].identity
<1>1. calls[c].pc = "publish" /\ "answer" \in CallSteps
  BY DEF Publish, CallSteps
<1>2. CASE Moves(c, "answer")
  BY <1>1, <1>2, MovedCall
<1>3. ASSUME NEW g \in Groups, calls' = [calls EXCEPT ![c].pc = "answer", ![c].group = g]
      PROVE  /\ Only(c) /\ calls'[c].pc = "answer" /\ calls'[c].asset = calls[c].asset
             /\ calls'[c].identity = calls[c].identity
  <2> DEFINE o == calls[c]
             v == [o EXCEPT !.pc = "answer", !.group = g]
  <2>1. calls' = [calls EXCEPT ![c] = v]
    BY <1>3 DEF SameTypes
  <2>2. /\ o.asset \in Assets \cup {NoneYet} /\ o.flight \in Callers
        /\ o.identity \in Versions \cup {NoneYet} /\ DOMAIN o = Fields
    BY CallTypes, CallDomain
  <2> HIDE DEF o
  <2>3. DOMAIN v = Fields /\ v = [n \in DOMAIN v |-> v[n]]
    BY <2>2
  <2>4. v.pc = "answer" /\ v.asset = o.asset /\ v.identity = o.identity
        /\ v.flight = o.flight /\ v.group = g
    BY <2>2 DEF Fields
  <2> HIDE DEF v
  <2>5. v.pc \in CallSteps /\ v.asset \in Assets \cup {NoneYet}
        /\ v.identity \in Versions \cup {NoneYet} /\ v.flight \in Callers /\ v.group \in Groups
    BY <1>1, <2>2, <2>4
  <2>6. Only(c) /\ calls'[c] = v
    BY <2>1, <2>3, <2>5, ChangedBy
  <2> QED BY <2>4, <2>6 DEF o
<1> DEFINE flights == Restrict(cache.inflight, DOMAIN cache.inflight \ {calls[c].asset})
           inner == [cache EXCEPT !.inflight = flights]
<1>4. CASE \E key : calls' = [calls EXCEPT ![c].pc = "answer",
               ![c].group = IF key \in DOMAIN inner.entries THEN inner.entries[key] ELSE calls[c].group]
  <2>1. PICK key : calls' = [calls EXCEPT ![c].pc = "answer",
               ![c].group = IF key \in DOMAIN inner.entries THEN inner.entries[key] ELSE calls[c].group]
    BY <1>4
  <2> DEFINE g == IF key \in DOMAIN inner.entries THEN inner.entries[key] ELSE calls[c].group
  <2>2. inner.entries = cache.entries
    BY DEF CacheLists, CacheFields
  <2> HIDE DEF inner
  <2>3. g \in Groups
    BY CallTypes, <2>2 DEF CacheLists
  <2>4. calls' = [calls EXCEPT ![c].pc = "answer", ![c].group = g]
    BY <2>1
  <2> HIDE DEF g
  <2> QED BY <1>1, <1>3, <2>3, <2>4
<1>5. Moves(c, "answer") \/ \E key : calls' = [calls EXCEPT ![c].pc = "answer",
               ![c].group = IF key \in DOMAIN inner.entries THEN inner.entries[key] ELSE calls[c].group]
  <2> HIDE DEF inner
  <2>1. \/ Moves(c, "answer")
        \/ calls' = [calls EXCEPT ![c].pc = "answer",
             ![c].group = IF inner.aliases[Min(KnownReps(inner, calls[c].group))] \in DOMAIN inner.entries
                          THEN inner.entries[inner.aliases[Min(KnownReps(inner, calls[c].group))]]
                          ELSE calls[c].group]
    BY DEF Publish, inner
  <2> QED BY <2>1
<1> QED BY <1>2, <1>4, <1>5
----------------------------------------------------------------------------
(* What a step of one call keeps.                                          *)

LEMMA CallsKept ==
  ASSUME SameTypes, CallsSound, NEW c \in Callers, Only(c),
         calls'[c].pc \notin {"idle", "done"} => calls'[c].asset \in Assets,
         calls'[c].pc = "expand" => calls'[c].group.reps # {},
         calls'[c].pc = "publish" => calls'[c].group = Failure \/ calls'[c].group.reps # {}
  PROVE  CallsSound'
<1> SUFFICES ASSUME NEW d \in Callers
             PROVE  /\ calls'[d].pc \notin {"idle", "done"} => calls'[d].asset \in Assets
                    /\ calls'[d].pc = "expand" => calls'[d].group.reps # {}
                    /\ calls'[d].pc = "publish" =>
                         calls'[d].group = Failure \/ calls'[d].group.reps # {}
  BY DEF CallsSound
<1>1. CASE d = c
  BY <1>1
<1>2. CASE d # c
  <2>1. calls'[d] = calls[d]
    BY <1>2 DEF Only
  <2> QED BY <2>1 DEF CallsSound
<1> QED BY <1>1, <1>2

LEMMA FlightsKept ==
  ASSUME SameTypes, FlightsOwned, NEW c \in Callers, Only(c),
         cache'.inflight = cache.inflight,
         calls[c].pc \in Owning => calls'[c].pc \in Owning /\ calls'[c].asset = calls[c].asset
  PROVE  FlightsOwned'
<1> SUFFICES ASSUME NEW a \in DOMAIN cache.inflight
             PROVE  /\ a \in Assets /\ cache.inflight[a] \in Callers
                    /\ calls'[cache.inflight[a]].pc \in Owning
                    /\ calls'[cache.inflight[a]].asset = a
  BY DEF FlightsOwned
<1> DEFINE d == cache.inflight[a]
<1>1. a \in Assets /\ d \in Callers /\ calls[d].pc \in Owning /\ calls[d].asset = a
  BY DEF FlightsOwned
<1> HIDE DEF d
<1>2. d # c => calls'[d] = calls[d]
  BY <1>1 DEF Only
<1>3. calls'[d].pc \in Owning /\ calls'[d].asset = a
  BY <1>1, <1>2
<1> QED BY <1>1, <1>3 DEF d

LEMMA WaitersKept ==
  ASSUME SameTypes, WaitersOwned, NEW c \in Callers, Only(c),
         calls[c].pc \in Owning \cup {"answer"} =>
           calls'[c].pc \in Owning \cup {"answer"} /\ calls'[c].asset = calls[c].asset,
         calls'[c].pc = "wait" =>
           /\ calls[c].pc = "lookup" /\ calls'[c].flight \in Callers
           /\ calls[calls'[c].flight].pc \in Owning
           /\ calls[calls'[c].flight].asset = calls'[c].asset
  PROVE  WaitersOwned'
<1> SUFFICES ASSUME NEW d \in Callers, calls'[d].pc = "wait"
             PROVE  /\ calls'[calls'[d].flight].pc \in Owning \cup {"answer"}
                    /\ calls'[calls'[d].flight].asset = calls'[d].asset
  BY DEF WaitersOwned
<1>1. CASE d = c
  <2> DEFINE f == calls'[c].flight
  <2>1. /\ calls[c].pc = "lookup" /\ f \in Callers
        /\ calls[f].pc \in Owning /\ calls[f].asset = calls'[c].asset
    BY <1>1
  <2> HIDE DEF f
  <2>2. f # c
    BY <2>1 DEF Owning
  <2>3. calls'[f] = calls[f]
    BY <2>1, <2>2 DEF Only
  <2>4. calls'[f].pc \in Owning \cup {"answer"} /\ calls'[f].asset = calls'[c].asset
    BY <2>1, <2>3
  <2> QED BY <1>1, <2>4 DEF f
<1>2. CASE d # c
  <2> DEFINE f == calls[d].flight
  <2>1. calls'[d] = calls[d]
    BY <1>2 DEF Only
  <2>2. /\ f \in Callers /\ calls[f].pc \in Owning \cup {"answer"}
        /\ calls[f].asset = calls[d].asset
    BY <2>1, CallTypes DEF WaitersOwned
  <2> HIDE DEF f
  <2>3. f # c => calls'[f] = calls[f]
    BY <2>2 DEF Only
  <2>4. calls'[f].pc \in Owning \cup {"answer"} /\ calls'[f].asset = calls[d].asset
    BY <2>2, <2>3
  <2>5. calls'[d].flight = f /\ calls'[d].asset = calls[d].asset
    BY <2>1 DEF f
  <2> QED BY <2>4, <2>5
<1> QED BY <1>1, <1>2

\* Who has left, and who is at a candidate, does not change.
LEMMA CandidatesKept ==
  ASSUME SameTypes, CandidatesHeld, NEW c \in Callers, Only(c), rank' = rank,
         calls[c].pc \notin {"idle", "done"}, calls'[c].pc # "idle",
         calls[c].asset \in Assets, calls'[c].asset = calls[c].asset
  PROVE  CandidatesHeld'
<1>1. \A w \in RankWorkers : w # c => calls'[w] = calls[w]
  BY DEF Only, Callers
<1>2. \A w \in RankWorkers :
        (calls'[w].pc = "done" /\ calls'[w].asset = NoneYet)
          <=> (calls[w].pc = "done" /\ calls[w].asset = NoneYet)
  BY <1>1, SameConstants
<1>3. HasLeft' = HasLeft
  BY <1>2 DEF HasLeft, Left
<1>4. \A w \in RankWorkers, a \in Assets :
        calls[w].pc # "idle" /\ calls[w].asset = a => calls'[w].pc # "idle" /\ calls'[w].asset = a
  BY <1>1
<1>5. \A i \in 1 .. Len(Candidates) : Candidates[i] \in Assets
  BY SameConstants
<1>6. \A i \in 1 .. Len(Candidates) :
        i <= rank.next =>
          \/ i \in rank.resolved
          \/ \E w \in RankWorkers : calls'[w].pc # "idle" /\ calls'[w].asset = Candidates[i]
  BY <1>4, <1>5 DEF CandidatesHeld
<1> QED BY <1>3, <1>6 DEF CandidatesHeld

LEMMA FirstKept ==
  ASSUME SameTypes, FirstVersion, NEW c \in Callers, Only(c),
         version' = version, checked' = checked,
         cache'.identity = cache.identity, cache'.inflight = cache.inflight,
         calls'[c].identity \in {NoneYet, version},
         cache.identity = NoneYet =>
           /\ calls'[c].pc \in {"idle", "identity", "lookup", "done"}
           /\ calls'[c].pc = "lookup" => calls'[c].identity # NoneYet,
         calls'[c].pc \in Owning =>
           calls[c].pc \in Owning /\ calls'[c].asset = calls[c].asset,
         calls'[c].pc = "expand" => AllSelf(calls'[c].group.reps),
         calls'[c].pc = "publish" => calls'[c].group = Failure \/ Whole(calls'[c].group)
  PROVE  FirstVersion'
<1>1. \A d \in Callers : d # c => calls'[d] = calls[d]
  BY DEF Only
<1>2. BeforeChecked'
  <2> SUFFICES ASSUME cache.identity = NoneYet
               PROVE  /\ ~checked
                      /\ \A d \in Callers :
                           /\ calls'[d].pc \in {"idle", "identity", "lookup", "done"}
                           /\ calls'[d].pc = "lookup" => calls'[d].identity # NoneYet
    BY DEF BeforeChecked, Checks
  <2>1. /\ ~checked
        /\ \A d \in Callers :
             /\ calls[d].pc \in {"idle", "identity", "lookup", "done"}
             /\ calls[d].pc = "lookup" => calls[d].identity # NoneYet
    BY DEF FirstVersion, BeforeChecked, Checks
  <2>2. ASSUME NEW d \in Callers
        PROVE  /\ calls'[d].pc \in {"idle", "identity", "lookup", "done"}
               /\ calls'[d].pc = "lookup" => calls'[d].identity # NoneYet
    <3>1. CASE d = c
      BY <3>1
    <3>2. CASE d # c
      BY <1>1, <2>1, <3>2
    <3> QED BY <3>1, <3>2
  <2> QED BY <2>1, <2>2
<1>3. ASSUME NEW d \in Callers, calls'[d].pc \in Owning
      PROVE  calls'[d].asset \in DOMAIN cache.inflight /\ cache.inflight[calls'[d].asset] = d
  <2>1. calls[d].pc \in Owning /\ calls'[d].asset = calls[d].asset
    BY <1>1, <1>3
  <2> QED BY <2>1 DEF FirstVersion
<1>4. ASSUME NEW d \in Callers
      PROVE  /\ calls'[d].identity \in {NoneYet, version}
             /\ calls'[d].pc = "expand" => AllSelf(calls'[d].group.reps)
             /\ calls'[d].pc = "publish" => calls'[d].group = Failure \/ Whole(calls'[d].group)
  <2>1. CASE d = c
    BY <2>1
  <2>2. CASE d # c
    <3>1. calls'[d] = calls[d]
      BY <1>1, <2>2
    <3> QED BY <3>1 DEF FirstVersion
  <2> QED BY <2>1, <2>2
<1>5. cache'.identity \in {NoneYet, version'}
  BY DEF FirstVersion
<1>6. \A d \in Callers :
        calls'[d].pc \in Owning =>
          calls'[d].asset \in DOMAIN cache'.inflight /\ cache'.inflight[calls'[d].asset] = d
  BY <1>3
<1>7. \A d \in Callers :
        /\ calls'[d].identity \in {NoneYet, version'}
        /\ calls'[d].pc = "expand" => AllSelf(calls'[d].group.reps)
        /\ calls'[d].pc = "publish" => calls'[d].group = Failure \/ Whole(calls'[d].group)
  BY <1>4
<1> QED BY <1>2, <1>5, <1>6, <1>7 DEF FirstVersion, AllSelf, Whole, FirstExact
----------------------------------------------------------------------------
(* Steps that leave the cache alone.                                       *)

LEMMA CacheKept ==
  ASSUME SameInv, cache' = cache
  PROVE  CacheLists(cache)' /\ CacheLimits(cache)' /\ (GroupsWhole(cache) => GroupsWhole(cache)')
BY DEF SameInv, CacheLists, CacheLimits, GroupsWhole, CacheFields, Whole, AllSelf, FirstExact

LEMMA TypesKept ==
  ASSUME SameTypes, NEW c \in Callers, Only(c), version' = version, checked' \in BOOLEAN,
         rank' = rank
  PROVE  SameTypes'
BY DEF SameTypes, Only, RankFields

\* A step of a call on its way.
LEMMA CallingStep ==
  ASSUME SameInv, NEW c \in Callers, Only(c),
         version' = version, cache' = cache, checked' = checked, rank' = rank,
         calls[c].pc \notin {"idle", "done"}, calls'[c].pc \notin {"idle", "wait"},
         calls'[c].asset = calls[c].asset,
         calls[c].pc \in Owning <=> calls'[c].pc \in Owning,
         calls[c].pc # "answer",
         calls'[c].identity \in {NoneYet, version, calls[c].identity},
         \/ calls[c].pc \in Owning
         \/ calls'[c].pc = "lookup" /\ calls'[c].identity # NoneYet
         \/ calls'[c].pc = "done",
         calls'[c].pc = "expand" => calls'[c].group.reps # {},
         calls'[c].pc = "publish" => calls'[c].group = Failure \/ calls'[c].group.reps # {},
         Undisturbed =>
           /\ calls'[c].pc = "expand" => AllSelf(calls'[c].group.reps)
           /\ calls'[c].pc = "publish" => calls'[c].group = Failure \/ Whole(calls'[c].group)
  PROVE  SameInv'
<1>1. SameTypes /\ CallsSound /\ FlightsOwned /\ WaitersOwned /\ CandidatesHeld
  BY DEF SameInv
<1>2. calls[c].asset \in Assets
  BY <1>1 DEF CallsSound
<1>3. SameTypes'
  BY <1>1, TypesKept DEF SameTypes
<1>4. CallsSound'
  BY <1>1, <1>2, CallsKept
<1>5. FlightsOwned'
  BY <1>1, FlightsKept
<1>6. WaitersOwned'
  BY <1>1, WaitersKept
<1>7. CandidatesHeld'
  BY <1>1, <1>2, CandidatesKept
<1>8. CacheLists(cache)' /\ CacheLimits(cache)' /\ (GroupsWhole(cache) => GroupsWhole(cache)')
  BY CacheKept
<1>9. ASSUME Undisturbed PROVE FirstVersion'
  BY <1>9, <1>1, FirstKept DEF SameInv, FirstVersion, BeforeChecked, Owning
<1>10. Undisturbed' = Undisturbed
  BY DEF Undisturbed
<1>11. Undisturbed' => FirstVersion' /\ GroupsWhole(cache)'
  BY <1>8, <1>9, <1>10 DEF SameInv
<1> QED BY <1>3, <1>4, <1>5, <1>6, <1>7, <1>8, <1>11 DEF SameInv

LEMMA ReadIdentityKeeps ==
  ASSUME SameInv, NEW c \in Callers, ReadIdentity(c)
  PROVE  SameInv'
BY ReadIdentityCall, SameConstants, CallingStep DEF SameInv, ReadIdentity, SameTypes,
  Owning

LEMMA AcquireKeeps ==
  ASSUME SameInv, NEW c \in Callers, Acquire(c)
  PROVE  SameInv'
BY MovedCall, CallingStep DEF CallSteps, SameInv, Acquire, Owning

LEMMA QueryKeeps ==
  ASSUME SameInv, NEW c \in Callers, Query(c)
  PROVE  SameInv'
BY QueryCall, CallingStep DEF SameInv, CallsSound, Query, Owning

LEMMA ExpandKeeps ==
  ASSUME SameInv, NEW c \in Callers, Expand(c)
  PROVE  SameInv'
<1>1. /\ Only(c) /\ calls[c].pc = "expand"
      /\ calls'[c].pc = "publish" /\ calls'[c].asset = calls[c].asset
      /\ calls'[c].identity = calls[c].identity
      /\ \/ calls'[c].group = Failure
         \/ /\ calls'[c].group.reps = calls[c].group.reps
            /\ calls'[c].group.assets =
                 {a \in Assets : ExactOf[version][a] \in calls[c].group.reps}
  BY ExpandCall DEF SameInv
<1>2. version' = version /\ cache' = cache /\ checked' = checked /\ rank' = rank
  BY DEF Expand
<1>3. calls'[c].pc \in Owning /\ calls[c].pc \in Owning
  BY <1>1 DEF Owning
<1>4. calls[c].group.reps # {}
  BY <1>1 DEF SameInv, CallsSound
<1>5. calls'[c].group = Failure \/ calls'[c].group.reps # {}
  BY <1>1, <1>4
<1>6. Undisturbed => AllSelf(calls[c].group.reps)
  BY <1>1 DEF SameInv, FirstVersion
<1>7. Undisturbed => calls'[c].group = Failure \/ Whole(calls'[c].group)
  BY <1>1, <1>4, <1>6 DEF Undisturbed, Whole, FirstExact
<1> QED BY <1>1, <1>2, <1>3, <1>5, <1>7, CallingStep
----------------------------------------------------------------------------
(* The lookup, under the lock.                                             *)

LEMMA FlightsLess ==
  ASSUME SameTypes, FlightsOwned, NEW c \in Callers, Only(c),
         \A a \in DOMAIN cache'.inflight :
           a \in DOMAIN cache.inflight /\ cache'.inflight[a] = cache.inflight[a],
         calls[c].pc \notin Owning \/ calls[c].asset \notin DOMAIN cache'.inflight
  PROVE  FlightsOwned'
<1> SUFFICES ASSUME NEW a \in DOMAIN cache'.inflight
             PROVE  /\ a \in Assets /\ cache'.inflight[a] \in Callers
                    /\ calls'[cache'.inflight[a]].pc \in Owning
                    /\ calls'[cache'.inflight[a]].asset = a
  BY DEF FlightsOwned
<1> DEFINE d == cache.inflight[a]
<1>1. cache'.inflight[a] = d
  OBVIOUS
<1>2. a \in Assets /\ d \in Callers /\ calls[d].pc \in Owning /\ calls[d].asset = a
  BY DEF FlightsOwned
<1> HIDE DEF d
<1>3. d # c
  BY <1>2
<1>4. calls'[d] = calls[d]
  BY <1>2, <1>3 DEF Only
<1> QED BY <1>1, <1>2, <1>4

\* The cache as the lookup finds it, or an empty one of a new identity.
LEMMA InnerSound ==
  ASSUME SameInv, NEW c \in Callers
  PROVE  /\ CacheLists(Inner(c)) /\ CacheLimits(Inner(c))
         /\ \A a \in DOMAIN Inner(c).inflight :
              a \in DOMAIN cache.inflight /\ Inner(c).inflight[a] = cache.inflight[a]
         /\ Undisturbed /\ calls[c].pc = "lookup" =>
              /\ GroupsWhole(Inner(c)) /\ Inner(c).identity = version
              /\ \A d \in Callers : calls[d].pc \in Owning =>
                   calls[d].asset \in DOMAIN Inner(c).inflight
                     /\ Inner(c).inflight[calls[d].asset] = d
<1>0. SameTypes /\ CacheLists(cache) /\ CacheLimits(cache)
  BY DEF SameInv
<1>1. CASE Outdated(c)
  <2> DEFINE e == EmptyCache(calls[c].identity)
  <2>1. Inner(c) = e
    BY <1>1 DEF Inner
  <2>2. /\ CacheLists(e) /\ CacheLimits(e)
        /\ e.identity = calls[c].identity /\ DOMAIN e.inflight = {}
        /\ GroupsWhole(e)
    BY <1>0, CallTypes, EmptyLists
  <2> HIDE DEF e
  <2>3. ASSUME Undisturbed, calls[c].pc = "lookup"
        PROVE  /\ e.identity = version
               /\ \A d \in Callers : calls[d].pc \notin Owning
    BY <2>3, <1>1, <2>2 DEF SameInv, FirstVersion, Outdated, Checks, BeforeChecked,
      Owning
  <2> QED BY <2>1, <2>2, <2>3
<1>2. CASE ~Outdated(c)
  <2>1. Inner(c) = cache
    BY <1>2 DEF Inner
  <2>2. ASSUME Undisturbed, calls[c].pc = "lookup"
        PROVE  /\ GroupsWhole(cache) /\ cache.identity = version
               /\ \A d \in Callers : calls[d].pc \in Owning =>
                   calls[d].asset \in DOMAIN cache.inflight
                     /\ cache.inflight[calls[d].asset] = d
    <3>1. FirstVersion /\ GroupsWhole(cache)
      BY <2>2 DEF SameInv
    <3>2. cache.identity # NoneYet
      <4> SUFFICES ASSUME cache.identity = NoneYet PROVE FALSE
        OBVIOUS
      <4>1. Checks(c)
        BY <2>2, <3>1 DEF FirstVersion, BeforeChecked
      <4> QED BY <1>2, <4>1 DEF Outdated, Checks
    <3>3. cache.identity = version
      BY <3>1, <3>2 DEF FirstVersion
    <3> QED BY <3>1, <3>3 DEF FirstVersion
  <2> QED BY <1>0, <2>1, <2>2
<1> QED BY <1>1, <1>2

LEMMA LookupKeeps ==
  ASSUME SameInv, NEW c \in Callers, Lookup(c), Only(c),
         calls[c].pc = "lookup", calls'[c].pc \in {"wait", "permit", "done"},
         calls'[c].asset = calls[c].asset, calls'[c].identity = NoneYet,
         CacheLists(cache'), CacheLimits(cache'), cache'.identity = Inner(c).identity,
         GroupsWhole(Inner(c)) => GroupsWhole(cache'),
         FlightsOwned', WaitersOwned',
         Undisturbed =>
           \A d \in Callers : calls'[d].pc \in Owning =>
             calls'[d].asset \in DOMAIN cache'.inflight
               /\ cache'.inflight[calls'[d].asset] = d
  PROVE  SameInv'
<1>1. SameTypes /\ CallsSound /\ CandidatesHeld
  BY DEF SameInv
<1>2. calls[c].asset \in Assets
  BY <1>1 DEF CallsSound
<1>3. version' = version /\ rank' = rank /\ checked' = (checked \/ Checks(c))
  BY DEF Lookup
<1>4. checked' \in BOOLEAN
  BY <1>3
<1>5. SameTypes'
  BY <1>1, <1>3, <1>4, TypesKept
<1>6. CallsSound'
  BY <1>1, <1>2, CallsKept
<1>7. CandidatesHeld'
  BY <1>1, <1>2, <1>3, CandidatesKept
<1>8. ASSUME Undisturbed PROVE FirstVersion' /\ GroupsWhole(cache)'
  <2>1. FirstVersion
    BY <1>8 DEF SameInv
  <2>2. GroupsWhole(cache') /\ cache'.identity = version
    BY <1>8, InnerSound
  <2>3. version # NoneYet
    BY <1>1, SameConstants DEF SameTypes
  <2>4. BeforeChecked'
    BY <2>2, <2>3 DEF BeforeChecked
  <2>5. ASSUME NEW d \in Callers
        PROVE  /\ calls'[d].identity \in {NoneYet, version}
               /\ calls'[d].pc = "expand" => AllSelf(calls'[d].group.reps)
               /\ calls'[d].pc = "publish" => calls'[d].group = Failure \/ Whole(calls'[d].group)
    <3>1. CASE d = c
      BY <3>1
    <3>2. CASE d # c
      <4>1. calls'[d] = calls[d]
        BY <3>2 DEF Only
      <4> QED BY <2>1, <4>1 DEF FirstVersion
    <3> QED BY <3>1, <3>2
  <2>6. FirstVersion'
    BY <1>3, <2>2, <2>5, <1>8, <2>4 DEF FirstVersion, AllSelf, Whole, FirstExact
  <2>7. GroupsWhole(cache)'
    BY <2>2 DEF GroupsWhole, Whole, AllSelf, FirstExact
  <2> QED BY <2>6, <2>7
<1>9. Undisturbed' = Undisturbed
  BY <1>3 DEF Undisturbed
<1>10. CacheLists(cache)' /\ CacheLimits(cache)'
  BY DEF CacheLists, CacheLimits, CacheFields
<1> QED BY <1>5, <1>6, <1>7, <1>8, <1>9, <1>10 DEF SameInv

LEMMA HitKeeps ==
  ASSUME SameInv, NEW c \in Callers, Lookup(c), Hit(c)
  PROVE  SameInv'
<1> DEFINE inner == Inner(c)
           key   == inner.aliases[calls[c].asset]
<1>0. SameTypes /\ FlightsOwned /\ WaitersOwned /\ calls[c].pc = "lookup"
  BY DEF SameInv, Lookup
<1>1. /\ CacheLists(inner) /\ CacheLimits(inner)
      /\ \A a \in DOMAIN inner.inflight :
           a \in DOMAIN cache.inflight /\ inner.inflight[a] = cache.inflight[a]
      /\ Undisturbed =>
           /\ GroupsWhole(inner) /\ inner.identity = version
           /\ \A d \in Callers : calls[d].pc \in Owning =>
                calls[d].asset \in DOMAIN inner.inflight /\ inner.inflight[calls[d].asset] = d
  BY <1>0, InnerSound
<1>2. key \in DOMAIN inner.entries /\ cache' = [inner EXCEPT !.lru = Touched(@, key)]
      /\ Returns(c, inner.entries[key])
  BY DEF Hit, Known
<1> HIDE DEF inner
<1>3. inner.entries[key] \in Groups
  BY <1>1, <1>2 DEF CacheLists
<1> HIDE DEF key
<1>4. /\ Only(c) /\ calls'[c].pc = "done" /\ calls'[c].asset = calls[c].asset
      /\ calls'[c].identity = NoneYet
  BY <1>0, <1>2, <1>3, ReturnedCall
<1>5. /\ CacheLists(cache') /\ CacheLimits(cache')
      /\ cache'.identity = inner.identity /\ cache'.inflight = inner.inflight
      /\ GroupsWhole(inner) => GroupsWhole(cache')
  BY <1>1, <1>2, TouchedLists
<1>6. FlightsOwned'
  BY <1>0, <1>1, <1>4, <1>5, FlightsLess DEF Owning
<1>7. WaitersOwned'
  BY <1>0, <1>4, WaitersKept DEF Owning
<1>8. ASSUME Undisturbed, NEW d \in Callers, calls'[d].pc \in Owning
      PROVE  calls'[d].asset \in DOMAIN cache'.inflight
               /\ cache'.inflight[calls'[d].asset] = d
  BY <1>4, <1>8, <1>1, <1>5 DEF Owning, Only
<1> QED BY <1>0, <1>4, <1>5, <1>6, <1>7, <1>8, LookupKeeps DEF inner

LEMMA JoinKeeps ==
  ASSUME SameInv, NEW c \in Callers, Lookup(c), JoinFlight(c)
  PROVE  SameInv'
<1> DEFINE inner == Inner(c)
           f     == inner.inflight[calls[c].asset]
<1>0. SameTypes /\ FlightsOwned /\ WaitersOwned /\ calls[c].pc = "lookup"
  BY DEF SameInv, Lookup
<1>1. /\ CacheLists(inner) /\ CacheLimits(inner)
      /\ \A a \in DOMAIN inner.inflight :
           a \in DOMAIN cache.inflight /\ inner.inflight[a] = cache.inflight[a]
      /\ Undisturbed =>
           /\ GroupsWhole(inner) /\ inner.identity = version
           /\ \A d \in Callers : calls[d].pc \in Owning =>
                calls[d].asset \in DOMAIN inner.inflight /\ inner.inflight[calls[d].asset] = d
  BY <1>0, InnerSound
<1>2. calls[c].asset \in DOMAIN inner.inflight /\ cache' = inner
  BY DEF JoinFlight, NotComputing
<1>3. f \in Callers /\ calls[f].pc \in Owning /\ calls[f].asset = calls[c].asset
  <2> HIDE DEF inner
  <2> QED BY <1>0, <1>1, <1>2 DEF FlightsOwned
<1>4. /\ Only(c) /\ calls'[c].pc = "wait" /\ calls'[c].asset = calls[c].asset
      /\ calls'[c].identity = NoneYet /\ calls'[c].flight = f
  BY <1>0, <1>3, JoinFlightCall
<1> HIDE DEF inner, f
<1>6. FlightsOwned'
  BY <1>0, <1>1, <1>2, <1>4, FlightsLess DEF Owning
<1>7. WaitersOwned'
  BY <1>0, <1>3, <1>4, WaitersKept DEF Owning
<1>8. ASSUME Undisturbed, NEW d \in Callers, calls'[d].pc \in Owning
      PROVE  calls'[d].asset \in DOMAIN cache'.inflight
               /\ cache'.inflight[calls'[d].asset] = d
  BY <1>4, <1>8, <1>1, <1>2 DEF Owning, Only
<1>9. /\ CacheLists(cache') /\ CacheLimits(cache') /\ cache'.identity = Inner(c).identity
      /\ GroupsWhole(Inner(c)) => GroupsWhole(cache')
  BY <1>1, <1>2 DEF inner
<1> QED BY <1>0, <1>4, <1>6, <1>7, <1>8, <1>9, LookupKeeps

LEMMA OwnKeeps ==
  ASSUME SameInv, NEW c \in Callers, Lookup(c), OwnFlight(c)
  PROVE  SameInv'
<1> DEFINE inner == Inner(c)
           asset == calls[c].asset
           flights == [a \in {asset} \cup DOMAIN inner.inflight |->
                         IF a = asset THEN c ELSE inner.inflight[a]]
<1>0. SameTypes /\ FlightsOwned /\ WaitersOwned /\ calls[c].pc = "lookup" /\ asset \in Assets
  BY DEF SameInv, Lookup, CallsSound
<1>1. /\ CacheLists(inner) /\ CacheLimits(inner)
      /\ \A a \in DOMAIN inner.inflight :
           a \in DOMAIN cache.inflight /\ inner.inflight[a] = cache.inflight[a]
      /\ Undisturbed =>
           /\ GroupsWhole(inner) /\ inner.identity = version
           /\ \A d \in Callers : calls[d].pc \in Owning =>
                calls[d].asset \in DOMAIN inner.inflight /\ inner.inflight[calls[d].asset] = d
  BY <1>0, InnerSound
<1>2. asset \notin DOMAIN inner.inflight /\ cache' = [inner EXCEPT !.inflight = flights]
  BY DEF OwnFlight, NotComputing
<1>3. /\ Only(c) /\ calls'[c].pc = "permit" /\ calls'[c].asset = asset
      /\ calls'[c].identity = NoneYet
  BY <1>0, OwnFlightCall
<1>4. /\ DOMAIN flights = {asset} \cup DOMAIN inner.inflight /\ flights[asset] = c
      /\ \A a \in DOMAIN inner.inflight : a # asset => flights[a] = inner.inflight[a]
  OBVIOUS
<1> HIDE DEF inner, flights
<1>5. /\ CacheLists(cache') /\ CacheLimits(cache')
      /\ cache'.identity = inner.identity /\ cache'.inflight = flights
      /\ GroupsWhole(inner) => GroupsWhole(cache')
  BY <1>1, <1>2, FlightsChanged
<1>6. FlightsOwned'
  <2> SUFFICES ASSUME NEW a \in DOMAIN flights
               PROVE  /\ a \in Assets /\ flights[a] \in Callers
                      /\ calls'[flights[a]].pc \in Owning /\ calls'[flights[a]].asset = a
    BY <1>5 DEF FlightsOwned
  <2>1. CASE a = asset
    BY <1>0, <1>3, <1>4, <2>1 DEF Owning
  <2>2. CASE a # asset
    <3> DEFINE d == cache.inflight[a]
    <3>1. a \in DOMAIN cache.inflight /\ flights[a] = d
      BY <1>1, <1>4, <2>2
    <3>2. a \in Assets /\ d \in Callers /\ calls[d].pc \in Owning /\ calls[d].asset = a
      BY <1>0, <3>1 DEF FlightsOwned
    <3> HIDE DEF d
    <3>3. d # c
      BY <1>0, <3>2 DEF Owning
    <3>4. calls'[d] = calls[d]
      BY <1>3, <3>2, <3>3 DEF Only
    <3> QED BY <3>1, <3>2, <3>4
  <2> QED BY <2>1, <2>2
<1>7. WaitersOwned'
  BY <1>0, <1>3, WaitersKept DEF Owning
<1>8. ASSUME Undisturbed, NEW d \in Callers, calls'[d].pc \in Owning
      PROVE  calls'[d].asset \in DOMAIN cache'.inflight
               /\ cache'.inflight[calls'[d].asset] = d
  <2>1. CASE d = c
    BY <1>3, <1>4, <1>5, <2>1
  <2>2. CASE d # c
    <3>1. calls'[d] = calls[d]
      BY <1>3, <2>2 DEF Only
    <3>2. calls[d].asset \in DOMAIN inner.inflight /\ inner.inflight[calls[d].asset] = d
      BY <1>1, <1>8, <3>1
    <3>3. calls[d].asset # asset
      BY <1>2, <3>2
    <3> HIDE DEF asset
    <3> QED BY <1>4, <1>5, <3>1, <3>2, <3>3
  <2> QED BY <2>1, <2>2
<1> QED BY <1>0, <1>3, <1>5, <1>6, <1>7, <1>8, LookupKeeps DEF inner
----------------------------------------------------------------------------
(* A group is published, and the calls that wait are answered.             *)

LEMMA PublishedCache ==
  ASSUME SameInv, NEW c \in Callers, Publish(c)
  PROVE  /\ CacheLists(cache') /\ CacheLimits(cache')
         /\ cache'.identity = cache.identity
         /\ cache'.inflight = Restrict(cache.inflight, DOMAIN cache.inflight \ {calls[c].asset})
         /\ Undisturbed => GroupsWhole(cache')
<1> DEFINE group == calls[c].group
           flights == Restrict(cache.inflight, DOMAIN cache.inflight \ {calls[c].asset})
           inner == [cache EXCEPT !.inflight = flights]
<1>1. SameTypes /\ CacheLists(cache) /\ CacheLimits(cache) /\ calls[c].pc = "publish"
  BY DEF SameInv, Publish
<1>2. /\ cache' = inner
      \/ /\ group # Failure /\ KnownReps(inner, group) = {}
         /\ cache' = InsertSameGroup(inner, group)
  <2> HIDE DEF inner
  <2> QED BY DEF Publish, inner
<1> HIDE DEF flights
<1>3. /\ CacheLists(inner) /\ CacheLimits(inner)
      /\ inner.identity = cache.identity /\ inner.inflight = flights
      /\ GroupsWhole(cache) => GroupsWhole(inner)
  BY <1>1, FlightsChanged
<1> HIDE DEF inner
<1>4. Undisturbed => GroupsWhole(inner)
  BY <1>3 DEF SameInv
<1>5. CASE cache' = inner
  BY <1>3, <1>4, <1>5 DEF flights
<1>6. CASE group # Failure /\ KnownReps(inner, group) = {}
             /\ cache' = InsertSameGroup(inner, group)
  <2>1. group \in Groups /\ group.reps # {}
    BY <1>1, <1>6, CallTypes DEF SameInv, CallsSound
  <2>2. \A r \in group.reps : r \notin DOMAIN inner.aliases
    BY <1>6 DEF KnownReps
  <2>3. Undisturbed => Whole(group)
    BY <1>1, <1>6 DEF SameInv, FirstVersion
  <2> HIDE DEF group
  <2>4. LET left == InsertSameGroup(inner, group)
         IN  /\ CacheLists(left) /\ CacheLimits(left)
             /\ left.identity = inner.identity /\ left.inflight = inner.inflight
             /\ (/\ GroupsWhole(inner) /\ Whole(group)
                 /\ \A r \in group.reps : r \notin DOMAIN inner.aliases)
                => GroupsWhole(left)
    BY <1>3, <2>1, InsertedLists
  <2> QED BY <1>3, <1>4, <1>6, <2>2, <2>3, <2>4 DEF flights
<1> QED BY <1>2, <1>5, <1>6

LEMMA PublishKeeps ==
  ASSUME SameInv, NEW c \in Callers, Publish(c)
  PROVE  SameInv'
<1> DEFINE asset == calls[c].asset
<1>1. /\ SameTypes /\ CallsSound /\ FlightsOwned /\ WaitersOwned /\ CandidatesHeld
      /\ CacheLists(cache)
  BY DEF SameInv
<1>2. /\ Only(c) /\ calls[c].pc = "publish" /\ calls'[c].pc = "answer"
      /\ calls'[c].asset = asset /\ calls'[c].identity = calls[c].identity
  BY <1>1, PublishCall
<1>3. version' = version /\ checked' = checked /\ rank' = rank
  BY DEF Publish
<1>4. /\ CacheLists(cache') /\ CacheLimits(cache')
      /\ cache'.identity = cache.identity
      /\ DOMAIN cache'.inflight = DOMAIN cache.inflight \ {asset}
      /\ \A a \in DOMAIN cache'.inflight : cache'.inflight[a] = cache.inflight[a]
      /\ Undisturbed => GroupsWhole(cache')
  BY PublishedCache DEF Restrict
<1>5. asset \in Assets
  BY <1>1, <1>2 DEF CallsSound
<1>6. SameTypes'
  BY <1>1, <1>2, <1>3, TypesKept DEF SameTypes
<1>7. CallsSound'
  BY <1>1, <1>2, <1>5, CallsKept
<1>8. FlightsOwned'
  BY <1>1, <1>2, <1>4, FlightsLess
<1>9. WaitersOwned'
  BY <1>1, <1>2, WaitersKept
<1>10. CandidatesHeld'
  BY <1>1, <1>2, <1>3, <1>5, CandidatesKept
<1>11. ASSUME Undisturbed PROVE FirstVersion' /\ GroupsWhole(cache)'
  <2>1. FirstVersion
    BY <1>11 DEF SameInv
  <2>2. cache.identity # NoneYet
    BY <1>2, <2>1 DEF FirstVersion, BeforeChecked
  <2>3. BeforeChecked'
    BY <1>4, <2>2 DEF BeforeChecked
  <2>4. cache.inflight[asset] = c
    BY <1>2, <2>1 DEF FirstVersion, Owning
  <2>5. ASSUME NEW d \in Callers
        PROVE  /\ calls'[d].identity \in {NoneYet, version}
               /\ calls'[d].pc = "expand" => AllSelf(calls'[d].group.reps)
               /\ calls'[d].pc = "publish" => calls'[d].group = Failure \/ Whole(calls'[d].group)
               /\ calls'[d].pc \in Owning =>
                    calls'[d].asset \in DOMAIN cache'.inflight
                      /\ cache'.inflight[calls'[d].asset] = d
    <3>1. CASE d = c
      BY <1>2, <2>1, <3>1 DEF FirstVersion, Owning
    <3>2. CASE d # c
      <4>1. calls'[d] = calls[d]
        BY <1>2, <3>2 DEF Only
      <4>2. /\ calls[d].identity \in {NoneYet, version}
            /\ calls[d].pc = "expand" => AllSelf(calls[d].group.reps)
            /\ calls[d].pc = "publish" => calls[d].group = Failure \/ Whole(calls[d].group)
            /\ calls[d].pc \in Owning =>
                 calls[d].asset \in DOMAIN cache.inflight /\ cache.inflight[calls[d].asset] = d
        BY <2>1 DEF FirstVersion
      <4>3. calls[d].pc \in Owning => calls[d].asset # asset
        BY <2>4, <3>2, <4>2
      <4> HIDE DEF asset
      <4> QED BY <1>4, <4>1, <4>2, <4>3
    <3> QED BY <3>1, <3>2
  <2>6. cache'.identity \in {NoneYet, version'}
    BY <1>3, <1>4, <2>1 DEF FirstVersion
  <2>7. \A d \in Callers : calls'[d].identity \in {NoneYet, version'}
    BY <1>3, <2>5
  <2>8. FirstVersion'
    BY <2>3, <2>5, <2>6, <2>7 DEF FirstVersion, AllSelf, Whole, FirstExact
  <2>9. GroupsWhole(cache)'
    BY <1>4, <1>11 DEF GroupsWhole, Whole, AllSelf, FirstExact
  <2> QED BY <2>8, <2>9
<1>12. Undisturbed' = Undisturbed
  BY <1>3 DEF Undisturbed
<1>13. CacheLists(cache)' /\ CacheLimits(cache)'
  BY <1>4 DEF CacheLists, CacheLimits, CacheFields
<1> QED BY <1>6, <1>7, <1>8, <1>9, <1>10, <1>11, <1>12, <1>13 DEF SameInv

\* Every call that waits for this one returns with it.
LEMMA AnsweredCalls ==
  ASSUME SameTypes, NEW c \in Callers, Answer(c)
  PROVE  /\ calls' \in [Callers -> Call] /\ calls[c].pc = "answer"
         /\ \A d \in Callers :
              \/ /\ d = c \/ (calls[d].pc = "wait" /\ calls[d].flight = c)
                 /\ calls'[d].pc = "done" /\ calls'[d].asset = calls[d].asset
                 /\ calls'[d].identity = calls[d].identity
              \/ /\ d # c /\ ~(calls[d].pc = "wait" /\ calls[d].flight = c)
                 /\ calls'[d] = calls[d]
<1> DEFINE told == {c} \cup Told(c)
           New(d) == [calls[d] EXCEPT !.pc = "done", !.group = calls[c].group, !.flight = d]
<1>1. calls' = [d \in Callers |-> IF d \in told THEN New(d) ELSE calls[d]]
      /\ calls[c].pc = "answer"
  BY DEF Answer
<1>2. \A d \in Callers : d \in told <=> (d = c \/ (calls[d].pc = "wait" /\ calls[d].flight = c))
  BY DEF Told, WaitingFor
<1>3. ASSUME NEW d \in Callers
      PROVE  /\ New(d) \in Call /\ New(d).pc = "done" /\ New(d).asset = calls[d].asset
             /\ New(d).identity = calls[d].identity
  <2> DEFINE o == calls[d]
             g == calls[c].group
             v == [o EXCEPT !.pc = "done", !.group = g, !.flight = d]
  <2>1. /\ DOMAIN o = Fields /\ o.asset \in Assets \cup {NoneYet}
        /\ o.identity \in Versions \cup {NoneYet} /\ g \in Groups
    BY CallTypes, CallDomain
  <2>2. New(d) = v
    OBVIOUS
  <2> HIDE DEF o, g, New
  <2>3. v = [n \in {"pc", "asset", "identity", "flight", "group"} |-> v[n]]
    BY <2>1 DEF Fields
  <2>4. v.pc = "done" /\ v.asset = o.asset /\ v.identity = o.identity /\ v.flight = d
        /\ v.group = g
    BY <2>1 DEF Fields
  <2> HIDE DEF v
  <2>5. v = CallOf("done", o.asset, o.identity, d, g)
    BY <2>3, <2>4, CallByFields
  <2>6. "done" \in CallSteps
    BY DEF CallSteps
  <2>7. v \in Call
    BY <2>1, <2>5, <2>6 DEF Call, CallOf
  <2> QED BY <2>2, <2>4, <2>7 DEF o
<1> HIDE DEF New, told
<1>4. \A d \in Callers : calls[d] \in Call
  BY DEF SameTypes
<1>5. calls' \in [Callers -> Call]
  BY <1>1, <1>3, <1>4
<1>6. \A d \in Callers : calls'[d] = IF d \in told THEN New(d) ELSE calls[d]
  BY <1>1
<1> QED BY <1>1, <1>2, <1>3, <1>5, <1>6

LEMMA AnswerKeeps ==
  ASSUME SameInv, NEW c \in Callers, Answer(c)
  PROVE  SameInv'
<1> DEFINE IsTold(d) == d = c \/ (calls[d].pc = "wait" /\ calls[d].flight = c)
<1>1. /\ SameTypes /\ CallsSound /\ FlightsOwned /\ WaitersOwned /\ CandidatesHeld
  BY DEF SameInv
<1>2. /\ calls' \in [Callers -> Call] /\ calls[c].pc = "answer"
      /\ \A d \in Callers :
           \/ /\ IsTold(d)
              /\ calls'[d].pc = "done" /\ calls'[d].asset = calls[d].asset
              /\ calls'[d].identity = calls[d].identity
           \/ ~IsTold(d) /\ calls'[d] = calls[d]
  BY <1>1, AnsweredCalls
<1>3. version' = version /\ cache' = cache /\ checked' = checked /\ rank' = rank
  BY DEF Answer
<1>4. \A d \in Callers : IsTold(d) => calls[d].pc \in {"wait", "answer"} /\ calls[d].asset \in Assets
  BY <1>1, <1>2 DEF CallsSound
<1>5. SameTypes'
  BY <1>1, <1>2, <1>3 DEF SameTypes, RankFields
<1>6. CallsSound'
  <2> SUFFICES ASSUME NEW d \in Callers
               PROVE  /\ calls'[d].pc \notin {"idle", "done"} => calls'[d].asset \in Assets
                      /\ calls'[d].pc = "expand" => calls'[d].group.reps # {}
                      /\ calls'[d].pc = "publish" =>
                           calls'[d].group = Failure \/ calls'[d].group.reps # {}
    BY DEF CallsSound
  <2> HIDE DEF IsTold
  <2>1. calls'[d].pc = "done" \/ calls'[d] = calls[d]
    BY <1>2
  <2> QED BY <1>1, <2>1 DEF CallsSound
<1>7. FlightsOwned'
  <2> SUFFICES ASSUME NEW a \in DOMAIN cache.inflight
               PROVE  /\ a \in Assets /\ cache.inflight[a] \in Callers
                      /\ calls'[cache.inflight[a]].pc \in Owning
                      /\ calls'[cache.inflight[a]].asset = a
    BY <1>3 DEF FlightsOwned
  <2> DEFINE d == cache.inflight[a]
  <2>1. a \in Assets /\ d \in Callers /\ calls[d].pc \in Owning /\ calls[d].asset = a
    BY <1>1 DEF FlightsOwned
  <2> HIDE DEF d, IsTold
  <2>2. ~IsTold(d)
    BY <1>4, <2>1 DEF Owning
  <2>3. calls'[d] = calls[d]
    BY <1>2, <2>1, <2>2
  <2> QED BY <2>1, <2>3 DEF d
<1>8. WaitersOwned'
  <2> SUFFICES ASSUME NEW d \in Callers, calls'[d].pc = "wait"
               PROVE  /\ calls'[calls'[d].flight].pc \in Owning \cup {"answer"}
                      /\ calls'[calls'[d].flight].asset = calls'[d].asset
    BY DEF WaitersOwned
  <2> DEFINE f == calls[d].flight
  <2>1. calls'[d] = calls[d] /\ ~IsTold(d)
    BY <1>2
  <2>2. /\ f \in Callers /\ calls[f].pc \in Owning \cup {"answer"}
        /\ calls[f].asset = calls[d].asset
    BY <1>1, <2>1, CallTypes DEF WaitersOwned
  <2>3. f # c
    BY <2>1
  <2>4. ~IsTold(f)
    BY <2>2, <2>3 DEF Owning
  <2>5. calls'[f] = calls[f]
    BY <1>2, <2>2, <2>4
  <2> QED BY <2>1, <2>2, <2>5
<1>9. CandidatesHeld'
  <2> HIDE DEF IsTold
  <2>1. \A w \in RankWorkers :
          (calls'[w].pc = "done" /\ calls'[w].asset = NoneYet)
            <=> (calls[w].pc = "done" /\ calls[w].asset = NoneYet)
    <3> SUFFICES ASSUME NEW w \in RankWorkers
                 PROVE  (calls'[w].pc = "done" /\ calls'[w].asset = NoneYet)
                          <=> (calls[w].pc = "done" /\ calls[w].asset = NoneYet)
      OBVIOUS
    <3>1. w \in Callers
      BY DEF Callers
    <3> QED BY <1>2, <1>4, <3>1, SameConstants
  <2>2. HasLeft' = HasLeft
    BY <2>1 DEF HasLeft, Left
  <2>3. \A w \in RankWorkers, a \in Assets :
          calls[w].pc # "idle" /\ calls[w].asset = a
            => calls'[w].pc # "idle" /\ calls'[w].asset = a
    BY <1>2 DEF Callers
  <2>4. \A i \in 1 .. Len(Candidates) : Candidates[i] \in Assets
    BY SameConstants
  <2>5. \A i \in 1 .. Len(Candidates) :
          i <= rank.next =>
            \/ i \in rank.resolved
            \/ \E w \in RankWorkers : calls'[w].pc # "idle" /\ calls'[w].asset = Candidates[i]
    BY <1>1, <2>3, <2>4 DEF CandidatesHeld
  <2> QED BY <1>1, <1>3, <2>2, <2>5 DEF CandidatesHeld
<1>10. CacheLists(cache)' /\ CacheLimits(cache)' /\ (GroupsWhole(cache) => GroupsWhole(cache)')
  BY <1>3, CacheKept
<1>11. ASSUME Undisturbed PROVE FirstVersion'
  <2>1. FirstVersion
    BY <1>11 DEF SameInv
  <2>2. cache.identity # NoneYet
    BY <1>2, <2>1 DEF FirstVersion, BeforeChecked
  <2>3. BeforeChecked'
    BY <1>3, <2>2 DEF BeforeChecked
  <2> HIDE DEF IsTold
  <2>4. ASSUME NEW d \in Callers
        PROVE  /\ calls'[d].identity \in {NoneYet, version}
               /\ calls'[d].pc = "expand" => AllSelf(calls'[d].group.reps)
               /\ calls'[d].pc = "publish" => calls'[d].group = Failure \/ Whole(calls'[d].group)
               /\ calls'[d].pc \in Owning =>
                    calls'[d].asset \in DOMAIN cache.inflight
                      /\ cache.inflight[calls'[d].asset] = d
    <3>1. CASE calls'[d] = calls[d]
      BY <2>1, <3>1 DEF FirstVersion
    <3>2. CASE calls'[d].pc = "done" /\ calls'[d].identity = calls[d].identity
      BY <2>1, <3>2 DEF FirstVersion, Owning
    <3> QED BY <1>2, <3>1, <3>2
  <2>5. cache'.identity \in {NoneYet, version'}
    BY <1>3, <2>1 DEF FirstVersion
  <2>6. \A d \in Callers : calls'[d].identity \in {NoneYet, version'}
    BY <1>3, <2>4
  <2> QED BY <1>3, <2>3, <2>4, <2>5, <2>6 DEF FirstVersion, AllSelf, Whole, FirstExact
<1>12. Undisturbed' = Undisturbed
  BY <1>3 DEF Undisturbed
<1>13. Undisturbed' => FirstVersion' /\ GroupsWhole(cache)'
  BY <1>10, <1>11, <1>12 DEF SameInv
<1> QED BY <1>5, <1>6, <1>7, <1>8, <1>9, <1>10, <1>13 DEF SameInv
----------------------------------------------------------------------------
(* Steps that leave the calls alone.                                       *)

LEMMA PeekKeeps ==
  ASSUME SameInv, NEW asset, Peek(asset)
  PROVE  SameInv'
<1> DEFINE key == cache.aliases[asset]
<1>1. CacheLists(cache) /\ CacheLimits(cache) /\ key \in DOMAIN cache.entries
  BY DEF SameInv, Peek, Known
<1>2. cache' = [cache EXCEPT !.lru = Touched(@, key)] /\ version' = version
      /\ checked' = checked /\ calls' = calls /\ rank' = rank
  BY DEF Peek
<1> HIDE DEF key
<1>3. /\ CacheLists(cache') /\ CacheLimits(cache')
      /\ cache'.identity = cache.identity /\ cache'.inflight = cache.inflight
      /\ GroupsWhole(cache) => GroupsWhole(cache')
  BY <1>1, <1>2, TouchedLists
<1>4. SameTypes' /\ CallsSound' /\ WaitersOwned' /\ CandidatesHeld'
  BY <1>2 DEF SameInv, SameTypes, RankFields, CallsSound, WaitersOwned, CandidatesHeld,
              HasLeft, Left
<1>5. FlightsOwned'
  BY <1>2, <1>3 DEF SameInv, FlightsOwned
<1>6. CacheLists(cache)' /\ CacheLimits(cache)'
  BY <1>3 DEF CacheLists, CacheLimits, CacheFields
<1>7. ASSUME Undisturbed PROVE FirstVersion' /\ GroupsWhole(cache)'
  BY <1>7, <1>2, <1>3 DEF SameInv, FirstVersion, BeforeChecked, Checks, AllSelf, Whole,
    FirstExact, GroupsWhole
<1>8. Undisturbed' = Undisturbed
  BY <1>2 DEF Undisturbed
<1> QED BY <1>4, <1>5, <1>6, <1>7, <1>8 DEF SameInv

LEMMA PassingKeeps ==
  ASSUME SameInv, TwoSecondsPass
  PROVE  SameInv'
<1>1. checked' = FALSE /\ version' = version /\ cache' = cache /\ calls' = calls /\ rank' = rank
  BY DEF TwoSecondsPass
<1>2. SameTypes' /\ CallsSound' /\ WaitersOwned' /\ CandidatesHeld' /\ FlightsOwned'
  <2>1. SameTypes'
    BY <1>1 DEF SameInv, SameTypes, RankFields
  <2>2. CallsSound' /\ WaitersOwned' /\ CandidatesHeld' /\ FlightsOwned'
    BY <1>1 DEF SameInv, CallsSound, WaitersOwned, CandidatesHeld, HasLeft, Left, FlightsOwned
  <2> QED BY <2>1, <2>2
<1>3. CacheLists(cache)' /\ CacheLimits(cache)' /\ (GroupsWhole(cache) => GroupsWhole(cache)')
  BY <1>1, CacheKept
<1>4. FirstVersion => FirstVersion'
  BY <1>1 DEF FirstVersion, BeforeChecked, Checks, AllSelf, Whole, FirstExact
<1>5. Undisturbed' = Undisturbed
  BY <1>1 DEF Undisturbed
<1>6. Undisturbed' => FirstVersion' /\ GroupsWhole(cache)'
  BY <1>3, <1>4, <1>5 DEF SameInv
<1> QED BY <1>2, <1>3, <1>6 DEF SameInv

LEMMA ChangeKeeps ==
  ASSUME SameInv, ManifestChanges
  PROVE  SameInv'
<1>1. /\ version' = version + 1 /\ version' \in Versions /\ checked' = checked
      /\ cache' = cache /\ calls' = calls /\ rank' = rank
  BY DEF ManifestChanges
<1>2. SameTypes' /\ CallsSound' /\ WaitersOwned' /\ CandidatesHeld' /\ FlightsOwned'
  BY <1>1 DEF SameInv, SameTypes, RankFields, CallsSound, WaitersOwned, CandidatesHeld,
    HasLeft, Left, FlightsOwned
<1>3. CacheLists(cache)' /\ CacheLimits(cache)'
  BY <1>1, CacheKept
<1>4. ~Undisturbed'
  BY FirstOfVersions, SameConstants, <1>1 DEF SameInv, SameTypes, Undisturbed
<1> QED BY <1>2, <1>3, <1>4 DEF SameInv

\* The ranking goes on as far as its candidates are held.
LEMMA RankingKeeps ==
  ASSUME SameInv, version' = version, cache' = cache, checked' = checked, calls' = calls,
         RankFields', rank'.pc \in {"off", "running", "resolved", "cancelled", "error"},
         rank'.next = rank.next, rank'.resolved = rank.resolved,
         rank'.cancel \in BOOLEAN, rank.cancel => rank'.cancel,
         rank'.pc \in {"resolved", "error"} => 1 .. Len(Candidates) \subseteq rank.resolved
  PROVE  SameInv'
<1>1. SameTypes' /\ CallsSound' /\ WaitersOwned' /\ FlightsOwned'
  BY DEF SameInv, SameTypes, CallsSound, WaitersOwned, FlightsOwned
<1>2. CandidatesHeld'
  BY DEF SameInv, CandidatesHeld, HasLeft, Left
<1>3. CacheLists(cache)' /\ CacheLimits(cache)' /\ (GroupsWhole(cache) => GroupsWhole(cache)')
  BY CacheKept
<1>4. FirstVersion => FirstVersion'
  BY DEF FirstVersion, BeforeChecked, Checks, AllSelf, Whole, FirstExact
<1>5. Undisturbed' = Undisturbed
  BY DEF Undisturbed
<1>6. Undisturbed' => FirstVersion' /\ GroupsWhole(cache)'
  BY <1>3, <1>4, <1>5 DEF SameInv
<1> QED BY <1>1, <1>2, <1>3, <1>6 DEF SameInv

LEMMA StartKeeps ==
  ASSUME SameInv, StartRanking
  PROVE  SameInv'
BY RankingKeeps DEF SameInv, SameTypes, StartRanking, RankFields

LEMMA CancelKeeps ==
  ASSUME SameInv, CancelRanking
  PROVE  SameInv'
BY RankingKeeps DEF SameInv, SameTypes, CancelRanking, RankFields

\* When all workers have left and nobody cancelled, every candidate was taken
\* and its result has been sent.
LEMMA CollectKeeps ==
  ASSUME SameInv, CollectResults
  PROVE  SameInv'
<1>1. /\ RankFields /\ rank.cancel \in BOOLEAN /\ rank.next \in Nat
      /\ \A w \in RankWorkers : Left(w)
  BY DEF SameInv, SameTypes, CollectResults
<1>2. /\ rank' = [rank EXCEPT !.pc = IF rank.cancel THEN "cancelled"
                                     ELSE IF rank.failed THEN "error" ELSE "resolved"]
      /\ version' = version /\ cache' = cache /\ checked' = checked /\ calls' = calls
  BY DEF CollectResults, CancelSeen
<1>3. /\ RankFields' /\ rank'.next = rank.next
      /\ rank'.resolved = rank.resolved /\ rank'.cancel = rank.cancel
  BY <1>1, <1>2 DEF RankFields
<1>4. /\ rank'.pc \in {"cancelled", "resolved", "error"}
      /\ rank.cancel => rank'.pc = "cancelled"
  BY <1>1, <1>2 DEF RankFields
<1>5. ASSUME ~rank.cancel, NEW i \in 1 .. Len(Candidates) PROVE i \in rank.resolved
  <2>1. CandidatesHeld
    BY DEF SameInv
  <2>2. Candidates # <<>>
    BY SameConstants
  <2>3. HasLeft # {}
    BY <1>1, <2>2, SameConstants DEF HasLeft
  <2>4. rank.next >= Len(Candidates)
    BY <1>5, <2>1, <2>3 DEF CandidatesHeld
  <2>5. i <= rank.next
    BY <1>1, <2>4, SameConstants
  <2>6. \A w \in RankWorkers : calls[w].asset # Candidates[i]
    <3>1. Candidates[i] \in Assets
      BY SameConstants
    <3> QED BY <1>1, <3>1, SameConstants DEF Left
  <2> QED BY <2>1, <2>5, <2>6 DEF CandidatesHeld
<1>6. rank'.pc \in {"resolved", "error"} => 1 .. Len(Candidates) \subseteq rank.resolved
  BY <1>1, <1>4, <1>5
<1> QED BY <1>1, <1>2, <1>3, <1>4, <1>6, RankingKeeps

----------------------------------------------------------------------------
(* Calls begin and end.                                                    *)

LEMMA RestingStep ==
  ASSUME SameInv, NEW c \in Callers, Only(c),
         version' = version, cache' = cache, checked' = checked,
         SameTypes', CandidatesHeld',
         calls[c].pc \in {"idle", "done"},
         calls'[c].pc \in {"idle", "done", IF checked THEN "lookup" ELSE "identity"},
         calls'[c].identity = NoneYet,
         calls'[c].pc \notin {"idle", "done"} => calls'[c].asset \in Assets
  PROVE  SameInv'
<1>1. SameTypes /\ CallsSound /\ FlightsOwned /\ WaitersOwned /\ checked \in BOOLEAN
  BY DEF SameInv, SameTypes
<1>2. calls'[c].pc \in {"idle", "done", "lookup", "identity"}
      /\ (calls'[c].pc = "lookup" => checked)
  BY <1>1
<1>3. calls[c].pc \notin Owning \cup {"answer"} /\ calls'[c].pc \notin Owning
  BY <1>2 DEF Owning
<1>4. CallsSound'
  BY <1>1, <1>2, CallsKept
<1>5. FlightsOwned'
  BY <1>1, <1>3, FlightsKept
<1>6. WaitersOwned'
  BY <1>1, <1>2, <1>3, WaitersKept
<1>7. CacheLists(cache)' /\ CacheLimits(cache)' /\ (GroupsWhole(cache) => GroupsWhole(cache)')
  BY CacheKept
<1>8. ASSUME Undisturbed PROVE FirstVersion'
  BY <1>8, <1>1, <1>2, <1>3, FirstKept DEF SameInv, FirstVersion, BeforeChecked
<1>9. Undisturbed' = Undisturbed
  BY DEF Undisturbed
<1>10. Undisturbed' => FirstVersion' /\ GroupsWhole(cache)'
  BY <1>7, <1>8, <1>9 DEF SameInv
<1> QED BY <1>4, <1>5, <1>6, <1>7, <1>10 DEF SameInv

LEMMA ReaderKeeps ==
  ASSUME SameInv, NEW c \in Readers, NEW asset \in AskedFor, ReaderAsks(c, asset)
  PROVE  SameInv'
<1>1. SameTypes /\ c \in Callers /\ asset \in Assets /\ calls[c].pc = "idle" /\ CandidatesHeld
  BY SameConstants DEF SameInv, Callers, ReaderAsks
<1>2. version' = version /\ cache' = cache /\ checked' = checked /\ rank' = rank
  BY DEF ReaderAsks
<1>3. /\ Only(c)
      /\ calls'[c].pc = IF checked THEN "lookup" ELSE "identity"
      /\ calls'[c].asset = asset /\ calls'[c].identity = NoneYet
  BY <1>1, AskingCall DEF ReaderAsks
<1>4. SameTypes'
  BY <1>1, <1>2, <1>3, TypesKept DEF SameTypes
<1>5. CandidatesHeld'
  <2>1. \A w \in RankWorkers : calls'[w] = calls[w]
    BY <1>3, SameConstants DEF Only, Callers
  <2>2. HasLeft' = HasLeft
    BY <2>1 DEF HasLeft, Left
  <2> QED BY <1>1, <1>2, <2>1, <2>2 DEF CandidatesHeld
<1> QED BY <1>1, <1>2, <1>3, <1>4, <1>5, RestingStep

----------------------------------------------------------------------------
(* The workers of a ranking.                                               *)

LEMMA WorkersLeft ==
  IsFiniteSet(HasLeft) /\ Cardinality(HasLeft) \in Nat
<1>1. HasLeft \subseteq RankWorkers
  BY DEF HasLeft
<1> QED BY <1>1, SameConstants, FS_Subset, FS_CardinalityType

\* A worker that leaves is one more that has left.
LEMMA LeavingWorker ==
  ASSUME SameTypes, NEW w \in RankWorkers, calls[w].pc = "idle", Leaves(w)
  PROVE  /\ Only(w) /\ calls'[w].pc = "done" /\ calls'[w].asset = NoneYet
         /\ calls'[w].identity = NoneYet
         /\ HasLeft' = HasLeft \cup {w}
         /\ Cardinality(HasLeft') = Cardinality(HasLeft) + 1
<1> DEFINE v == [IdleCall(w) EXCEPT !.pc = "done"]
<1>1. w \in Callers /\ w \notin HasLeft
  BY DEF Callers, HasLeft, Left
<1>2. v = CallOf("done", NoneYet, NoneYet, w, NoGroup)
  <2>1. v = [n \in {"pc", "asset", "identity", "flight", "group"} |-> v[n]]
    BY DEF IdleCall
  <2>2. /\ v.pc = "done" /\ v.asset = NoneYet /\ v.identity = NoneYet
        /\ v.flight = w /\ v.group = NoGroup
    BY DEF IdleCall
  <2> HIDE DEF v
  <2> QED BY <2>1, <2>2, CallByFields
<1>3. calls' = [calls EXCEPT ![w] = v]
  BY DEF Leaves
<1> HIDE DEF v
<1>4. calls' = [calls EXCEPT ![w] = CallOf("done", NoneYet, NoneYet, w, NoGroup)]
  BY <1>2, <1>3
<1>5. "done" \in CallSteps /\ NoneYet \in Assets \cup {NoneYet}
      /\ NoneYet \in Versions \cup {NoneYet}
  BY DEF CallSteps
<1>6. /\ Only(w) /\ calls'[w].pc = "done" /\ calls'[w].asset = NoneYet
      /\ calls'[w].identity = NoneYet
  BY <1>1, <1>4, <1>5, CallChanged, GroupConstants
<1>7. \A x \in RankWorkers : x # w => calls'[x] = calls[x]
  BY <1>6 DEF Only, Callers
<1>8. HasLeft' = HasLeft \cup {w}
  BY <1>6, <1>7 DEF HasLeft, Left
<1>9. Cardinality(HasLeft') = Cardinality(HasLeft) + 1
  BY <1>1, <1>8, WorkersLeft, FS_AddElement
<1> QED BY <1>6, <1>8, <1>9

LEMMA TakeKeeps ==
  ASSUME SameInv, NEW w \in RankWorkers, TakeCandidate(w)
  PROVE  SameInv'
<1>1. /\ SameTypes /\ CandidatesHeld /\ w \in Callers /\ calls[w].pc = "idle"
      /\ RankFields /\ rank.next \in Nat /\ rank.pc = "running"
      /\ Len(Candidates) \in Nat /\ Cardinality(HasLeft) \in Nat
  BY WorkersLeft, SameConstants DEF SameInv, SameTypes, Callers, TakeCandidate
<1>2. version' = version /\ cache' = cache /\ checked' = checked /\ checked \in BOOLEAN
      /\ version \in Versions
  BY <1>1 DEF TakeCandidate, SameTypes
<1>3. /\ rank.next <= Len(Candidates) + Cardinality(HasLeft)
      /\ ~rank.cancel /\ HasLeft # {} => rank.next >= Len(Candidates)
      /\ \A i \in 1 .. Len(Candidates) :
           i <= rank.next =>
             \/ i \in rank.resolved
             \/ \E x \in RankWorkers : calls[x].pc # "idle" /\ calls[x].asset = Candidates[i]
  BY <1>1 DEF CandidatesHeld
\* Who holds a candidate goes on holding it.
<1>4. ASSUME Only(w), NEW i \in 1 .. Len(Candidates), i <= rank.next
      PROVE  \/ i \in rank.resolved
             \/ \E x \in RankWorkers : calls'[x].pc # "idle" /\ calls'[x].asset = Candidates[i]
  BY <1>1, <1>4, <1>3 DEF Only, Callers
<1>5. ASSUME rank.cancel, Leaves(w), rank' = rank PROVE SameInv'
  <2>1. /\ Only(w) /\ calls'[w].pc = "done" /\ calls'[w].asset = NoneYet
        /\ calls'[w].identity = NoneYet
        /\ HasLeft' = HasLeft \cup {w}
        /\ Cardinality(HasLeft') = Cardinality(HasLeft) + 1
    BY <1>1, <1>5, LeavingWorker
  <2>2. SameTypes'
    BY <1>1, <1>2, <1>5, <2>1, TypesKept
  <2>3. rank.next <= Len(Candidates) + Cardinality(HasLeft')
    BY <1>1, <1>3, <2>1
  <2>4. CandidatesHeld'
    BY <1>1, <1>4, <1>5, <2>1, <2>3 DEF CandidatesHeld
  <2> QED BY <1>1, <1>2, <2>1, <2>2, <2>4, RestingStep
<1>6. ASSUME rank.next < Len(Candidates), Asks(w, Candidates[rank.next + 1]),
             rank' = [rank EXCEPT !.next = @ + 1]
      PROVE  SameInv'
  <2>0. rank.next + 1 \in 1 .. Len(Candidates) /\ Candidates[rank.next + 1] \in Assets
    BY <1>1, <1>6, SameConstants
  <2>1. /\ Only(w)
        /\ calls'[w].pc = IF checked THEN "lookup" ELSE "identity"
        /\ calls'[w].asset = Candidates[rank.next + 1] /\ calls'[w].identity = NoneYet
    BY <1>1, <1>6, <2>0, AskingCall
  <2>2. /\ RankFields' /\ rank'.next = rank.next + 1 /\ rank'.pc = rank.pc
        /\ rank'.resolved = rank.resolved /\ rank'.cancel = rank.cancel
    BY <1>1, <1>6 DEF RankFields
  <2>3. SameTypes'
    BY <1>1, <1>2, <2>1, <2>2 DEF SameTypes, Only
  <2>4. calls'[w].pc \in {"lookup", "identity"}
    BY <1>2, <2>1
  <2>5. HasLeft' = HasLeft
    <3>1. \A x \in RankWorkers : x # w => calls'[x] = calls[x]
      BY <2>1 DEF Only, Callers
    <3> QED BY <1>1, <2>4, <3>1 DEF HasLeft, Left
  <2>6. ASSUME NEW i \in 1 .. Len(Candidates), i <= rank.next + 1
        PROVE  \/ i \in rank.resolved
               \/ \E x \in RankWorkers : calls'[x].pc # "idle" /\ calls'[x].asset = Candidates[i]
    <3>1. CASE i = rank.next + 1
      BY <2>1, <2>4, <3>1
    <3>2. CASE i # rank.next + 1
      <4>1. i <= rank.next
        BY <1>1, <2>6, <3>2
      <4> QED BY <1>4, <2>1, <4>1
    <3> QED BY <3>1, <3>2
  <2>7. /\ rank'.next <= Len(Candidates) + Cardinality(HasLeft')
        /\ ~rank'.cancel /\ HasLeft' # {} => rank'.next >= Len(Candidates)
    BY <1>1, <1>3, <1>6, <2>2, <2>5
  <2>8. CandidatesHeld'
    BY <1>1, <2>2, <2>6, <2>7 DEF CandidatesHeld
  <2> QED BY <1>1, <1>2, <2>0, <2>1, <2>3, <2>8, RestingStep
<1>7. ASSUME rank.next >= Len(Candidates), Leaves(w), rank' = [rank EXCEPT !.next = @ + 1]
      PROVE  SameInv'
  <2>1. /\ Only(w) /\ calls'[w].pc = "done" /\ calls'[w].asset = NoneYet
        /\ calls'[w].identity = NoneYet
        /\ HasLeft' = HasLeft \cup {w}
        /\ Cardinality(HasLeft') = Cardinality(HasLeft) + 1
    BY <1>1, <1>7, LeavingWorker
  <2>2. /\ RankFields' /\ rank'.next = rank.next + 1 /\ rank'.pc = rank.pc
        /\ rank'.resolved = rank.resolved /\ rank'.cancel = rank.cancel
    BY <1>1, <1>7 DEF RankFields
  <2>3. SameTypes'
    BY <1>1, <1>2, <2>1, <2>2 DEF SameTypes, Only
  <2>4. /\ rank'.next <= Len(Candidates) + Cardinality(HasLeft')
        /\ rank'.next >= Len(Candidates)
    BY <1>1, <1>3, <1>7, <2>1, <2>2
  <2>5. ASSUME NEW i \in 1 .. Len(Candidates)
        PROVE  \/ i \in rank.resolved
               \/ \E x \in RankWorkers : calls'[x].pc # "idle" /\ calls'[x].asset = Candidates[i]
    <3>1. i <= rank.next
      BY <1>1, <1>7
    <3> QED BY <1>4, <2>1, <3>1
  <2>6. CandidatesHeld'
    BY <1>1, <2>2, <2>4, <2>5 DEF CandidatesHeld
  <2> QED BY <1>1, <1>2, <2>1, <2>3, <2>6, RestingStep
<1> QED BY <1>5, <1>6, <1>7 DEF TakeCandidate

LEMMA SendKeeps ==
  ASSUME SameInv, NEW w \in RankWorkers, SendResult(w)
  PROVE  SameInv'
<1> DEFINE sent == {i \in DOMAIN Candidates : Candidates[i] = calls[w].asset}
<1>1. /\ SameTypes /\ CandidatesHeld /\ w \in Callers
      /\ calls[w].pc = "done" /\ calls[w].asset # NoneYet
      /\ RankFields /\ rank.next \in Nat /\ rank.resolved \subseteq 1 .. Len(Candidates)
      /\ DOMAIN Candidates = 1 .. Len(Candidates)
  BY SameConstants DEF SameInv, SameTypes, Callers, SendResult
<1>2. /\ version' = version /\ cache' = cache /\ checked' = checked
      /\ calls' = [calls EXCEPT ![w] = IdleCall(w)]
      /\ rank' = [rank EXCEPT !.resolved = @ \cup sent,
                              !.failed = @ \/ calls[w].group = Failure]
  BY DEF SendResult
<1>3. /\ Only(w) /\ calls'[w].pc = "idle" /\ calls'[w].identity = NoneYet
  <2>1. IdleCall(w) = CallOf("idle", NoneYet, NoneYet, w, NoGroup)
    BY DEF IdleCall, CallOf
  <2>2. "idle" \in CallSteps /\ NoneYet \in Assets \cup {NoneYet}
        /\ NoneYet \in Versions \cup {NoneYet}
    BY DEF CallSteps
  <2>3. calls' = [calls EXCEPT ![w] = CallOf("idle", NoneYet, NoneYet, w, NoGroup)]
    BY <1>2, <2>1
  <2> QED BY <1>1, <2>2, <2>3, CallChanged, GroupConstants
<1> HIDE DEF sent
<1>4. /\ RankFields' /\ rank'.next = rank.next /\ rank'.pc = rank.pc
      /\ rank'.resolved = rank.resolved \cup sent /\ rank'.cancel = rank.cancel
  <2> DEFINE failed == rank.failed \/ calls[w].group = Failure
  <2>1. rank' = [rank EXCEPT !.resolved = rank.resolved \cup sent, !.failed = failed]
    BY <1>1, <1>2 DEF RankFields
  <2> HIDE DEF failed
  <2> QED BY <1>1, <2>1 DEF RankFields
<1>5. sent \subseteq 1 .. Len(Candidates)
  BY <1>1 DEF sent
<1>6. SameTypes'
  BY <1>1, <1>2, <1>3, <1>4, <1>5 DEF SameTypes, Only
<1>7. \A x \in RankWorkers : x # w => calls'[x] = calls[x]
  BY <1>3 DEF Only, Callers
<1>8. HasLeft' = HasLeft
  BY <1>1, <1>3, <1>7 DEF HasLeft, Left
<1>9. ASSUME NEW i \in 1 .. Len(Candidates), i <= rank.next
      PROVE  \/ i \in rank.resolved \cup sent
             \/ \E x \in RankWorkers : calls'[x].pc # "idle" /\ calls'[x].asset = Candidates[i]
  <2>1. CASE i \in rank.resolved
    BY <2>1
  <2>2. CASE i \notin rank.resolved
    <3>1. PICK x \in RankWorkers : calls[x].pc # "idle" /\ calls[x].asset = Candidates[i]
      BY <1>1, <1>9, <2>2 DEF CandidatesHeld
    <3>2. CASE x = w
      BY <1>1, <3>1, <3>2 DEF sent
    <3>3. CASE x # w
      BY <1>7, <3>1, <3>3
    <3> QED BY <3>2, <3>3
  <2> QED BY <2>1, <2>2
<1>10. CandidatesHeld'
  BY <1>1, <1>4, <1>8, <1>9 DEF CandidatesHeld
<1> QED BY <1>1, <1>2, <1>3, <1>6, <1>10, RestingStep

----------------------------------------------------------------------------
(* The invariant, and what it gives.                                       *)

LEMMA SameInitial ==
  SameInit => SameInv
<1> SUFFICES ASSUME SameInit PROVE SameInv
  OBVIOUS
<1>1. /\ version = Min(Versions) /\ cache = EmptyCache(NoneYet) /\ checked = FALSE
      /\ calls = [c \in Callers |-> IdleCall(c)]
      /\ rank = [pc |-> "off", next |-> 0, resolved |-> {}, failed |-> FALSE, cancel |-> FALSE]
  BY DEF SameInit
<1>2. \A c \in Callers : IdleCall(c) \in Call
  BY DEF IdleCall, Call, CallSteps
<1>3. /\ calls \in [Callers -> Call]
      /\ \A c \in Callers : /\ calls[c].pc = "idle" /\ calls[c].asset = NoneYet
                            /\ calls[c].identity = NoneYet
  BY <1>1, <1>2 DEF IdleCall
<1>4. SameTypes
  BY <1>1, <1>3, FirstOfVersions DEF SameTypes, RankFields
<1>5. CallsSound /\ WaitersOwned
  BY <1>3 DEF CallsSound, WaitersOwned
<1>6. /\ CacheLists(cache) /\ CacheLimits(cache) /\ GroupsWhole(cache)
      /\ cache.identity = NoneYet /\ DOMAIN cache.inflight = {}
  BY <1>1, EmptyLists
<1>7. FlightsOwned
  BY <1>6 DEF FlightsOwned
<1>8. CandidatesHeld
  <2>1. HasLeft = {}
    BY <1>3 DEF HasLeft, Left, Callers
  <2>2. Cardinality(HasLeft) = 0
    BY <2>1, FS_EmptySet
  <2> QED BY <1>1, <2>1, <2>2, SameConstants DEF CandidatesHeld
<1>9. FirstVersion
  BY <1>1, <1>3, <1>6 DEF FirstVersion, BeforeChecked, Owning
<1> QED BY <1>4, <1>5, <1>6, <1>7, <1>8, <1>9 DEF SameInv

LEMMA SameStep ==
  SameInv /\ [SameNext]_sameVars => SameInv'
<1> SUFFICES ASSUME SameInv, [SameNext]_sameVars PROVE SameInv'
  OBVIOUS
<1>1. ASSUME NEW c \in Callers, Lookup(c) PROVE SameInv'
  BY <1>1, HitKeeps, JoinKeeps, OwnKeeps DEF Lookup
<1>2. ASSUME NEW c \in Callers, CallStep(c) PROVE SameInv'
  BY <1>1, <1>2, ReadIdentityKeeps, AcquireKeeps, QueryKeeps, ExpandKeeps, PublishKeeps,
     AnswerKeeps DEF CallStep
<1>3. ASSUME NEW w \in RankWorkers, WorkerStep(w) PROVE SameInv'
  BY <1>3, TakeKeeps, SendKeeps DEF WorkerStep
<1>4. CASE SameNext
  BY <1>2, <1>3, <1>4, ChangeKeeps, PassingKeeps, StartKeeps, CancelKeeps, ReaderKeeps,
     PeekKeeps, CollectKeeps DEF SameNext
<1>5. CASE UNCHANGED sameVars
  BY <1>5, RankingKeeps DEF sameVars, SameInv, SameTypes, RankFields, CandidatesHeld
<1> QED BY <1>4, <1>5

\* The inductive invariant: a call has an Inflight to its name from the lookup
\* to the result, the list, the groups, the aliases and the counter of the
\* cache agree, every candidate that was taken has its result or a worker, and
\* as long as the manifest stays as it was first, the groups are whole.
THEOREM SameInvariant == SameSpec => []SameInv
BY SameInitial, SameStep, PTL DEF SameSpec

LEMMA TypesFromInv ==
  SameInv => SameCacheTypeOK
<1> SUFFICES ASSUME SameInv PROVE SameCacheTypeOK
  OBVIOUS
<1>1. SameTypes /\ FlightsOwned /\ CacheLists(cache) /\ CacheLimits(cache) /\ CandidatesHeld
  BY DEF SameInv
<1>2. cache.lru \in BoundedSeq(Assets, MaxGroups)
  BY <1>1, CacheTypes, SameConstants DEF CacheLimits, BoundedSeq, SeqOf
<1>3. DOMAIN cache.inflight \subseteq Assets /\ Range(cache.inflight) \subseteq Callers
  BY <1>1 DEF FlightsOwned, Range
<1>4. rank.next <= Len(Candidates) + Cardinality(RankWorkers)
  BY SameConstants, FS_Subset, FS_CardinalityType, <1>1, WorkersLeft DEF HasLeft,
    SameTypes, CandidatesHeld
<1> QED BY <1>1, <1>2, <1>3, <1>4 DEF SameCacheTypeOK, SameTypes, CacheLists

LEMMA BookkeepingFromInv ==
  SameInv => CacheBookkeeping
<1> SUFFICES ASSUME SameInv PROVE CacheBookkeeping
  OBVIOUS
<1>1. CacheLists(cache) /\ CacheLimits(cache)
  BY DEF SameInv
<1>2. Cardinality(Members(cache.entries)) \in Nat /\ cache.members \in Nat
      /\ Cardinality(Members(cache.entries)) <= cache.members
      /\ Cardinality(Members(cache.entries)) <= MaxMembers
  BY <1>1, CacheTypes DEF CacheLists, CacheLimits
<1>3. Sizes <= Min({cache.members, MaxMembers})
  BY <1>2, SameConstants, LeastOf DEF Sizes
<1>4. GroupsDisjoint
  <2> SUFFICES ASSUME Undisturbed
               PROVE  /\ cache.members = Sizes
                      /\ \A j, k \in DOMAIN cache.entries :
                           j # k => cache.entries[j].assets \cap cache.entries[k].assets = {}
    BY DEF GroupsDisjoint
  <2>1. GroupsWhole(cache)
    BY DEF SameInv
  <2>2. ASSUME NEW j \in DOMAIN cache.entries, NEW k \in DOMAIN cache.entries,
               NEW a \in cache.entries[j].assets, a \in cache.entries[k].assets
        PROVE  j = k
    BY <2>1, <2>2 DEF GroupsWhole, Whole
  <2> QED BY <2>1, <2>2 DEF GroupsWhole, Sizes
<1> QED BY <1>1, <1>3, <1>4, TypesFromInv DEF CacheBookkeeping, CacheLists, CacheLimits, Range

LEMMA CallersFromInv ==
  SameInv => EveryCandidateResolved /\ WaitersHaveOwner
<1> SUFFICES ASSUME SameInv PROVE EveryCandidateResolved /\ WaitersHaveOwner
  OBVIOUS
<1>1. EveryCandidateResolved
  BY DEF SameInv, SameTypes, CandidatesHeld, EveryCandidateResolved
<1>2. ComputedOnce
  <2> SUFFICES ASSUME Undisturbed, NEW c \in Callers, NEW d \in Callers,
                      calls[c].pc \in Owning, calls[d].pc \in Owning, c # d
               PROVE  calls[c].asset # calls[d].asset
    BY DEF ComputedOnce, Owning
  <2> QED BY DEF SameInv, FirstVersion
<1>3. WaitersHaveOwner
  BY <1>2 DEF SameInv, WaitersOwned, WaitersHaveOwner, Owning
<1> QED BY <1>1, <1>3

\* SameImagesSound: whatever order calls, evictions, new identities and the
\* cancelling come in, the cache agrees with itself and keeps to its limits,
\* no call waits for one that will not answer, and a ranking that was not
\* cancelled has a result for every candidate.
THEOREM SameImagesAreSound == SameSpec => []SameImagesSound
<1>1. SameInv => SameImagesSound
  BY BookkeepingFromInv, CallersFromInv DEF SameImagesSound
<1> QED BY <1>1, SameInvariant, PTL

=============================================================================
