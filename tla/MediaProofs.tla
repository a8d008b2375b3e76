----------------------------- MODULE MediaProofs -----------------------------
(***************************************************************************)
(* Proofs about the builds and repairs of the media index, for every tree  *)
(* of directories, every number of walkers and workers, every size of the  *)
(* channels and batches: the inductive invariants behind StampsHonest and  *)
(* RunAccounts.                                                            *)
(***************************************************************************)
EXTENDS MediaIndex, FiniteSetTheorems, FunctionTheorems, SequenceTheorems,
        WellFoundedInduction, TLAPS

----------------------------------------------------------------------------
(* Sequences.                                                              *)

\* The elements of a finite set in some order.
LEMMA InSomeOrder ==
  ASSUME NEW S, IsFiniteSet(S)
  PROVE  SetToSeq(S) \in Seq(S) /\ Range(SetToSeq(S)) = S
<1> DEFINE n == Cardinality(S)
           q == SetToSeq(S)
<1>1. n \in Nat /\ IsFiniteSet(1 .. n) /\ Cardinality(1 .. n) = n
  BY FS_CardinalityType, FS_Interval
<1>2. ExistsBijection(1 .. n, S)
  BY FS_CardinalityType
<1>3. \E f \in [1 .. n -> S] : IsInjective(f)
  BY <1>2 DEF ExistsBijection, Bijection, Injection, IsInjective
<1>4. q \in [1 .. n -> S] /\ IsInjective(q)
  BY <1>3 DEF SetToSeq
<1> HIDE DEF q
<1>5. q \in Injection(1 .. n, S)
  BY <1>4 DEF Injection, IsInjective
<1>6. q \in Surjection(1 .. n, S)
  BY <1>1, <1>5, FS_Injection
<1>7. Range(q) = S
  BY <1>4, <1>6 DEF Surjection, Range
<1> HIDE DEF n
<1>8. q \in Seq(S)
  BY <1>1, <1>4
<1>9. QED
  BY <1>7, <1>8 DEF q

LEMMA RangeIs ==
  ASSUME NEW S, NEW q \in Seq(S)
  PROVE  /\ Range(q) \subseteq S
         /\ DOMAIN q = 1 .. Len(q) /\ Len(q) \in Nat
         /\ \A i \in 1 .. Len(q) : q[i] \in Range(q)
         /\ q = <<>> <=> Range(q) = {}
<1>1. DOMAIN q = 1 .. Len(q) /\ Len(q) \in Nat /\ \A i \in 1 .. Len(q) : q[i] \in S
  OBVIOUS
<1>2. q # <<>> => 1 \in 1 .. Len(q)
  BY <1>1
<1>3. /\ Range(q) \subseteq S /\ \A i \in 1 .. Len(q) : q[i] \in Range(q)
  BY <1>1 DEF Range
<1>4. q # <<>> => Range(q) # {}
  BY <1>2, <1>3
<1>5. q = <<>> => Range(q) = {}
  <2> SUFFICES ASSUME q = <<>>, NEW x \in Range(q) PROVE FALSE
    OBVIOUS
  <2>1. DOMAIN q = {}
    OBVIOUS
  <2>2. QED
    BY <2>1 DEF Range
<1>6. QED
  BY <1>1, <1>3, <1>4, <1>5

LEMMA RangeAppend ==
  ASSUME NEW S, NEW q \in Seq(S), NEW x \in S
  PROVE  /\ Append(q, x) \in Seq(S) /\ Len(Append(q, x)) = Len(q) + 1
         /\ Range(Append(q, x)) = Range(q) \cup {x}
<1>1. /\ Len(q) \in Nat /\ DOMAIN q = 1 .. Len(q)
      /\ DOMAIN Append(q, x) = 1 .. (Len(q) + 1) /\ Append(q, x)[Len(q) + 1] = x
      /\ \A i \in 1 .. Len(q) : Append(q, x)[i] = q[i]
      /\ Append(q, x) \in Seq(S) /\ Len(Append(q, x)) = Len(q) + 1
  OBVIOUS
<1>2. \A i \in 1 .. (Len(q) + 1) : i = Len(q) + 1 \/ i \in 1 .. Len(q)
  BY <1>1
<1>3. Range(Append(q, x)) \subseteq Range(q) \cup {x}
  BY <1>1, <1>2 DEF Range
<1>4. Len(q) + 1 \in 1 .. (Len(q) + 1) /\ \A i \in 1 .. Len(q) : i \in 1 .. (Len(q) + 1)
  BY <1>1
<1>5. x \in Range(Append(q, x))
  BY <1>1, <1>4 DEF Range
<1>6. Range(q) \subseteq Range(Append(q, x))
  BY <1>1, <1>4 DEF Range
<1>7. QED
  BY <1>1, <1>3, <1>5, <1>6

\* A part of a sequence.
LEMMA Part ==
  ASSUME NEW S, NEW q \in Seq(S), NEW a \in Nat \ {0}, NEW b \in Nat, b <= Len(q), a <= b + 1
  PROVE  /\ SubSeq(q, a, b) \in Seq(S) /\ Len(SubSeq(q, a, b)) = b - a + 1
         /\ Range(SubSeq(q, a, b)) = {q[i] : i \in a .. b}
         /\ \A i \in 1 .. b - a + 1 : SubSeq(q, a, b)[i] = q[a + i - 1]
<1> DEFINE p == SubSeq(q, a, b)
<1>1. /\ p \in Seq(S) /\ Len(p) = b - a + 1 /\ DOMAIN p = 1 .. b - a + 1
      /\ \A i \in 1 .. b - a + 1 : p[i] = q[a + i - 1]
  BY SubSeqProperties
<1>2. \A i \in a .. b : i - a + 1 \in 1 .. b - a + 1 /\ a + (i - a + 1) - 1 = i
  OBVIOUS
<1>3. \A i \in 1 .. b - a + 1 : a + i - 1 \in a .. b
  OBVIOUS
<1> HIDE DEF p
<1>4. \A i \in a .. b : q[i] = p[i - a + 1]
  BY <1>1, <1>2
<1>5. Range(p) = {q[i] : i \in a .. b}
  <2>1. ASSUME NEW x \in Range(p) PROVE \E i \in a .. b : x = q[i]
    <3>1. PICK k \in 1 .. b - a + 1 : x = p[k]
      BY <1>1 DEF Range
    <3>2. QED
      BY <3>1, <1>1, <1>3
  <2>2. ASSUME NEW i \in a .. b PROVE q[i] \in Range(p)
    <3>1. i - a + 1 \in DOMAIN p /\ q[i] = p[i - a + 1]
      BY <1>1, <1>2, <1>4
    <3>2. QED
      BY <3>1 DEF Range
  <2>3. QED
    BY <2>1, <2>2
<1>6. QED
  BY <1>1, <1>5 DEF p

\* A sequence in two parts.
LEMMA Cut ==
  ASSUME NEW S, NEW q \in Seq(S), NEW n \in 0 .. Len(q)
  PROVE  /\ SubSeq(q, 1, n) \in Seq(S) /\ SubSeq(q, n + 1, Len(q)) \in Seq(S)
         /\ Len(SubSeq(q, 1, n)) = n /\ Len(SubSeq(q, n + 1, Len(q))) = Len(q) - n
         /\ Range(q) = Range(SubSeq(q, 1, n)) \cup Range(SubSeq(q, n + 1, Len(q)))
<1> DEFINE p == SubSeq(q, 1, n)
           r == SubSeq(q, n + 1, Len(q))
<1>1. Len(q) \in Nat /\ DOMAIN q = 1 .. Len(q)
  OBVIOUS
<1>2. p \in Seq(S) /\ Len(p) = n /\ Range(p) = {q[i] : i \in 1 .. n}
  BY <1>1, Part
<1>3. r \in Seq(S) /\ Len(r) = Len(q) - n /\ Range(r) = {q[i] : i \in n + 1 .. Len(q)}
  <2>1. n + 1 \in Nat \ {0} /\ Len(q) \in Nat /\ Len(q) <= Len(q) /\ n + 1 <= Len(q) + 1
        /\ Len(q) - (n + 1) + 1 = Len(q) - n
    BY <1>1
  <2>2. PICK a \in Nat \ {0} : a = n + 1
    BY <2>1
  <2>3. PICK b \in Nat : b = Len(q)
    BY <2>1
  <2>4. /\ SubSeq(q, a, b) \in Seq(S) /\ Len(SubSeq(q, a, b)) = b - a + 1
        /\ Range(SubSeq(q, a, b)) = {q[i] : i \in a .. b}
    <3>1. a <= b + 1 /\ b <= Len(q)
      BY <2>1, <2>2, <2>3
    <3>2. QED
      BY <3>1, Part
  <2>5. QED
    BY <2>1, <2>2, <2>3, <2>4
<1>4. \A i \in 1 .. Len(q) : i \in 1 .. n \/ i \in n + 1 .. Len(q)
  BY <1>1
<1>5. (1 .. n) \subseteq 1 .. Len(q) /\ (n + 1 .. Len(q)) \subseteq 1 .. Len(q)
  BY <1>1
<1> HIDE DEF p, r
<1>6. Range(q) = Range(p) \cup Range(r)
  <2>1. Range(q) = {q[i] : i \in 1 .. Len(q)}
    BY <1>1 DEF Range
  <2>2. QED
    BY <2>1, <1>2, <1>3, <1>4, <1>5
<1>7. QED
  BY <1>2, <1>3, <1>6 DEF p, r

LEMMA RangeHeadTail ==
  ASSUME NEW S, NEW q \in Seq(S), q # <<>>
  PROVE  /\ Range(q) = {Head(q)} \cup Range(Tail(q))
         /\ Head(q) \in S /\ Head(q) = q[1] /\ Tail(q) \in Seq(S) /\ Len(q) = Len(Tail(q)) + 1
         /\ \A i \in 1 .. Len(q) - 1 : Tail(q)[i] = q[i + 1]
<1>1. /\ Len(q) \in Nat \ {0} /\ DOMAIN q = 1 .. Len(q) /\ Head(q) = q[1] /\ Head(q) \in S
      /\ Tail(q) \in Seq(S) /\ Len(Tail(q)) = Len(q) - 1
      /\ \A i \in 1 .. (Len(q) - 1) : Tail(q)[i] = q[i + 1]
      /\ DOMAIN Tail(q) = 1 .. (Len(q) - 1)
  OBVIOUS
<1>2. \A i \in 1 .. Len(q) : i = 1 \/ (i - 1 \in 1 .. (Len(q) - 1) /\ Tail(q)[i - 1] = q[i])
  BY <1>1
<1>3. \A i \in 1 .. Len(q) - 1 : i + 1 \in 1 .. Len(q)
  BY <1>1
<1>4. 1 \in 1 .. Len(q)
  BY <1>1
<1>5. ASSUME NEW x \in Range(q) PROVE x = Head(q) \/ x \in Range(Tail(q))
  <2>1. PICK i \in 1 .. Len(q) : x = q[i]
    BY <1>1 DEF Range
  <2>2. CASE i = 1
    BY <2>1, <2>2, <1>1
  <2>3. CASE i - 1 \in DOMAIN Tail(q) /\ Tail(q)[i - 1] = q[i]
    BY <2>1, <2>3 DEF Range
  <2>4. QED
    BY <2>2, <2>3, <1>1, <1>2
<1>6. {Head(q)} \cup Range(Tail(q)) \subseteq Range(q)
  <2>1. Head(q) \in Range(q)
    BY <1>1, <1>4 DEF Range
  <2>2. ASSUME NEW x \in Range(Tail(q)) PROVE x \in Range(q)
    <3>1. PICK i \in 1 .. Len(q) - 1 : x = Tail(q)[i]
      BY <1>1 DEF Range
    <3>2. QED
      BY <3>1, <1>1, <1>3 DEF Range
  <2>3. QED
    BY <2>1, <2>2
<1>7. QED
  BY <1>1, <1>5, <1>6

\* The elements at some positions of a sequence.
LEMMA ThoseAre ==
  ASSUME NEW S, NEW q \in Seq(S), NEW I \in SUBSET DOMAIN q
  PROVE  /\ Those(q, I) \in Seq(S) /\ Len(Those(q, I)) <= Len(q)
         /\ Range(Those(q, I)) = {q[i] : i \in I}
<1> DEFINE n == Cardinality(I)
           upto(i) == {j \in I : j <= i}
           at(k) == CHOOSE i \in I : Cardinality(upto(i)) = k
           p == Those(q, I)
<1>1. /\ Len(q) \in Nat /\ DOMAIN q = 1 .. Len(q) /\ \A i \in DOMAIN q : q[i] \in S
      /\ I \subseteq Nat /\ IsFiniteSet(1 .. Len(q)) /\ Cardinality(1 .. Len(q)) = Len(q)
  <2>1. Len(q) \in Nat /\ DOMAIN q = 1 .. Len(q) /\ \A i \in DOMAIN q : q[i] \in S
    OBVIOUS
  <2>2. I \subseteq Nat
    BY <2>1
  <2>3. PICK m \in Nat : m = Len(q)
    BY <2>1
  <2>4. IsFiniteSet(1 .. m) /\ Cardinality(1 .. m) = m
    BY FS_Interval
  <2>5. QED
    BY <2>1, <2>2, <2>3, <2>4
<1>2. IsFiniteSet(I) /\ n \in Nat /\ n <= Len(q)
  BY <1>1, FS_Subset, FS_CardinalityType
<1>3. \A i \in I : /\ upto(i) \in SUBSET I /\ i \in upto(i)
                   /\ IsFiniteSet(upto(i)) /\ Cardinality(upto(i)) \in 1 .. n
  <2> SUFFICES ASSUME NEW i \in I
               PROVE  /\ upto(i) \in SUBSET I /\ i \in upto(i)
                      /\ IsFiniteSet(upto(i)) /\ Cardinality(upto(i)) \in 1 .. n
    OBVIOUS
  <2>1. upto(i) \in SUBSET I /\ i \in upto(i)
    BY <1>1
  <2>2. /\ IsFiniteSet(upto(i)) /\ Cardinality(upto(i)) \in Nat
        /\ Cardinality(upto(i)) <= n
    BY <2>1, <1>2, FS_Subset, FS_CardinalityType
  <2>3. Cardinality(upto(i)) # 0
    BY <2>1, <2>2, FS_EmptySet
  <2>4. QED
    BY <1>2, <2>1, <2>2, <2>3
<1>4. \A i, j \in I : Cardinality(upto(i)) = Cardinality(upto(j)) => i = j
  <2>1. ASSUME NEW i \in I, NEW j \in I, Cardinality(upto(i)) = Cardinality(upto(j)), i <= j
        PROVE  i = j
    <3>1. upto(i) \in SUBSET upto(j)
      BY <1>1, <2>1
    <3>2. upto(i) = upto(j)
      BY <2>1, <3>1, <1>3, FS_Subset
    <3>3. j \in upto(i)
      BY <3>2, <1>3
    <3>4. QED
      BY <2>1, <3>3, <1>1
  <2>2. \A i, j \in I : i <= j \/ j <= i
    BY <1>1
  <2> HIDE DEF upto
  <2>3. QED
    BY <2>1, <2>2
<1>5. \A k \in 1 .. n : \E i \in I : Cardinality(upto(i)) = k
  <2> DEFINE f == [i \in I |-> Cardinality(upto(i))]
  <2>1. f \in Injection(I, 1 .. n)
    BY <1>3, <1>4 DEF Injection, IsInjective
  <2>2. IsFiniteSet(1 .. n) /\ Cardinality(1 .. n) = n
    BY <1>2, FS_Interval
  <2>3. f \in Surjection(I, 1 .. n)
    BY <2>1, <2>2, <1>2, FS_Injection
  <2>4. QED
    BY <2>3 DEF Surjection
<1>6. \A k \in 1 .. n : at(k) \in I /\ Cardinality(upto(at(k))) = k
  BY <1>5
<1>7. \A i \in I : Cardinality(upto(i)) \in 1 .. n /\ at(Cardinality(upto(i))) = i
  BY <1>3, <1>4, <1>6
<1>8. p = [k \in 1 .. n |-> q[at(k)]]
  BY DEF Those
<1> HIDE DEF p, at, upto, n
<1>9. \A k \in 1 .. n : q[at(k)] \in S
  BY <1>1, <1>6
<1>10. p \in Seq(S) /\ Len(p) = n /\ DOMAIN p = 1 .. n
  BY <1>2, <1>8, <1>9
<1>11. Range(p) = {q[i] : i \in I}
  <2>1. \A k \in 1 .. n : p[k] = q[at(k)] /\ at(k) \in I
    BY <1>6, <1>8
  <2>2. \A i \in I : \E k \in 1 .. n : p[k] = q[i]
    BY <1>7, <1>8
  <2>3. Range(p) = {p[k] : k \in 1 .. n}
    BY <1>10 DEF Range
  <2>4. QED
    BY <2>1, <2>2, <2>3
<1>12. QED
  BY <1>2, <1>10, <1>11 DEF p

LEMMA LastOf ==
  ASSUME NEW n \in Nat, NEW I \in SUBSET (1 .. n), I # {}
  PROVE  \E i \in I : \A j \in I : j <= i
<1> DEFINE R == OpToRel(<, Nat)
           T == {n - i : i \in I}
<1>1. T \subseteq Nat /\ T # {}
  <2>1. \A i \in I : n - i \in Nat
    OBVIOUS
  <2>2. PICK i \in I : n - i \in T
    OBVIOUS
  <2>3. QED
    BY <2>1, <2>2
<1>2. PICK x \in T : \A y \in T : <<y, x>> \notin R
  <2>1. IsWellFoundedOn(R, Nat)
    BY NatLessThanWellFounded
  <2> HIDE DEF R, T
  <2>2. QED
    BY <1>1, <2>1, WFMin
<1>3. \A y \in Nat, z \in Nat : y < z => <<y, z>> \in R
  BY DEF OpToRel
<1>4. PICK i \in I : x = n - i
  OBVIOUS
<1>5. ASSUME NEW j \in I, ~(j <= i) PROVE FALSE
  <2>1. n - j \in T /\ n - j \in Nat /\ x \in Nat /\ n - j < x
    BY <1>4, <1>5
  <2> HIDE DEF R, T
  <2>2. QED
    BY <1>2, <1>3, <2>1
<1>6. QED
  BY <1>5

----------------------------------------------------------------------------
(* What is known of every part of the state.                               *)

\* What a listing found, what was read of a file, and what was also hashed.
Stamps  == 1 .. edits + 2
Version == 0 .. edits + 2
Entries == [file : Files, stamp : Stamps]
Probes  == [file : Files, stamp : Stamps, content : Version, hash : Version,
            status : {"ok", "problem"}]

\* What has the stamp of the file as it is tells what the file is.
Read  == {p \in Probes : p.stamp = disk[p.file] => p.content = disk[p.file]}
Whole == {p \in Read : HashFull /\ p.stamp = disk[p.file] => p.hash = disk[p.file]}

RowSet == {NoRow} \cup [stamp : Stamps, content : Version, hash : Version,
                        status : {"ok", "problem"}]

Honest(row, f) ==
  row.stamp = disk[f] =>
    row.content = disk[f] /\ (HashFull => row.hash = disk[f])

RowsKnown == rows \in [Files -> RowSet] /\ \A f \in Files : rows[f] # NoRow => Honest(rows[f], f)

DiskKnown == edits \in Nat /\ disk \in [Files -> Version]

Pcs == Ended \cup {"list", "probe", "push", "targets", "drain", "send", "event", "join",
                   "rest", "flush"}

RunState ==
  [pc : Pcs, kind : {"build", "repair"}, mode : Modes, force : BOOLEAN, max : Nat,
   targets : Seq(Entries), next : Seq(Entries) \cup Seq(Read), loaded : SUBSET Files,
   scanned : Nat, sent : Nat, received : Nat, errors : Nat, lost : Nat,
   calm : BOOLEAN, runs : Nat, panics : Nat]

Lister == [roots : Seq(Dirs), dirs : Seq(Dirs), current : SUBSET Files]
Event  == [errors : Nat, entries : Seq(Entries)]
Walk   == [dirs : Seq(Dirs), pending : Int, stop : BOOLEAN, events : Seq(Event),
           closed : BOOLEAN]
WalkerState ==
  [pc : {"gone", "idle", "dirs", "entries"}, dirs : SUBSET Dirs, entries : Seq(Entries)]
    \cup [pc : {"stats"}, dirs : SUBSET Dirs, entries : Seq(Entries), errors : Nat]
Pool   == [jobs : Seq(Seq(Entries)), open : BOOLEAN, results : Seq(Whole)]
WorkerState ==
  [pc : {"gone", "idle", "probe", "send"}, entries : Seq(Entries), probe : Seq(Read)]

ThreadsKnown ==
  /\ lister \in Lister /\ walk \in Walk /\ walker \in [Walkers -> WalkerState]
  /\ pool \in Pool /\ worker \in [Workers -> WorkerState] /\ writer \in Seq(Whole)

\* What each thread holds where it stands.
NextFits ==
  /\ run.pc \in {"probe", "send"} => run.next \in Seq(Entries) /\ run.next # <<>>
  /\ run.pc = "push" => run.next \in Seq(Read)
  /\ run.pc \in {"probe", "push"} => Len(run.next) = 1
  /\ run.pc \notin {"probe", "send", "push"} => run.next = <<>>

WorkersFit ==
  \A k \in Workers :
    /\ worker[k].pc \in {"gone", "idle"} <=> worker[k].entries = <<>>
    /\ worker[k].pc = "send" <=> worker[k].probe # <<>>
    /\ worker[k].probe # <<>> => worker[k].probe[1].file = worker[k].entries[1].file

WalkersFit ==
  \A w \in Walkers :
    /\ walker[w].pc \in {"gone", "idle", "entries"} => walker[w].dirs = {}
    /\ walker[w].pc \in {"gone", "idle"} => walker[w].entries = <<>>

MediaTypes ==
  /\ DiskKnown /\ RowsKnown /\ run \in RunState /\ ThreadsKnown
  /\ NextFits /\ WorkersFit /\ WalkersFit

\* The files of some entries or probes, and whether these are of the files as they are.
FilesOf(s) == {e.file : e \in Range(s)}
Fresh(s)   == \A e \in Range(s) : e.stamp = disk[e.file]

\* Only an edit changes what is true of the files.
LEMMA SetsStay ==
  ASSUME UNCHANGED outside
  PROVE  /\ Stamps' = Stamps /\ Version' = Version /\ Entries' = Entries
         /\ Read' = Read /\ Whole' = Whole /\ RowSet' = RowSet
         /\ Event' = Event /\ Walk' = Walk /\ WalkerState' = WalkerState
         /\ Pool' = Pool /\ WorkerState' = WorkerState /\ RunState' = RunState
         /\ DiskKnown' <=> DiskKnown
BY DEF outside, Stamps, Version, Entries, Probes, Read, Whole, RowSet, Event, Walk,
       WalkerState, Pool, WorkerState, RunState, DiskKnown

LEMMA FilesAre ==
  Files = Range(Paths) /\ Paths \in Seq(Files) /\ IsFiniteSet(Files)
<1>1. Paths \in Seq(Files)
  BY MediaAssumption
<1>2. Files = Range(Paths)
  BY DEF Files
<1>3. IsFiniteSet(Files)
  <2>1. Len(Paths) \in Nat /\ DOMAIN Paths = 1 .. Len(Paths)
    BY <1>1
  <2>2. IsFiniteSet(DOMAIN Paths)
    BY <2>1, FS_Interval
  <2>3. IsFiniteSet({Paths[i] : i \in DOMAIN Paths})
    <3>1. Paths \in Surjection(DOMAIN Paths, {Paths[i] : i \in DOMAIN Paths})
      <4>1. Paths = [i \in DOMAIN Paths |-> Paths[i]]
        BY <1>1
      <4>2. QED
        BY <4>1 DEF Surjection
    <3>2. QED
      BY <2>2, <3>1, FS_Surjection
  <2>4. QED
    BY <1>2, <2>3 DEF Range
<1>4. QED
  BY <1>1, <1>2, <1>3

\* What the steps make of an entry and of a probe.
LEMMA EntryIs ==
  ASSUME DiskKnown, NEW f \in Files, disk[f] # 0
  PROVE  [file |-> f, stamp |-> disk[f]] \in Entries
<1>1. disk[f] \in Stamps
  BY DEF DiskKnown, Version, Stamps
<1>2. QED
  BY <1>1 DEF Entries

LEMMA ProbedIs ==
  ASSUME DiskKnown, NEW entry \in Entries, NEW status \in {"ok", "problem"}
  PROVE  /\ Probed(entry, status) \in Read
         /\ Probed(entry, status).file = entry.file /\ Probed(entry, status).stamp = entry.stamp
<1>1. entry.file \in Files /\ entry.stamp \in Stamps
  BY DEF Entries
<1>2. disk[entry.file] \in Version /\ 0 \in Version
  BY <1>1 DEF DiskKnown, Version
<1>3. QED
  BY <1>1, <1>2 DEF Probed, Read, Probes

LEMMA CompleteIs ==
  ASSUME DiskKnown, NEW probe \in Read
  PROVE  /\ Complete(probe) \in Whole
         /\ Complete(probe).file = probe.file /\ Complete(probe).stamp = probe.stamp
<1>1. /\ probe \in Probes /\ probe.file \in Files /\ probe.stamp \in Stamps
      /\ probe.stamp = disk[probe.file] => probe.content = disk[probe.file]
  BY DEF Read, Probes
<1>2. disk[probe.file] \in Version /\ 0 \in Version
  BY <1>1 DEF DiskKnown, Version
<1>3. CASE ~HashFull
  BY <1>3 DEF Complete, Whole
<1>4. CASE HashFull /\ disk[probe.file] = 0
  <2>1. Complete(probe) = [probe EXCEPT !.content = 0, !.status = "problem"]
    BY <1>4 DEF Complete
  <2>2. /\ Complete(probe) \in Probes /\ Complete(probe).file = probe.file
        /\ Complete(probe).stamp = probe.stamp
    BY <1>1, <1>2, <2>1 DEF Probes
  <2>3. probe.stamp # 0
    BY <1>1 DEF Stamps
  <2>4. QED
    BY <1>1, <1>4, <2>2, <2>3 DEF Read, Whole
<1>5. CASE HashFull /\ disk[probe.file] # 0
  <2>1. Complete(probe) = [probe EXCEPT !.hash = disk[probe.file]]
    BY <1>5 DEF Complete, Hashed
  <2>2. /\ Complete(probe) \in Probes /\ Complete(probe).file = probe.file
        /\ Complete(probe).stamp = probe.stamp /\ Complete(probe).content = probe.content
        /\ Complete(probe).hash = disk[probe.file]
    BY <1>1, <1>2, <2>1 DEF Probes
  <2>3. QED
    BY <1>1, <2>2 DEF Read, Whole
<1>6. QED
  BY <1>3, <1>4, <1>5

\* What a batch of rows leaves.
LEMMA FlushedIs ==
  ASSUME DiskKnown, RowsKnown, NEW probes \in Seq(Whole)
  PROVE  /\ Flushed(probes) \in [Files -> RowSet]
         /\ \A f \in Files :
              IF \E p \in Range(probes) : p.file = f
              THEN \E p \in Range(probes) : p.file = f /\ Flushed(probes)[f] = RowOf(p)
              ELSE Flushed(probes)[f] = rows[f]
         /\ \A f \in Files : Flushed(probes)[f] # NoRow => Honest(Flushed(probes)[f], f)
<1> DEFINE mine(f) == {i \in DOMAIN probes : probes[i].file = f}
           last(f) == CHOOSE i \in mine(f) : \A j \in mine(f) : j <= i
<1>1. /\ Len(probes) \in Nat /\ DOMAIN probes = 1 .. Len(probes)
      /\ \A i \in DOMAIN probes : probes[i] \in Whole
  OBVIOUS
<1>2. \A f \in Files : mine(f) # {} => last(f) \in mine(f)
  <2> SUFFICES ASSUME NEW f \in Files, mine(f) # {} PROVE last(f) \in mine(f)
    OBVIOUS
  <2>1. mine(f) \in SUBSET (1 .. Len(probes))
    BY <1>1
  <2>2. \E i \in mine(f) : \A j \in mine(f) : j <= i
    BY <1>1, <2>1, LastOf
  <2>3. QED
    BY <2>2
<1>3. \A f \in Files : Flushed(probes)[f]
                         = IF mine(f) = {} THEN rows[f] ELSE RowOf(probes[last(f)])
  BY DEF Flushed
<1>4. DOMAIN Flushed(probes) = Files /\ Flushed(probes) = [f \in Files |-> Flushed(probes)[f]]
  BY DEF Flushed
<1>5. \A p \in Whole : RowOf(p) \in RowSet /\ Honest(RowOf(p), p.file)
  BY DEF Whole, Read, Probes, RowOf, RowSet, Honest
<1>6. \A f \in Files : mine(f) # {} =>
        /\ probes[last(f)] \in Whole /\ probes[last(f)] \in Range(probes)
        /\ probes[last(f)].file = f
  BY <1>1, <1>2 DEF Range
<1>7. \A f \in Files : mine(f) = {} <=> ~ \E p \in Range(probes) : p.file = f
  BY <1>1 DEF Range
<1> HIDE DEF mine, last
<1>8. \A f \in Files : Flushed(probes)[f] \in RowSet
  BY <1>3, <1>5, <1>6 DEF RowsKnown
<1>9. Flushed(probes) \in [Files -> RowSet]
  BY <1>4, <1>8
<1>10. \A f \in Files : Flushed(probes)[f] # NoRow => Honest(Flushed(probes)[f], f)
  BY <1>3, <1>5, <1>6 DEF RowsKnown
<1>11. ASSUME NEW f \in Files
       PROVE  IF \E p \in Range(probes) : p.file = f
              THEN \E p \in Range(probes) : p.file = f /\ Flushed(probes)[f] = RowOf(p)
              ELSE Flushed(probes)[f] = rows[f]
  BY <1>3, <1>6, <1>7
<1>12. QED
  BY <1>9, <1>10, <1>11

----------------------------------------------------------------------------
(* What every step keeps of it.                                            *)

\* A file that changes has a version that nothing in the index has seen.
LEMMA EditTypes ==
  ASSUME MediaTypes, NEW f \in Files, EditFile(f)
  PROVE  MediaTypes'
<1> USE DEF MediaTypes
<1>1. PICK version \in {0, edits + 3} :
        /\ edits' = edits + 1 /\ disk' = [disk EXCEPT ![f] = version]
        /\ run' = [run EXCEPT !.calm = FALSE]
        /\ UNCHANGED <<rows, lister, walk, walker, pool, worker, writer>>
  BY DEF EditFile, threads
<1>2. DiskKnown'
  BY <1>1 DEF DiskKnown, Version
<1>3. /\ Stamps \subseteq Stamps' /\ Version \subseteq Version' /\ edits + 3 \notin Stamps
      /\ 0 \notin Stamps
  BY <1>1 DEF Stamps, Version, DiskKnown
<1>4. \A g \in Files : disk'[g] = disk[g] \/ disk'[g] \notin Stamps
  BY <1>1, <1>3 DEF DiskKnown
<1>5. Entries \subseteq Entries' /\ Probes \subseteq Probes' /\ RowSet \subseteq RowSet'
  BY <1>3 DEF Entries, Probes, RowSet
<1>6. Read \subseteq Read' /\ Whole \subseteq Whole'
  <2>1. \A p \in Probes : p.file \in Files /\ p.stamp \in Stamps
    BY DEF Probes
  <2>2. \A p \in Read : p \in Read'
    BY <1>4, <1>5, <2>1 DEF Read
  <2>3. \A p \in Whole : p \in Whole'
    BY <1>4, <2>1, <2>2 DEF Whole, Read
  <2>4. QED
    BY <2>2, <2>3
<1>7. /\ Seq(Entries) \subseteq Seq(Entries)' /\ Seq(Read) \subseteq Seq(Read)'
      /\ Seq(Whole) \subseteq Seq(Whole)'
  BY <1>5, <1>6, SeqMonotonic
<1>8. RowsKnown'
  <2>1. rows' \in [Files -> RowSet']
    BY <1>1, <1>5 DEF RowsKnown
  <2>2. \A g \in Files : rows[g] # NoRow => rows[g].stamp \in Stamps
    BY DEF RowsKnown, RowSet
  <2>3. \A g \in Files : rows[g] # NoRow => Honest(rows[g], g)'
    BY <1>1, <1>4, <2>2 DEF RowsKnown, Honest
  <2>4. QED
    BY <1>1, <2>1, <2>3 DEF RowsKnown
<1>9. run' \in RunState'
  BY <1>1, <1>7 DEF RunState
<1>10. ThreadsKnown'
  <2>1. Event \subseteq Event'
    BY <1>7 DEF Event
  <2>2. Seq(Event) \subseteq Seq(Event)'
    BY <2>1, SeqMonotonic
  <2>3. Walk \subseteq Walk'
    BY <2>2 DEF Walk
  <2>4. WalkerState \subseteq WalkerState'
    BY <1>7 DEF WalkerState
  <2>5. Seq(Seq(Entries)) \subseteq Seq(Seq(Entries))'
    BY <1>7, SeqMonotonic
  <2>6. Pool \subseteq Pool'
    BY <1>7, <2>5 DEF Pool
  <2>7. WorkerState \subseteq WorkerState'
    BY <1>7 DEF WorkerState
  <2>8. QED
    BY <1>1, <1>7, <2>3, <2>4, <2>6, <2>7 DEF ThreadsKnown
<1>11. NextFits'
  BY <1>1, <1>7 DEF NextFits, RunState
<1>12. WorkersFit' /\ WalkersFit'
  BY <1>1 DEF WorkersFit, WalkersFit
<1>13. QED
  BY <1>2, <1>8, <1>9, <1>10, <1>11, <1>12

LEMMA IdleWalker ==
  ASSUME NEW x \in [pc : {"idle"}, dirs : {{}}, entries : {<<>>}]
  PROVE  x = [pc |-> "idle", dirs |-> {}, entries |-> <<>>]
OBVIOUS

\* A run starts with threads that have nothing yet.
LEMMA StartThreadsIs ==
  ASSUME UNCHANGED outside, NEW mode \in Modes, NEW roots \in Seq(Dirs), StartThreads(mode, roots)
  PROVE  /\ walk' \in Walk' /\ walker' \in [Walkers -> WalkerState']
         /\ pool' \in Pool' /\ worker' \in [Workers -> WorkerState'] /\ writer' \in Seq(Whole')
         /\ WorkersFit' /\ WalkersFit'
<1>1. /\ <<>> \in Seq(Entries) /\ <<>> \in Seq(Read) /\ <<>> \in Seq(Whole)
      /\ <<>> \in Seq(Event) /\ <<>> \in Seq(Seq(Entries)) /\ Len(roots) \in Int
  OBVIOUS
<1>2. walk' = [dirs |-> roots, pending |-> Len(roots), stop |-> FALSE, events |-> <<>>,
               closed |-> FALSE]
  BY DEF StartThreads, NoWalk
<1>3. walk' \in Walk
  BY <1>1, <1>2 DEF Walk
<1>4. /\ Gone \in WalkerState
      /\ [Gone EXCEPT !.pc = "idle"] = [pc |-> "idle", dirs |-> {}, entries |-> <<>>]
  <2>1. Gone \in WalkerState
    BY <1>1 DEF Gone, WalkerState
  <2>2. [Gone EXCEPT !.pc = "idle"] \in [pc : {"idle"}, dirs : {{}}, entries : {<<>>}]
    BY DEF Gone
  <2>3. QED
    BY <2>1, <2>2, IdleWalker
<1>5. [pc |-> "idle", dirs |-> {}, entries |-> <<>>] \in WalkerState
  BY <1>1 DEF WalkerState
<1>6. \A w \in Walkers : walker'[w] \in {Gone, [Gone EXCEPT !.pc = "idle"]}
  BY DEF StartThreads
<1>7. walker' \in [Walkers -> WalkerState]
  BY <1>4, <1>5 DEF StartThreads
<1>8. /\ GoneWorker = [pc |-> "gone", entries |-> <<>>, probe |-> <<>>]
      /\ [GoneWorker EXCEPT !.pc = "idle"] = [pc |-> "idle", entries |-> <<>>, probe |-> <<>>]
  BY DEF GoneWorker
<1>9. GoneWorker \in WorkerState /\ [GoneWorker EXCEPT !.pc = "idle"] \in WorkerState
  BY <1>1, <1>8 DEF WorkerState
<1>10. \A k \in Workers : worker'[k] \in {GoneWorker, [GoneWorker EXCEPT !.pc = "idle"]}
  BY DEF StartThreads
<1>11. worker' \in [Workers -> WorkerState]
  BY <1>9 DEF StartThreads
<1>12. pool' \in Pool /\ writer' = <<>>
  BY <1>1 DEF StartThreads, Pool, NoPool
<1>13. WalkersFit'
  BY <1>4, <1>6 DEF WalkersFit, Gone
<1>14. WorkersFit'
  BY <1>8, <1>10 DEF WorkersFit
<1>15. QED
  BY <1>1, <1>3, <1>7, <1>11, <1>12, <1>13, <1>14, SetsStay

LEMMA RestingKnown ==
  /\ <<>> \in Seq(Entries)
  /\ Resting \in RunState
  /\ NoLister \in Lister
BY DEF Resting, RunState, Pcs, Ended, Modes, NoLister, Lister

LEMMA BuildStarts ==
  ASSUME MediaTypes, StartBuild
  PROVE  MediaTypes'
<1> USE DEF MediaTypes
<1>1. PICK mode \in Modes, force \in BOOLEAN, max \in Limits :
        /\ run' = [Resting EXCEPT !.pc = IF mode = "serial" THEN "list" ELSE "drain",
                                  !.mode = mode, !.force = force, !.max = max,
                                  !.runs = run.runs + 1, !.panics = run.panics]
        /\ StartThreads(mode, IF mode = "parallel" THEN Roots ELSE <<>>)
        /\ lister' = [NoLister EXCEPT !.roots = IF mode = "parallel" THEN <<>> ELSE Roots]
        /\ UNCHANGED outside /\ UNCHANGED rows
  BY DEF StartBuild
<1>2. Roots \in Seq(Dirs) /\ <<>> \in Seq(Dirs) /\ max \in Nat
  BY MediaAssumption
<1>3. run.runs + 1 \in Nat /\ run.panics \in Nat
  BY DEF RunState
<1>4. /\ run'.next = <<>> /\ run'.pc \in {"list", "drain"}
      /\ run' \in RunState
  <2>1. PICK pc \in {"list", "drain"} : pc = IF mode = "serial" THEN "list" ELSE "drain"
    OBVIOUS
  <2>2. pc \in Pcs /\ "build" \in {"build", "repair"} /\ TRUE \in BOOLEAN
    BY DEF Pcs
  <2>3. run' = [pc |-> pc, kind |-> "build", mode |-> mode, force |-> force, max |-> max,
                targets |-> <<>>, next |-> <<>>, loaded |-> {}, scanned |-> 0, sent |-> 0,
                received |-> 0, errors |-> 0, lost |-> 0, calm |-> TRUE,
                runs |-> run.runs + 1, panics |-> run.panics]
    BY <1>1, <2>1 DEF Resting
  <2>4. QED
    BY <1>2, <1>3, <2>2, <2>3, RestingKnown DEF RunState
<1>5. lister' \in Lister
  BY <1>1, <1>2 DEF NoLister, Lister
<1>6. run' \in RunState' /\ NextFits'
  BY <1>1, <1>4, SetsStay DEF RunState, NextFits
<1>7. DiskKnown' /\ RowsKnown'
  BY <1>1, SetsStay DEF RowsKnown, outside, Honest
<1>8. ThreadsKnown' /\ WorkersFit' /\ WalkersFit'
  <2>1. PICK roots \in Seq(Dirs) : roots = IF mode = "parallel" THEN Roots ELSE <<>>
    BY <1>2
  <2>2. StartThreads(mode, roots)
    BY <1>1, <2>1
  <2>3. QED
    BY <1>1, <1>5, <2>2, StartThreadsIs DEF ThreadsKnown
<1>9. QED
  BY <1>6, <1>7, <1>8

LEMMA RunEndsEarly ==
  ASSUME MediaTypes, Killed \/ SendFails
  PROVE  MediaTypes'
<1> USE DEF MediaTypes
<1>1. /\ StartThreads("serial", <<>>) /\ lister' = NoLister
      /\ UNCHANGED outside /\ UNCHANGED rows
      /\ \/ run' = [Resting EXCEPT !.runs = run.runs, !.panics = run.panics]
         \/ run' = [run EXCEPT !.pc = "failed", !.next = <<>>]
  BY DEF Killed, SendFails
<1>2. /\ run'.next = <<>> /\ run'.pc \in Ended
      /\ run' \in RunState
  <2>1. {"off", "failed"} \subseteq Pcs
    BY DEF Pcs, Ended
  <2>2. CASE run' = [Resting EXCEPT !.runs = run.runs, !.panics = run.panics]
    <3>1. run.runs \in Nat /\ run.panics \in Nat
      BY DEF RunState
    <3>2. run' \in RunState
      BY <2>2, <3>1, RestingKnown DEF RunState
    <3>3. QED
      BY <2>2, <3>2 DEF Resting, Ended
  <2>3. CASE run' = [run EXCEPT !.pc = "failed", !.next = <<>>]
    <3>1. run' \in RunState /\ run'.next = <<>> /\ run'.pc = "failed"
      BY <2>1, <2>3, RestingKnown DEF RunState
    <3>2. QED
      BY <3>1 DEF Ended
  <2>4. QED
    BY <1>1, <2>2, <2>3
<1>3. run' \in RunState' /\ NextFits'
  BY <1>1, <1>2, SetsStay DEF RunState, NextFits, Ended
<1>4. DiskKnown' /\ RowsKnown'
  BY <1>1, SetsStay DEF RowsKnown, outside, Honest
<1>5. ThreadsKnown' /\ WorkersFit' /\ WalkersFit'
  <2>1. <<>> \in Seq(Dirs) /\ "serial" \in Modes
    BY DEF Modes
  <2>2. QED
    BY <1>1, <2>1, RestingKnown, StartThreadsIs DEF ThreadsKnown
<1>6. QED
  BY <1>3, <1>4, <1>5

\* The files that a repair looks at.
LEMMA TargetsAre ==
  ASSUME NEW max \in Nat
  PROVE  /\ Targets(max) \in Seq(Files) /\ Len(Targets(max)) <= max
         /\ \A f \in Range(Targets(max)) : HasProblem(f)
<1> DEFINE problems == Those(Paths, {i \in DOMAIN Paths : HasProblem(Paths[i])})
           size == IF max < Len(problems) THEN max ELSE Len(problems)
<1>1. /\ problems \in Seq(Files)
      /\ Range(problems) = {Paths[i] : i \in {i \in DOMAIN Paths : HasProblem(Paths[i])}}
  BY FilesAre, ThoseAre
<1>2. \A f \in Range(problems) : HasProblem(f)
  BY <1>1
<1>3. Targets(max) = SubSeq(problems, 1, size)
  BY DEF Targets
<1> HIDE DEF problems
<1>4. size \in 0 .. Len(problems) /\ size <= max
  BY <1>1
<1> HIDE DEF size
<1>5. /\ SubSeq(problems, 1, size) \in Seq(Files) /\ Len(SubSeq(problems, 1, size)) = size
      /\ Range(SubSeq(problems, 1, size)) \subseteq Range(problems)
  BY <1>1, <1>4, Cut
<1>6. QED
  BY <1>2, <1>3, <1>4, <1>5

LEMMA RepairIs ==
  ASSUME MediaTypes, StartRepair
  PROVE  \E mode \in {"serial", "parallel"}, max \in Limits, entries \in Seq(Entries),
            loaded \in SUBSET Files, errors \in Nat :
           /\ run' = [pc |-> "targets", kind |-> "repair", mode |-> mode, force |-> FALSE,
                      max |-> max, targets |-> entries, next |-> <<>>, loaded |-> loaded,
                      scanned |-> 0, sent |-> 0, received |-> 0, errors |-> errors, lost |-> 0,
                      calm |-> TRUE, runs |-> run.runs + 1, panics |-> run.panics]
           /\ StartThreads(mode, <<>>)
           /\ Len(entries) <= max /\ loaded = FilesOf(entries) /\ Fresh(entries)
<1>1. PICK mode \in {"serial", "parallel"}, max \in Limits :
        LET targets == Targets(max)
            found   == Those(targets, {i \in DOMAIN targets : disk[targets[i]] # 0})
        IN /\ run' = [Resting EXCEPT !.pc = "targets", !.kind = "repair", !.mode = mode, !.max = max,
                        !.targets = [i \in DOMAIN found |-> [file |-> found[i], stamp |-> disk[found[i]]]],
                        !.loaded = Range(found), !.errors = Len(targets) - Len(found),
                        !.runs = run.runs + 1, !.panics = run.panics]
           /\ StartThreads(mode, <<>>)
  BY DEF StartRepair
<1>2. max \in Nat /\ mode \in Modes
  BY MediaAssumption DEF Modes
<1> DEFINE targets == Targets(max)
           found == Those(targets, {i \in DOMAIN targets : disk[targets[i]] # 0})
           entries == [i \in DOMAIN found |-> [file |-> found[i], stamp |-> disk[found[i]]]]
<1>3. run' = [pc |-> "targets", kind |-> "repair", mode |-> mode, force |-> FALSE, max |-> max,
              targets |-> entries, next |-> <<>>, loaded |-> Range(found), scanned |-> 0,
              sent |-> 0, received |-> 0, errors |-> Len(targets) - Len(found), lost |-> 0,
              calm |-> TRUE, runs |-> run.runs + 1, panics |-> run.panics]
  BY <1>1 DEF Resting
<1>4. targets \in Seq(Files) /\ Len(targets) <= max
  BY <1>2, TargetsAre
<1> HIDE DEF targets
<1>5. /\ found \in Seq(Files) /\ Len(found) <= Len(targets)
      /\ Range(found) = {targets[i] : i \in {i \in DOMAIN targets : disk[targets[i]] # 0}}
  BY <1>4, ThoseAre
<1>6. \A f \in Range(found) : disk[f] # 0
  BY <1>5
<1> HIDE DEF found
<1>7. /\ DOMAIN found = 1 .. Len(found) /\ Len(found) \in Nat
      /\ \A i \in 1 .. Len(found) : found[i] \in Range(found) /\ found[i] \in Files
      /\ Range(found) \subseteq Files
  BY <1>5, RangeIs
<1>8. \A i \in 1 .. Len(found) : [file |-> found[i], stamp |-> disk[found[i]]] \in Entries
  BY <1>6, <1>7, EntryIs DEF MediaTypes
<1>9. /\ entries \in Seq(Entries) /\ Len(entries) = Len(found) /\ DOMAIN entries = DOMAIN found
      /\ \A i \in 1 .. Len(found) : entries[i] = [file |-> found[i], stamp |-> disk[found[i]]]
  BY <1>7, <1>8
<1> HIDE DEF entries
<1>10. Len(targets) - Len(found) \in Nat
  BY <1>4, <1>5, <1>7
<1>11. \A i \in 1 .. Len(found) : entries[i].file = found[i] /\ entries[i].stamp = disk[found[i]]
  <2> SUFFICES ASSUME NEW i \in 1 .. Len(found)
               PROVE  entries[i].file = found[i] /\ entries[i].stamp = disk[found[i]]
    OBVIOUS
  <2>1. entries[i] = [file |-> found[i], stamp |-> disk[found[i]]]
    BY <1>9
  <2>2. QED
    BY <2>1
<1>12. Range(found) = FilesOf(entries)
  BY <1>7, <1>9, <1>11 DEF FilesOf, Range
<1>13. Fresh(entries)
  BY <1>7, <1>9, <1>11 DEF Fresh, Range
<1>14. Len(entries) <= max
  <2>1. Len(targets) \in Nat
    BY <1>4
  <2>2. QED
    BY <1>2, <1>4, <1>5, <1>7, <1>9, <2>1
<1>15. PICK errors \in Nat : errors = Len(targets) - Len(found)
  BY <1>10
<1>16. PICK loaded \in SUBSET Files : loaded = Range(found)
  BY <1>7
<1>17. run' = [pc |-> "targets", kind |-> "repair", mode |-> mode, force |-> FALSE, max |-> max,
               targets |-> entries, next |-> <<>>, loaded |-> loaded,
               scanned |-> 0, sent |-> 0, received |-> 0, errors |-> errors, lost |-> 0,
               calm |-> TRUE, runs |-> run.runs + 1, panics |-> run.panics]
  BY <1>3, <1>15, <1>16
<1>18. StartThreads(mode, <<>>) /\ loaded = FilesOf(entries) /\ entries \in Seq(Entries)
  BY <1>1, <1>9, <1>12, <1>16
<1>19. QED
  BY <1>13, <1>14, <1>17, <1>18

LEMMA RepairStarts ==
  ASSUME MediaTypes, StartRepair
  PROVE  MediaTypes'
<1> USE DEF MediaTypes
<1>1. PICK mode \in {"serial", "parallel"}, max \in Limits, entries \in Seq(Entries),
           loaded \in SUBSET Files, errors \in Nat :
        /\ run' = [pc |-> "targets", kind |-> "repair", mode |-> mode, force |-> FALSE,
                   max |-> max, targets |-> entries, next |-> <<>>, loaded |-> loaded,
                   scanned |-> 0, sent |-> 0, received |-> 0, errors |-> errors, lost |-> 0,
                   calm |-> TRUE, runs |-> run.runs + 1, panics |-> run.panics]
        /\ StartThreads(mode, <<>>)
  BY RepairIs
<1>2. UNCHANGED outside /\ UNCHANGED rows /\ UNCHANGED lister
  BY DEF StartRepair
<1>3. max \in Nat /\ mode \in Modes
  BY MediaAssumption DEF Modes
<1>4. run' \in RunState /\ run'.pc = "targets" /\ run'.next = <<>>
  <2>1. "targets" \in Pcs /\ run.runs + 1 \in Nat /\ run.panics \in Nat
    BY DEF Pcs, RunState
  <2>2. QED
    BY <1>1, <1>3, <2>1, RestingKnown DEF RunState
<1>5. run' \in RunState' /\ NextFits'
  BY <1>2, <1>4, SetsStay DEF NextFits
<1>6. DiskKnown' /\ RowsKnown'
  BY <1>2, SetsStay DEF RowsKnown, outside, Honest
<1>7. ThreadsKnown' /\ WorkersFit' /\ WalkersFit'
  <2>1. <<>> \in Seq(Dirs)
    OBVIOUS
  <2>2. QED
    BY <1>1, <1>2, <1>3, <2>1, StartThreadsIs DEF ThreadsKnown, Lister
<1>8. QED
  BY <1>5, <1>6, <1>7

\* What does not change stays as it is known.
LEMMA RowsStay ==
  ASSUME MediaTypes, UNCHANGED outside
  PROVE  /\ DiskKnown'
         /\ UNCHANGED rows => RowsKnown'
         /\ UNCHANGED lister => lister' \in Lister'
         /\ UNCHANGED walk => walk' \in Walk'
         /\ UNCHANGED walker => walker' \in [Walkers -> WalkerState]' /\ WalkersFit'
         /\ UNCHANGED pool => pool' \in Pool'
         /\ UNCHANGED worker => worker' \in [Workers -> WorkerState]' /\ WorkersFit'
         /\ UNCHANGED writer => writer' \in Seq(Whole)'
         /\ UNCHANGED run => run' \in RunState' /\ NextFits'
<1>1. DiskKnown'
  BY SetsStay DEF MediaTypes
<1>2. UNCHANGED rows => RowsKnown'
  BY SetsStay DEF MediaTypes, RowsKnown, Honest, outside
<1>3. UNCHANGED lister => lister' \in Lister'
  BY DEF MediaTypes, ThreadsKnown, Lister
<1>4. /\ UNCHANGED walk => walk' \in Walk'
      /\ UNCHANGED pool => pool' \in Pool'
      /\ UNCHANGED writer => writer' \in Seq(Whole)'
  BY SetsStay DEF MediaTypes, ThreadsKnown
<1>5. UNCHANGED walker => walker' \in [Walkers -> WalkerState]' /\ WalkersFit'
  BY SetsStay DEF MediaTypes, ThreadsKnown, WalkersFit
<1>6. UNCHANGED worker => worker' \in [Workers -> WorkerState]' /\ WorkersFit'
  BY SetsStay DEF MediaTypes, ThreadsKnown, WorkersFit
<1>7. UNCHANGED run => run' \in RunState' /\ NextFits'
  BY SetsStay DEF MediaTypes, NextFits
<1>8. QED
  BY <1>1, <1>2, <1>3, <1>4, <1>5, <1>6, <1>7

LEMMA RunMoves ==
  ASSUME MediaTypes, UNCHANGED outside, NEW pc \in Pcs,
         pc \notin {"probe", "send", "push"}, run.pc \notin {"probe", "send", "push"}, Go(pc)
  PROVE  run' \in RunState' /\ NextFits' /\ run'.pc = pc /\ run'.next = <<>>
<1>1. run' \in RunState /\ run'.pc = pc /\ run'.next = run.next
  BY DEF MediaTypes, RunState, Go
<1>2. run.next = <<>>
  BY DEF MediaTypes, NextFits
<1>3. QED
  BY <1>1, <1>2, SetsStay DEF NextFits

LEMMA PoolCloses ==
  ASSUME MediaTypes, UNCHANGED outside, pool' = [pool EXCEPT !.open = FALSE]
  PROVE  pool' \in Pool' /\ pool'.jobs = pool.jobs /\ pool'.results = pool.results
<1>1. pool' \in Pool /\ pool'.jobs = pool.jobs /\ pool'.results = pool.results
  BY DEF MediaTypes, ThreadsKnown, Pool
<1>2. QED
  BY <1>1, SetsStay

\* The steps of the main thread that hold no file.
LEMMA TurnTypes ==
  ASSUME MediaTypes, OpenRoot \/ EndList \/ EndTargets \/ Drained \/ NoEvent \/ StopWalkers
                       \/ JoinWalkers \/ EndRest
  PROVE  MediaTypes'
<1>1. UNCHANGED outside /\ UNCHANGED rows /\ UNCHANGED walker /\ UNCHANGED worker /\ UNCHANGED writer
  BY DEF OpenRoot, EndList, EndTargets, Drained, NoEvent, StopWalkers, JoinWalkers, EndRest, threads
<1>2. run' \in RunState' /\ NextFits'
  <2>1. \A pc \in Pcs : pc \notin {"probe", "send", "push"} /\ run.pc \notin {"probe", "send", "push"}
                        /\ Go(pc) => run' \in RunState' /\ NextFits'
    BY <1>1, RunMoves
  <2>2. run.pc \notin {"probe", "send", "push"}
    BY DEF OpenRoot, EndList, EndTargets, Drained, NoEvent, StopWalkers, JoinWalkers, EndRest, Listing
  <2>3. \E pc \in {"list", "drain", "flush", "rest", "targets", "event", "join"} : Go(pc)
    BY DEF OpenRoot, EndList, EndTargets, Drained, NoEvent, StopWalkers, JoinWalkers, EndRest,
           Again, AfterDrain
  <2>4. QED
    BY <2>1, <2>2, <2>3 DEF Pcs
<1>3. lister' \in Lister'
  <2>1. CASE OpenRoot
    <3>1. lister.roots \in Seq(Dirs) /\ lister.roots # <<>>
      BY <2>1 DEF OpenRoot, MediaTypes, ThreadsKnown, Lister
    <3>2. Tail(lister.roots) \in Seq(Dirs) /\ <<Head(lister.roots)>> \in Seq(Dirs)
      BY <3>1
    <3>3. QED
      BY <2>1, <3>2 DEF OpenRoot, MediaTypes, ThreadsKnown, Lister
  <2>2. CASE UNCHANGED lister
    BY <1>1, <2>2, RowsStay
  <2>3. CASE lister' = NoLister
    BY <2>3, RestingKnown DEF Lister
  <2>4. QED
    BY <2>1, <2>2, <2>3
       DEF EndList, EndTargets, Drained, NoEvent, StopWalkers, JoinWalkers, EndRest
<1>4. walk' \in Walk'
  <2>1. CASE StopWalkers
    <3>1. walk' = [walk EXCEPT !.stop = TRUE, !.closed = TRUE, !.events = <<>>]
      BY <2>1 DEF StopWalkers
    <3>2. walk' \in Walk
      <4>1. <<>> \in Seq(Event)
        OBVIOUS
      <4>2. QED
        BY <3>1, <4>1 DEF MediaTypes, ThreadsKnown, Walk
    <3>3. QED
      BY <1>1, <3>2, SetsStay
  <2>2. CASE UNCHANGED walk
    BY <1>1, <2>2, RowsStay
  <2>3. QED
    BY <2>1, <2>2
       DEF OpenRoot, EndList, EndTargets, Drained, NoEvent, JoinWalkers, EndRest, threads
<1>5. pool' \in Pool'
  <2>1. CASE UNCHANGED pool
    BY <1>1, <2>1, RowsStay
  <2>2. CASE pool' = [pool EXCEPT !.open = FALSE]
    BY <1>1, <2>2, PoolCloses
  <2>3. QED
    BY <2>1, <2>2
       DEF OpenRoot, EndList, EndTargets, Drained, NoEvent, StopWalkers, JoinWalkers, EndRest, threads
<1>6. QED
  BY <1>1, <1>2, <1>3, <1>4, <1>5, RowsStay DEF MediaTypes, ThreadsKnown

\* The directories and the files of the tree.
LEMMA TreeIs ==
  ASSUME NEW dir \in Dirs
  PROVE  /\ SubDirs[dir] \subseteq Dirs /\ SetToSeq(SubDirs[dir]) \in Seq(Dirs)
         /\ Range(SetToSeq(SubDirs[dir])) = SubDirs[dir]
         /\ FilesIn[dir] \subseteq Files /\ IsFiniteSet(FilesIn[dir])
<1>1. SubDirs[dir] \in SUBSET Dirs /\ FilesIn[dir] \in SUBSET Files /\ IsFiniteSet(Dirs)
  BY MediaAssumption
<1>2. IsFiniteSet(SubDirs[dir]) /\ IsFiniteSet(FilesIn[dir])
  BY <1>1, FilesAre, FS_Subset
<1>3. SetToSeq(SubDirs[dir]) \in Seq(SubDirs[dir]) /\ Range(SetToSeq(SubDirs[dir])) = SubDirs[dir]
  BY <1>2, InSomeOrder
<1>4. SetToSeq(SubDirs[dir]) \in Seq(Dirs)
  BY <1>1, <1>3, SeqMonotonic
<1>5. QED
  BY <1>1, <1>2, <1>3, <1>4

LEMMA FrontLast ==
  ASSUME NEW S, NEW q \in Seq(S), q # <<>>
  PROVE  /\ Front(q) \in Seq(S) /\ Last(q) \in S
         /\ Range(q) = Range(Front(q)) \cup {Last(q)} /\ Len(q) = Len(Front(q)) + 1
<1>1. PICK n \in Nat : n + 1 = Len(q)
  <2>1. Len(q) \in Nat /\ Len(q) # 0
    OBVIOUS
  <2>2. Len(q) - 1 \in Nat /\ (Len(q) - 1) + 1 = Len(q)
    BY <2>1
  <2>3. QED
    BY <2>2
<1>2. DOMAIN q = 1 .. n + 1 /\ q[n + 1] \in S /\ \A i \in 1 .. n : i \in 1 .. n + 1
  BY <1>1
<1>3. n <= Len(q) /\ 1 <= n + 1 /\ Len(q) - 1 = n
  BY <1>1
<1>4. /\ SubSeq(q, 1, n) \in Seq(S) /\ Len(SubSeq(q, 1, n)) = n - 1 + 1
      /\ Range(SubSeq(q, 1, n)) = {q[i] : i \in 1 .. n}
  BY <1>3, Part
<1>5. Front(q) = SubSeq(q, 1, n) /\ Last(q) = q[n + 1]
  BY <1>1, <1>3 DEF Front, Last
<1>6. Range(q) = {q[i] : i \in 1 .. n + 1}
  BY <1>2 DEF Range
<1>7. \A i \in 1 .. n + 1 : i = n + 1 \/ i \in 1 .. n
  OBVIOUS
<1>8. Range(q) = {q[i] : i \in 1 .. n} \cup {q[n + 1]}
  BY <1>2, <1>6, <1>7
<1>9. QED
  BY <1>1, <1>2, <1>4, <1>5, <1>8

LEMMA OneMoreError ==
  ASSUME run \in RunState, run' = [run EXCEPT !.errors = @ + 1]
  PROVE  run' \in RunState /\ run'.pc = run.pc /\ run'.next = run.next
<1>1. PICK n \in Nat : n = run.errors + 1
  BY DEF RunState
<1>2. run' = [run EXCEPT !.errors = n]
  BY <1>1
<1>3. QED
  BY <1>2 DEF RunState

LEMMA OpenDirTypes ==
  ASSUME MediaTypes, OpenDir
  PROVE  MediaTypes'
<1>1. /\ UNCHANGED outside /\ UNCHANGED rows /\ UNCHANGED walk /\ UNCHANGED walker
      /\ UNCHANGED pool /\ UNCHANGED worker /\ UNCHANGED writer
  BY DEF OpenDir, threads
<1>2. lister \in Lister /\ lister.dirs \in Seq(Dirs) /\ lister.dirs # <<>>
  BY DEF OpenDir, MediaTypes, ThreadsKnown, Lister
<1>3. PICK dir \in Dirs : dir = Last(lister.dirs)
  BY <1>2, FrontLast
<1>4. /\ Front(lister.dirs) \in Seq(Dirs)
      /\ Front(lister.dirs) \o SetToSeq(SubDirs[dir]) \in Seq(Dirs)
      /\ {f \in FilesIn[dir] : disk[f] # 0} \in SUBSET Files
  <2>1. Front(lister.dirs) \in Seq(Dirs)
    BY <1>2, FrontLast
  <2>2. SetToSeq(SubDirs[dir]) \in Seq(Dirs) /\ FilesIn[dir] \subseteq Files
    BY TreeIs
  <2>3. QED
    BY <2>1, <2>2, ConcatProperties
<1>5. lister' \in Lister'
  BY <1>2, <1>3, <1>4 DEF OpenDir, Lister
<1>6. run' \in RunState' /\ NextFits'
  <2>1. CASE UNCHANGED run
    BY <1>1, <2>1, RowsStay
  <2>2. CASE run' = [run EXCEPT !.errors = @ + 1]
    <3>1. run' \in RunState /\ run'.pc = run.pc /\ run'.next = run.next
      BY <2>2, OneMoreError DEF MediaTypes
    <3>2. QED
      BY <1>1, <3>1, SetsStay DEF MediaTypes, NextFits
  <2>3. QED
    BY <2>1, <2>2 DEF OpenDir
<1>7. QED
  BY <1>1, <1>5, <1>6, RowsStay DEF MediaTypes, ThreadsKnown

LEMMA NextFileTypes ==
  ASSUME MediaTypes, NextFile
  PROVE  MediaTypes'
<1>1. /\ UNCHANGED outside /\ UNCHANGED rows /\ UNCHANGED walk /\ UNCHANGED walker
      /\ UNCHANGED pool /\ UNCHANGED worker /\ UNCHANGED writer
  BY DEF NextFile, threads
<1>2. PICK f \in lister.current :
        LET entry == [file |-> f, stamp |-> disk[f]]
        IN /\ lister' = [lister EXCEPT !.current = @ \ {f}]
           /\ run' = IF disk[f] = 0 THEN [run EXCEPT !.errors = @ + 1]
                     ELSE IF SkipUnchanged(entry) THEN [run EXCEPT !.pc = Again]
                     ELSE [run EXCEPT !.scanned = @ + 1, !.next = <<entry>>,
                             !.pc = IF run.mode = "serial" THEN "probe" ELSE "send"]
  BY DEF NextFile
<1>3. lister \in Lister /\ lister.current \in SUBSET Files /\ f \in Files
  BY DEF MediaTypes, ThreadsKnown, Lister
<1>4. lister' \in Lister'
  BY <1>2, <1>3 DEF Lister
<1>5. run.pc = "list" /\ run.next = <<>> /\ run \in RunState
  BY DEF NextFile, Listing, MediaTypes, NextFits
<1>6. run' \in RunState' /\ NextFits'
  <2>1. CASE disk[f] = 0
    <3>1. run' \in RunState /\ run'.pc = run.pc /\ run'.next = run.next
      BY <1>2, <1>5, <2>1, OneMoreError
    <3>2. QED
      BY <1>1, <3>1, SetsStay DEF MediaTypes, NextFits
  <2>2. CASE disk[f] # 0 /\ SkipUnchanged([file |-> f, stamp |-> disk[f]])
    <3>1. Again \in Pcs /\ Again \notin {"probe", "send", "push"} /\ Go(Again)
      BY <1>2, <2>2 DEF Again, Pcs, Go
    <3>2. QED
      BY <1>1, <1>5, <3>1, RunMoves
  <2>3. CASE disk[f] # 0 /\ ~SkipUnchanged([file |-> f, stamp |-> disk[f]])
    <3>1. PICK entry \in Entries : entry = [file |-> f, stamp |-> disk[f]]
      BY <1>3, <2>3, EntryIs DEF MediaTypes
    <3>2. PICK pc \in {"probe", "send"} : pc = IF run.mode = "serial" THEN "probe" ELSE "send"
      OBVIOUS
    <3>3. run' = [run EXCEPT !.scanned = @ + 1, !.next = <<entry>>, !.pc = pc]
      BY <1>2, <2>3, <3>1, <3>2
    <3>4. pc \in Pcs /\ <<entry>> \in Seq(Entries) /\ <<entry>> # <<>> /\ Len(<<entry>>) = 1
      BY <3>2 DEF Pcs
    <3>5. run' \in RunState /\ run'.pc = pc /\ run'.next = <<entry>>
      <4>1. PICK n \in Nat : n = run.scanned + 1
        BY <1>5 DEF RunState
      <4>2. run' = [run EXCEPT !.scanned = n, !.next = <<entry>>, !.pc = pc]
        BY <3>3, <4>1
      <4>3. QED
        BY <1>5, <3>4, <4>2 DEF RunState
    <3>6. QED
      BY <1>1, <3>2, <3>4, <3>5, SetsStay DEF NextFits
  <2>4. QED
    BY <2>1, <2>2, <2>3
<1>7. QED
  BY <1>1, <1>4, <1>6, RowsStay DEF MediaTypes, ThreadsKnown

LEMMA OutcomesAre ==
  \A f \in Files : Outcomes(f) \subseteq {"ok", "problem"}
BY DEF Outcomes

LEMMA ProbeHereTypes ==
  ASSUME MediaTypes, ProbeHere
  PROVE  MediaTypes'
<1>1. /\ UNCHANGED outside /\ UNCHANGED rows /\ UNCHANGED lister /\ UNCHANGED walk
      /\ UNCHANGED walker /\ UNCHANGED pool /\ UNCHANGED worker /\ UNCHANGED writer
  BY DEF ProbeHere, threads
<1>2. run \in RunState /\ run.next \in Seq(Entries) /\ run.next # <<>> /\ run.pc = "probe"
  BY DEF ProbeHere, MediaTypes, NextFits
<1>3. PICK entry \in Entries : entry = Head(run.next)
  BY <1>2
<1>4. PICK status \in {"ok", "problem"} :
        run' = [run EXCEPT !.pc = "push", !.next = <<Probed(entry, status)>>]
  <2>1. entry.file \in Files
    BY DEF Entries
  <2>2. QED
    BY <1>3, <2>1, OutcomesAre DEF ProbeHere
<1>5. PICK probe \in Read : probe = Probed(entry, status)
  BY ProbedIs DEF MediaTypes
<1>6. <<probe>> \in Seq(Read) /\ Len(<<probe>>) = 1 /\ "push" \in Pcs
  BY DEF Pcs
<1>7. run' \in RunState /\ run'.pc = "push" /\ run'.next = <<probe>>
  BY <1>2, <1>4, <1>5, <1>6 DEF RunState
<1>8. run' \in RunState' /\ NextFits'
  BY <1>1, <1>6, <1>7, SetsStay DEF NextFits
<1>9. QED
  BY <1>1, <1>8, RowsStay DEF MediaTypes, ThreadsKnown

\* A probe goes into the batch, and with it perhaps into the table.
LEMMA PushIs ==
  ASSUME MediaTypes, NEW probe \in Whole, Push(probe), UNCHANGED outside
  PROVE  /\ RowsKnown' /\ writer' \in Seq(Whole)'
         /\ \/ rows' = rows /\ writer' = Append(writer, probe)
            \/ rows' = Flushed(Append(writer, probe)) /\ writer' = <<>>
<1>1. writer \in Seq(Whole)
  BY DEF MediaTypes, ThreadsKnown
<1>2. PICK pending \in Seq(Whole) : pending = Append(writer, probe)
  <2>1. Append(writer, probe) \in Seq(Whole)
    BY <1>1, RangeAppend
  <2>2. QED
    BY <2>1
<1>3. \/ rows' = rows /\ writer' = pending
      \/ rows' = Flushed(pending) /\ writer' = <<>>
  BY <1>2 DEF Push
<1>4. CASE rows' = rows /\ writer' = pending
  BY <1>2, <1>4, RowsStay, SetsStay
<1>5. CASE rows' = Flushed(pending) /\ writer' = <<>>
  <2>1. RowsKnown'
    BY <1>2, <1>5, FlushedIs, SetsStay DEF MediaTypes, RowsKnown, Honest, outside
  <2>2. QED
    BY <1>2, <1>5, <2>1
<1>6. QED
  BY <1>3, <1>4, <1>5

LEMMA PushHereTypes ==
  ASSUME MediaTypes, PushHere
  PROVE  MediaTypes'
<1>1. /\ UNCHANGED outside /\ UNCHANGED lister /\ UNCHANGED walk
      /\ UNCHANGED walker /\ UNCHANGED pool /\ UNCHANGED worker
  BY DEF PushHere, threads
<1>2. run \in RunState /\ run.next \in Seq(Read) /\ Len(run.next) = 1 /\ run.pc = "push"
  BY DEF PushHere, MediaTypes, NextFits
<1>3. Head(run.next) \in Read
  BY <1>2
<1>4. Complete(Head(run.next)) \in Whole
  BY <1>3, CompleteIs DEF MediaTypes
<1>5. RowsKnown' /\ writer' \in Seq(Whole)'
  BY <1>1, <1>4, PushIs DEF PushHere
<1>6. PICK pc \in {"list", "targets"} :
        run' = [run EXCEPT !.received = @ + 1, !.next = <<>>, !.pc = pc]
  BY DEF PushHere
<1>7. run' \in RunState /\ run'.pc = pc /\ run'.next = <<>>
  <2>1. PICK n \in Nat : n = run.received + 1
    BY <1>2 DEF RunState
  <2>2. run' = [run EXCEPT !.received = n, !.next = <<>>, !.pc = pc]
    BY <1>6, <2>1
  <2>3. pc \in Pcs
    BY DEF Pcs
  <2>4. QED
    BY <1>2, <2>2, <2>3, RestingKnown DEF RunState
<1>8. run' \in RunState' /\ NextFits'
  BY <1>1, <1>7, SetsStay DEF NextFits
<1>9. QED
  BY <1>1, <1>5, <1>8, RowsStay DEF MediaTypes, ThreadsKnown

\* The next job of a repair.
JobSize ==
  IF run.mode = "serial" THEN 1
  ELSE IF Len(run.targets) < JobBatch THEN Len(run.targets) ELSE JobBatch

LEMMA NextTargetIs ==
  ASSUME MediaTypes, NextTarget
  PROVE  /\ JobSize \in 1 .. Len(run.targets) /\ run.pc = "targets"
         /\ run.mode = "serial" => JobSize = 1
         /\ SubSeq(run.targets, 1, JobSize) \in Seq(Entries)
         /\ Len(SubSeq(run.targets, 1, JobSize)) = JobSize
         /\ SubSeq(run.targets, JobSize + 1, Len(run.targets)) \in Seq(Entries)
         /\ Len(SubSeq(run.targets, JobSize + 1, Len(run.targets))) = Len(run.targets) - JobSize
         /\ Range(run.targets) = Range(SubSeq(run.targets, 1, JobSize))
                                   \cup Range(SubSeq(run.targets, JobSize + 1, Len(run.targets)))
         /\ run' = [run EXCEPT !.next = SubSeq(run.targets, 1, JobSize),
                               !.targets = SubSeq(run.targets, JobSize + 1, Len(run.targets)),
                               !.scanned = @ + JobSize,
                               !.pc = IF run.mode = "serial" THEN "probe" ELSE "send"]
<1>1. run.targets \in Seq(Entries) /\ run.targets # <<>> /\ JobBatch \in Nat \ {0}
  BY MediaAssumption DEF MediaTypes, RunState, NextTarget
<1>2. Len(run.targets) \in Nat \ {0}
  BY <1>1
<1>3. JobSize \in 1 .. Len(run.targets) /\ JobSize \in 0 .. Len(run.targets)
  BY <1>1, <1>2 DEF JobSize
<1>4. run' = [run EXCEPT !.next = SubSeq(run.targets, 1, JobSize),
                         !.targets = SubSeq(run.targets, JobSize + 1, Len(run.targets)),
                         !.scanned = @ + JobSize,
                         !.pc = IF run.mode = "serial" THEN "probe" ELSE "send"]
  BY DEF NextTarget, JobSize
<1>5. run.mode = "serial" => JobSize = 1
  BY DEF JobSize
<1>6. run.pc = "targets"
  BY DEF NextTarget
<1> HIDE DEF JobSize
<1>7. QED
  BY <1>1, <1>3, <1>4, <1>5, <1>6, Cut

LEMMA NextTargetTypes ==
  ASSUME MediaTypes, NextTarget
  PROVE  MediaTypes'
<1>1. /\ UNCHANGED outside /\ UNCHANGED rows /\ UNCHANGED lister /\ UNCHANGED walk
      /\ UNCHANGED walker /\ UNCHANGED pool /\ UNCHANGED worker /\ UNCHANGED writer
  BY DEF NextTarget, threads
<1>2. PICK next \in Seq(Entries), rest \in Seq(Entries), size \in Nat \ {0} :
        /\ Len(next) = size /\ (run.mode = "serial" => size = 1)
        /\ run' = [run EXCEPT !.next = next, !.targets = rest, !.scanned = @ + size,
                              !.pc = IF run.mode = "serial" THEN "probe" ELSE "send"]
  <2>1. PICK size \in Nat \ {0} : size = JobSize
    <3>1. JobSize \in 1 .. Len(run.targets) /\ Len(run.targets) \in Nat
      BY NextTargetIs DEF MediaTypes, RunState
    <3>2. QED
      BY <3>1
  <2>2. PICK next \in Seq(Entries) : next = SubSeq(run.targets, 1, JobSize)
    BY NextTargetIs
  <2>3. PICK rest \in Seq(Entries) : rest = SubSeq(run.targets, JobSize + 1, Len(run.targets))
    BY NextTargetIs
  <2>4. /\ Len(next) = size /\ (run.mode = "serial" => size = 1)
        /\ run' = [run EXCEPT !.next = next, !.targets = rest, !.scanned = @ + size,
                              !.pc = IF run.mode = "serial" THEN "probe" ELSE "send"]
    BY <2>1, <2>2, <2>3, NextTargetIs
  <2>5. QED
    BY <2>4
<1>3. PICK n \in Nat : n = run.scanned + size
  BY DEF MediaTypes, RunState
<1>4. PICK pc \in {"probe", "send"} : pc = IF run.mode = "serial" THEN "probe" ELSE "send"
  OBVIOUS
<1>5. run' = [run EXCEPT !.next = next, !.targets = rest, !.scanned = n, !.pc = pc]
  BY <1>2, <1>3, <1>4
<1>6. pc \in Pcs /\ next # <<>> /\ (pc = "probe" => Len(next) = 1)
  <2>1. pc \in Pcs
    BY DEF Pcs
  <2>2. next # <<>>
    BY <1>2
  <2>3. pc = "probe" => Len(next) = 1
    BY <1>2, <1>4
  <2>4. QED
    BY <2>1, <2>2, <2>3
<1>7. run' \in RunState /\ run'.pc = pc /\ run'.next = next
  BY <1>5, <1>6 DEF MediaTypes, RunState
<1>8. run' \in RunState' /\ NextFits'
  BY <1>1, <1>6, <1>7, SetsStay DEF NextFits
<1>9. QED
  BY <1>1, <1>8, RowsStay DEF MediaTypes, ThreadsKnown

\* A result is taken, by either drain_results.
LEMMA TakeResultTypes ==
  ASSUME MediaTypes, TakeResult
  PROVE  MediaTypes'
<1>1. /\ UNCHANGED outside /\ UNCHANGED lister /\ UNCHANGED walk
      /\ UNCHANGED walker /\ UNCHANGED worker
  BY DEF TakeResult
<1>2. pool \in Pool /\ pool.results \in Seq(Whole) /\ pool.results # <<>>
  BY DEF TakeResult, MediaTypes, ThreadsKnown, Pool
<1>3. Head(pool.results) \in Whole /\ Tail(pool.results) \in Seq(Whole)
  BY <1>2, RangeHeadTail
<1>4. RowsKnown' /\ writer' \in Seq(Whole)'
  BY <1>1, <1>3, PushIs DEF TakeResult
<1>5. pool' \in Pool
  BY <1>2, <1>3 DEF TakeResult, Pool
<1>6. run' \in RunState /\ run'.pc = run.pc /\ run'.next = run.next
  <2>1. PICK n \in Nat : n = run.received + 1
    BY DEF MediaTypes, RunState
  <2>2. run' = [run EXCEPT !.received = n]
    BY <2>1 DEF TakeResult
  <2>3. QED
    BY <2>2 DEF MediaTypes, RunState
<1>7. run' \in RunState' /\ NextFits' /\ pool' \in Pool'
  BY <1>1, <1>5, <1>6, SetsStay DEF MediaTypes, NextFits
<1>8. QED
  BY <1>1, <1>4, <1>7, RowsStay DEF MediaTypes, ThreadsKnown

\* The entries of an event that are probed.
LEMMA ToProbeIs ==
  ASSUME MediaTypes, NEW entries \in Seq(Entries), run.scanned <= run.max
  PROVE  /\ ToProbe(entries) \in Seq(Entries) /\ Range(ToProbe(entries)) \subseteq Range(entries)
         /\ Len(ToProbe(entries)) <= run.max - run.scanned
         /\ run.scanned + Len(ToProbe(entries)) < run.max =>
              \A e \in Range(entries) : SkipUnchanged(e) \/ e \in Range(ToProbe(entries))
<1> DEFINE I == {i \in DOMAIN entries : ~SkipUnchanged(entries[i])}
           wanted == Those(entries, I)
           room == run.max - run.scanned
           size == IF room < Len(wanted) THEN room ELSE Len(wanted)
<1>1. room \in Nat /\ run.max \in Nat /\ run.scanned \in Nat
  BY DEF MediaTypes, RunState
<1>2. wanted \in Seq(Entries) /\ Range(wanted) = {entries[i] : i \in I}
  BY ThoseAre
<1>3. ToProbe(entries) = SubSeq(wanted, 1, size)
  BY DEF ToProbe
<1>4. Range(entries) = {entries[i] : i \in DOMAIN entries}
  BY DEF Range
<1>5. \A e \in Range(entries) : SkipUnchanged(e) \/ e \in Range(wanted)
  BY <1>2, <1>4
<1>6. Range(wanted) \subseteq Range(entries)
  BY <1>2, <1>4
<1> HIDE DEF wanted, room
<1>7. size \in 0 .. Len(wanted) /\ size <= room /\ Len(wanted) \in Nat
  BY <1>1, <1>2
<1>8. /\ SubSeq(wanted, 1, size) \in Seq(Entries) /\ Len(SubSeq(wanted, 1, size)) = size
      /\ Range(SubSeq(wanted, 1, size)) \subseteq Range(wanted)
  BY <1>2, <1>7, Cut
<1>9. size < room => SubSeq(wanted, 1, size) = wanted
  <2>1. size < room => size = Len(wanted)
    BY <1>1, <1>7
  <2>2. SubSeq(wanted, 1, Len(wanted)) = wanted
    BY <1>2, SubSeqFull
  <2>3. QED
    BY <2>1, <2>2
<1> HIDE DEF size
<1>10. run.scanned + size < run.max => size < room
  BY <1>1, <1>7 DEF room
<1>11. Len(ToProbe(entries)) = size /\ size <= run.max - run.scanned
  BY <1>3, <1>7, <1>8 DEF room
<1>12. QED
  BY <1>3, <1>5, <1>6, <1>8, <1>9, <1>10, <1>11

LEMMA TakeEventIs ==
  ASSUME MediaTypes, TakeEvent
  PROVE  /\ Head(walk.events) \in Event /\ Head(walk.events).entries \in Seq(Entries)
         /\ Head(walk.events).errors \in Nat
         /\ Range(walk.events) = {Head(walk.events)} \cup Range(walk'.events)
         /\ walk' \in Walk /\ walk'.dirs = walk.dirs /\ walk'.pending = walk.pending
         /\ walk'.stop = walk.stop /\ walk'.closed = walk.closed
         /\ walk'.events \in Seq(Event)
<1>1. walk \in Walk /\ walk.events \in Seq(Event) /\ walk.events # <<>>
  BY DEF TakeEvent, MediaTypes, ThreadsKnown, Walk
<1>2. /\ Range(walk.events) = {Head(walk.events)} \cup Range(Tail(walk.events))
      /\ Head(walk.events) \in Event /\ Tail(walk.events) \in Seq(Event)
  BY <1>1, RangeHeadTail
<1>3. PICK rest \in Seq(Event) : rest = Tail(walk.events)
  BY <1>2
<1>4. walk' = [walk EXCEPT !.events = rest]
  BY <1>3 DEF TakeEvent
<1>5. /\ walk' \in Walk /\ walk'.dirs = walk.dirs /\ walk'.pending = walk.pending
      /\ walk'.stop = walk.stop /\ walk'.closed = walk.closed /\ walk'.events = rest
  BY <1>1, <1>4 DEF Walk
<1>6. Head(walk.events).entries \in Seq(Entries) /\ Head(walk.events).errors \in Nat
  BY <1>2 DEF Event
<1>7. QED
  BY <1>2, <1>3, <1>5, <1>6

LEMMA TakeEventTypes ==
  ASSUME MediaTypes, TakeEvent, run.scanned <= run.max
  PROVE  MediaTypes'
<1>1. /\ UNCHANGED outside /\ UNCHANGED rows /\ UNCHANGED lister
      /\ UNCHANGED walker /\ UNCHANGED pool /\ UNCHANGED worker /\ UNCHANGED writer
  BY DEF TakeEvent
<1>2. PICK entries \in Seq(Entries) : entries = Head(walk.events).entries
  BY TakeEventIs
<1>3. PICK next \in Seq(Entries) : next = ToProbe(entries)
  BY ToProbeIs
<1>4. PICK errors \in Nat : errors = run.errors + Head(walk.events).errors
  <2>1. run.errors \in Nat /\ Head(walk.events).errors \in Nat
    BY TakeEventIs DEF MediaTypes, RunState
  <2> QED
    BY <2>1
<1>5. PICK scanned \in Nat : scanned = run.scanned + Len(next)
  BY DEF MediaTypes, RunState
<1>6. PICK pc \in {"drain", "send"} : pc = IF next = <<>> THEN "drain" ELSE "send"
  OBVIOUS
<1>7. run' = [run EXCEPT !.errors = errors, !.next = next, !.scanned = scanned, !.pc = pc]
  BY <1>2, <1>3, <1>4, <1>5, <1>6 DEF TakeEvent
<1>8. pc \in Pcs
  BY DEF Pcs
<1>9. run' \in RunState /\ run'.pc = pc /\ run'.next = next
  BY <1>7, <1>8 DEF MediaTypes, RunState
<1>10. run' \in RunState' /\ NextFits'
  BY <1>1, <1>6, <1>9, SetsStay DEF NextFits
<1>11. walk' \in Walk'
  BY <1>1, TakeEventIs, SetsStay
<1>12. QED
  BY <1>1, <1>10, <1>11, RowsStay DEF MediaTypes, ThreadsKnown

LEMMA SendJobIs ==
  ASSUME MediaTypes, SendJob
  PROVE  /\ run.next \in Seq(Entries) /\ run.next # <<>> /\ run.pc = "send"
         /\ pool.jobs \in Seq(Seq(Entries)) /\ pool' \in Pool
         /\ pool'.jobs = Append(pool.jobs, run.next)
         /\ pool'.results = pool.results
         /\ Range(pool'.jobs) = Range(pool.jobs) \cup {run.next}
<1>1. run.next \in Seq(Entries) /\ run.next # <<>> /\ run.pc = "send"
  BY DEF SendJob, MediaTypes, NextFits
<1>2. pool \in Pool /\ pool.jobs \in Seq(Seq(Entries))
  BY DEF MediaTypes, ThreadsKnown, Pool
<1>3. /\ Append(pool.jobs, run.next) \in Seq(Seq(Entries))
      /\ Range(Append(pool.jobs, run.next)) = Range(pool.jobs) \cup {run.next}
  BY <1>1, <1>2, RangeAppend
<1>4. PICK jobs \in Seq(Seq(Entries)) : jobs = Append(pool.jobs, run.next)
  BY <1>3
<1>5. pool' = [pool EXCEPT !.jobs = jobs]
  BY <1>4 DEF SendJob
<1>6. pool' \in Pool /\ pool'.jobs = jobs /\ pool'.results = pool.results
  BY <1>2, <1>5 DEF Pool
<1>7. QED
  BY <1>1, <1>2, <1>3, <1>4, <1>6

LEMMA SendJobTypes ==
  ASSUME MediaTypes, SendJob
  PROVE  MediaTypes'
<1>1. /\ UNCHANGED outside /\ UNCHANGED rows /\ UNCHANGED lister /\ UNCHANGED walk
      /\ UNCHANGED walker /\ UNCHANGED worker /\ UNCHANGED writer
  BY DEF SendJob
<1>2. PICK sent \in Nat : sent = run.sent + Len(run.next)
  BY SendJobIs DEF MediaTypes, RunState
<1>3. run' = [run EXCEPT !.pc = "drain", !.sent = sent, !.next = <<>>]
  BY <1>2 DEF SendJob
<1>4. run' \in RunState /\ run'.pc = "drain" /\ run'.next = <<>>
  BY <1>3, RestingKnown DEF MediaTypes, RunState, Pcs
<1>5. run' \in RunState' /\ NextFits' /\ pool' \in Pool'
  BY <1>1, <1>4, SendJobIs, SetsStay DEF NextFits
<1>6. QED
  BY <1>1, <1>5, RowsStay DEF MediaTypes, ThreadsKnown

LEMMA FlushRestTypes ==
  ASSUME MediaTypes, FlushRest
  PROVE  MediaTypes'
<1>1. /\ UNCHANGED outside /\ UNCHANGED lister /\ UNCHANGED walk
      /\ UNCHANGED walker /\ UNCHANGED pool /\ UNCHANGED worker
  BY DEF FlushRest, threads
<1>2. run' \in RunState' /\ NextFits'
  <2>1. "done" \in Pcs
    BY DEF Pcs, Ended
  <2>2. QED
    BY <1>1, <2>1, RunMoves DEF FlushRest
<1>3. RowsKnown'
  <2>1. writer \in Seq(Whole) /\ DiskKnown /\ RowsKnown
    BY DEF MediaTypes, ThreadsKnown
  <2>2. rows' = Flushed(writer)
    BY DEF FlushRest
  <2>3. QED
    BY <1>1, <2>1, <2>2, FlushedIs, SetsStay DEF RowsKnown, Honest, outside
<1>4. writer' \in Seq(Whole)'
  BY DEF FlushRest
<1>5. QED
  BY <1>1, <1>2, <1>3, <1>4, RowsStay DEF MediaTypes, ThreadsKnown

----------------------------------------------------------------------------
(* The walkers.                                                            *)

\* The entries of a directory, as it is listed.
LEMMA ListedIs ==
  ASSUME DiskKnown, NEW dir \in Dirs
  PROVE  /\ Listed(dir) \in Seq(Entries)
         /\ Range(Listed(dir))
              = {[file |-> f, stamp |-> disk[f]] : f \in {f \in FilesIn[dir] : disk[f] # 0}}
<1> DEFINE there == {f \in FilesIn[dir] : disk[f] # 0}
           found == {[file |-> f, stamp |-> disk[f]] : f \in there}
<1>1. there \subseteq Files /\ IsFiniteSet(there)
  BY TreeIs, FS_Subset
<1>2. found \subseteq Entries
  BY <1>1, EntryIs
<1>3. IsFiniteSet(found)
  <2> DEFINE g == [f \in there |-> [file |-> f, stamp |-> disk[f]]]
  <2>1. g \in Surjection(there, found)
    BY DEF Surjection
  <2>2. QED
    BY <1>1, <2>1, FS_Surjection
<1>4. SetToSeq(found) \in Seq(found) /\ Range(SetToSeq(found)) = found
  BY <1>3, InSomeOrder
<1>5. SetToSeq(found) \in Seq(Entries)
  BY <1>2, <1>4, SeqMonotonic
<1>6. QED
  BY <1>4, <1>5 DEF Listed

\* One walker moves.
LEMMA WalkerMoves ==
  ASSUME MediaTypes, UNCHANGED outside, NEW w \in Walkers, NEW x \in WalkerState,
         walker' = [walker EXCEPT ![w] = x],
         x.pc \in {"gone", "idle", "entries"} => x.dirs = {},
         x.pc \in {"gone", "idle"} => x.entries = <<>>
  PROVE  /\ walker' \in [Walkers -> WalkerState]' /\ WalkersFit'
         /\ walker'[w] = x /\ \A v \in Walkers \ {w} : walker'[v] = walker[v]
<1>1. walker \in [Walkers -> WalkerState]
  BY DEF MediaTypes, ThreadsKnown
<1>2. /\ walker' \in [Walkers -> WalkerState] /\ walker'[w] = x
      /\ \A v \in Walkers \ {w} : walker'[v] = walker[v]
  BY <1>1
<1>3. WalkersFit'
  BY <1>2 DEF MediaTypes, WalkersFit
<1>4. QED
  BY <1>2, <1>3, SetsStay

LEMMA GoneIs ==
  /\ Gone = [pc |-> "gone", dirs |-> {}, entries |-> <<>>]
  /\ [Gone EXCEPT !.pc = "idle"] = [pc |-> "idle", dirs |-> {}, entries |-> <<>>]
<1>1. [Gone EXCEPT !.pc = "idle"] \in [pc : {"idle"}, dirs : {{}}, entries : {<<>>}]
  BY DEF Gone
<1>2. QED
  BY <1>1, IdleWalker DEF Gone

LEMMA SkipTypes ==
  ASSUME MediaTypes, NEW w \in Walkers, Skip(w)
  PROVE  /\ MediaTypes'
         /\ Tail(walk.dirs) \in Seq(Dirs)
         /\ walk' = [walk EXCEPT !.pending = @ - 1, !.dirs = Tail(walk.dirs)]
<1>1. /\ UNCHANGED outside /\ UNCHANGED rows /\ UNCHANGED run /\ UNCHANGED lister
      /\ UNCHANGED walker /\ UNCHANGED pool /\ UNCHANGED worker /\ UNCHANGED writer
  BY DEF Skip
<1>2. walk \in Walk /\ walk.dirs \in Seq(Dirs) /\ walk.dirs # <<>> /\ walk.pending \in Int
  BY DEF Skip, MediaTypes, ThreadsKnown, Walk
<1>3. PICK rest \in Seq(Dirs) : rest = Tail(walk.dirs)
  BY <1>2, RangeHeadTail
<1>4. PICK n \in Int : n = walk.pending - 1
  BY <1>2
<1>5. walk' = [walk EXCEPT !.pending = n, !.dirs = rest]
  BY <1>2, <1>3, <1>4 DEF Skip, GiveBack
<1>6. walk' \in Walk'
  BY <1>1, <1>2, <1>5, SetsStay DEF Walk
<1>7. MediaTypes'
  BY <1>1, <1>6, RowsStay DEF MediaTypes, ThreadsKnown
<1>8. QED
  BY <1>3, <1>4, <1>5, <1>7

\* The directory that a walker lists, and what it then holds.
Found(dir)  == [pc |-> "stats", dirs |-> SubDirs[dir], entries |-> Listed(dir), errors |-> 0]
Unreadable == [pc |-> "stats", dirs |-> {}, entries |-> <<>>, errors |-> 1]

LEMMA EnumerateTypes ==
  ASSUME MediaTypes, NEW w \in Walkers, Enumerate(w)
  PROVE  /\ MediaTypes' /\ walk.dirs \in Seq(Dirs) /\ walk.dirs # <<>>
         /\ Head(walk.dirs) \in Dirs /\ Tail(walk.dirs) \in Seq(Dirs)
         /\ walk' = [walk EXCEPT !.dirs = Tail(walk.dirs)]
         /\ walker'[w] \in {Found(Head(walk.dirs)), Unreadable}
         /\ \A v \in Walkers \ {w} : walker'[v] = walker[v]
<1>1. /\ UNCHANGED outside /\ UNCHANGED rows /\ UNCHANGED run /\ UNCHANGED lister
      /\ UNCHANGED pool /\ UNCHANGED worker /\ UNCHANGED writer
  BY DEF Enumerate
<1>2. walk \in Walk /\ walk.dirs \in Seq(Dirs) /\ walk.dirs # <<>>
  BY DEF Enumerate, MediaTypes, ThreadsKnown, Walk
<1>3. PICK rest \in Seq(Dirs) : rest = Tail(walk.dirs)
  BY <1>2, RangeHeadTail
<1>4. PICK dir \in Dirs : dir = Head(walk.dirs)
  BY <1>2, RangeHeadTail
<1>5. walk' = [walk EXCEPT !.dirs = rest]
  BY <1>2, <1>3 DEF Enumerate
<1>6. walk' \in Walk'
  BY <1>1, <1>2, <1>5, SetsStay DEF Walk
<1>7. PICK x \in {Found(dir), Unreadable} : walker' = [walker EXCEPT ![w] = x]
  BY <1>4 DEF Enumerate, Found, Unreadable
<1>8. x \in WalkerState /\ x.pc = "stats"
  <2>1. Listed(dir) \in Seq(Entries) /\ SubDirs[dir] \in SUBSET Dirs
    BY ListedIs, TreeIs DEF MediaTypes
  <2>2. <<>> \in Seq(Entries) /\ 0 \in Nat /\ 1 \in Nat
    OBVIOUS
  <2>3. Found(dir) \in WalkerState /\ Unreadable \in WalkerState
    BY <2>1, <2>2 DEF Found, Unreadable, WalkerState
  <2>4. Found(dir).pc = "stats" /\ Unreadable.pc = "stats"
    BY DEF Found, Unreadable
  <2>5. QED
    BY <2>3, <2>4
<1>9. /\ walker' \in [Walkers -> WalkerState]' /\ WalkersFit'
      /\ walker'[w] = x /\ \A v \in Walkers \ {w} : walker'[v] = walker[v]
  BY <1>1, <1>7, <1>8, WalkerMoves
<1>10. MediaTypes'
  BY <1>1, <1>6, <1>9, RowsStay DEF MediaTypes, ThreadsKnown
<1>11. QED
  BY <1>2, <1>3, <1>4, <1>5, <1>7, <1>9, <1>10

\* An event is sent, or the sender learns that nobody listens.
LEMMA SendIs ==
  ASSUME MediaTypes, UNCHANGED outside, NEW event \in Event, Send(event)
  PROVE  /\ walk' \in Walk' /\ walk'.dirs = walk.dirs /\ walk'.pending = walk.pending
         /\ walk'.closed = walk.closed /\ walk.events \in Seq(Event)
         /\ \/ walk.closed /\ walk'.stop /\ walk'.events = walk.events
            \/ /\ ~walk.closed /\ walk'.stop = walk.stop
               /\ walk'.events = Append(walk.events, event)
               /\ Range(walk'.events) = Range(walk.events) \cup {event}
<1>1. walk \in Walk /\ walk.events \in Seq(Event)
  BY DEF MediaTypes, ThreadsKnown, Walk
<1>2. CASE walk.closed /\ walk' = [walk EXCEPT !.stop = TRUE]
  <2>1. walk' \in Walk /\ walk'.stop /\ walk'.events = walk.events /\ walk'.dirs = walk.dirs
        /\ walk'.pending = walk.pending /\ walk'.closed = walk.closed
    BY <1>1, <1>2 DEF Walk
  <2>2. QED
    BY <1>1, <1>2, <2>1, SetsStay
<1>3. CASE ~walk.closed /\ walk' = [walk EXCEPT !.events = Append(@, event)]
  <2>1. PICK events \in Seq(Event) :
          /\ events = Append(walk.events, event)
          /\ Range(events) = Range(walk.events) \cup {event}
    BY <1>1, RangeAppend
  <2>2. walk' = [walk EXCEPT !.events = events]
    BY <1>3, <2>1
  <2>3. walk' \in Walk /\ walk'.stop = walk.stop /\ walk'.events = events
        /\ walk'.dirs = walk.dirs /\ walk'.pending = walk.pending /\ walk'.closed = walk.closed
    BY <1>1, <2>2 DEF Walk
  <2>4. QED
    BY <1>1, <1>3, <2>1, <2>3, SetsStay
<1>4. QED
  BY <1>2, <1>3 DEF Send

LEMMA SendStatsTypes ==
  ASSUME MediaTypes, NEW w \in Walkers, SendStats(w)
  PROVE  /\ MediaTypes'
         /\ walker[w].pc = "stats" /\ walker[w].errors \in Nat
         /\ [errors |-> walker[w].errors, entries |-> <<>>] \in Event
         /\ Send([errors |-> walker[w].errors, entries |-> <<>>])
         /\ walker'[w].dirs = walker[w].dirs /\ walker'[w].entries = walker[w].entries
         /\ walker'[w].pc = IF walker[w].dirs = {} THEN "entries" ELSE "dirs"
         /\ \A v \in Walkers \ {w} : walker'[v] = walker[v]
<1>1. /\ UNCHANGED outside /\ UNCHANGED rows /\ UNCHANGED run /\ UNCHANGED lister
      /\ UNCHANGED pool /\ UNCHANGED worker /\ UNCHANGED writer
  BY DEF SendStats
<1>2. /\ walker \in [Walkers -> WalkerState] /\ walker[w] \in WalkerState
      /\ walker[w].pc = "stats" /\ walker[w].errors \in Nat
      /\ walker[w].dirs \in SUBSET Dirs /\ walker[w].entries \in Seq(Entries)
  BY DEF SendStats, MediaTypes, ThreadsKnown, WalkerState
<1>3. <<>> \in Seq(Entries)
  OBVIOUS
<1>4. PICK event \in Event : event = [errors |-> walker[w].errors, entries |-> <<>>]
  BY <1>2, <1>3 DEF Event
<1>5. Send(event)
  BY <1>4 DEF SendStats
<1>6. walk' \in Walk'
  BY <1>1, <1>5, SendIs
<1>7. PICK pc \in {"entries", "dirs"} : pc = IF walker[w].dirs = {} THEN "entries" ELSE "dirs"
  OBVIOUS
<1>8. PICK x \in WalkerState : x = [pc |-> pc, dirs |-> walker[w].dirs, entries |-> walker[w].entries]
  BY <1>2, <1>7 DEF WalkerState
<1>9. walker' = [walker EXCEPT ![w] = x]
  BY <1>2, <1>7, <1>8 DEF SendStats
<1>10. /\ walker' \in [Walkers -> WalkerState]' /\ WalkersFit'
       /\ walker'[w] = x /\ \A v \in Walkers \ {w} : walker'[v] = walker[v]
  BY <1>1, <1>7, <1>8, <1>9, WalkerMoves
<1>11. MediaTypes'
  BY <1>1, <1>6, <1>10, RowsStay DEF MediaTypes, ThreadsKnown
<1>12. QED
  BY <1>2, <1>4, <1>5, <1>7, <1>8, <1>10, <1>11

LEMMA QueueDirTypes ==
  ASSUME MediaTypes, NEW w \in Walkers, QueueDir(w)
  PROVE  /\ MediaTypes' /\ walker[w].pc = "dirs" /\ ~walk.stop
         /\ \E dir \in walker[w].dirs :
              /\ dir \in Dirs /\ walk.dirs \in Seq(Dirs)
              /\ walk' = [walk EXCEPT !.dirs = Append(@, dir), !.pending = @ + 1]
              /\ Range(walk'.dirs) = Range(walk.dirs) \cup {dir}
              /\ walker'[w].dirs = walker[w].dirs \ {dir}
              /\ walker'[w].entries = walker[w].entries
              /\ walker'[w].pc \in {"dirs", "entries"}
         /\ \A v \in Walkers \ {w} : walker'[v] = walker[v]
<1>1. /\ UNCHANGED outside /\ UNCHANGED rows /\ UNCHANGED run /\ UNCHANGED lister
      /\ UNCHANGED pool /\ UNCHANGED worker /\ UNCHANGED writer
      /\ walker[w].pc = "dirs" /\ ~walk.stop
  BY DEF QueueDir
<1>2. PICK dir \in walker[w].dirs :
        /\ walk' = [walk EXCEPT !.dirs = Append(@, dir), !.pending = @ + 1]
        /\ walker' = [walker EXCEPT ![w].dirs = @ \ {dir},
                                    ![w].pc = IF walker[w].dirs = {dir} THEN "entries" ELSE "dirs"]
  BY DEF QueueDir
<1>3. /\ walk \in Walk /\ walk.dirs \in Seq(Dirs) /\ walk.pending \in Int
      /\ walker \in [Walkers -> WalkerState] /\ walker[w] \in WalkerState
  BY DEF MediaTypes, ThreadsKnown, Walk
<1>4. walker[w] \in [pc : {"dirs", "entries"}, dirs : SUBSET Dirs, entries : Seq(Entries)]
  BY <1>1, <1>3 DEF WalkerState
<1>5. dir \in Dirs
  BY <1>4
<1>6. PICK dirs \in Seq(Dirs) : dirs = Append(walk.dirs, dir) /\ Range(dirs) = Range(walk.dirs) \cup {dir}
  <2>1. Append(walk.dirs, dir) \in Seq(Dirs) /\ Range(Append(walk.dirs, dir)) = Range(walk.dirs) \cup {dir}
    BY <1>3, <1>5, RangeAppend
  <2>2. QED
    BY <2>1
<1>7. PICK n \in Int : n = walk.pending + 1
  BY <1>3
<1>8. walk' = [walk EXCEPT !.dirs = dirs, !.pending = n]
  BY <1>2, <1>3, <1>6, <1>7
<1>9. walk' \in Walk' /\ walk'.dirs = dirs
  BY <1>1, <1>3, <1>8, SetsStay DEF Walk
<1>10. PICK pc \in {"dirs", "entries"} : pc = IF walker[w].dirs = {dir} THEN "entries" ELSE "dirs"
  OBVIOUS
<1>11. PICK x \in WalkerState :
         /\ x = [walker[w] EXCEPT !.dirs = walker[w].dirs \ {dir}, !.pc = pc]
         /\ x.dirs = walker[w].dirs \ {dir} /\ x.pc = pc /\ x.entries = walker[w].entries
  <2>1. PICK y : y = [walker[w] EXCEPT !.dirs = walker[w].dirs \ {dir}, !.pc = pc]
    OBVIOUS
  <2>2. y \in [pc : {"dirs", "entries"}, dirs : SUBSET Dirs, entries : Seq(Entries)]
    BY <1>4, <2>1
  <2>3. y.dirs = walker[w].dirs \ {dir} /\ y.pc = pc /\ y.entries = walker[w].entries
    BY <1>4, <2>1
  <2>4. y \in WalkerState
    BY <2>2 DEF WalkerState
  <2>5. QED
    BY <2>1, <2>3, <2>4
<1>12. walker' = [walker EXCEPT ![w] = x]
  BY <1>2, <1>3, <1>10, <1>11
<1>13. x.pc = "entries" => x.dirs = {}
  BY <1>10, <1>11
<1>14. /\ walker' \in [Walkers -> WalkerState]' /\ WalkersFit'
       /\ walker'[w] = x /\ \A v \in Walkers \ {w} : walker'[v] = walker[v]
  BY <1>1, <1>10, <1>11, <1>12, <1>13, WalkerMoves
<1>15. MediaTypes'
  BY <1>1, <1>9, <1>14, RowsStay DEF MediaTypes, ThreadsKnown
<1>16. QED
  BY <1>1, <1>2, <1>3, <1>5, <1>6, <1>9, <1>10, <1>11, <1>14, <1>15

\* The entries that a walker sends at once.
ChunkSize(w) == IF Len(walker[w].entries) < JobBatch THEN Len(walker[w].entries) ELSE JobBatch
Chunk(w)     == SubSeq(walker[w].entries, 1, ChunkSize(w))
RestOf(w)    == SubSeq(walker[w].entries, ChunkSize(w) + 1, Len(walker[w].entries))

LEMMA SendEntriesTypes ==
  ASSUME MediaTypes, NEW w \in Walkers, SendEntries(w)
  PROVE  /\ MediaTypes' /\ walker[w].pc = "entries" /\ walker[w].entries # <<>>
         /\ Chunk(w) \in Seq(Entries) /\ RestOf(w) \in Seq(Entries)
         /\ Range(walker[w].entries) = Range(Chunk(w)) \cup Range(RestOf(w))
         /\ [errors |-> 0, entries |-> Chunk(w)] \in Event
         /\ Send([errors |-> 0, entries |-> Chunk(w)])
         /\ walker'[w].dirs = walker[w].dirs /\ walker'[w].entries = RestOf(w)
         /\ walker'[w].pc = "entries"
         /\ \A v \in Walkers \ {w} : walker'[v] = walker[v]
<1>1. /\ UNCHANGED outside /\ UNCHANGED rows /\ UNCHANGED run /\ UNCHANGED lister
      /\ UNCHANGED pool /\ UNCHANGED worker /\ UNCHANGED writer
      /\ walker[w].pc = "entries" /\ walker[w].entries # <<>>
  BY DEF SendEntries
<1>2. /\ walker \in [Walkers -> WalkerState] /\ walker[w] \in WalkerState
      /\ walker[w].dirs = {}
  BY <1>1 DEF MediaTypes, ThreadsKnown, WalkersFit
<1>3. walker[w] \in [pc : {"entries"}, dirs : SUBSET Dirs, entries : Seq(Entries)]
  BY <1>1, <1>2 DEF WalkerState
<1>4. walker[w].entries \in Seq(Entries) /\ ChunkSize(w) \in 0 .. Len(walker[w].entries)
  <2>1. walker[w].entries \in Seq(Entries) /\ Len(walker[w].entries) \in Nat /\ JobBatch \in Nat
    BY <1>3, MediaAssumption
  <2>2. QED
    BY <2>1 DEF ChunkSize
<1>5. /\ Chunk(w) \in Seq(Entries) /\ RestOf(w) \in Seq(Entries)
      /\ Range(walker[w].entries) = Range(Chunk(w)) \cup Range(RestOf(w))
  BY <1>4, Cut DEF Chunk, RestOf
<1>6. /\ Send([errors |-> 0, entries |-> Chunk(w)])
      /\ walker' = [walker EXCEPT ![w].entries = RestOf(w)]
  BY DEF SendEntries, Chunk, RestOf, ChunkSize
<1>7. PICK event \in Event : event = [errors |-> 0, entries |-> Chunk(w)]
  <2>1. [errors |-> 0, entries |-> Chunk(w)] \in Event
    BY <1>5 DEF Event
  <2>2. QED
    BY <2>1
<1>8. walk' \in Walk'
  BY <1>1, <1>6, <1>7, SendIs
<1>9. PICK x \in WalkerState : /\ x = [walker[w] EXCEPT !.entries = RestOf(w)]
                               /\ x.dirs = {} /\ x.pc = "entries" /\ x.entries = RestOf(w)
  <2>1. PICK y : y = [walker[w] EXCEPT !.entries = RestOf(w)]
    OBVIOUS
  <2>2. y \in [pc : {"entries"}, dirs : SUBSET Dirs, entries : Seq(Entries)]
    BY <1>3, <1>5, <2>1
  <2>3. y.dirs = {} /\ y.pc = "entries" /\ y.entries = RestOf(w)
    BY <1>1, <1>2, <1>3, <2>1
  <2>4. y \in WalkerState
    BY <2>2 DEF WalkerState
  <2>5. QED
    BY <2>1, <2>3, <2>4
<1>10. walker' = [walker EXCEPT ![w] = x]
  BY <1>2, <1>6, <1>9
<1>11. /\ walker' \in [Walkers -> WalkerState]' /\ WalkersFit'
       /\ walker'[w] = x /\ \A v \in Walkers \ {w} : walker'[v] = walker[v]
  BY <1>1, <1>9, <1>10, WalkerMoves
<1>12. MediaTypes'
  BY <1>1, <1>8, <1>11, RowsStay DEF MediaTypes, ThreadsKnown
<1>13. QED
  BY <1>1, <1>2, <1>5, <1>6, <1>7, <1>9, <1>11, <1>12

LEMMA DirDoneTypes ==
  ASSUME MediaTypes, NEW w \in Walkers, DirDone(w)
  PROVE  /\ MediaTypes' /\ walk' = [walk EXCEPT !.pending = @ - 1]
         /\ walker'[w] = [pc |-> "idle", dirs |-> {}, entries |-> <<>>]
         /\ \A v \in Walkers \ {w} : walker'[v] = walker[v]
<1>1. /\ UNCHANGED outside /\ UNCHANGED rows /\ UNCHANGED run /\ UNCHANGED lister
      /\ UNCHANGED pool /\ UNCHANGED worker /\ UNCHANGED writer
      /\ walk' = [walk EXCEPT !.pending = @ - 1]
  BY DEF DirDone, GiveBack
<1>2. walk \in Walk /\ walk.pending \in Int
  BY DEF MediaTypes, ThreadsKnown, Walk
<1>3. PICK n \in Int : n = walk.pending - 1
  BY <1>2
<1>4. walk' \in Walk'
  BY <1>1, <1>2, <1>3, SetsStay DEF Walk
<1>5. PICK x \in WalkerState : x = [pc |-> "idle", dirs |-> {}, entries |-> <<>>]
  <2>1. <<>> \in Seq(Entries)
    OBVIOUS
  <2>2. [pc |-> "idle", dirs |-> {}, entries |-> <<>>] \in WalkerState
    BY <2>1 DEF WalkerState
  <2>3. QED
    BY <2>2
<1>6. walker' = [walker EXCEPT ![w] = x]
  BY <1>5, GoneIs DEF DirDone
<1>7. /\ walker' \in [Walkers -> WalkerState]' /\ WalkersFit'
      /\ walker'[w] = x /\ \A v \in Walkers \ {w} : walker'[v] = walker[v]
  BY <1>1, <1>5, <1>6, WalkerMoves
<1>8. MediaTypes'
  BY <1>1, <1>4, <1>7, RowsStay DEF MediaTypes, ThreadsKnown
<1>9. QED
  BY <1>1, <1>5, <1>7, <1>8

LEMMA WalkerLeavesTypes ==
  ASSUME MediaTypes, NEW w \in Walkers, WalkerLeaves(w)
  PROVE  /\ MediaTypes'
         /\ walker'[w] = [pc |-> "gone", dirs |-> {}, entries |-> <<>>]
         /\ \A v \in Walkers \ {w} : walker'[v] = walker[v]
<1>1. /\ UNCHANGED outside /\ UNCHANGED rows /\ UNCHANGED run /\ UNCHANGED lister
      /\ UNCHANGED walk /\ UNCHANGED pool /\ UNCHANGED worker /\ UNCHANGED writer
  BY DEF WalkerLeaves
<1>2. PICK x \in WalkerState : x = [pc |-> "gone", dirs |-> {}, entries |-> <<>>]
  <2>1. <<>> \in Seq(Entries)
    OBVIOUS
  <2>2. [pc |-> "gone", dirs |-> {}, entries |-> <<>>] \in WalkerState
    BY <2>1 DEF WalkerState
  <2>3. QED
    BY <2>2
<1>3. walker' = [walker EXCEPT ![w] = x]
  BY <1>2, GoneIs DEF WalkerLeaves
<1>4. /\ walker' \in [Walkers -> WalkerState]' /\ WalkersFit'
      /\ walker'[w] = x /\ \A v \in Walkers \ {w} : walker'[v] = walker[v]
  BY <1>1, <1>2, <1>3, WalkerMoves
<1>5. MediaTypes'
  BY <1>1, <1>4, RowsStay DEF MediaTypes, ThreadsKnown
<1>6. QED
  BY <1>2, <1>4, <1>5

----------------------------------------------------------------------------
(* The workers.                                                            *)

LEMMA WorkerMoves ==
  ASSUME MediaTypes, UNCHANGED outside, NEW k \in Workers, NEW x \in WorkerState,
         worker' = [worker EXCEPT ![k] = x],
         x.pc \in {"gone", "idle"} <=> x.entries = <<>>,
         x.pc = "send" <=> x.probe # <<>>,
         x.probe # <<>> => x.probe[1].file = x.entries[1].file
  PROVE  /\ worker' \in [Workers -> WorkerState]' /\ WorkersFit'
         /\ worker'[k] = x /\ \A j \in Workers \ {k} : worker'[j] = worker[j]
<1>1. worker \in [Workers -> WorkerState]
  BY DEF MediaTypes, ThreadsKnown
<1>2. /\ worker' \in [Workers -> WorkerState] /\ worker'[k] = x
      /\ \A j \in Workers \ {k} : worker'[j] = worker[j]
  BY <1>1
<1>3. WorkersFit'
  BY <1>2 DEF MediaTypes, WorkersFit
<1>4. QED
  BY <1>2, <1>3, SetsStay

\* The jobs are never empty.
JobsFit == \A job \in Range(pool.jobs) : job # <<>>

LEMMA TakeJobTypes ==
  ASSUME MediaTypes, JobsFit, NEW k \in Workers, TakeJob(k)
  PROVE  /\ MediaTypes' /\ pool.jobs \in Seq(Seq(Entries)) /\ pool.jobs # <<>>
         /\ pool' = [pool EXCEPT !.jobs = Tail(@)]
         /\ pool'.jobs = Tail(pool.jobs) /\ pool'.results = pool.results
         /\ worker[k].entries = <<>> /\ Head(pool.jobs) \in Seq(Entries)
         /\ worker'[k].entries = Head(pool.jobs) /\ worker'[k].probe = worker[k].probe
         /\ \A j \in Workers \ {k} : worker'[j] = worker[j]
<1>1. /\ UNCHANGED outside /\ UNCHANGED rows /\ UNCHANGED run /\ UNCHANGED lister
      /\ UNCHANGED walk /\ UNCHANGED walker /\ UNCHANGED writer
      /\ worker[k].pc = "idle" /\ pool.jobs # <<>>
  BY DEF TakeJob
<1>2. /\ pool \in Pool /\ pool.jobs \in Seq(Seq(Entries))
      /\ worker \in [Workers -> WorkerState] /\ worker[k] \in WorkerState
      /\ worker[k].entries = <<>> /\ worker[k].probe = <<>>
  BY <1>1 DEF MediaTypes, ThreadsKnown, Pool, WorkersFit
<1>3. /\ Head(pool.jobs) \in Seq(Entries) /\ Tail(pool.jobs) \in Seq(Seq(Entries))
      /\ Head(pool.jobs) \in Range(pool.jobs)
  BY <1>1, <1>2, RangeHeadTail
<1>4. PICK job \in Seq(Entries) : job = Head(pool.jobs) /\ job # <<>>
  BY <1>3 DEF JobsFit
<1>5. PICK jobs \in Seq(Seq(Entries)) : jobs = Tail(pool.jobs)
  BY <1>3
<1>6. pool' = [pool EXCEPT !.jobs = jobs] /\ pool' = [pool EXCEPT !.jobs = Tail(@)]
  BY <1>5 DEF TakeJob
<1>7. pool' \in Pool' /\ pool'.jobs = jobs /\ pool'.results = pool.results
  BY <1>1, <1>2, <1>6, SetsStay DEF Pool
<1>8. PICK x \in WorkerState :
        /\ x = [worker[k] EXCEPT !.pc = "probe", !.entries = job]
        /\ x.pc = "probe" /\ x.entries = job /\ x.probe = <<>>
  <2>1. PICK y : y = [worker[k] EXCEPT !.pc = "probe", !.entries = job]
    OBVIOUS
  <2>2. y \in WorkerState /\ y.pc = "probe" /\ y.entries = job /\ y.probe = worker[k].probe
    BY <1>2, <2>1 DEF WorkerState
  <2>3. QED
    BY <1>2, <2>1, <2>2
<1>9. worker' = [worker EXCEPT ![k] = x]
  BY <1>2, <1>4, <1>8 DEF TakeJob
<1>10. /\ worker' \in [Workers -> WorkerState]' /\ WorkersFit'
       /\ worker'[k] = x /\ \A j \in Workers \ {k} : worker'[j] = worker[j]
  BY <1>1, <1>4, <1>8, <1>9, WorkerMoves
<1>11. MediaTypes'
  BY <1>1, <1>7, <1>10, RowsStay DEF MediaTypes, ThreadsKnown
<1>12. QED
  BY <1>1, <1>2, <1>3, <1>4, <1>5, <1>6, <1>7, <1>8, <1>10, <1>11

LEMMA ProbeFileTypes ==
  ASSUME MediaTypes, NEW k \in Workers, ProbeFile(k)
  PROVE  /\ MediaTypes'
         /\ worker[k].entries \in Seq(Entries) /\ worker[k].entries # <<>>
         /\ worker'[k].entries = worker[k].entries
         /\ \E probe \in Read :
              /\ worker'[k].probe = <<probe>>
              /\ probe.file = Head(worker[k].entries).file
              /\ probe.stamp = Head(worker[k].entries).stamp
         /\ \A j \in Workers \ {k} : worker'[j] = worker[j]
<1>1. /\ UNCHANGED outside /\ UNCHANGED rows /\ UNCHANGED run /\ UNCHANGED lister
      /\ UNCHANGED walk /\ UNCHANGED walker /\ UNCHANGED pool /\ UNCHANGED writer
      /\ worker[k].pc = "probe" /\ worker[k].entries # <<>>
  BY DEF ProbeFile
<1>2. /\ worker \in [Workers -> WorkerState] /\ worker[k] \in WorkerState
      /\ worker[k].entries \in Seq(Entries)
  BY DEF MediaTypes, ThreadsKnown, WorkerState
<1>3. PICK entry \in Entries : entry = Head(worker[k].entries) /\ entry = worker[k].entries[1]
  BY <1>1, <1>2, RangeHeadTail
<1>4. PICK status \in {"ok", "problem"} :
        worker' = [worker EXCEPT ![k].pc = "send", ![k].probe = <<Probed(entry, status)>>]
  <2>1. entry.file \in Files
    BY DEF Entries
  <2>2. QED
    BY <1>3, <2>1, OutcomesAre DEF ProbeFile
<1>5. PICK probe \in Read : /\ probe = Probed(entry, status)
                            /\ probe.file = entry.file /\ probe.stamp = entry.stamp
  BY ProbedIs DEF MediaTypes
<1>6. PICK x \in WorkerState :
        /\ x = [worker[k] EXCEPT !.pc = "send", !.probe = <<probe>>]
        /\ x.pc = "send" /\ x.probe = <<probe>> /\ x.entries = worker[k].entries
  <2>1. PICK y : y = [worker[k] EXCEPT !.pc = "send", !.probe = <<probe>>]
    OBVIOUS
  <2>2. <<probe>> \in Seq(Read)
    OBVIOUS
  <2>3. y \in WorkerState /\ y.pc = "send" /\ y.probe = <<probe>> /\ y.entries = worker[k].entries
    BY <1>2, <2>1, <2>2 DEF WorkerState
  <2>4. QED
    BY <2>1, <2>3
<1>7. worker' = [worker EXCEPT ![k] = x]
  BY <1>2, <1>4, <1>5, <1>6
<1>8. <<probe>> # <<>> /\ <<probe>>[1] = probe
  OBVIOUS
<1>9. /\ worker' \in [Workers -> WorkerState]' /\ WorkersFit'
      /\ worker'[k] = x /\ \A j \in Workers \ {k} : worker'[j] = worker[j]
  <2>1. /\ x.pc \in {"gone", "idle"} <=> x.entries = <<>>
        /\ x.pc = "send" <=> x.probe # <<>>
        /\ x.probe # <<>> => x.probe[1].file = x.entries[1].file
    BY <1>1, <1>3, <1>5, <1>6, <1>8
  <2>2. QED
    BY <1>1, <1>7, <2>1, WorkerMoves
<1>10. MediaTypes'
  BY <1>1, <1>9, RowsStay DEF MediaTypes, ThreadsKnown
<1>11. QED
  BY <1>1, <1>2, <1>3, <1>5, <1>6, <1>9, <1>10

LEMMA SendResultTypes ==
  ASSUME MediaTypes, NEW k \in Workers, SendResult(k)
  PROVE  /\ MediaTypes'
         /\ worker[k].entries \in Seq(Entries) /\ worker[k].entries # <<>>
         /\ Tail(worker[k].entries) \in Seq(Entries)
         /\ worker'[k].entries = Tail(worker[k].entries) /\ worker'[k].probe = <<>>
         /\ \A j \in Workers \ {k} : worker'[j] = worker[j]
         /\ pool.results \in Seq(Whole) /\ pool'.jobs = pool.jobs
         /\ \E probe \in Read, result \in Whole :
              /\ probe \in Range(worker[k].probe)
              /\ probe.file = Head(worker[k].entries).file
              /\ result.file = probe.file /\ result.stamp = probe.stamp
              /\ pool' = [pool EXCEPT !.results = Append(@, result)]
              /\ pool'.results = Append(pool.results, result)
<1>1. /\ UNCHANGED outside /\ UNCHANGED rows /\ UNCHANGED run /\ UNCHANGED lister
      /\ UNCHANGED walk /\ UNCHANGED walker /\ UNCHANGED writer
      /\ worker[k].pc = "send"
  BY DEF SendResult
<1>2. /\ worker \in [Workers -> WorkerState] /\ worker[k] \in WorkerState
      /\ worker[k].entries \in Seq(Entries) /\ worker[k].entries # <<>>
      /\ worker[k].probe \in Seq(Read) /\ worker[k].probe # <<>>
      /\ worker[k].probe[1].file = worker[k].entries[1].file
      /\ pool \in Pool /\ pool.results \in Seq(Whole)
  BY <1>1 DEF MediaTypes, ThreadsKnown, WorkerState, WorkersFit, Pool
<1>3. PICK probe \in Read : /\ probe = Head(worker[k].probe) /\ probe = worker[k].probe[1]
                            /\ probe \in Range(worker[k].probe)
  BY <1>2, RangeHeadTail
<1>4. PICK result \in Whole : /\ result = Complete(probe)
                              /\ result.file = probe.file /\ result.stamp = probe.stamp
  BY CompleteIs DEF MediaTypes
<1>5. /\ Tail(worker[k].entries) \in Seq(Entries)
      /\ Head(worker[k].entries) = worker[k].entries[1]
  BY <1>2, RangeHeadTail
<1>6. PICK results \in Seq(Whole) : results = Append(pool.results, result)
  <2>1. Append(pool.results, result) \in Seq(Whole)
    BY <1>2, RangeAppend
  <2>2. QED
    BY <2>1
<1>7. pool' = [pool EXCEPT !.results = results]
  BY <1>3, <1>4, <1>6 DEF SendResult
<1>8. pool' \in Pool' /\ pool'.results = results /\ pool'.jobs = pool.jobs
  BY <1>1, <1>2, <1>7, SetsStay DEF Pool
<1>9. PICK rest \in Seq(Entries) : rest = Tail(worker[k].entries)
  BY <1>5
<1>10. PICK pc \in {"idle", "probe"} : pc = IF rest = <<>> THEN "idle" ELSE "probe"
  OBVIOUS
<1>11. PICK x \in WorkerState :
         /\ x = [pc |-> pc, entries |-> rest, probe |-> <<>>]
         /\ x.pc = pc /\ x.entries = rest /\ x.probe = <<>>
  <2>1. <<>> \in Seq(Read)
    OBVIOUS
  <2>2. [pc |-> pc, entries |-> rest, probe |-> <<>>] \in WorkerState
    BY <2>1 DEF WorkerState
  <2>3. QED
    BY <2>2
<1>12. worker' = [worker EXCEPT ![k] = x]
  BY <1>9, <1>10, <1>11 DEF SendResult
<1>13. /\ worker' \in [Workers -> WorkerState]' /\ WorkersFit'
       /\ worker'[k] = x /\ \A j \in Workers \ {k} : worker'[j] = worker[j]
  <2>1. /\ x.pc \in {"gone", "idle"} <=> x.entries = <<>>
        /\ x.pc # "send" /\ x.probe = <<>>
    BY <1>10, <1>11
  <2>2. QED
    BY <1>1, <1>12, <2>1, WorkerMoves
<1>14. MediaTypes'
  BY <1>1, <1>8, <1>13, RowsStay DEF MediaTypes, ThreadsKnown
<1>15. QED
  BY <1>2, <1>3, <1>4, <1>5, <1>6, <1>7, <1>8, <1>9, <1>11, <1>13, <1>14

LEMMA WorkerStops ==
  ASSUME MediaTypes, UNCHANGED outside, NEW k \in Workers, worker' = [worker EXCEPT ![k] = GoneWorker]
  PROVE  /\ worker' \in [Workers -> WorkerState]' /\ WorkersFit'
         /\ worker'[k].entries = <<>> /\ worker'[k].probe = <<>> /\ worker'[k].pc = "gone"
         /\ \A j \in Workers \ {k} : worker'[j] = worker[j]
<1>1. <<>> \in Seq(Read) /\ <<>> \in Seq(Entries)
  OBVIOUS
<1>2. /\ GoneWorker \in WorkerState /\ GoneWorker.pc = "gone"
      /\ GoneWorker.entries = <<>> /\ GoneWorker.probe = <<>>
  BY <1>1 DEF GoneWorker, WorkerState
<1>3. QED
  BY <1>2, WorkerMoves

LEMMA WorkerLeavesTypes ==
  ASSUME MediaTypes, NEW k \in Workers, WorkerLeaves(k)
  PROVE  MediaTypes'
<1>1. /\ UNCHANGED outside /\ UNCHANGED rows /\ UNCHANGED run /\ UNCHANGED lister
      /\ UNCHANGED walk /\ UNCHANGED walker /\ UNCHANGED pool /\ UNCHANGED writer
      /\ worker' = [worker EXCEPT ![k] = GoneWorker]
  BY DEF WorkerLeaves
<1>2. QED
  BY <1>1, WorkerStops, RowsStay DEF MediaTypes, ThreadsKnown

LEMMA WorkerPanicsTypes ==
  ASSUME MediaTypes, NEW k \in Workers, WorkerPanics(k)
  PROVE  MediaTypes' /\ worker[k].entries \in Seq(Entries) /\ worker[k].entries # <<>>
<1>1. /\ UNCHANGED outside /\ UNCHANGED rows /\ UNCHANGED lister
      /\ UNCHANGED walk /\ UNCHANGED walker /\ UNCHANGED pool /\ UNCHANGED writer
      /\ worker' = [worker EXCEPT ![k] = GoneWorker]
      /\ run' = [run EXCEPT !.panics = @ + 1, !.lost = @ + Len(worker[k].entries)]
      /\ worker[k].pc = "probe"
  BY DEF WorkerPanics
<1>2. worker[k].entries \in Seq(Entries) /\ worker[k].entries # <<>>
  BY <1>1 DEF MediaTypes, ThreadsKnown, WorkerState, WorkersFit
<1>3. PICK panics \in Nat, lost \in Nat :
        panics = run.panics + 1 /\ lost = run.lost + Len(worker[k].entries)
  <2>1. run.panics \in Nat /\ run.lost \in Nat
    BY DEF MediaTypes, RunState
  <2>2. PICK n \in Nat : n = Len(worker[k].entries)
    BY <1>2
  <2>3. run.panics + 1 \in Nat /\ run.lost + n \in Nat
    BY <2>1
  <2>4. QED
    BY <2>2, <2>3
<1>4. run' = [run EXCEPT !.panics = panics, !.lost = lost]
  BY <1>1, <1>3
<1>5. run' \in RunState /\ run'.pc = run.pc /\ run'.next = run.next
  BY <1>4 DEF MediaTypes, RunState
<1>6. run' \in RunState' /\ NextFits'
  BY <1>1, <1>5, SetsStay DEF MediaTypes, NextFits
<1>7. QED
  BY <1>1, <1>2, <1>6, WorkerStops, RowsStay DEF MediaTypes, ThreadsKnown

----------------------------------------------------------------------------
(* What the steps of a run do to its progress.                             *)

Framed ==
  /\ run'.kind = run.kind /\ run'.mode = run.mode /\ run'.force = run.force
  /\ run'.max = run.max /\ run'.loaded = run.loaded /\ run'.calm = run.calm

Counts(scanned, sent, received, errors, lost) ==
  /\ run'.scanned = scanned /\ run'.sent = sent /\ run'.received = received
  /\ run'.errors = errors /\ run'.lost = lost

SameCounts == Counts(run.scanned, run.sent, run.received, run.errors, run.lost)

LEMMA GoIs ==
  ASSUME MediaTypes, NEW pc, Go(pc)
  PROVE  /\ Framed /\ run'.pc = pc /\ SameCounts
         /\ run'.targets = run.targets /\ run'.next = run.next
BY DEF MediaTypes, RunState, Go, Framed, Counts, SameCounts

LEMMA OpenDirRun ==
  ASSUME MediaTypes, OpenDir
  PROVE  /\ Framed /\ run'.pc = run.pc /\ run'.targets = run.targets /\ run'.next = run.next
         /\ \/ SameCounts
            \/ Counts(run.scanned, run.sent, run.received, run.errors + 1, run.lost)
<1>1. run' = run \/ run' = [run EXCEPT !.errors = @ + 1]
  BY DEF OpenDir
<1>2. CASE run' = run
  BY <1>2 DEF Framed, Counts, SameCounts
<1>3. CASE run' = [run EXCEPT !.errors = @ + 1]
  BY <1>3 DEF MediaTypes, RunState, Framed, Counts
<1>4. QED
  BY <1>1, <1>2, <1>3

LEMMA NextFileRun ==
  ASSUME MediaTypes, NEW f, NEW entry,
         run' = IF disk[f] = 0 THEN [run EXCEPT !.errors = @ + 1]
                ELSE IF SkipUnchanged(entry) THEN [run EXCEPT !.pc = Again]
                ELSE [run EXCEPT !.scanned = @ + 1, !.next = <<entry>>,
                        !.pc = IF run.mode = "serial" THEN "probe" ELSE "send"]
  PROVE  /\ Framed /\ run'.targets = run.targets
         /\ disk[f] = 0 =>
              /\ run'.pc = run.pc /\ run'.next = run.next
              /\ Counts(run.scanned, run.sent, run.received, run.errors + 1, run.lost)
         /\ disk[f] # 0 /\ SkipUnchanged(entry) =>
              run'.pc = Again /\ run'.next = run.next /\ SameCounts
         /\ disk[f] # 0 /\ ~SkipUnchanged(entry) =>
              /\ run'.pc = IF run.mode = "serial" THEN "probe" ELSE "send"
              /\ run'.next = <<entry>>
              /\ Counts(run.scanned + 1, run.sent, run.received, run.errors, run.lost)
<1>1. run \in RunState
  BY DEF MediaTypes
<1>2. CASE disk[f] = 0
  BY <1>1, <1>2 DEF RunState, Framed, Counts
<1>3. CASE disk[f] # 0 /\ SkipUnchanged(entry)
  <2>1. run' = [run EXCEPT !.pc = Again]
    BY <1>3
  <2>2. QED
    BY <1>1, <1>3, <2>1 DEF RunState, Framed, SameCounts, Counts
<1>4. CASE disk[f] # 0 /\ ~SkipUnchanged(entry)
  <2>1. PICK pc : pc = IF run.mode = "serial" THEN "probe" ELSE "send"
    OBVIOUS
  <2>2. run' = [run EXCEPT !.scanned = @ + 1, !.next = <<entry>>, !.pc = pc]
    BY <1>4, <2>1
  <2>3. QED
    BY <1>1, <1>4, <2>1, <2>2 DEF RunState, Framed, Counts
<1>5. QED
  BY <1>2, <1>3, <1>4

LEMMA ProbeHereRun ==
  ASSUME MediaTypes, ProbeHere
  PROVE  /\ Framed /\ run'.pc = "push" /\ SameCounts /\ run'.targets = run.targets
         /\ run.next \in Seq(Entries) /\ Len(run.next) = 1 /\ run.pc = "probe"
         /\ \E probe \in Read :
              /\ run'.next = <<probe>> /\ probe.file = Head(run.next).file
              /\ probe.stamp = Head(run.next).stamp
<1>1. run \in RunState /\ run.next \in Seq(Entries) /\ Len(run.next) = 1 /\ run.pc = "probe"
  BY DEF ProbeHere, MediaTypes, NextFits
<1>2. PICK entry \in Entries : entry = Head(run.next)
  BY <1>1
<1>3. PICK status \in {"ok", "problem"} :
        run' = [run EXCEPT !.pc = "push", !.next = <<Probed(entry, status)>>]
  <2>1. entry.file \in Files
    BY DEF Entries
  <2>2. QED
    BY <1>2, <2>1, OutcomesAre DEF ProbeHere
<1>4. PICK probe \in Read :
        probe = Probed(entry, status) /\ probe.file = entry.file /\ probe.stamp = entry.stamp
  BY ProbedIs DEF MediaTypes
<1>5. run' = [run EXCEPT !.pc = "push", !.next = <<probe>>]
  BY <1>3, <1>4
<1>6. /\ Framed /\ run'.pc = "push" /\ SameCounts /\ run'.targets = run.targets
      /\ run'.next = <<probe>>
  BY <1>1, <1>5 DEF RunState, Framed, SameCounts, Counts
<1>7. QED
  BY <1>1, <1>2, <1>4, <1>6

LEMMA PushHereRun ==
  ASSUME MediaTypes, PushHere
  PROVE  /\ Framed /\ run'.pc = (IF run.kind = "build" THEN "list" ELSE "targets")
         /\ Counts(run.scanned, run.sent, run.received + 1, run.errors, run.lost)
         /\ run'.targets = run.targets /\ run'.next = <<>>
         /\ run.next \in Seq(Read) /\ Len(run.next) = 1 /\ run.pc = "push"
<1>1. run \in RunState /\ run.next \in Seq(Read) /\ Len(run.next) = 1 /\ run.pc = "push"
  BY DEF PushHere, MediaTypes, NextFits
<1>2. PICK pc : pc = IF run.kind = "build" THEN "list" ELSE "targets"
  OBVIOUS
<1>3. run' = [run EXCEPT !.received = @ + 1, !.next = <<>>, !.pc = pc]
  BY <1>2 DEF PushHere
<1>4. QED
  BY <1>1, <1>2, <1>3 DEF RunState, Framed, Counts

LEMMA NextTargetRun ==
  ASSUME MediaTypes, NextTarget
  PROVE  /\ Framed /\ run'.pc = (IF run.mode = "serial" THEN "probe" ELSE "send")
         /\ run'.next \in Seq(Entries) /\ run'.targets \in Seq(Entries)
         /\ Counts(run.scanned + Len(run'.next), run.sent, run.received, run.errors, run.lost)
         /\ Len(run.targets) = Len(run'.next) + Len(run'.targets)
         /\ Range(run.targets) = Range(run'.next) \cup Range(run'.targets)
<1>1. PICK size \in 1 .. Len(run.targets) : size = JobSize
  BY NextTargetIs
<1>2. PICK next \in Seq(Entries) : next = SubSeq(run.targets, 1, JobSize)
  BY NextTargetIs
<1>3. PICK rest \in Seq(Entries) : rest = SubSeq(run.targets, JobSize + 1, Len(run.targets))
  BY NextTargetIs
<1>4. /\ Len(next) = size /\ Len(rest) = Len(run.targets) - size
      /\ Range(run.targets) = Range(next) \cup Range(rest)
  BY <1>1, <1>2, <1>3, NextTargetIs
<1>5. PICK pc : pc = IF run.mode = "serial" THEN "probe" ELSE "send"
  OBVIOUS
<1>6. run' = [run EXCEPT !.next = next, !.targets = rest, !.scanned = @ + size, !.pc = pc]
  BY <1>1, <1>2, <1>3, <1>5, NextTargetIs
<1>7. Framed /\ run'.pc = pc /\ run'.next = next /\ run'.targets = rest
      /\ Counts(run.scanned + size, run.sent, run.received, run.errors, run.lost)
  BY <1>6 DEF MediaTypes, RunState, Framed, Counts
<1>8. Len(run.targets) \in Nat
  BY DEF MediaTypes, RunState
<1>9. Len(run.targets) = Len(next) + Len(rest)
  BY <1>1, <1>4, <1>8
<1>10. QED
  BY <1>4, <1>5, <1>7, <1>9

LEMMA TakeResultRun ==
  ASSUME MediaTypes, TakeResult
  PROVE  /\ Framed /\ run'.pc = run.pc /\ run'.targets = run.targets /\ run'.next = run.next
         /\ Counts(run.scanned, run.sent, run.received + 1, run.errors, run.lost)
BY DEF TakeResult, MediaTypes, RunState, Framed, Counts

LEMMA TakeEventRun ==
  ASSUME MediaTypes, TakeEvent
  PROVE  /\ Framed /\ run'.pc \in {"drain", "send"} /\ run'.targets = run.targets
         /\ run'.next = ToProbe(Head(walk.events).entries)
         /\ Counts(run.scanned + Len(run'.next), run.sent, run.received,
                   run.errors + Head(walk.events).errors, run.lost)
<1>1. PICK next : next = ToProbe(Head(walk.events).entries)
  OBVIOUS
<1>2. PICK errors : errors = run.errors + Head(walk.events).errors
  OBVIOUS
<1>3. PICK scanned : scanned = run.scanned + Len(next)
  OBVIOUS
<1>4. PICK pc \in {"drain", "send"} : pc = IF next = <<>> THEN "drain" ELSE "send"
  OBVIOUS
<1>5. run' = [run EXCEPT !.errors = errors, !.next = next, !.scanned = scanned, !.pc = pc]
  BY <1>1, <1>2, <1>3, <1>4 DEF TakeEvent
<1>6. Framed /\ run'.pc = pc /\ run'.targets = run.targets /\ run'.next = next
      /\ Counts(scanned, run.sent, run.received, errors, run.lost)
  BY <1>5 DEF MediaTypes, RunState, Framed, Counts
<1>7. QED
  BY <1>1, <1>2, <1>3, <1>4, <1>6

LEMMA SendJobRun ==
  ASSUME MediaTypes, SendJob
  PROVE  /\ Framed /\ run'.pc = "drain" /\ run'.targets = run.targets /\ run'.next = <<>>
         /\ Counts(run.scanned, run.sent + Len(run.next), run.received, run.errors, run.lost)
BY DEF SendJob, MediaTypes, RunState, Framed, Counts

LEMMA WorkerPanicsRun ==
  ASSUME MediaTypes, NEW k \in Workers, WorkerPanics(k)
  PROVE  /\ Framed /\ run'.pc = run.pc /\ run'.targets = run.targets /\ run'.next = run.next
         /\ Counts(run.scanned, run.sent, run.received, run.errors,
                   run.lost + Len(worker[k].entries))
BY DEF WorkerPanics, MediaTypes, RunState, Framed, Counts

LEMMA BuildRun ==
  ASSUME MediaTypes, StartBuild
  PROVE  \E mode \in Modes :
           /\ run'.kind = "build" /\ run'.mode = mode /\ run'.loaded = {} /\ run'.calm
           /\ run'.pc = IF mode = "serial" THEN "list" ELSE "drain"
           /\ run'.max \in Nat /\ run'.targets = <<>> /\ run'.next = <<>> /\ Counts(0, 0, 0, 0, 0)
           /\ StartThreads(mode, IF mode = "parallel" THEN Roots ELSE <<>>)
           /\ lister' = [NoLister EXCEPT !.roots = IF mode = "parallel" THEN <<>> ELSE Roots]
<1>1. PICK mode \in Modes, force \in BOOLEAN, max \in Limits :
        /\ run' = [Resting EXCEPT !.pc = IF mode = "serial" THEN "list" ELSE "drain",
                                  !.mode = mode, !.force = force, !.max = max,
                                  !.runs = run.runs + 1, !.panics = run.panics]
        /\ StartThreads(mode, IF mode = "parallel" THEN Roots ELSE <<>>)
        /\ lister' = [NoLister EXCEPT !.roots = IF mode = "parallel" THEN <<>> ELSE Roots]
  BY DEF StartBuild
<1>2. max \in Nat
  BY MediaAssumption
<1>3. PICK pc : pc = IF mode = "serial" THEN "list" ELSE "drain"
  OBVIOUS
<1>4. run' = [pc |-> pc, kind |-> "build", mode |-> mode, force |-> force, max |-> max,
              targets |-> <<>>, next |-> <<>>, loaded |-> {}, scanned |-> 0, sent |-> 0,
              received |-> 0, errors |-> 0, lost |-> 0, calm |-> TRUE,
              runs |-> run.runs + 1, panics |-> run.panics]
  BY <1>1, <1>3 DEF Resting
<1>5. /\ run'.kind = "build" /\ run'.mode = mode /\ run'.loaded = {} /\ run'.calm
      /\ run'.pc = pc /\ run'.max \in Nat
      /\ run'.targets = <<>> /\ run'.next = <<>> /\ Counts(0, 0, 0, 0, 0)
  BY <1>2, <1>4 DEF Counts
<1>6. QED
  BY <1>1, <1>3, <1>5

LEMMA RepairRun ==
  ASSUME MediaTypes, StartRepair
  PROVE  \E mode \in {"serial", "parallel"} :
           /\ run'.kind = "repair" /\ run'.mode = mode /\ run'.calm /\ run'.pc = "targets"
           /\ run'.max \in Nat /\ run'.targets \in Seq(Entries) /\ Len(run'.targets) <= run'.max
           /\ run'.next = <<>> /\ run'.loaded = FilesOf(run'.targets) /\ Fresh(run'.targets)
           /\ \E errors \in Nat : Counts(0, 0, 0, errors, 0)
           /\ StartThreads(mode, <<>>)
<1>1. PICK mode \in {"serial", "parallel"}, max \in Limits, entries \in Seq(Entries),
           loaded \in SUBSET Files, errors \in Nat :
        /\ run' = [pc |-> "targets", kind |-> "repair", mode |-> mode, force |-> FALSE,
                   max |-> max, targets |-> entries, next |-> <<>>, loaded |-> loaded,
                   scanned |-> 0, sent |-> 0, received |-> 0, errors |-> errors, lost |-> 0,
                   calm |-> TRUE, runs |-> run.runs + 1, panics |-> run.panics]
        /\ StartThreads(mode, <<>>)
        /\ Len(entries) <= max /\ loaded = FilesOf(entries) /\ Fresh(entries)
  BY RepairIs
<1>2. max \in Nat
  BY MediaAssumption
<1>3. /\ run'.kind = "repair" /\ run'.mode = mode /\ run'.calm /\ run'.pc = "targets"
      /\ run'.max = max /\ run'.targets = entries
      /\ run'.next = <<>> /\ run'.loaded = loaded /\ Counts(0, 0, 0, errors, 0)
  BY <1>1 DEF Counts
<1>4. QED
  BY <1>1, <1>2, <1>3

LEMMA EarlyEndRun ==
  ASSUME MediaTypes, Killed \/ SendFails
  PROVE  /\ run'.pc \in {"off", "failed"} /\ run'.next = <<>>
         /\ run'.kind = "build" => run'.targets = <<>> \/ run'.targets = run.targets
         /\ run'.kind # run.kind => run'.kind = "build" /\ run'.targets = <<>>
         /\ run'.mode = run.mode \/ run'.mode = "serial"
         /\ run'.kind = "repair" => run'.mode = run.mode
<1>1. CASE run' = [Resting EXCEPT !.runs = run.runs, !.panics = run.panics]
  BY <1>1 DEF Resting
<1>2. CASE run' = [run EXCEPT !.pc = "failed", !.next = <<>>]
  <2>1. run'.pc = "failed" /\ run'.next = <<>> /\ run'.kind = run.kind
        /\ run'.targets = run.targets /\ run'.mode = run.mode
    BY <1>2 DEF MediaTypes, RunState
  <2>2. QED
    BY <2>1
<1>3. QED
  BY <1>1, <1>2 DEF Killed, SendFails

----------------------------------------------------------------------------
(* Where a run may be.                                                     *)
Running == run.pc \notin Ended
Walking == run.kind = "build" /\ run.mode = "parallel"

Course ==
  /\ run.pc \in {"probe", "push"} => run.mode = "serial"
  /\ run.pc \in {"drain", "send", "event", "join", "rest"} => run.mode # "serial"
  /\ run.pc \in {"event", "join"} => Walking
  /\ run.pc = "list" => run.kind = "build" /\ ~Walking
  /\ run.pc = "targets" => run.kind = "repair"
  /\ run.kind = "repair" => run.mode # "single"
  /\ run.kind = "build" => run.targets = <<>>
  /\ Running => run.scanned + Len(run.targets) <= run.max
  /\ JobsFit

\* A step that only moves a run on.
LEMMA GoCourse ==
  ASSUME MediaTypes, Course, NEW pc, Go(pc), JobsFit', Running,
         pc \in {"probe", "push"} => run.mode = "serial",
         pc \in {"drain", "send", "event", "join", "rest"} => run.mode # "serial",
         pc \in {"event", "join"} => Walking,
         pc = "list" => run.kind = "build" /\ ~Walking,
         pc = "targets" => run.kind = "repair"
  PROVE  Course'
<1>1. /\ Framed /\ run'.pc = pc /\ SameCounts
      /\ run'.targets = run.targets /\ run'.next = run.next
  BY GoIs
<1>2. QED
  BY <1>1 DEF Course, Running, Walking, Framed, SameCounts, Counts

LEMMA JobsStay ==
  ASSUME JobsFit, pool'.jobs = pool.jobs
  PROVE  JobsFit'
BY DEF JobsFit

LEMMA MainCourse ==
  ASSUME MediaTypes, Course, Main
  PROVE  Course'
<1>1. /\ Ended = {"off", "done", "failed"} /\ JobsFit
      /\ run.max \in Nat /\ run.scanned \in Nat /\ run.targets \in Seq(Entries)
      /\ Len(run.targets) \in Nat
  BY DEF Ended, Course, MediaTypes, RunState
<1>2. CASE OpenRoot
  <2>1. Go(Again) /\ UNCHANGED pool /\ Listing
    BY <1>2 DEF OpenRoot, threads
  <2>2. JobsFit'
    BY <1>1, <2>1, JobsStay
  <2>3. Again \in {"list", "drain"} /\ (Again = "drain" => run.mode # "serial")
    BY DEF Again
  <2>4. QED
    BY <1>1, <2>1, <2>2, <2>3, GoCourse DEF Listing, Running, Walking
<1>3. CASE OpenDir
  <2>1. UNCHANGED pool /\ Listing
    BY <1>3 DEF OpenDir, threads
  <2>2. JobsFit'
    BY <1>1, <2>1, JobsStay
  <2>3. /\ Framed /\ run'.pc = run.pc /\ run'.targets = run.targets
        /\ run'.scanned = run.scanned
    BY <1>3, OpenDirRun DEF SameCounts, Counts
  <2>4. QED
    BY <2>2, <2>3 DEF Course, Running, Walking, Framed
<1>4. CASE NextFile
  <2>1. UNCHANGED pool /\ Listing /\ Room
    BY <1>4 DEF NextFile, threads
  <2>2. JobsFit'
    BY <1>1, <2>1, JobsStay
  <2>3. PICK f, entry :
          run' = IF disk[f] = 0 THEN [run EXCEPT !.errors = @ + 1]
                 ELSE IF SkipUnchanged(entry) THEN [run EXCEPT !.pc = Again]
                 ELSE [run EXCEPT !.scanned = @ + 1, !.next = <<entry>>,
                         !.pc = IF run.mode = "serial" THEN "probe" ELSE "send"]
    BY <1>4 DEF NextFile
  <2>4. Again \in {"list", "drain"} /\ (Again = "drain" => run.mode # "serial")
    BY DEF Again
  <2>5. /\ Framed /\ run'.targets = run.targets
        /\ \/ run'.pc = run.pc /\ run'.scanned = run.scanned
           \/ run'.pc = Again /\ run'.scanned = run.scanned
           \/ /\ run'.pc = IF run.mode = "serial" THEN "probe" ELSE "send"
              /\ run'.scanned = run.scanned + 1
    BY <2>3, NextFileRun DEF SameCounts, Counts
  <2>6. run.kind = "build" /\ ~Walking /\ run.targets = <<>> /\ run.scanned < run.max /\ run.pc = "list"
    BY <2>1 DEF Listing, Room, Course, Walking
  <2>7. Len(run.targets) = 0
    BY <2>6
  <2>8. run'.scanned + Len(run'.targets) <= run'.max
    BY <1>1, <2>5, <2>6, <2>7 DEF Framed
  <2>9. run'.pc \in {"list", "probe"} \/ (run'.pc \in {"list", "drain", "send"} /\ run.mode # "serial")
    BY <2>4, <2>5, <2>6
  <2>10. run'.pc = "probe" => run.mode = "serial"
    BY <2>4, <2>5, <2>6
  <2>11. QED
    BY <2>2, <2>5, <2>6, <2>8, <2>9, <2>10 DEF Course, Running, Walking, Framed
<1>5. CASE EndList
  <2>1. /\ Go(IF run.mode = "serial" THEN "flush" ELSE "rest") /\ Listing
        /\ pool' = [pool EXCEPT !.open = FALSE]
    BY <1>5 DEF EndList
  <2>2. JobsFit'
    BY <1>1, <2>1, JobsStay DEF MediaTypes, ThreadsKnown, Pool
  <2>3. QED
    BY <1>1, <2>1, <2>2, GoCourse DEF Listing, Running
<1>6. CASE ProbeHere
  <2>1. UNCHANGED pool
    BY <1>6 DEF ProbeHere, threads
  <2>2. JobsFit'
    BY <1>1, <2>1, JobsStay
  <2>3. Framed /\ run'.pc = "push" /\ SameCounts /\ run'.targets = run.targets /\ run.pc = "probe"
    BY <1>6, ProbeHereRun
  <2>4. QED
    BY <1>1, <2>2, <2>3 DEF Course, Running, Walking, Framed, SameCounts, Counts
<1>7. CASE PushHere
  <2>1. UNCHANGED pool
    BY <1>7 DEF PushHere, threads
  <2>2. JobsFit'
    BY <1>1, <2>1, JobsStay
  <2>3. /\ Framed /\ run'.pc = (IF run.kind = "build" THEN "list" ELSE "targets")
        /\ run'.scanned = run.scanned /\ run'.targets = run.targets /\ run.pc = "push"
    BY <1>7, PushHereRun DEF Counts
  <2>4. run.kind \in {"build", "repair"}
    BY DEF MediaTypes, RunState
  <2>5. QED
    BY <1>1, <2>2, <2>3, <2>4 DEF Course, Running, Walking, Framed
<1>8. CASE NextTarget
  <2>1. UNCHANGED pool /\ run.pc = "targets"
    BY <1>8 DEF NextTarget, threads
  <2>2. JobsFit'
    BY <1>1, <2>1, JobsStay
  <2>3. /\ Framed /\ run'.pc = (IF run.mode = "serial" THEN "probe" ELSE "send")
        /\ run'.next \in Seq(Entries) /\ run'.targets \in Seq(Entries)
        /\ run'.scanned = run.scanned + Len(run'.next)
        /\ Len(run.targets) = Len(run'.next) + Len(run'.targets)
    BY <1>8, NextTargetRun DEF Counts
  <2>4. PICK m \in Nat, n \in Nat : m = Len(run'.next) /\ n = Len(run'.targets)
    BY <2>3
  <2>5. run'.scanned + Len(run'.targets) <= run'.max
    <3>1. run.scanned + Len(run.targets) <= run.max
      BY <1>1, <2>1 DEF Course, Running
    <3>2. run.scanned + (m + n) <= run.max /\ run'.scanned = run.scanned + m /\ run'.max = run.max
      BY <2>3, <2>4, <3>1 DEF Framed
    <3>3. (run.scanned + m) + n <= run.max
      BY <1>1, <3>2
    <3>4. QED
      BY <2>4, <3>2, <3>3
  <2>6. QED
    BY <1>1, <2>1, <2>2, <2>3, <2>5 DEF Course, Running, Walking, Framed
<1>9. CASE EndTargets
  <2>1. /\ Go(IF run.mode = "serial" THEN "flush" ELSE "rest") /\ run.pc = "targets"
        /\ pool' = [pool EXCEPT !.open = FALSE]
    BY <1>9 DEF EndTargets
  <2>2. JobsFit'
    BY <1>1, <2>1, JobsStay DEF MediaTypes, ThreadsKnown, Pool
  <2>3. QED
    BY <1>1, <2>1, <2>2, GoCourse DEF Running
<1>10. CASE DrainResults \/ AwaitResult
  <2>1. TakeResult
    BY <1>10 DEF DrainResults, AwaitResult
  <2>2. pool' = [pool EXCEPT !.results = Tail(@)]
    BY <2>1 DEF TakeResult
  <2>3. JobsFit'
    BY <1>1, <2>2, JobsStay DEF MediaTypes, ThreadsKnown, Pool
  <2>4. Framed /\ run'.pc = run.pc /\ run'.targets = run.targets /\ run'.scanned = run.scanned
    BY <2>1, TakeResultRun DEF Counts
  <2>5. QED
    BY <2>3, <2>4 DEF Course, Running, Walking, Framed
<1>11. CASE Drained
  <2>1. Go(AfterDrain) /\ UNCHANGED pool /\ run.pc = "drain"
    BY <1>11 DEF Drained, threads
  <2>2. JobsFit'
    BY <1>1, <2>1, JobsStay
  <2>3. \/ AfterDrain = "targets" /\ run.kind = "repair"
        \/ AfterDrain = "event" /\ Walking
        \/ AfterDrain = "list" /\ run.kind = "build" /\ ~Walking
    <3>1. run.kind \in {"build", "repair"}
      BY DEF MediaTypes, RunState
    <3>2. CASE run.kind = "repair"
      BY <3>2 DEF AfterDrain
    <3>3. CASE run.kind = "build" /\ run.mode = "parallel"
      BY <3>3 DEF AfterDrain, Walking
    <3>4. CASE run.kind = "build" /\ run.mode # "parallel"
      BY <3>4 DEF AfterDrain, Walking
    <3>5. QED
      BY <3>1, <3>2, <3>3, <3>4
  <2>4. run.mode # "serial" /\ Running
    BY <1>1, <2>1 DEF Course, Running
  <2>5. QED
    BY <2>1, <2>2, <2>3, <2>4, GoCourse
<1>12. CASE TakeEvent
  <2>1. UNCHANGED pool /\ run.pc = "event"
    BY <1>12 DEF TakeEvent
  <2>2. JobsFit'
    BY <1>1, <2>1, JobsStay
  <2>3. /\ Framed /\ run'.pc \in {"drain", "send"} /\ run'.targets = run.targets
        /\ run'.next = ToProbe(Head(walk.events).entries)
        /\ run'.scanned = run.scanned + Len(run'.next)
    BY <1>12, TakeEventRun DEF Counts
  <2>4. Walking /\ run.targets = <<>> /\ run.scanned + Len(run.targets) <= run.max
    BY <1>1, <2>1 DEF Course, Running, Walking
  <2>5. Len(run.targets) = 0 /\ run.scanned <= run.max
    BY <1>1, <2>4
  <2>6. PICK entries \in Seq(Entries) : entries = Head(walk.events).entries
    BY <1>12, TakeEventIs
  <2>7. PICK next \in Seq(Entries) : next = ToProbe(entries) /\ Len(next) <= run.max - run.scanned
    BY <2>5, ToProbeIs
  <2>8. Len(next) \in Nat /\ run'.scanned = run.scanned + Len(next)
    BY <2>3, <2>6, <2>7
  <2>9. run'.scanned <= run.max
    BY <1>1, <2>7, <2>8
  <2>10. run'.scanned + Len(run'.targets) <= run'.max
    BY <1>1, <2>3, <2>5, <2>8, <2>9 DEF Framed
  <2>11. QED
    BY <1>1, <2>1, <2>2, <2>3, <2>4, <2>10 DEF Course, Running, Walking, Framed
<1>13. CASE NoEvent
  <2>1. Go("drain") /\ UNCHANGED pool /\ run.pc = "event"
    BY <1>13 DEF NoEvent, threads
  <2>2. JobsFit'
    BY <1>1, <2>1, JobsStay
  <2>3. run.mode # "serial" /\ Running
    BY <1>1, <2>1 DEF Course, Running
  <2>4. QED
    BY <2>1, <2>2, <2>3, GoCourse
<1>14. CASE StopWalkers
  <2>1. Go("join") /\ UNCHANGED pool /\ run.pc \in {"drain", "event"}
    BY <1>14 DEF StopWalkers
  <2>2. JobsFit'
    BY <1>1, <2>1, JobsStay
  <2>3. run.mode # "serial" /\ Running /\ Walking
    BY <1>1, <1>14, <2>1 DEF Course, Running, StopWalkers, WalkEnds, Walking
  <2>4. QED
    BY <2>1, <2>2, <2>3, GoCourse
<1>15. CASE JoinWalkers
  <2>1. Go("rest") /\ run.pc = "join" /\ pool' = [pool EXCEPT !.open = FALSE]
    BY <1>15 DEF JoinWalkers
  <2>2. JobsFit'
    BY <1>1, <2>1, JobsStay DEF MediaTypes, ThreadsKnown, Pool
  <2>3. run.mode # "serial" /\ Running
    BY <1>1, <2>1 DEF Course, Running
  <2>4. QED
    BY <2>1, <2>2, <2>3, GoCourse
<1>16. CASE SendJob
  <2>1. JobsFit'
    BY <1>1, <1>16, SendJobIs DEF JobsFit
  <2>2. Framed /\ run'.pc = "drain" /\ run'.targets = run.targets /\ run'.scanned = run.scanned
    BY <1>16, SendJobRun DEF Counts
  <2>3. run.pc = "send"
    BY <1>16 DEF SendJob
  <2>4. QED
    BY <1>1, <2>1, <2>2, <2>3 DEF Course, Running, Walking, Framed
<1>17. CASE SendFails
  <2>1. pool'.jobs = <<>>
    BY <1>17 DEF SendFails, StartThreads, NoPool
  <2>2. JobsFit'
    BY <2>1 DEF JobsFit, Range
  <2>3. /\ run'.pc \in {"off", "failed"}
        /\ run'.kind = "build" => run'.targets = <<>> \/ run'.targets = run.targets
        /\ run'.kind # run.kind => run'.kind = "build" /\ run'.targets = <<>>
        /\ run'.kind = "repair" => run'.mode = run.mode
    BY <1>17, EarlyEndRun
  <2>4. QED
    BY <1>1, <2>2, <2>3 DEF Course, Running, Walking
<1>18. CASE EndRest
  <2>1. Go("flush") /\ UNCHANGED pool /\ run.pc = "rest"
    BY <1>18 DEF EndRest, threads
  <2>2. JobsFit'
    BY <1>1, <2>1, JobsStay
  <2>3. QED
    BY <1>1, <2>1, <2>2, GoCourse DEF Running
<1>19. CASE FlushRest
  <2>1. Go("done") /\ UNCHANGED pool /\ run.pc = "flush"
    BY <1>19 DEF FlushRest, threads
  <2>2. JobsFit'
    BY <1>1, <2>1, JobsStay
  <2>3. QED
    BY <1>1, <2>1, <2>2, GoCourse DEF Running
<1>20. QED
  BY <1>2, <1>3, <1>4, <1>5, <1>6, <1>7, <1>8, <1>9, <1>10, <1>11, <1>12, <1>13, <1>14,
     <1>15, <1>16, <1>17, <1>18, <1>19 DEF Main

LEMMA OtherCourse ==
  ASSUME MediaTypes, Course,
         \/ \E f \in Files : EditFile(f)
         \/ StartBuild \/ StartRepair \/ Killed
         \/ \E w \in Walkers : Walker(w)
         \/ \E k \in Workers : Worker(k) \/ WorkerPanics(k)
  PROVE  Course'
<1>1. /\ Ended = {"off", "done", "failed"} /\ JobsFit
      /\ run.max \in Nat /\ run.scanned \in Nat /\ pool \in Pool
  BY DEF Ended, Course, MediaTypes, RunState, ThreadsKnown
<1>2. ASSUME Framed, run'.pc = run.pc, run'.targets = run.targets, run'.scanned = run.scanned, JobsFit'
      PROVE  Course'
  BY <1>2 DEF Course, Running, Walking, Framed
<1>3. ASSUME UNCHANGED run, JobsFit' PROVE Course'
  BY <1>2, <1>3 DEF Framed
<1>4. ASSUME NEW f \in Files, EditFile(f) PROVE Course'
  <2>1. run' = [run EXCEPT !.calm = FALSE] /\ UNCHANGED pool
    BY <1>4 DEF EditFile, threads
  <2>2. /\ run'.pc = run.pc /\ run'.targets = run.targets /\ run'.scanned = run.scanned
        /\ run'.kind = run.kind /\ run'.mode = run.mode /\ run'.max = run.max
    BY <2>1 DEF MediaTypes, RunState
  <2>3. JobsFit'
    BY <1>1, <2>1, JobsStay
  <2>4. QED
    BY <2>2, <2>3 DEF Course, Running, Walking
<1>5. CASE StartBuild
  <2>1. PICK mode \in Modes :
          /\ run'.kind = "build" /\ run'.mode = mode /\ run'.max \in Nat /\ run'.targets = <<>>
          /\ run'.pc = IF mode = "serial" THEN "list" ELSE "drain"
          /\ run'.scanned = 0
          /\ StartThreads(mode, IF mode = "parallel" THEN Roots ELSE <<>>)
    BY <1>5, BuildRun DEF Counts
  <2>2. pool'.jobs = <<>>
    BY <2>1 DEF StartThreads, NoPool
  <2>3. JobsFit'
    BY <2>2 DEF JobsFit, Range
  <2>4. Len(run'.targets) = 0
    BY <2>1
  <2>5. run'.scanned + Len(run'.targets) <= run'.max
    BY <2>1, <2>4
  <2>6. QED
    BY <1>1, <2>1, <2>3, <2>5 DEF Course, Running, Walking
<1>6. CASE StartRepair
  <2>1. PICK mode \in {"serial", "parallel"} :
          /\ run'.kind = "repair" /\ run'.mode = mode /\ run'.pc = "targets"
          /\ run'.max \in Nat /\ run'.targets \in Seq(Entries) /\ Len(run'.targets) <= run'.max
          /\ run'.scanned = 0 /\ StartThreads(mode, <<>>)
    BY <1>6, RepairRun DEF Counts
  <2>2. pool'.jobs = <<>>
    BY <2>1 DEF StartThreads, NoPool
  <2>3. JobsFit'
    BY <2>2 DEF JobsFit, Range
  <2>4. PICK n \in Nat : n = Len(run'.targets)
    BY <2>1
  <2>5. run'.scanned + Len(run'.targets) <= run'.max
    BY <2>1, <2>4
  <2>6. QED
    BY <1>1, <2>1, <2>3, <2>5 DEF Course, Running, Walking
<1>7. CASE Killed
  <2>1. pool'.jobs = <<>>
    BY <1>7 DEF Killed, StartThreads, NoPool
  <2>2. JobsFit'
    BY <2>1 DEF JobsFit, Range
  <2>3. /\ run'.pc \in {"off", "failed"}
        /\ run'.kind = "build" => run'.targets = <<>> \/ run'.targets = run.targets
        /\ run'.kind # run.kind => run'.kind = "build" /\ run'.targets = <<>>
        /\ run'.kind = "repair" => run'.mode = run.mode
    BY <1>7, EarlyEndRun
  <2>4. QED
    BY <1>1, <2>2, <2>3 DEF Course, Running, Walking
<1>8. ASSUME NEW w \in Walkers, Walker(w) PROVE Course'
  <2>1. UNCHANGED run /\ UNCHANGED pool
    BY <1>8 DEF Walker, Skip, Enumerate, SendStats, QueueDir, SendEntries, DirDone, WalkerLeaves
  <2>2. QED
    BY <1>1, <1>3, <2>1, JobsStay
<1>9. ASSUME NEW k \in Workers, Worker(k) PROVE Course'
  <2>1. UNCHANGED run
    BY <1>9 DEF Worker, TakeJob, ProbeFile, SendResult, WorkerLeaves
  <2>2. CASE TakeJob(k)
    <3>1. pool.jobs \in Seq(Seq(Entries)) /\ pool.jobs # <<>> /\ pool'.jobs = Tail(pool.jobs)
      BY <1>1, <2>2, TakeJobTypes
    <3>2. Range(pool'.jobs) \subseteq Range(pool.jobs)
      BY <3>1, RangeHeadTail
    <3>3. QED
      BY <1>1, <1>3, <2>1, <3>2 DEF JobsFit
  <2>3. CASE ProbeFile(k) \/ WorkerLeaves(k)
    <3>1. UNCHANGED pool
      BY <2>3 DEF ProbeFile, WorkerLeaves
    <3>2. QED
      BY <1>1, <1>3, <2>1, <3>1, JobsStay
  <2>4. CASE SendResult(k)
    <3>1. pool'.jobs = pool.jobs
      BY <2>4, SendResultTypes
    <3>2. QED
      BY <1>1, <1>3, <2>1, <3>1, JobsStay
  <2>5. QED
    BY <1>9, <2>2, <2>3, <2>4 DEF Worker
<1>10. ASSUME NEW k \in Workers, WorkerPanics(k) PROVE Course'
  <2>1. UNCHANGED pool
    BY <1>10 DEF WorkerPanics
  <2>2. JobsFit'
    BY <1>1, <2>1, JobsStay
  <2>3. /\ Framed /\ run'.pc = run.pc /\ run'.targets = run.targets
        /\ run'.scanned = run.scanned
    BY <1>10, WorkerPanicsRun DEF Counts
  <2>4. QED
    BY <1>2, <2>2, <2>3
<1>11. QED
  BY <1>4, <1>5, <1>6, <1>7, <1>8, <1>9, <1>10

----------------------------------------------------------------------------
(* Rows tell what the files are.                                           *)

LEMMA FirstTypes ==
  ASSUME Init
  PROVE  MediaTypes /\ Course
<1>1. DiskKnown
  BY DEF Init, DiskKnown, Version
<1>2. RowsKnown
  <2>1. rows \in [Files -> EarlierRow \cup {NoRow}] /\ edits = 0
    BY EarlierAssumption DEF Init
  <2>2. ASSUME NEW row \in EarlierRow PROVE row \in RowSet
    BY <2>1 DEF EarlierRow, RowSet, Stamps, Version
  <2>3. ASSUME NEW f \in Files, NEW row \in EarlierRow PROVE Honest(row, f)
    <3>1. disk[f] = 2
      BY DEF Init
    <3>2. QED
      BY <3>1 DEF EarlierRow, Honest
  <2>4. NoRow \in RowSet
    BY DEF RowSet
  <2>5. QED
    BY <2>1, <2>2, <2>3, <2>4 DEF RowsKnown
<1>3. /\ <<>> \in Seq(Entries) /\ <<>> \in Seq(Read) /\ <<>> \in Seq(Whole)
      /\ <<>> \in Seq(Event) /\ <<>> \in Seq(Seq(Entries)) /\ <<>> \in Seq(Dirs)
  OBVIOUS
<1>4. run \in RunState /\ run.pc = "off" /\ run.next = <<>> /\ run.targets = <<>>
      /\ run.kind = "build"
  BY RestingKnown DEF Init, Resting
<1>5. ThreadsKnown
  <2>1. lister \in Lister
    BY RestingKnown DEF Init
  <2>2. walk \in Walk
    BY <1>3 DEF Init, NoWalk, Walk
  <2>3. walker \in [Walkers -> WalkerState]
    <3>1. Gone \in WalkerState
      BY <1>3 DEF Gone, WalkerState
    <3>2. QED
      BY <3>1 DEF Init
  <2>4. pool \in Pool
    BY <1>3 DEF Init, NoPool, Pool
  <2>5. worker \in [Workers -> WorkerState]
    <3>1. GoneWorker \in WorkerState
      BY <1>3 DEF GoneWorker, WorkerState
    <3>2. QED
      BY <3>1 DEF Init
  <2>6. QED
    BY <1>3, <2>1, <2>2, <2>3, <2>4, <2>5 DEF ThreadsKnown, Init
<1>6. NextFits /\ WorkersFit /\ WalkersFit
  BY <1>4 DEF NextFits, WorkersFit, WalkersFit, Init, Gone, GoneWorker
<1>7. Course
  <2>1. pool.jobs = <<>>
    BY DEF Init, NoPool
  <2>2. JobsFit
    BY <2>1 DEF JobsFit, Range
  <2>3. QED
    BY <1>4, <2>2 DEF Course, Running, Ended
<1>8. QED
  BY <1>1, <1>2, <1>4, <1>5, <1>6, <1>7 DEF MediaTypes

LEMMA TypesStep ==
  ASSUME MediaTypes, Course, [Next]_mediaVars
  PROVE  MediaTypes' /\ Course'
<1>1. CASE UNCHANGED mediaVars
  BY <1>1, RowsStay DEF mediaVars, threads, outside, MediaTypes, ThreadsKnown, Course,
     Running, Walking, JobsFit
<1>2. CASE Main
  <2>1. Course'
    BY <1>2, MainCourse
  <2>2. MediaTypes'
    <3>1. CASE OpenRoot \/ EndList \/ EndTargets \/ Drained \/ NoEvent \/ StopWalkers
               \/ JoinWalkers \/ EndRest
      BY <3>1, TurnTypes
    <3>2. CASE TakeEvent
      <4>1. run.scanned <= run.max
        <5>1. /\ run.pc = "event" /\ run.max \in Nat /\ run.scanned \in Nat
              /\ run.targets = <<>>
          BY <3>2 DEF TakeEvent, MediaTypes, RunState, Course, Walking
        <5>2. Len(run.targets) = 0
          BY <5>1
        <5>3. QED
          BY <5>1, <5>2 DEF Course, Running, Ended
      <4>2. QED
        BY <3>2, <4>1, TakeEventTypes
    <3>3. CASE DrainResults \/ AwaitResult
      BY <3>3, TakeResultTypes DEF DrainResults, AwaitResult
    <3>4. QED
      BY <1>2, <3>1, <3>2, <3>3, OpenDirTypes, NextFileTypes, ProbeHereTypes, PushHereTypes,
         NextTargetTypes, SendJobTypes, RunEndsEarly, FlushRestTypes DEF Main
  <2>3. QED
    BY <2>1, <2>2
<1>3. ASSUME NEW f \in Files, EditFile(f) PROVE MediaTypes'
  BY <1>3, EditTypes
<1>4. CASE StartBuild \/ StartRepair \/ Killed
  BY <1>4, BuildStarts, RepairStarts, RunEndsEarly, OtherCourse
<1>5. ASSUME NEW w \in Walkers, Walker(w) PROVE MediaTypes'
  BY <1>5, SkipTypes, EnumerateTypes, SendStatsTypes, QueueDirTypes, SendEntriesTypes,
     DirDoneTypes, WalkerLeavesTypes DEF Walker
<1>6. ASSUME NEW k \in Workers, Worker(k) \/ WorkerPanics(k) PROVE MediaTypes'
  <2>1. JobsFit
    BY DEF Course
  <2>2. QED
    BY <1>6, <2>1, TakeJobTypes, ProbeFileTypes, SendResultTypes, WorkerLeavesTypes,
       WorkerPanicsTypes DEF Worker
<1>7. QED
  BY <1>1, <1>2, <1>3, <1>4, <1>5, <1>6, OtherCourse DEF Next

\* What is read of a file is told from what it is by its stamp, on whichever
\* way it goes from the listing to the table, in every mode of every run.
THEOREM MediaTypeCorrect == Spec => [](MediaTypes /\ Course)
<1>1. Init => MediaTypes /\ Course
  BY FirstTypes
<1>2. MediaTypes /\ Course /\ [Next]_mediaVars => (MediaTypes /\ Course)'
  BY TypesStep
<1>3. QED
  BY <1>1, <1>2, PTL DEF Spec

\* A row that passes for current describes the file as it is, however many
\* threads read while other programs write (should_skip_unchanged,
\* write_probes_tx).
THEOREM StampsAreHonest == Spec => []StampsHonest
<1>1. MediaTypes /\ Course => StampsHonest
  BY DEF MediaTypes, RowsKnown, Honest, StampsHonest
<1>2. QED
  BY <1>1, MediaTypeCorrect, PTL

----------------------------------------------------------------------------
(* Counting what is on its way.                                            *)

JobPlaces(jobs) == UNION {{<<"job", i, j>> : j \in DOMAIN jobs[i]} : i \in DOMAIN jobs}
WorkPlaces(of)  == UNION {{<<"worker", k, j>> : j \in DOMAIN of[k].entries} : k \in Workers}

Column(a, k, n) == {<<a, k, j>> : j \in 1 .. n}

LEMMA Apart ==
  ASSUME NEW S, NEW T, IsFiniteSet(S), IsFiniteSet(T), S \cap T = {}
  PROVE  /\ IsFiniteSet(S \cup T) /\ Cardinality(S) \in Nat /\ Cardinality(T) \in Nat
         /\ Cardinality(S \cup T) = Cardinality(S) + Cardinality(T)
<1>1. /\ IsFiniteSet(S \cup T)
      /\ Cardinality(S \cup T) = Cardinality(S) + Cardinality(T) - Cardinality(S \cap T)
  BY FS_Union
<1>2. Cardinality(S \cap T) = 0
  BY FS_EmptySet
<1>3. Cardinality(S) \in Nat /\ Cardinality(T) \in Nat
  BY FS_CardinalityType
<1>4. QED
  BY <1>1, <1>2, <1>3

LEMMA ColumnIs ==
  ASSUME NEW a, NEW k, NEW n \in Nat
  PROVE  IsFiniteSet(Column(a, k, n)) /\ Cardinality(Column(a, k, n)) = n
<1> DEFINE f == [j \in 1 .. n |-> <<a, k, j>>]
<1>1. f \in Bijection(1 .. n, Column(a, k, n))
  <2>1. f \in Injection(1 .. n, Column(a, k, n))
    BY DEF Column, Injection, IsInjective
  <2>2. f \in Surjection(1 .. n, Column(a, k, n))
    BY DEF Column, Surjection
  <2>3. QED
    BY <2>1, <2>2 DEF Bijection
<1>2. IsFiniteSet(1 .. n) /\ Cardinality(1 .. n) = n
  BY FS_Interval
<1>3. ExistsBijection(1 .. n, Column(a, k, n))
  BY <1>1 DEF ExistsBijection
<1>4. QED
  BY <1>2, <1>3, FS_Bijection

LEMMA JobPlacesFinite ==
  ASSUME NEW E, NEW jobs \in Seq(Seq(E))
  PROVE  IsFiniteSet(JobPlaces(jobs)) /\ Cardinality(JobPlaces(jobs)) \in Nat
<1> DEFINE col(i) == {<<"job", i, j>> : j \in DOMAIN jobs[i]}
           cols == {col(i) : i \in DOMAIN jobs}
           f == [i \in DOMAIN jobs |-> col(i)]
<1>1. PICK n \in Nat : DOMAIN jobs = 1 .. n
  OBVIOUS
<1>2. ASSUME NEW i \in DOMAIN jobs PROVE IsFiniteSet(col(i))
  <2>1. jobs[i] \in Seq(E)
    OBVIOUS
  <2>2. PICK m \in Nat : DOMAIN jobs[i] = 1 .. m
    BY <2>1
  <2>3. col(i) = Column("job", i, m)
    BY <2>2 DEF Column
  <2>4. IsFiniteSet(Column("job", i, m))
    BY ColumnIs
  <2> HIDE DEF col
  <2>5. QED
    BY <2>3, <2>4
<1>3. IsFiniteSet(cols)
  <2>1. f \in Surjection(DOMAIN jobs, cols)
    BY DEF Surjection
  <2>2. IsFiniteSet(DOMAIN jobs)
    BY <1>1, FS_Interval
  <2>3. QED
    BY <2>1, <2>2, FS_Surjection
<1>4. \A T \in cols : IsFiniteSet(T)
  BY <1>2
<1> HIDE DEF cols
<1>5. IsFiniteSet(UNION cols)
  BY <1>3, <1>4, FS_UNION
<1>6. QED
  BY <1>5, FS_CardinalityType DEF JobPlaces, cols

\* A job more, and a job less.
LEMMA JobsEnd ==
  ASSUME NEW E, NEW jobs \in Seq(Seq(E)), NEW job \in Seq(E)
  PROVE  Cardinality(JobPlaces(Append(jobs, job))) = Cardinality(JobPlaces(jobs)) + Len(job)
<1>1. PICK n \in Nat : n = Len(jobs) /\ DOMAIN jobs = 1 .. n
  OBVIOUS
<1>2. PICK m \in Nat : m = Len(job) /\ DOMAIN job = 1 .. m
  OBVIOUS
<1>3. PICK more : more = Append(jobs, job)
  OBVIOUS
<1>4. /\ DOMAIN more = 1 .. n + 1 /\ more[n + 1] = job
      /\ \A i \in 1 .. n : more[i] = jobs[i]
  BY <1>1, <1>3
<1>5. \A i \in 1 .. n + 1 : i \in 1 .. n \/ i = n + 1
  OBVIOUS
<1>6. n + 1 \in 1 .. n + 1 /\ \A i \in 1 .. n : i \in 1 .. n + 1 /\ i # n + 1
  OBVIOUS
<1>7. JobPlaces(more) \subseteq JobPlaces(jobs) \cup Column("job", n + 1, m)
  <2> SUFFICES ASSUME NEW p \in JobPlaces(more)
               PROVE  p \in JobPlaces(jobs) \cup Column("job", n + 1, m)
    OBVIOUS
  <2>0. PICK i \in 1 .. n + 1 : \E j \in DOMAIN more[i] : p = <<"job", i, j>>
    BY <1>4 DEF JobPlaces
  <2>1. PICK j \in DOMAIN more[i] : p = <<"job", i, j>>
    BY <2>0
  <2>2. CASE i \in 1 .. n
    BY <1>1, <1>4, <2>1, <2>2 DEF JobPlaces
  <2>3. CASE i = n + 1
    BY <1>2, <1>4, <2>1, <2>3 DEF Column
  <2>4. QED
    BY <1>5, <2>2, <2>3
<1>8. JobPlaces(jobs) \subseteq JobPlaces(more)
  <2> SUFFICES ASSUME NEW p \in JobPlaces(jobs) PROVE p \in JobPlaces(more)
    OBVIOUS
  <2>0. PICK i \in 1 .. n : \E j \in DOMAIN jobs[i] : p = <<"job", i, j>>
    BY <1>1 DEF JobPlaces
  <2>1. PICK j \in DOMAIN jobs[i] : p = <<"job", i, j>>
    BY <2>0
  <2>2. i \in DOMAIN more /\ j \in DOMAIN more[i]
    BY <1>4, <1>6
  <2>3. QED
    BY <2>1, <2>2 DEF JobPlaces
<1>9. Column("job", n + 1, m) \subseteq JobPlaces(more)
  <2> SUFFICES ASSUME NEW p \in Column("job", n + 1, m) PROVE p \in JobPlaces(more)
    OBVIOUS
  <2>1. PICK j \in 1 .. m : p = <<"job", n + 1, j>>
    BY DEF Column
  <2>2. n + 1 \in DOMAIN more /\ j \in DOMAIN more[n + 1]
    BY <1>2, <1>4, <1>6
  <2>3. QED
    BY <2>1, <2>2 DEF JobPlaces
<1>10. JobPlaces(jobs) \cap Column("job", n + 1, m) = {}
  <2> SUFFICES ASSUME NEW p \in JobPlaces(jobs), p \in Column("job", n + 1, m) PROVE FALSE
    OBVIOUS
  <2>0. PICK i \in 1 .. n : \E j \in DOMAIN jobs[i] : p = <<"job", i, j>>
    BY <1>1 DEF JobPlaces
  <2>1. PICK j \in DOMAIN jobs[i] : p = <<"job", i, j>>
    BY <2>0
  <2>2. PICK h \in 1 .. m : p = <<"job", n + 1, h>>
    BY DEF Column
  <2>3. i = n + 1
    BY <2>1, <2>2
  <2>4. QED
    BY <1>6, <2>3
<1>11. JobPlaces(more) = JobPlaces(jobs) \cup Column("job", n + 1, m)
  BY <1>7, <1>8, <1>9
<1>12. IsFiniteSet(Column("job", n + 1, m)) /\ Cardinality(Column("job", n + 1, m)) = m
  BY ColumnIs
<1>13. Cardinality(JobPlaces(more)) = Cardinality(JobPlaces(jobs)) + m
  BY <1>10, <1>11, <1>12, JobPlacesFinite, Apart
<1>14. QED
  BY <1>2, <1>3, <1>13

LEMMA JobsFront ==
  ASSUME NEW E, NEW jobs \in Seq(Seq(E)), jobs # <<>>
  PROVE  Cardinality(JobPlaces(jobs)) = Cardinality(JobPlaces(Tail(jobs))) + Len(Head(jobs))
<1>1. PICK rest \in Seq(Seq(E)), job \in Seq(E) : rest = Tail(jobs) /\ job = Head(jobs)
  BY RangeHeadTail
<1>2. PICK n \in Nat : Len(jobs) = n + 1 /\ DOMAIN jobs = 1 .. n + 1 /\ DOMAIN rest = 1 .. n
  <2>1. Len(jobs) \in Nat \ {0} /\ DOMAIN jobs = 1 .. Len(jobs) /\ Len(rest) = Len(jobs) - 1
        /\ Len(rest) \in Nat /\ DOMAIN rest = 1 .. Len(rest)
    BY <1>1
  <2>2. PICK n \in Nat : n = Len(rest)
    BY <2>1
  <2>3. Len(jobs) = n + 1
    BY <2>1, <2>2
  <2>4. QED
    BY <2>1, <2>2, <2>3
<1>3. jobs[1] = job /\ \A i \in 1 .. n : rest[i] = jobs[i + 1]
  BY <1>1, <1>2
<1>4. PICK m \in Nat : m = Len(job) /\ DOMAIN job = 1 .. m
  OBVIOUS
<1>5. /\ \A i \in 1 .. n : i + 1 \in 1 .. n + 1 /\ i + 1 # 1
      /\ \A i \in 1 .. n + 1 : i = 1 \/ (i - 1 \in 1 .. n /\ i = (i - 1) + 1)
      /\ 1 \in 1 .. n + 1
      /\ \A i, k \in 1 .. n : i + 1 = k + 1 => i = k
  OBVIOUS
<1> DEFINE later == {<<"job", p[2] + 1, p[3]>> : p \in JobPlaces(rest)}
           f == [p \in JobPlaces(rest) |-> <<"job", p[2] + 1, p[3]>>]
<1>6. \A p \in JobPlaces(rest) :
        \E i \in 1 .. n : \E j \in DOMAIN jobs[i + 1] : p = <<"job", i, j>>
  BY <1>2, <1>3 DEF JobPlaces
<1>7. \A i \in 1 .. n : \A j \in DOMAIN jobs[i + 1] : <<"job", i, j>> \in JobPlaces(rest)
  BY <1>2, <1>3 DEF JobPlaces
<1>8. f \in Bijection(JobPlaces(rest), later)
  <2>1. ASSUME NEW p \in JobPlaces(rest), NEW q \in JobPlaces(rest), f[p] = f[q] PROVE p = q
    <3>0. PICK i \in 1 .. n : \E j \in DOMAIN jobs[i + 1] : p = <<"job", i, j>>
      BY <1>6
    <3>1. PICK j \in DOMAIN jobs[i + 1] : p = <<"job", i, j>>
      BY <3>0
    <3>9. PICK k \in 1 .. n : \E h \in DOMAIN jobs[k + 1] : q = <<"job", k, h>>
      BY <1>6
    <3>2. PICK h \in DOMAIN jobs[k + 1] : q = <<"job", k, h>>
      BY <3>9
    <3>3. <<"job", i + 1, j>> = <<"job", k + 1, h>>
      BY <2>1, <3>1, <3>2
    <3>4. QED
      BY <1>5, <3>1, <3>2, <3>3
  <2>2. f \in [JobPlaces(rest) -> later]
    OBVIOUS
  <2>3. f \in Injection(JobPlaces(rest), later)
    BY <2>1, <2>2 DEF Injection, IsInjective
  <2>4. f \in Surjection(JobPlaces(rest), later)
    BY <2>2 DEF Surjection
  <2>5. QED
    BY <2>3, <2>4 DEF Bijection
<1>9. IsFiniteSet(later) /\ Cardinality(later) = Cardinality(JobPlaces(rest))
  <2>1. ExistsBijection(JobPlaces(rest), later)
    BY <1>8 DEF ExistsBijection
  <2>2. QED
    BY <2>1, JobPlacesFinite, FS_Bijection
<1>10. \A p : p \in later <=>
         \E i \in 1 .. n : \E j \in DOMAIN jobs[i + 1] : p = <<"job", i + 1, j>>
  <2>1. ASSUME NEW p \in later
        PROVE  \E i \in 1 .. n : \E j \in DOMAIN jobs[i + 1] : p = <<"job", i + 1, j>>
    <3>1. PICK q \in JobPlaces(rest) : p = <<"job", q[2] + 1, q[3]>>
      OBVIOUS
    <3>9. PICK i \in 1 .. n : \E j \in DOMAIN jobs[i + 1] : q = <<"job", i, j>>
      BY <1>6
    <3>2. PICK j \in DOMAIN jobs[i + 1] : q = <<"job", i, j>>
      BY <3>9
    <3>3. QED
      BY <3>1, <3>2
  <2>2. ASSUME NEW i \in 1 .. n, NEW j \in DOMAIN jobs[i + 1]
        PROVE  <<"job", i + 1, j>> \in later
    <3>1. <<"job", i, j>> \in JobPlaces(rest)
      BY <1>7
    <3>2. PICK q \in JobPlaces(rest) : q = <<"job", i, j>>
      BY <3>1
    <3>3. <<"job", q[2] + 1, q[3]>> = <<"job", i + 1, j>>
      BY <3>2
    <3>4. QED
      BY <3>3
  <2>3. QED
    BY <2>1, <2>2
<1> HIDE DEF later, f
<1>11. JobPlaces(jobs) = later \cup Column("job", 1, m)
  <2>1. ASSUME NEW p \in JobPlaces(jobs) PROVE p \in later \cup Column("job", 1, m)
    <3>0. PICK i \in 1 .. n + 1 : \E j \in DOMAIN jobs[i] : p = <<"job", i, j>>
      BY <1>2 DEF JobPlaces
    <3>1. PICK j \in DOMAIN jobs[i] : p = <<"job", i, j>>
      BY <3>0
    <3>2. CASE i = 1
      BY <1>3, <1>4, <3>1, <3>2 DEF Column
    <3>3. CASE i - 1 \in 1 .. n /\ i = (i - 1) + 1
      BY <1>10, <3>1, <3>3
    <3>4. QED
      BY <1>5, <3>2, <3>3
  <2>2. ASSUME NEW p \in later PROVE p \in JobPlaces(jobs)
    <3>0. PICK i \in 1 .. n : \E j \in DOMAIN jobs[i + 1] : p = <<"job", i + 1, j>>
      BY <1>10
    <3>1. PICK j \in DOMAIN jobs[i + 1] : p = <<"job", i + 1, j>>
      BY <3>0
    <3>2. i + 1 \in DOMAIN jobs
      BY <1>2, <1>5
    <3>3. QED
      BY <3>1, <3>2 DEF JobPlaces
  <2>3. ASSUME NEW p \in Column("job", 1, m) PROVE p \in JobPlaces(jobs)
    <3>1. PICK j \in 1 .. m : p = <<"job", 1, j>>
      BY DEF Column
    <3>2. 1 \in DOMAIN jobs /\ j \in DOMAIN jobs[1]
      BY <1>2, <1>3, <1>4, <1>5
    <3>3. QED
      BY <3>1, <3>2 DEF JobPlaces
  <2>4. QED
    BY <2>1, <2>2, <2>3
<1>12. later \cap Column("job", 1, m) = {}
  <2> SUFFICES ASSUME NEW p \in later, p \in Column("job", 1, m) PROVE FALSE
    OBVIOUS
  <2>0. PICK i \in 1 .. n : \E j \in DOMAIN jobs[i + 1] : p = <<"job", i + 1, j>>
    BY <1>10
  <2>1. PICK j \in DOMAIN jobs[i + 1] : p = <<"job", i + 1, j>>
    BY <2>0
  <2>2. PICK h \in 1 .. m : p = <<"job", 1, h>>
    BY DEF Column
  <2>3. i + 1 = 1
    BY <2>1, <2>2
  <2>4. QED
    BY <1>5, <2>3
<1>13. IsFiniteSet(Column("job", 1, m)) /\ Cardinality(Column("job", 1, m)) = m
  BY ColumnIs
<1>14. Cardinality(later \cup Column("job", 1, m)) = Cardinality(later) + Cardinality(Column("job", 1, m))
  <2>1. IsFiniteSet(later)
    BY <1>9
  <2>2. QED
    BY <2>1, <1>12, <1>13, Apart
<1>15. Cardinality(JobPlaces(jobs)) = Cardinality(JobPlaces(rest)) + m
  BY <1>9, <1>11, <1>13, <1>14
<1>16. QED
  BY <1>1, <1>4, <1>15

\* One worker changes what it has.
LEMMA WorkChanges ==
  ASSUME NEW of, NEW to, NEW k \in Workers,
         \A j \in Workers : of[j].entries \in Seq(Entries), to[k].entries \in Seq(Entries),
         \A j \in Workers \ {k} : to[j] = of[j]
  PROVE  \E n \in Nat : /\ Cardinality(WorkPlaces(of)) = n + Len(of[k].entries)
                        /\ Cardinality(WorkPlaces(to)) = n + Len(to[k].entries)
<1> DEFINE col(j) == {<<"worker", j, i>> : i \in DOMAIN of[j].entries}
           others == Workers \ {k}
           cols == {col(j) : j \in others}
           f == [j \in others |-> col(j)]
           rest == UNION cols
<1>1. ASSUME NEW j \in others PROVE IsFiniteSet(col(j))
  <2>1. PICK m \in Nat : DOMAIN of[j].entries = 1 .. m
    OBVIOUS
  <2>2. col(j) = Column("worker", j, m)
    BY <2>1 DEF Column
  <2>3. IsFiniteSet(Column("worker", j, m))
    BY ColumnIs
  <2> HIDE DEF col
  <2>4. QED
    BY <2>2, <2>3
<1>2. IsFiniteSet(others)
  BY MediaAssumption, FS_Difference
<1>3. IsFiniteSet(cols)
  <2>1. f \in Surjection(others, cols)
    BY DEF Surjection
  <2>2. QED
    BY <1>2, <2>1, FS_Surjection
<1>4. IsFiniteSet(rest)
  <2>1. \A T \in cols : IsFiniteSet(T)
    BY <1>1
  <2> HIDE DEF cols
  <2>2. QED
    BY <1>3, <2>1, FS_UNION
<1>5. \A p : p \in rest <=> \E j \in others : \E i \in DOMAIN of[j].entries : p = <<"worker", j, i>>
  OBVIOUS
<1> HIDE DEF rest, cols, f
<1>6. ASSUME NEW x, \A j \in others : x[j] = of[j], x[k].entries \in Seq(Entries)
      PROVE  Cardinality(WorkPlaces(x)) = Cardinality(rest) + Len(x[k].entries)
  <2>1. PICK m \in Nat : m = Len(x[k].entries) /\ DOMAIN x[k].entries = 1 .. m
    BY <1>6
  <2>2. WorkPlaces(x) = rest \cup Column("worker", k, m)
    <3>1. ASSUME NEW p \in WorkPlaces(x) PROVE p \in rest \cup Column("worker", k, m)
      <4>0. PICK j \in Workers : \E i \in DOMAIN x[j].entries : p = <<"worker", j, i>>
        BY DEF WorkPlaces
      <4>1. PICK i \in DOMAIN x[j].entries : p = <<"worker", j, i>>
        BY <4>0
      <4>2. CASE j = k
        BY <2>1, <4>1, <4>2 DEF Column
      <4>3. CASE j \in others
        BY <1>5, <1>6, <4>1, <4>3
      <4>4. QED
        BY <4>2, <4>3
    <3>2. ASSUME NEW p \in rest PROVE p \in WorkPlaces(x)
      <4>0. PICK j \in others : \E i \in DOMAIN of[j].entries : p = <<"worker", j, i>>
        BY <1>5
      <4>1. PICK i \in DOMAIN of[j].entries : p = <<"worker", j, i>>
        BY <4>0
      <4>2. j \in Workers /\ i \in DOMAIN x[j].entries
        BY <1>6, <4>1
      <4>3. QED
        BY <4>1, <4>2 DEF WorkPlaces
    <3>3. ASSUME NEW p \in Column("worker", k, m) PROVE p \in WorkPlaces(x)
      <4>1. PICK i \in 1 .. m : p = <<"worker", k, i>>
        BY DEF Column
      <4>2. i \in DOMAIN x[k].entries
        BY <2>1
      <4>3. QED
        BY <4>1, <4>2 DEF WorkPlaces
    <3>4. QED
      BY <3>1, <3>2, <3>3
  <2>3. rest \cap Column("worker", k, m) = {}
    <3> SUFFICES ASSUME NEW p \in rest, p \in Column("worker", k, m) PROVE FALSE
      OBVIOUS
    <3>0. PICK j \in others : \E i \in DOMAIN of[j].entries : p = <<"worker", j, i>>
      BY <1>5
    <3>1. PICK i \in DOMAIN of[j].entries : p = <<"worker", j, i>>
      BY <3>0
    <3>2. PICK h \in 1 .. m : p = <<"worker", k, h>>
      BY DEF Column
    <3>3. j = k
      BY <3>1, <3>2
    <3>4. QED
      BY <3>3
  <2>4. IsFiniteSet(Column("worker", k, m)) /\ Cardinality(Column("worker", k, m)) = m
    BY ColumnIs
  <2>5. QED
    BY <1>4, <2>1, <2>2, <2>3, <2>4, Apart
<1>7. Cardinality(rest) \in Nat
  BY <1>4, FS_CardinalityType
<1>8. Cardinality(WorkPlaces(of)) = Cardinality(rest) + Len(of[k].entries)
  BY <1>6
<1>9. Cardinality(WorkPlaces(to)) = Cardinality(rest) + Len(to[k].entries)
  BY <1>6
<1>10. QED
  BY <1>7, <1>8, <1>9

\* What the workers have, with one of them set apart.
LEMMA WorkOf ==
  ASSUME NEW k \in Workers, NEW to, \A j \in Workers : worker[j].entries \in Seq(Entries),
         to[k].entries \in Seq(Entries), \A j \in Workers \ {k} : to[j] = worker[j]
  PROVE  \E n \in Nat : /\ Cardinality(WorkPlaces(worker)) = n + Len(worker[k].entries)
                        /\ Cardinality(WorkPlaces(to)) = n + Len(to[k].entries)
<1> DEFINE of == worker
<1>1. \A j \in Workers : of[j].entries \in Seq(Entries)
  OBVIOUS
<1>2. \A j \in Workers \ {k} : to[j] = of[j]
  OBVIOUS
<1> HIDE DEF of
<1>3. \E n \in Nat : /\ Cardinality(WorkPlaces(of)) = n + Len(of[k].entries)
                     /\ Cardinality(WorkPlaces(to)) = n + Len(to[k].entries)
  BY <1>1, <1>2, WorkChanges, ZenonT(30)
<1>4. QED
  BY <1>3 DEF of

LEMMA Amounts ==
  ASSUME MediaTypes
  PROVE  /\ OnTheWay = Cardinality(JobPlaces(pool.jobs)) + Cardinality(WorkPlaces(worker))
                         + Len(pool.results)
         /\ Cardinality(JobPlaces(pool.jobs)) \in Nat /\ Cardinality(WorkPlaces(worker)) \in Nat
         /\ Len(pool.results) \in Nat /\ OnTheWay \in Nat
         /\ pool.jobs \in Seq(Seq(Entries)) /\ pool.results \in Seq(Whole)
         /\ \A k \in Workers : worker[k].entries \in Seq(Entries)
<1>1. /\ pool.jobs \in Seq(Seq(Entries)) /\ pool.results \in Seq(Whole)
      /\ \A k \in Workers : worker[k].entries \in Seq(Entries)
  BY DEF MediaTypes, ThreadsKnown, Pool, WorkerState
<1>2. OnTheWay = Cardinality(JobPlaces(pool.jobs)) + Cardinality(WorkPlaces(worker))
                   + Len(pool.results)
  BY DEF OnTheWay, InJobs, InWorkers, JobPlaces, WorkPlaces
<1>3. Cardinality(JobPlaces(pool.jobs)) \in Nat
  BY <1>1, JobPlacesFinite
<1>4. Cardinality(WorkPlaces(worker)) \in Nat
  <2>1. PICK k \in Workers : TRUE
    BY MediaAssumption
  <2>2. PICK n \in Nat : Cardinality(WorkPlaces(worker)) = n + Len(worker[k].entries)
    <3>1. \E n \in Nat : /\ Cardinality(WorkPlaces(worker)) = n + Len(worker[k].entries)
                        /\ Cardinality(WorkPlaces(worker)) = n + Len(worker[k].entries)
      BY <1>1, WorkOf, ZenonT(30)
    <3>2. QED
      BY <3>1
  <2>3. PICK m \in Nat : m = Len(worker[k].entries)
    BY <1>1
  <2>4. QED
    BY <2>2, <2>3
<1>5. Len(pool.results) \in Nat
  BY <1>1
<1>6. OnTheWay \in Nat
  BY <1>2, <1>3, <1>4, <1>5
<1>7. QED
  BY <1>1, <1>2, <1>3, <1>4, <1>5, <1>6

LEMMA NothingOnTheWay ==
  ASSUME pool.jobs = <<>>, pool.results = <<>>, \A k \in Workers : worker[k].entries = <<>>
  PROVE  OnTheWay = 0
<1>1. InJobs = {}
  BY DEF InJobs
<1>2. InWorkers = {}
  BY DEF InWorkers
<1>3. Cardinality({}) = 0 /\ Len(pool.results) = 0
  BY FS_EmptySet
<1>4. QED
  BY <1>1, <1>2, <1>3 DEF OnTheWay

LEMMA NoneOnTheWay ==
  ASSUME MediaTypes, JobsFit, OnTheWay = 0
  PROVE  pool.jobs = <<>> /\ pool.results = <<>> /\ \A k \in Workers : worker[k].entries = <<>>
<1>1. /\ Cardinality(JobPlaces(pool.jobs)) = 0 /\ Cardinality(WorkPlaces(worker)) = 0
      /\ Len(pool.results) = 0
  BY Amounts
<1>2. pool.results = <<>>
  BY <1>1, Amounts
<1>3. ASSUME NEW k \in Workers PROVE worker[k].entries = <<>>
  <2>1. PICK n \in Nat : Cardinality(WorkPlaces(worker)) = n + Len(worker[k].entries)
    <3>1. \A j \in Workers : worker[j].entries \in Seq(Entries)
      BY Amounts
    <3>2. \E n \in Nat : /\ Cardinality(WorkPlaces(worker)) = n + Len(worker[k].entries)
                        /\ Cardinality(WorkPlaces(worker)) = n + Len(worker[k].entries)
      BY <3>1, WorkOf, ZenonT(30)
    <3>3. QED
      BY <3>2
  <2>2. PICK m \in Nat : m = Len(worker[k].entries)
    BY Amounts
  <2>3. n + m = 0
    BY <1>1, <2>1, <2>2
  <2>4. m = 0
    BY <2>3
  <2>5. worker[k].entries \in Seq(Entries) /\ Len(worker[k].entries) = 0
    BY <2>2, <2>4, Amounts
  <2>6. QED
    BY <2>5
<1>4. pool.jobs = <<>>
  <2> SUFFICES ASSUME pool.jobs # <<>> PROVE FALSE
    OBVIOUS
  <2>1. Cardinality(JobPlaces(pool.jobs))
          = Cardinality(JobPlaces(Tail(pool.jobs))) + Len(Head(pool.jobs))
    BY Amounts, JobsFront
  <2>2. /\ Head(pool.jobs) \in Seq(Entries) /\ Tail(pool.jobs) \in Seq(Seq(Entries))
        /\ Head(pool.jobs) \in Range(pool.jobs)
    BY Amounts, RangeHeadTail
  <2>3. PICK job \in Seq(Entries) : job = Head(pool.jobs) /\ job # <<>>
    BY <2>2 DEF JobsFit
  <2>4. PICK m \in Nat \ {0} : m = Len(job)
    BY <2>3
  <2>5. PICK n \in Nat : n = Cardinality(JobPlaces(Tail(pool.jobs)))
    BY <2>2, JobPlacesFinite
  <2>6. 0 = n + m
    BY <1>1, <2>1, <2>3, <2>4, <2>5
  <2>7. QED
    BY <2>6
<1>5. QED
  BY <1>2, <1>3, <1>4

LEMMA SameOnTheWay ==
  ASSUME pool'.jobs = pool.jobs, pool'.results = pool.results,
         \A k \in Workers : worker'[k].entries = worker[k].entries
  PROVE  OnTheWay' = OnTheWay
<1>1. InJobs' = InJobs
  BY DEF InJobs
<1>2. InWorkers' = InWorkers
  BY DEF InWorkers
<1>3. QED
  BY <1>1, <1>2 DEF OnTheWay

LEMMA SendJobWay ==
  ASSUME MediaTypes, SendJob
  PROVE  OnTheWay' = OnTheWay + Len(run.next) /\ Len(run.next) \in Nat
<1>1. /\ run.next \in Seq(Entries) /\ pool'.jobs = Append(pool.jobs, run.next)
      /\ pool'.results = pool.results
  BY SendJobIs
<1>2. UNCHANGED worker
  BY DEF SendJob
<1>3. PICK n \in Nat : n = Len(run.next)
  BY <1>1
<1>4. Cardinality(JobPlaces(pool'.jobs)) = Cardinality(JobPlaces(pool.jobs)) + n
  BY <1>1, <1>3, Amounts, JobsEnd
<1>5. PICK a \in Nat, b \in Nat, r \in Nat :
        /\ a = Cardinality(JobPlaces(pool.jobs)) /\ b = Cardinality(WorkPlaces(worker))
        /\ r = Len(pool.results)
  BY Amounts
<1>6. OnTheWay' = (a + n) + b + r
  <2>1. pool'.results = pool.results /\ Cardinality(JobPlaces(pool'.jobs)) = a + n
    BY <1>1, <1>4, <1>5
  <2>2. OnTheWay' = Cardinality(JobPlaces(pool'.jobs)) + Cardinality(WorkPlaces(worker'))
                      + Len(pool'.results)
    BY DEF OnTheWay, InJobs, InWorkers, JobPlaces, WorkPlaces
  <2>3. WorkPlaces(worker') = WorkPlaces(worker)
    BY <1>2
  <2>4. QED
    BY <2>1, <2>2, <2>3, <1>5
<1>7. OnTheWay = a + b + r
  BY <1>5, Amounts
<1>8. (a + n) + b + r = (a + b + r) + n
  OBVIOUS
<1>9. QED
  BY <1>3, <1>6, <1>7, <1>8

LEMMA TakeJobWay ==
  ASSUME MediaTypes, JobsFit, NEW k \in Workers, TakeJob(k)
  PROVE  OnTheWay' = OnTheWay
<1>1. /\ pool.jobs # <<>> /\ pool'.jobs = Tail(pool.jobs) /\ pool'.results = pool.results
      /\ worker[k].entries = <<>> /\ Head(pool.jobs) \in Seq(Entries)
      /\ worker'[k].entries = Head(pool.jobs) /\ \A j \in Workers \ {k} : worker'[j] = worker[j]
  BY TakeJobTypes
<1>2. PICK m \in Nat : m = Len(Head(pool.jobs))
  BY <1>1
<1>3. PICK a \in Nat : a = Cardinality(JobPlaces(pool'.jobs))
  <2>1. Tail(pool.jobs) \in Seq(Seq(Entries))
    BY <1>1, Amounts, RangeHeadTail
  <2>2. QED
    BY <1>1, <2>1, JobPlacesFinite
<1>4. Cardinality(JobPlaces(pool.jobs)) = a + m
  BY <1>1, <1>2, <1>3, Amounts, JobsFront
<1>5. PICK n \in Nat : /\ Cardinality(WorkPlaces(worker)) = n + Len(worker[k].entries)
                       /\ Cardinality(WorkPlaces(worker')) = n + Len(worker'[k].entries)
  <2>1. /\ \A j \in Workers : worker[j].entries \in Seq(Entries)
        /\ worker'[k].entries \in Seq(Entries) /\ \A j \in Workers \ {k} : worker'[j] = worker[j]
    BY <1>1, Amounts
  <2>2. QED
    BY <2>1, WorkOf, ZenonT(30)
<1>6. Len(worker[k].entries) = 0
  BY <1>1
<1>7. Cardinality(WorkPlaces(worker)) = n /\ Cardinality(WorkPlaces(worker')) = n + m
  BY <1>1, <1>2, <1>5, <1>6
<1>8. PICK r \in Nat : r = Len(pool.results)
  BY Amounts
<1>9. OnTheWay' = a + (n + m) + r
  BY <1>1, <1>3, <1>7, <1>8 DEF OnTheWay, InJobs, InWorkers, JobPlaces, WorkPlaces
<1>10. OnTheWay = (a + m) + n + r
  BY <1>4, <1>7, <1>8, Amounts
<1>11. a + (n + m) + r = (a + m) + n + r
  OBVIOUS
<1>12. QED
  BY <1>9, <1>10, <1>11

LEMMA SendResultWay ==
  ASSUME MediaTypes, NEW k \in Workers, SendResult(k)
  PROVE  OnTheWay' = OnTheWay
<1>1. /\ worker[k].entries \in Seq(Entries) /\ worker[k].entries # <<>>
      /\ Tail(worker[k].entries) \in Seq(Entries)
      /\ worker'[k].entries = Tail(worker[k].entries)
      /\ \A j \in Workers \ {k} : worker'[j] = worker[j]
      /\ pool.results \in Seq(Whole) /\ pool'.jobs = pool.jobs
  BY SendResultTypes
<1>2. PICK result \in Whole : pool'.results = Append(pool.results, result)
  BY SendResultTypes
<1>3. PICK r \in Nat : r = Len(pool.results)
  BY <1>1
<1>4. Len(pool'.results) = r + 1
  BY <1>1, <1>2, <1>3, RangeAppend
<1>5. PICK m \in Nat : m = Len(Tail(worker[k].entries)) /\ Len(worker[k].entries) = m + 1
  <2>1. Len(worker[k].entries) = Len(Tail(worker[k].entries)) + 1
    BY <1>1, RangeHeadTail
  <2>2. PICK m \in Nat : m = Len(Tail(worker[k].entries))
    <3>1. PICK rest \in Seq(Entries) : rest = Tail(worker[k].entries)
      BY <1>1
    <3>2. Len(rest) \in Nat
      OBVIOUS
    <3>3. QED
      BY <3>1, <3>2
  <2>3. QED
    BY <2>1, <2>2
<1>6. PICK n \in Nat : /\ Cardinality(WorkPlaces(worker)) = n + Len(worker[k].entries)
                       /\ Cardinality(WorkPlaces(worker')) = n + Len(worker'[k].entries)
  <2>1. /\ \A j \in Workers : worker[j].entries \in Seq(Entries)
        /\ worker'[k].entries \in Seq(Entries) /\ \A j \in Workers \ {k} : worker'[j] = worker[j]
    BY <1>1, Amounts
  <2>2. QED
    BY <2>1, WorkOf, ZenonT(30)
<1>7. Cardinality(WorkPlaces(worker)) = n + (m + 1) /\ Cardinality(WorkPlaces(worker')) = n + m
  BY <1>1, <1>5, <1>6
<1>8. PICK a \in Nat : a = Cardinality(JobPlaces(pool.jobs))
  BY Amounts
<1>9. OnTheWay' = a + (n + m) + (r + 1)
  BY <1>1, <1>4, <1>7, <1>8 DEF OnTheWay, InJobs, InWorkers, JobPlaces, WorkPlaces
<1>10. OnTheWay = a + (n + (m + 1)) + r
  BY <1>3, <1>7, <1>8, Amounts
<1>11. QED
  BY <1>9, <1>10

LEMMA WorkerPanicsWay ==
  ASSUME MediaTypes, NEW k \in Workers, WorkerPanics(k)
  PROVE  OnTheWay = OnTheWay' + Len(worker[k].entries) /\ OnTheWay' \in Nat
<1>1. /\ UNCHANGED pool /\ worker' = [worker EXCEPT ![k] = GoneWorker] /\ UNCHANGED outside
      /\ worker[k].entries \in Seq(Entries)
  BY WorkerPanicsTypes DEF WorkerPanics
<1>2. worker'[k].entries = <<>> /\ \A j \in Workers \ {k} : worker'[j] = worker[j]
  BY <1>1, WorkerStops
<1>3. <<>> \in Seq(Entries)
  OBVIOUS
<1>4. PICK n \in Nat : /\ Cardinality(WorkPlaces(worker)) = n + Len(worker[k].entries)
                       /\ Cardinality(WorkPlaces(worker')) = n + Len(worker'[k].entries)
  <2>1. /\ \A j \in Workers : worker[j].entries \in Seq(Entries)
        /\ worker'[k].entries \in Seq(Entries) /\ \A j \in Workers \ {k} : worker'[j] = worker[j]
    BY <1>1, <1>2, <1>3, Amounts
  <2>2. QED
    BY <2>1, WorkOf, ZenonT(30)
<1>5. PICK m \in Nat : m = Len(worker[k].entries)
  BY <1>1
<1>6. Len(worker'[k].entries) = 0
  BY <1>2
<1>7. Cardinality(WorkPlaces(worker)) = n + m /\ Cardinality(WorkPlaces(worker')) = n
  BY <1>4, <1>5, <1>6
<1>8. PICK a \in Nat, r \in Nat : a = Cardinality(JobPlaces(pool.jobs)) /\ r = Len(pool.results)
  BY Amounts
<1>9. OnTheWay' = a + n + r
  BY <1>1, <1>7, <1>8 DEF OnTheWay, InJobs, InWorkers, JobPlaces, WorkPlaces
<1>10. OnTheWay = a + (n + m) + r
  BY <1>7, <1>8, Amounts
<1>11. a + (n + m) + r = (a + n + r) + m /\ a + n + r \in Nat
  OBVIOUS
<1>12. QED
  BY <1>5, <1>9, <1>10, <1>11

LEMMA TakeResultWay ==
  ASSUME MediaTypes, TakeResult
  PROVE  OnTheWay = OnTheWay' + 1 /\ OnTheWay' \in Nat
<1>1. /\ UNCHANGED worker /\ pool.results # <<>> /\ pool.results \in Seq(Whole) /\ pool \in Pool
      /\ pool' = [pool EXCEPT !.results = Tail(@)]
  BY DEF TakeResult, MediaTypes, ThreadsKnown, Pool
<1>2. pool'.jobs = pool.jobs /\ pool'.results = Tail(pool.results)
  BY <1>1 DEF Pool
<1>3. PICK r \in Nat : r = Len(Tail(pool.results)) /\ Len(pool.results) = r + 1
  <2>1. Tail(pool.results) \in Seq(Whole) /\ Len(pool.results) = Len(Tail(pool.results)) + 1
    BY <1>1, RangeHeadTail
  <2>2. PICK r \in Nat : r = Len(Tail(pool.results))
    BY <2>1
  <2>3. QED
    BY <2>1, <2>2
<1>4. PICK a \in Nat, b \in Nat :
        a = Cardinality(JobPlaces(pool.jobs)) /\ b = Cardinality(WorkPlaces(worker))
  BY Amounts
<1>5. OnTheWay' = a + b + r
  BY <1>1, <1>2, <1>3, <1>4 DEF OnTheWay, InJobs, InWorkers, JobPlaces, WorkPlaces
<1>6. OnTheWay = a + b + (r + 1)
  BY <1>3, <1>4, Amounts
<1>7. QED
  BY <1>5, <1>6

----------------------------------------------------------------------------
(* The threads of a run.                                                   *)
Over   == run.pc \in {"rest", "flush", "done"}
Rested == run.pc \in {"off", "failed"}

OwnThreads ==
  /\ Rested \/ run.mode = "serial" =>
       pool.jobs = <<>> /\ pool.results = <<>> /\ \A k \in Workers : worker[k] = GoneWorker
  /\ Rested \/ ~Walking =>
       walk.events = <<>> /\ ~walk.closed /\ ~walk.stop /\ walk.dirs = <<>>
  /\ Rested \/ ~Walking \/ Over => AllGone(walker)

Ends ==
  /\ walk.closed <=> Walking /\ (Over \/ run.pc = "join")
  /\ walk.stop => walk.closed
  /\ walk.closed => walk.events = <<>> /\ (~Room \/ AllGone(walker))
  /\ Over \/ Walking \/ run.kind = "repair" \/ Rested => lister = NoLister
  /\ Over => run.targets = <<>>

\* What the main thread does to them.
MainFrame ==
  /\ Running /\ Framed /\ ~Rested'
  /\ UNCHANGED outside /\ UNCHANGED walker /\ UNCHANGED worker
  /\ run.mode = "serial" => pool'.jobs = pool.jobs /\ pool'.results = pool.results
  /\ StopWalkers \/ TakeEvent \/ UNCHANGED walk
  /\ Over' => Over \/ ~Walking \/ AllGone(walker)
  /\ Over' \/ run'.pc = "join" => Over \/ run.pc = "join" \/ ~Walking \/ StopWalkers
  /\ Over \/ run.pc = "join" => (Over' \/ run'.pc = "join") /\ run'.scanned = run.scanned
  /\ lister' = lister \/ lister' = NoLister \/ (Listing /\ ~Over')
  /\ Over' => Over \/ Walking \/ run.kind = "repair" \/ lister' = NoLister
  /\ Over' => Over \/ run.kind = "build" \/ run'.targets = <<>>
  /\ Over => run'.targets = run.targets

LEMMA MainFrames ==
  ASSUME MediaTypes, Course, Main, ~SendFails
  PROVE  MainFrame
<1>1. /\ Ended = {"off", "done", "failed"} /\ pool \in Pool
      /\ run.kind \in {"build", "repair"}
  BY DEF Ended, MediaTypes, ThreadsKnown, RunState
<1>2. CASE OpenRoot
  <2>1. /\ Go(Again) /\ UNCHANGED pool /\ UNCHANGED walk /\ UNCHANGED walker /\ UNCHANGED worker
        /\ UNCHANGED outside /\ Listing
    BY <1>2 DEF OpenRoot, threads
  <2>2. Again \in {"list", "drain"}
    BY DEF Again
  <2>3. Framed /\ run'.pc = Again
    BY <2>1, GoIs
  <2>4. QED
    BY <1>1, <2>1, <2>2, <2>3 DEF MainFrame, Running, Rested, Over, Listing
<1>3. CASE OpenDir
  <2>1. /\ UNCHANGED pool /\ UNCHANGED walk /\ UNCHANGED walker /\ UNCHANGED worker
        /\ UNCHANGED outside /\ Listing
    BY <1>3 DEF OpenDir, threads
  <2>2. Framed /\ run'.pc = run.pc
    BY <1>3, OpenDirRun
  <2>3. QED
    BY <1>1, <2>1, <2>2 DEF MainFrame, Running, Rested, Over, Listing
<1>4. CASE NextFile
  <2>1. /\ UNCHANGED pool /\ UNCHANGED walk /\ UNCHANGED walker /\ UNCHANGED worker
        /\ UNCHANGED outside /\ Listing
    BY <1>4 DEF NextFile, threads
  <2>2. PICK f, entry :
          run' = IF disk[f] = 0 THEN [run EXCEPT !.errors = @ + 1]
                 ELSE IF SkipUnchanged(entry) THEN [run EXCEPT !.pc = Again]
                 ELSE [run EXCEPT !.scanned = @ + 1, !.next = <<entry>>,
                         !.pc = IF run.mode = "serial" THEN "probe" ELSE "send"]
    BY <1>4 DEF NextFile
  <2>3. Again \in {"list", "drain"}
    BY DEF Again
  <2>4. Framed /\ run'.pc \in {"list", "drain", "probe", "send"}
    BY <2>1, <2>2, <2>3, NextFileRun DEF Listing
  <2>5. QED
    BY <1>1, <2>1, <2>4 DEF MainFrame, Running, Rested, Over, Listing
<1>5. CASE EndList
  <2>1. /\ Go(IF run.mode = "serial" THEN "flush" ELSE "rest") /\ Listing
        /\ pool' = [pool EXCEPT !.open = FALSE] /\ lister' = NoLister
        /\ UNCHANGED walk /\ UNCHANGED walker /\ UNCHANGED worker /\ UNCHANGED outside
    BY <1>5 DEF EndList
  <2>2. Framed /\ run'.pc \in {"flush", "rest"}
    BY <2>1, GoIs
  <2>3. pool'.jobs = pool.jobs /\ pool'.results = pool.results
    BY <1>1, <2>1 DEF Pool
  <2>4. QED
    BY <1>1, <2>1, <2>2, <2>3 DEF MainFrame, Running, Rested, Over, Listing, Walking
<1>6. CASE ProbeHere
  <2>1. /\ UNCHANGED pool /\ UNCHANGED walk /\ UNCHANGED walker /\ UNCHANGED worker
        /\ UNCHANGED outside /\ UNCHANGED lister
    BY <1>6 DEF ProbeHere, threads
  <2>2. Framed /\ run'.pc = "push" /\ run.pc = "probe"
    BY <1>6, ProbeHereRun
  <2>3. QED
    BY <1>1, <2>1, <2>2 DEF MainFrame, Running, Rested, Over
<1>7. CASE PushHere
  <2>1. /\ UNCHANGED pool /\ UNCHANGED walk /\ UNCHANGED walker /\ UNCHANGED worker
        /\ UNCHANGED outside /\ UNCHANGED lister
    BY <1>7 DEF PushHere, threads
  <2>2. Framed /\ run'.pc \in {"list", "targets"} /\ run.pc = "push"
    BY <1>7, PushHereRun
  <2>3. QED
    BY <1>1, <2>1, <2>2 DEF MainFrame, Running, Rested, Over
<1>8. CASE NextTarget
  <2>1. /\ UNCHANGED pool /\ UNCHANGED walk /\ UNCHANGED walker /\ UNCHANGED worker
        /\ UNCHANGED outside /\ UNCHANGED lister /\ run.pc = "targets"
    BY <1>8 DEF NextTarget, threads
  <2>2. Framed /\ run'.pc \in {"probe", "send"}
    BY <1>8, NextTargetRun
  <2>3. QED
    BY <1>1, <2>1, <2>2 DEF MainFrame, Running, Rested, Over
<1>9. CASE EndTargets
  <2>1. /\ Go(IF run.mode = "serial" THEN "flush" ELSE "rest") /\ run.pc = "targets"
        /\ pool' = [pool EXCEPT !.open = FALSE] /\ UNCHANGED lister /\ run.targets = <<>>
        /\ UNCHANGED walk /\ UNCHANGED walker /\ UNCHANGED worker /\ UNCHANGED outside
    BY <1>9 DEF EndTargets
  <2>2. Framed /\ run'.pc \in {"flush", "rest"} /\ run'.targets = run.targets
    BY <2>1, GoIs
  <2>3. pool'.jobs = pool.jobs /\ pool'.results = pool.results
    BY <1>1, <2>1 DEF Pool
  <2>4. run.kind = "repair"
    BY <2>1 DEF Course
  <2>5. QED
    BY <1>1, <2>1, <2>2, <2>3, <2>4 DEF MainFrame, Running, Rested, Over, Walking
<1>10. CASE DrainResults \/ AwaitResult
  <2>1. TakeResult /\ run.pc \in {"drain", "rest"}
    BY <1>10 DEF DrainResults, AwaitResult
  <2>2. /\ UNCHANGED walk /\ UNCHANGED walker /\ UNCHANGED worker
        /\ UNCHANGED outside /\ UNCHANGED lister
    BY <2>1 DEF TakeResult
  <2>3. Framed /\ run'.pc = run.pc /\ run'.targets = run.targets /\ run'.scanned = run.scanned
    BY <2>1, TakeResultRun DEF Counts
  <2>4. run.mode # "serial"
    BY <2>1 DEF Course
  <2>5. QED
    BY <1>1, <2>1, <2>2, <2>3, <2>4 DEF MainFrame, Running, Rested, Over
<1>11. CASE Drained
  <2>1. /\ Go(AfterDrain) /\ UNCHANGED pool /\ run.pc = "drain" /\ UNCHANGED lister
        /\ UNCHANGED walk /\ UNCHANGED walker /\ UNCHANGED worker /\ UNCHANGED outside
    BY <1>11 DEF Drained, threads
  <2>2. AfterDrain \in {"targets", "event", "list"}
    BY DEF AfterDrain
  <2>3. Framed /\ run'.pc = AfterDrain
    BY <2>1, GoIs
  <2>4. QED
    BY <1>1, <2>1, <2>2, <2>3 DEF MainFrame, Running, Rested, Over
<1>12. CASE TakeEvent
  <2>1. /\ UNCHANGED pool /\ run.pc = "event" /\ UNCHANGED lister
        /\ UNCHANGED walker /\ UNCHANGED worker /\ UNCHANGED outside
    BY <1>12 DEF TakeEvent
  <2>2. Framed /\ run'.pc \in {"drain", "send"}
    BY <1>12, TakeEventRun
  <2>3. QED
    BY <1>1, <1>12, <2>1, <2>2 DEF MainFrame, Running, Rested, Over
<1>13. CASE NoEvent
  <2>1. /\ Go("drain") /\ UNCHANGED pool /\ run.pc = "event" /\ UNCHANGED lister
        /\ UNCHANGED walk /\ UNCHANGED walker /\ UNCHANGED worker /\ UNCHANGED outside
    BY <1>13 DEF NoEvent, threads
  <2>2. Framed /\ run'.pc = "drain"
    BY <2>1, GoIs
  <2>3. QED
    BY <1>1, <2>1, <2>2 DEF MainFrame, Running, Rested, Over
<1>14. CASE StopWalkers
  <2>1. /\ Go("join") /\ UNCHANGED pool /\ run.pc \in {"drain", "event"} /\ UNCHANGED lister
        /\ UNCHANGED walker /\ UNCHANGED worker /\ UNCHANGED outside
    BY <1>14 DEF StopWalkers
  <2>2. Framed /\ run'.pc = "join"
    BY <2>1, GoIs
  <2>3. QED
    BY <1>1, <1>14, <2>1, <2>2 DEF MainFrame, Running, Rested, Over
<1>15. CASE JoinWalkers
  <2>1. /\ Go("rest") /\ run.pc = "join" /\ pool' = [pool EXCEPT !.open = FALSE]
        /\ UNCHANGED lister /\ AllGone(walker)
        /\ UNCHANGED walk /\ UNCHANGED walker /\ UNCHANGED worker /\ UNCHANGED outside
    BY <1>15 DEF JoinWalkers
  <2>2. Framed /\ run'.pc = "rest" /\ SameCounts
    BY <2>1, GoIs
  <2>3. pool'.jobs = pool.jobs /\ pool'.results = pool.results
    BY <1>1, <2>1 DEF Pool
  <2>4. Walking /\ run.kind = "build"
    BY <2>1 DEF Course, Walking
  <2>5. QED
    BY <1>1, <2>1, <2>2, <2>3, <2>4 DEF MainFrame, Running, Rested, Over, SameCounts, Counts
<1>16. CASE SendJob
  <2>1. /\ run.pc = "send" /\ UNCHANGED lister
        /\ UNCHANGED walk /\ UNCHANGED walker /\ UNCHANGED worker /\ UNCHANGED outside
    BY <1>16 DEF SendJob
  <2>2. Framed /\ run'.pc = "drain"
    BY <1>16, SendJobRun
  <2>3. run.mode # "serial"
    BY <2>1 DEF Course
  <2>4. QED
    BY <1>1, <2>1, <2>2, <2>3 DEF MainFrame, Running, Rested, Over
<1>17. CASE EndRest \/ FlushRest
  <2>1. PICK pc \in {"flush", "done"} : Go(pc)
    BY <1>17 DEF EndRest, FlushRest
  <2>2. /\ UNCHANGED pool /\ run.pc \in {"rest", "flush"} /\ UNCHANGED lister
        /\ UNCHANGED walk /\ UNCHANGED walker /\ UNCHANGED worker /\ UNCHANGED outside
    BY <1>17 DEF EndRest, FlushRest, threads
  <2>3. Framed /\ run'.pc = pc /\ SameCounts /\ run'.targets = run.targets
    BY <2>1, GoIs
  <2>4. QED
    BY <1>1, <2>1, <2>2, <2>3 DEF MainFrame, Running, Rested, Over, SameCounts, Counts
<1>18. QED
  BY <1>2, <1>3, <1>4, <1>5, <1>6, <1>7, <1>8, <1>9, <1>10, <1>11, <1>12, <1>13, <1>14,
     <1>15, <1>16, <1>17 DEF Main

\* A run begins, or is over before its end, with threads that have nothing.
LEMMA StartsFresh ==
  ASSUME NEW mode \in Modes, NEW roots \in Seq(Dirs), StartThreads(mode, roots)
  PROVE  /\ walk' = [dirs |-> roots, pending |-> Len(roots), stop |-> FALSE, events |-> <<>>,
                     closed |-> FALSE]
         /\ DOMAIN walker' = Walkers
         /\ \A w \in Walkers :
              walker'[w] = [pc |-> IF roots = <<>> THEN "gone" ELSE "idle", dirs |-> {},
                            entries |-> <<>>]
         /\ pool'.jobs = <<>> /\ pool'.results = <<>> /\ writer' = <<>>
         /\ \A k \in Workers : worker'[k].entries = <<>> /\ worker'[k].probe = <<>>
         /\ mode = "serial" => \A k \in Workers : worker'[k] = GoneWorker
<1>1. walk' = [dirs |-> roots, pending |-> Len(roots), stop |-> FALSE, events |-> <<>>,
               closed |-> FALSE]
  BY DEF StartThreads, NoWalk
<1>2. DOMAIN walker' = Walkers
  BY DEF StartThreads
<1>3. ASSUME NEW w \in Walkers
      PROVE  walker'[w] = [pc |-> IF roots = <<>> THEN "gone" ELSE "idle", dirs |-> {},
                           entries |-> <<>>]
  <2>1. walker'[w] = IF roots = <<>> THEN Gone ELSE [Gone EXCEPT !.pc = "idle"]
    BY DEF StartThreads
  <2>2. CASE roots = <<>>
    BY <2>1, <2>2, GoneIs
  <2>3. CASE roots # <<>>
    BY <2>1, <2>3, GoneIs
  <2>4. QED
    BY <2>2, <2>3
<1>4. pool'.jobs = <<>> /\ pool'.results = <<>> /\ writer' = <<>>
  BY DEF StartThreads, NoPool
<1>5. ASSUME NEW k \in Workers
      PROVE  /\ worker'[k].entries = <<>> /\ worker'[k].probe = <<>>
             /\ mode = "serial" => worker'[k] = GoneWorker
  <2>1. worker'[k] = IF mode = "serial" THEN GoneWorker ELSE [GoneWorker EXCEPT !.pc = "idle"]
    BY DEF StartThreads
  <2>2. QED
    BY <2>1 DEF GoneWorker
<1>6. QED
  BY <1>1, <1>2, <1>3, <1>4, <1>5

LEMMA Begins ==
  ASSUME MediaTypes, StartBuild \/ StartRepair \/ Killed \/ SendFails
  PROVE  \E mode \in Modes, roots \in Seq(Dirs) :
           /\ StartThreads(mode, roots)
           /\ ~Over' /\ run'.pc # "join"
           /\ IF Rested' THEN mode = "serial" ELSE run'.mode = mode
           /\ IF Walking' /\ ~Rested' THEN roots = Roots ELSE roots = <<>>
           /\ Walking' \/ Rested' => lister' = NoLister
           /\ run'.kind = "repair" /\ ~Rested' => run.pc \in Ended /\ lister' = lister
<1>1. CASE StartBuild
  <2>1. PICK mode \in Modes :
          /\ run'.kind = "build" /\ run'.mode = mode
          /\ run'.pc = IF mode = "serial" THEN "list" ELSE "drain"
          /\ StartThreads(mode, IF mode = "parallel" THEN Roots ELSE <<>>)
          /\ lister' = [NoLister EXCEPT !.roots = IF mode = "parallel" THEN <<>> ELSE Roots]
    BY <1>1, BuildRun
  <2>2. PICK roots \in Seq(Dirs) : roots = IF mode = "parallel" THEN Roots ELSE <<>>
    <3>1. Roots \in Seq(Dirs) /\ <<>> \in Seq(Dirs)
      BY MediaAssumption
    <3>2. QED
      BY <3>1
  <2>3. StartThreads(mode, roots)
    BY <2>1, <2>2
  <2>4. run'.pc \in {"list", "drain"}
    BY <2>1
  <2>5. ~Over' /\ ~Rested' /\ run'.pc # "join"
    BY <2>4 DEF Over, Rested
  <2>6. Walking' <=> mode = "parallel"
    BY <2>1 DEF Walking
  <2>7. mode = "parallel" => lister' = NoLister
    BY <2>1 DEF NoLister
  <2>8. QED
    BY <2>1, <2>2, <2>3, <2>5, <2>6, <2>7
<1>2. CASE StartRepair
  <2>1. PICK mode \in {"serial", "parallel"} :
          run'.kind = "repair" /\ run'.mode = mode /\ run'.pc = "targets" /\ StartThreads(mode, <<>>)
    BY <1>2, RepairRun
  <2>2. <<>> \in Seq(Dirs) /\ mode \in Modes
    BY DEF Modes
  <2>3. ~Over' /\ ~Rested' /\ run'.pc # "join" /\ ~Walking'
    BY <2>1 DEF Over, Rested, Walking
  <2>4. run.pc \in Ended /\ lister' = lister
    BY <1>2 DEF StartRepair, MayStart
  <2>5. QED
    BY <2>1, <2>2, <2>3, <2>4
<1>3. CASE Killed \/ SendFails
  <2>1. StartThreads("serial", <<>>) /\ lister' = NoLister
    BY <1>3 DEF Killed, SendFails
  <2>2. run'.pc \in {"off", "failed"}
    BY <1>3, EarlyEndRun
  <2>3. <<>> \in Seq(Dirs) /\ "serial" \in Modes
    BY DEF Modes
  <2>4. ~Over' /\ Rested' /\ run'.pc # "join"
    BY <2>2 DEF Over, Rested
  <2>5. QED
    BY <2>1, <2>3, <2>4
<1>4. QED
  BY <1>1, <1>2, <1>3

LEMMA BeginThreads ==
  ASSUME MediaTypes, Ends, StartBuild \/ StartRepair \/ Killed \/ SendFails
  PROVE  OwnThreads' /\ Ends'
<1>1. PICK mode \in Modes, roots \in Seq(Dirs) :
        /\ StartThreads(mode, roots)
        /\ ~Over' /\ run'.pc # "join"
        /\ IF Rested' THEN mode = "serial" ELSE run'.mode = mode
        /\ IF Walking' /\ ~Rested' THEN roots = Roots ELSE roots = <<>>
        /\ Walking' \/ Rested' => lister' = NoLister
        /\ run'.kind = "repair" /\ ~Rested' => run.pc \in Ended /\ lister' = lister
  BY Begins
<1>2. /\ walk' = [dirs |-> roots, pending |-> Len(roots), stop |-> FALSE, events |-> <<>>,
                  closed |-> FALSE]
      /\ DOMAIN walker' = Walkers
      /\ \A w \in Walkers :
           walker'[w] = [pc |-> IF roots = <<>> THEN "gone" ELSE "idle", dirs |-> {},
                         entries |-> <<>>]
      /\ pool'.jobs = <<>> /\ pool'.results = <<>>
      /\ mode = "serial" => \A k \in Workers : worker'[k] = GoneWorker
  BY <1>1, StartsFresh
<1>3. /\ walk'.dirs = roots /\ ~walk'.stop /\ walk'.events = <<>> /\ ~walk'.closed
  BY <1>2
<1>4. roots = <<>> => AllGone(walker)'
  BY <1>2 DEF AllGone
<1>5. OwnThreads'
  BY <1>1, <1>2, <1>3, <1>4 DEF OwnThreads
<1>6. run.pc \in Ended => lister = NoLister
  BY DEF Ends, Ended, Over, Rested
<1>7. Ends'
  BY <1>1, <1>3, <1>6 DEF Ends
<1>8. QED
  BY <1>5, <1>7

LEMMA MainThreads ==
  ASSUME MediaTypes, Course, OwnThreads, Ends, Main, ~SendFails
  PROVE  OwnThreads' /\ Ends'
<1>1. MainFrame
  BY MainFrames
<1>2. /\ (Walking' <=> Walking) /\ (Room' <=> run'.scanned < run.max)
      /\ ~Rested /\ ~Rested'
  BY <1>1 DEF MainFrame, Framed, Walking, Room, Running, Rested, Ended
<1>3. AllGone(walker)' <=> AllGone(walker)
  BY <1>1 DEF MainFrame, AllGone
<1>4. walk \in Walk
  BY DEF MediaTypes, ThreadsKnown
<1>5. CASE UNCHANGED walk
  <2>1. OwnThreads'
    BY <1>1, <1>2, <1>3, <1>5 DEF OwnThreads, MainFrame, Framed
  <2>2. ~StopWalkers
    <3>1. SUFFICES ASSUME StopWalkers PROVE FALSE
      OBVIOUS
    <3>2. walk'.closed /\ run.pc \in {"drain", "event"}
      BY <1>4, <3>1 DEF StopWalkers, Walk
    <3>3. QED
      BY <1>5, <3>2 DEF Ends, Over
  <2>3. walk.closed <=> Walking /\ (Over' \/ run'.pc = "join")
    BY <1>1, <2>2 DEF MainFrame, Ends
  <2>4. walk.closed => ~Room' \/ AllGone(walker)
    BY <1>1, <1>2 DEF MainFrame, Ends, Room
  <2>5. Over' \/ Walking' \/ run'.kind = "repair" => lister' = NoLister
    BY <1>1, <1>2 DEF MainFrame, Ends, Framed, Listing, Walking
  <2>6. Over' => run'.targets = <<>>
    <3>1. Course'
      BY MainCourse
    <3>2. run'.kind = "build" => run'.targets = <<>>
      BY <3>1 DEF Course
    <3>3. QED
      BY <1>1, <3>2 DEF MainFrame, Framed, Ends
  <2>7. Ends'
    BY <1>2, <1>3, <1>5, <2>3, <2>4, <2>5, <2>6 DEF Ends
  <2>8. QED
    BY <2>1, <2>7
<1>6. CASE StopWalkers
  <2>1. /\ walk'.closed /\ walk'.stop /\ walk'.events = <<>> /\ Go("join")
        /\ run.pc \in {"drain", "event"}
        /\ UNCHANGED lister /\ (~Room \/ AllGone(walker)) /\ Walking
    <3>1. walk' = [walk EXCEPT !.stop = TRUE, !.closed = TRUE, !.events = <<>>]
      BY <1>6 DEF StopWalkers
    <3>2. Walking
      BY <1>6 DEF StopWalkers, WalkEnds, Walking, Course
    <3>3. QED
      BY <1>4, <1>6, <3>1, <3>2 DEF StopWalkers, Walk, WalkEnds, Disconnected
  <2>2. run'.pc = "join" /\ run'.scanned = run.scanned
    BY <2>1, GoIs DEF SameCounts, Counts
  <2>3. ~Over'
    BY <2>2 DEF Over
  <2>4. OwnThreads'
    BY <1>1, <1>2, <1>3, <2>1, <2>3 DEF OwnThreads, MainFrame, Framed
  <2>5. lister' = NoLister
    BY <2>1 DEF Ends
  <2>6. Ends'
    BY <1>2, <1>3, <2>1, <2>2, <2>3, <2>5 DEF Ends, Room
  <2>7. QED
    BY <2>4, <2>6
<1>7. CASE TakeEvent
  <2>1. walk'.stop = walk.stop /\ walk'.closed = walk.closed /\ walk'.dirs = walk.dirs
    BY <1>7, TakeEventIs
  <2>2. run.pc = "event" /\ Walking
    BY <1>7 DEF TakeEvent, Course
  <2>3. run'.pc \in {"drain", "send"}
    BY <1>7, TakeEventRun
  <2>4. ~Over' /\ run'.pc # "join" /\ ~walk.closed /\ UNCHANGED lister
    BY <1>7, <2>2, <2>3 DEF Ends, Over, TakeEvent
  <2>5. OwnThreads'
    BY <1>1, <1>2, <2>2, <2>4 DEF OwnThreads, MainFrame, Framed
  <2>6. Ends'
    BY <1>2, <2>1, <2>2, <2>4 DEF Ends
  <2>7. QED
    BY <2>5, <2>6
<1>8. QED
  BY <1>1, <1>5, <1>6, <1>7 DEF MainFrame

\* A walker at work belongs to a build that has not stopped listening for it.
LEMMA WalkerWorks ==
  ASSUME MediaTypes, OwnThreads, NEW w \in Walkers, walker[w].pc # "gone"
  PROVE  Walking /\ ~Over /\ ~Rested /\ ~AllGone(walker)
<1>1. w \in DOMAIN walker
  BY DEF MediaTypes, ThreadsKnown
<1>2. ~AllGone(walker)
  BY <1>1 DEF AllGone
<1>3. QED
  BY <1>2 DEF OwnThreads

LEMMA WorkerWorks ==
  ASSUME OwnThreads, NEW k \in Workers, worker[k].pc # "gone"
  PROVE  run.mode # "serial" /\ ~Rested
BY DEF OwnThreads, GoneWorker

\* A send of a walker.
LEMMA SendWalk ==
  ASSUME MediaTypes, NEW w \in Walkers, SendStats(w) \/ SendEntries(w)
  PROVE  /\ walk'.dirs = walk.dirs /\ walk'.pending = walk.pending
         /\ walk'.closed = walk.closed
         /\ walk'.stop => walk.stop \/ walk.closed
         /\ walk.closed => walk'.events = walk.events
         /\ walker[w].pc \in {"stats", "entries"} /\ walker'[w].pc \in {"entries", "dirs"}
         /\ \A v \in Walkers \ {w} : walker'[v] = walker[v]
<1>1. PICK event \in Event : Send(event)
  BY SendStatsTypes, SendEntriesTypes
<1>2. UNCHANGED outside
  BY DEF SendStats, SendEntries
<1>3. /\ walk'.dirs = walk.dirs /\ walk'.pending = walk.pending
      /\ walk'.closed = walk.closed
      /\ walk'.stop => walk.stop \/ walk.closed
      /\ walk.closed => walk'.events = walk.events
  BY <1>1, <1>2, SendIs
<1>4. /\ walker[w].pc \in {"stats", "entries"} /\ walker'[w].pc \in {"entries", "dirs"}
      /\ \A v \in Walkers \ {w} : walker'[v] = walker[v]
  BY SendStatsTypes, SendEntriesTypes
<1>5. QED
  BY <1>3, <1>4

LEMMA WalkerFrame ==
  ASSUME MediaTypes, NEW w \in Walkers, Walker(w)
  PROVE  /\ walker[w].pc # "gone"
         /\ UNCHANGED <<disk, edits, rows, run, lister, pool, worker, writer>>
         /\ walk'.closed = walk.closed
         /\ walk'.stop => walk.stop \/ walk.closed
         /\ walk.closed => walk'.events = walk.events
<1>1. walk \in Walk
  BY DEF MediaTypes, ThreadsKnown
<1>2. UNCHANGED <<disk, edits, rows, run, lister, pool, worker, writer>>
  BY DEF Walker, Skip, Enumerate, SendStats, QueueDir, SendEntries, DirDone, WalkerLeaves, outside
<1>3. walker[w].pc # "gone"
  BY DEF Walker, Skip, Enumerate, SendStats, QueueDir, SendEntries, DirDone, WalkerLeaves
<1>4. CASE SendStats(w) \/ SendEntries(w)
  BY <1>2, <1>3, <1>4, SendWalk
<1>5. CASE Skip(w) \/ Enumerate(w) \/ QueueDir(w) \/ DirDone(w) \/ WalkerLeaves(w)
  <2>1. walk'.closed = walk.closed /\ walk'.stop = walk.stop /\ walk'.events = walk.events
    <3>1. CASE Skip(w)
      <4>1. walk' = [walk EXCEPT !.pending = @ - 1, !.dirs = Tail(walk.dirs)]
        BY <3>1, SkipTypes
      <4>2. QED
        BY <1>1, <4>1 DEF Walk
    <3>2. CASE Enumerate(w)
      BY <1>1, <3>2 DEF Enumerate, Walk
    <3>3. CASE QueueDir(w)
      <4>1. \E dir \in Dirs : walk' = [walk EXCEPT !.dirs = Append(@, dir), !.pending = @ + 1]
        BY <3>3, QueueDirTypes
      <4>2. QED
        BY <1>1, <4>1 DEF Walk
    <3>4. CASE DirDone(w)
      BY <1>1, <3>4 DEF DirDone, GiveBack, Walk
    <3>5. CASE WalkerLeaves(w)
      BY <3>5 DEF WalkerLeaves
    <3>6. QED
      BY <1>5, <3>1, <3>2, <3>3, <3>4, <3>5
  <2>2. QED
    BY <1>2, <1>3, <2>1
<1>6. QED
  BY <1>4, <1>5 DEF Walker

LEMMA WalkerThreads ==
  ASSUME MediaTypes, OwnThreads, Ends, NEW w \in Walkers, Walker(w)
  PROVE  OwnThreads' /\ Ends'
<1>1. /\ walker[w].pc # "gone"
      /\ UNCHANGED <<run, lister, pool, worker>>
      /\ walk'.closed = walk.closed
      /\ walk'.stop => walk.stop \/ walk.closed
      /\ walk.closed => walk'.events = walk.events
  BY WalkerFrame
<1>2. Walking /\ ~Over /\ ~Rested /\ ~AllGone(walker)
  BY <1>1, WalkerWorks
<1>3. (Walking' <=> Walking) /\ (Over' <=> Over) /\ (Rested' <=> Rested) /\ (Room' <=> Room)
  BY <1>1 DEF Walking, Over, Rested, Room
<1>4. OwnThreads'
  BY <1>1, <1>2, <1>3 DEF OwnThreads
<1>5. Ends'
  BY <1>1, <1>2, <1>3 DEF Ends
<1>6. QED
  BY <1>4, <1>5

\* What the workers, and a change of a file, leave alone.
LEMMA OtherFrame ==
  ASSUME MediaTypes,
         \/ \E f \in Files : EditFile(f)
         \/ \E k \in Workers : Worker(k) \/ WorkerPanics(k)
  PROVE  /\ UNCHANGED <<rows, lister, walk, walker, writer>>
         /\ run'.pc = run.pc /\ run'.kind = run.kind /\ run'.mode = run.mode
         /\ run'.max = run.max /\ run'.scanned = run.scanned /\ run'.targets = run.targets
         /\ run'.next = run.next /\ run'.sent = run.sent /\ run'.received = run.received
         /\ \/ UNCHANGED pool /\ UNCHANGED worker
            \/ \E k \in Workers : worker[k].pc # "gone"
<1>1. run \in RunState
  BY DEF MediaTypes
<1>2. CASE \E f \in Files : EditFile(f)
  <2>1. /\ UNCHANGED <<rows, lister, walk, walker, writer, pool, worker>>
        /\ run' = [run EXCEPT !.calm = FALSE]
    BY <1>2 DEF EditFile, threads
  <2>2. QED
    BY <1>1, <2>1 DEF RunState
<1>3. ASSUME NEW k \in Workers, Worker(k)
      PROVE  /\ UNCHANGED <<rows, lister, walk, walker, writer, run>>
             /\ worker[k].pc # "gone"
  BY <1>3 DEF Worker, TakeJob, ProbeFile, SendResult, WorkerLeaves
<1>4. ASSUME NEW k \in Workers, WorkerPanics(k)
      PROVE  /\ UNCHANGED <<rows, lister, walk, walker, writer>>
             /\ run' = [run EXCEPT !.panics = @ + 1, !.lost = @ + Len(worker[k].entries)]
             /\ worker[k].pc # "gone"
  BY <1>4 DEF WorkerPanics
<1>5. CASE \E k \in Workers : Worker(k)
  BY <1>3, <1>5
<1>6. CASE \E k \in Workers : WorkerPanics(k)
  <2>1. PICK k \in Workers : WorkerPanics(k)
    BY <1>6
  <2>2. QED
    BY <1>1, <1>4, <2>1 DEF RunState
<1>7. QED
  BY <1>2, <1>5, <1>6

LEMMA OtherThreads ==
  ASSUME MediaTypes, OwnThreads, Ends,
         \/ \E f \in Files : EditFile(f)
         \/ \E k \in Workers : Worker(k) \/ WorkerPanics(k)
  PROVE  OwnThreads' /\ Ends'
<1>1. /\ UNCHANGED <<lister, walk, walker>>
      /\ run'.pc = run.pc /\ run'.kind = run.kind /\ run'.mode = run.mode
      /\ run'.max = run.max /\ run'.scanned = run.scanned /\ run'.targets = run.targets
      /\ \/ UNCHANGED pool /\ UNCHANGED worker
         \/ \E k \in Workers : worker[k].pc # "gone"
  BY OtherFrame
<1>2. /\ (Walking' <=> Walking) /\ (Over' <=> Over) /\ (Rested' <=> Rested) /\ (Room' <=> Room)
      /\ AllGone(walker)' <=> AllGone(walker)
  BY <1>1 DEF Walking, Over, Rested, Room, AllGone
<1>3. Ends'
  BY <1>1, <1>2 DEF Ends
<1>4. OwnThreads'
  <2>1. CASE UNCHANGED pool /\ UNCHANGED worker
    BY <1>1, <1>2, <2>1 DEF OwnThreads
  <2>2. CASE \E k \in Workers : worker[k].pc # "gone"
    <3>1. run.mode # "serial" /\ ~Rested
      BY <2>2, WorkerWorks
    <3>2. QED
      BY <1>1, <1>2, <3>1 DEF OwnThreads
  <2>3. QED
    BY <1>1, <2>1, <2>2
<1>5. QED
  BY <1>3, <1>4

----------------------------------------------------------------------------
(* The directories that are pending.                                       *)
Busy == {w \in Walkers : walker[w].pc \notin {"gone", "idle"}}

WalkCounted ==
  /\ walk.pending = Len(walk.dirs) + Cardinality(Busy)
  /\ (\E w \in Walkers : walker[w].pc = "gone") => walk.dirs = <<>> /\ Busy = {}

LEMMA BusyIs ==
  IsFiniteSet(Busy) /\ Cardinality(Busy) \in Nat /\ (Cardinality(Busy) = 0 <=> Busy = {})
<1>1. IsFiniteSet(Walkers) /\ Busy \subseteq Walkers
  BY MediaAssumption DEF Busy
<1>2. IsFiniteSet(Busy)
  BY <1>1, FS_Subset
<1>3. QED
  BY <1>2, FS_CardinalityType, FS_EmptySet

LEMMA BeginWalk ==
  ASSUME MediaTypes, StartBuild \/ StartRepair \/ Killed \/ SendFails
  PROVE  WalkCounted'
<1>1. PICK mode \in Modes, roots \in Seq(Dirs) : StartThreads(mode, roots)
  BY Begins
<1>2. /\ walk' = [dirs |-> roots, pending |-> Len(roots), stop |-> FALSE, events |-> <<>>,
                  closed |-> FALSE]
      /\ \A w \in Walkers :
           walker'[w] = [pc |-> IF roots = <<>> THEN "gone" ELSE "idle", dirs |-> {},
                         entries |-> <<>>]
  BY <1>1, StartsFresh
<1>3. Len(roots) \in Nat
  OBVIOUS
<1>4. walk'.dirs = roots /\ walk'.pending = Len(roots)
  BY <1>2
<1>5. \A w \in Walkers : walker'[w].pc = IF roots = <<>> THEN "gone" ELSE "idle"
  BY <1>2
<1>6. Busy' = {}
  BY <1>5 DEF Busy
<1>7. Cardinality(Busy') = 0
  BY <1>6, FS_EmptySet
<1>8. walk'.pending = Len(walk'.dirs) + Cardinality(Busy')
  BY <1>3, <1>4, <1>7
<1>9. QED
  BY <1>4, <1>5, <1>6, <1>8 DEF WalkCounted

LEMMA SameWalk ==
  ASSUME WalkCounted, walk'.dirs = walk.dirs, walk'.pending = walk.pending, UNCHANGED walker
  PROVE  WalkCounted'
<1>1. Busy' = Busy
  BY DEF Busy
<1>2. QED
  BY <1>1 DEF WalkCounted

LEMMA MainWalk ==
  ASSUME MediaTypes, Course, WalkCounted, Main, ~SendFails
  PROVE  WalkCounted'
<1>1. UNCHANGED walker /\ (StopWalkers \/ TakeEvent \/ UNCHANGED walk)
  BY MainFrames DEF MainFrame
<1>2. walk \in Walk
  BY DEF MediaTypes, ThreadsKnown
<1>3. walk'.dirs = walk.dirs /\ walk'.pending = walk.pending
  <2>1. CASE StopWalkers
    BY <1>2, <2>1 DEF StopWalkers, Walk
  <2>2. CASE TakeEvent
    BY <2>2, TakeEventIs
  <2>3. QED
    BY <1>1, <2>1, <2>2
<1>4. QED
  BY <1>1, <1>3, SameWalk

\* A walker that begins or ends the work on a directory.
LEMMA BusyChanges ==
  ASSUME NEW w \in Walkers, \A v \in Walkers \ {w} : walker'[v] = walker[v]
  PROVE  /\ walker[w].pc \notin {"gone", "idle"} /\ walker'[w].pc \notin {"gone", "idle"} =>
              Busy' = Busy
         /\ walker[w].pc \in {"gone", "idle"} /\ walker'[w].pc \in {"gone", "idle"} =>
              Busy' = Busy
         /\ walker[w].pc \in {"gone", "idle"} /\ walker'[w].pc \notin {"gone", "idle"} =>
              Cardinality(Busy') = Cardinality(Busy) + 1
         /\ walker[w].pc \notin {"gone", "idle"} /\ walker'[w].pc \in {"gone", "idle"} =>
              Cardinality(Busy) = Cardinality(Busy') + 1
<1>1. \A v \in Walkers : v = w \/ (v \in Busy' <=> v \in Busy)
  BY DEF Busy
<1>2. /\ w \in Busy <=> walker[w].pc \notin {"gone", "idle"}
      /\ w \in Busy' <=> walker'[w].pc \notin {"gone", "idle"}
      /\ Busy \subseteq Walkers /\ Busy' \subseteq Walkers
  BY DEF Busy
<1>3. (w \in Busy <=> w \in Busy') => Busy' = Busy
  BY <1>1, <1>2
<1>4. w \in Busy' /\ w \notin Busy => Busy' = Busy \cup {w}
  BY <1>1, <1>2
<1>5. w \in Busy /\ w \notin Busy' => Busy = Busy' \cup {w}
  BY <1>1, <1>2
<1>6. IsFiniteSet(Busy) /\ IsFiniteSet(Busy')
  <2>1. IsFiniteSet(Walkers)
    BY MediaAssumption
  <2>2. QED
    BY <1>2, <2>1, FS_Subset
<1> HIDE DEF Busy
<1>7. w \in Busy' /\ w \notin Busy => Cardinality(Busy') = Cardinality(Busy) + 1
  BY <1>4, <1>6, FS_AddElement
<1>8. w \in Busy /\ w \notin Busy' => Cardinality(Busy) = Cardinality(Busy') + 1
  BY <1>5, <1>6, FS_AddElement
<1>9. QED
  BY <1>2, <1>3, <1>7, <1>8

\* The steps of a walker with a directory in hand that stays in hand.
LEMMA BusyWalk ==
  ASSUME MediaTypes, WalkCounted, NEW w \in Walkers, SendStats(w) \/ QueueDir(w) \/ SendEntries(w)
  PROVE  WalkCounted'
<1>1. w \in Busy /\ Busy # {}
  <2>1. walker[w].pc \in {"stats", "dirs", "entries"}
    BY DEF SendStats, QueueDir, SendEntries
  <2>2. QED
    BY <2>1 DEF Busy
<1>2. \A v \in Walkers : walker[v].pc # "gone"
  BY <1>1 DEF WalkCounted
<1>3. /\ walker'[w].pc \in {"dirs", "entries"}
      /\ \A v \in Walkers \ {w} : walker'[v] = walker[v]
  BY SendWalk, QueueDirTypes
<1>4. Busy' = Busy
  BY <1>1, <1>3, BusyChanges DEF Busy
<1>5. \A v \in Walkers : walker'[v].pc # "gone"
  BY <1>2, <1>3
<1>6. PICK d \in Nat : d = Len(walk.dirs)
  BY DEF MediaTypes, ThreadsKnown, Walk
<1>7. PICK b \in Nat : b = Cardinality(Busy)
  BY BusyIs
<1>8. walk'.pending = Len(walk'.dirs) + b
  <2>1. walk.pending = d + b
    BY <1>6, <1>7 DEF WalkCounted
  <2>2. CASE SendStats(w) \/ SendEntries(w)
    BY <1>6, <2>1, <2>2, SendWalk
  <2>3. CASE QueueDir(w)
    <3>1. PICK dir \in Dirs : /\ walk.dirs \in Seq(Dirs)
                              /\ walk' = [walk EXCEPT !.dirs = Append(@, dir), !.pending = @ + 1]
      BY <2>3, QueueDirTypes
    <3>2. walk'.pending = walk.pending + 1 /\ walk'.dirs = Append(walk.dirs, dir)
      BY <3>1 DEF MediaTypes, ThreadsKnown, Walk
    <3>3. Len(walk'.dirs) = d + 1
      BY <1>6, <3>1, <3>2, RangeAppend
    <3>4. QED
      BY <2>1, <3>2, <3>3
  <2>4. QED
    BY <2>2, <2>3
<1>9. QED
  BY <1>4, <1>5, <1>7, <1>8 DEF WalkCounted

LEMMA WalkerWalk ==
  ASSUME MediaTypes, WalkCounted, NEW w \in Walkers, Walker(w)
  PROVE  WalkCounted'
<1>1. PICK d \in Nat : d = Len(walk.dirs)
  BY DEF MediaTypes, ThreadsKnown, Walk
<1>2. PICK b \in Nat : b = Cardinality(Busy)
  BY BusyIs
<1>3. walk.pending = d + b /\ walk \in Walk /\ walk.dirs \in Seq(Dirs)
  BY <1>1, <1>2 DEF WalkCounted, MediaTypes, ThreadsKnown, Walk
<1>4. CASE Skip(w)
  <2>1. walk' = [walk EXCEPT !.pending = @ - 1, !.dirs = Tail(walk.dirs)]
    BY <1>4, SkipTypes
  <2>2. walk'.pending = walk.pending - 1 /\ walk'.dirs = Tail(walk.dirs)
    BY <1>3, <2>1 DEF Walk
  <2>3. UNCHANGED walker /\ walk.dirs # <<>>
    BY <1>4 DEF Skip
  <2>4. d = Len(walk'.dirs) + 1 /\ Len(walk'.dirs) \in Nat
    BY <1>1, <1>3, <2>2, <2>3, RangeHeadTail
  <2>5. Busy' = Busy
    BY <2>3 DEF Busy
  <2>6. walk'.pending = Len(walk'.dirs) + b
    BY <1>3, <2>2, <2>4
  <2>7. QED
    BY <1>2, <2>3, <2>5, <2>6 DEF WalkCounted
<1>5. CASE Enumerate(w)
  <2>1. /\ walk.dirs # <<>> /\ walk' = [walk EXCEPT !.dirs = Tail(walk.dirs)]
        /\ walker'[w] \in {Found(Head(walk.dirs)), Unreadable}
        /\ \A v \in Walkers \ {w} : walker'[v] = walker[v]
    BY <1>5, EnumerateTypes
  <2>2. walk'.pending = walk.pending /\ walk'.dirs = Tail(walk.dirs)
    BY <1>3, <2>1 DEF Walk
  <2>3. d = Len(walk'.dirs) + 1 /\ Len(walk'.dirs) \in Nat
    BY <1>1, <1>3, <2>1, <2>2, RangeHeadTail
  <2>4. walker'[w].pc = "stats" /\ walker[w].pc = "idle"
    <3>1. walker[w].pc = "idle"
      BY <1>5 DEF Enumerate
    <3>2. QED
      BY <2>1, <3>1 DEF Found, Unreadable
  <2>5. Cardinality(Busy') = b + 1
    BY <1>2, <2>1, <2>4, BusyChanges
  <2>6. \A v \in Walkers : walker'[v].pc # "gone"
    BY <2>1, <2>4 DEF WalkCounted
  <2>7. walk'.pending = Len(walk'.dirs) + Cardinality(Busy')
    <3>1. PICK n \in Nat : n = Len(walk'.dirs)
      BY <2>3
    <3>2. walk'.pending = d + b /\ d = n + 1
      BY <1>3, <2>2, <2>3, <3>1
    <3>3. d + b = n + (b + 1)
      BY <3>2
    <3>4. QED
      BY <2>5, <3>1, <3>2, <3>3
  <2>8. QED
    BY <2>6, <2>7 DEF WalkCounted
<1>6. CASE DirDone(w)
  <2>1. /\ walk' = [walk EXCEPT !.pending = @ - 1]
        /\ walker'[w] = [pc |-> "idle", dirs |-> {}, entries |-> <<>>]
        /\ \A v \in Walkers \ {w} : walker'[v] = walker[v]
    BY <1>6, DirDoneTypes
  <2>2. walk'.pending = walk.pending - 1 /\ walk'.dirs = walk.dirs
    BY <1>3, <2>1 DEF Walk
  <2>3. walker[w].pc \notin {"gone", "idle"} /\ walker'[w].pc = "idle"
    BY <1>6, <2>1 DEF DirDone
  <2>4. b = Cardinality(Busy') + 1
    BY <1>2, <2>1, <2>3, BusyChanges
  <2>5. Cardinality(Busy') \in Nat
    <3>1. IsFiniteSet(Busy')
      <4>1. IsFiniteSet(Walkers) /\ Busy' \subseteq Walkers
        BY MediaAssumption DEF Busy
      <4>2. QED
        BY <4>1, FS_Subset
    <3>2. QED
      BY <3>1, FS_CardinalityType
  <2>6. \A v \in Walkers : walker'[v].pc # "gone"
    <3>1. Busy # {}
      BY <2>3 DEF Busy
    <3>2. QED
      BY <2>1, <2>3, <3>1 DEF WalkCounted
  <2>7. walk'.pending = Len(walk'.dirs) + Cardinality(Busy')
    BY <1>1, <1>3, <2>2, <2>4, <2>5
  <2>8. QED
    BY <2>6, <2>7 DEF WalkCounted
<1>7. CASE WalkerLeaves(w)
  <2>1. /\ walker'[w] = [pc |-> "gone", dirs |-> {}, entries |-> <<>>]
        /\ \A v \in Walkers \ {w} : walker'[v] = walker[v]
    BY <1>7, WalkerLeavesTypes
  <2>2. UNCHANGED walk /\ walker[w].pc = "idle" /\ walk.dirs = <<>> /\ walk.pending = 0
    BY <1>7 DEF WalkerLeaves, NoneLeft
  <2>3. b = 0
    BY <1>1, <1>3, <2>2
  <2>4. Busy = {} /\ Busy' = Busy
    BY <1>2, <2>1, <2>2, <2>3, BusyIs, BusyChanges
  <2>5. QED
    BY <2>2, <2>4 DEF WalkCounted
<1>8. QED
  BY <1>4, <1>5, <1>6, <1>7, BusyWalk DEF Walker

----------------------------------------------------------------------------
(* What was scanned, sent and received.                                    *)
Numbers ==
  /\ Running /\ run.mode = "serial" => run.scanned = run.received + Len(run.next) /\ run.lost = 0
  /\ Running /\ run.mode # "serial" =>
       /\ run.scanned = run.sent + Len(run.next)
       /\ run.sent = run.received + OnTheWay + run.lost
  /\ run.pc \in {"flush", "done"} =>
       run.received = run.scanned /\ OnTheWay = 0 /\ run.lost = 0
  /\ run.pc = "done" => writer = <<>>

LEMMA BeginNumbers ==
  ASSUME MediaTypes, StartBuild \/ StartRepair \/ Killed \/ SendFails
  PROVE  Numbers'
<1>1. PICK mode \in Modes, roots \in Seq(Dirs) : StartThreads(mode, roots)
  BY Begins
<1>2. /\ pool'.jobs = <<>> /\ pool'.results = <<>>
      /\ \A k \in Workers : worker'[k].entries = <<>>
  BY <1>1, StartsFresh
<1>3. OnTheWay' = 0
  <2>1. InJobs' = {} /\ InWorkers' = {}
    BY <1>2 DEF InJobs, InWorkers
  <2>2. Cardinality({}) = 0 /\ Len(pool'.results) = 0
    BY <1>2, FS_EmptySet
  <2>3. QED
    BY <2>1, <2>2 DEF OnTheWay
<1>4. CASE Killed \/ SendFails
  <2>1. run'.pc \in {"off", "failed"}
    BY <1>4, EarlyEndRun
  <2>2. QED
    BY <2>1 DEF Numbers, Running, Ended
<1>5. CASE StartBuild \/ StartRepair
  <2>1. PICK errors \in Nat : Counts(0, 0, 0, errors, 0)
    BY <1>5, BuildRun, RepairRun
  <2>2. run'.next = <<>> /\ run'.pc \in {"list", "drain", "targets"}
    BY <1>5, BuildRun, RepairRun
  <2>3. Len(run'.next) = 0
    BY <2>2
  <2>4. QED
    BY <1>3, <2>1, <2>2, <2>3 DEF Numbers, Counts
<1>6. QED
  BY <1>4, <1>5

LEMMA NumbersAre ==
  ASSUME MediaTypes
  PROVE  /\ run.scanned \in Nat /\ run.sent \in Nat /\ run.received \in Nat /\ run.lost \in Nat
         /\ Len(run.next) \in Nat /\ OnTheWay \in Nat
BY Amounts DEF MediaTypes, RunState

\* Steps that count nothing.
LEMMA SteadyNumbers ==
  ASSUME Numbers, Running, run'.mode = run.mode, run'.pc \notin {"flush", "done"},
         run'.scanned = run.scanned, run'.sent = run.sent, run'.received = run.received,
         run'.lost = run.lost, Len(run'.next) = Len(run.next), OnTheWay' = OnTheWay
  PROVE  Numbers'
BY DEF Numbers, Running

LEMMA MainWay ==
  ASSUME MediaTypes, UNCHANGED worker,
         pool' = [pool EXCEPT !.open = FALSE] \/ UNCHANGED pool
  PROVE  OnTheWay' = OnTheWay
<1>1. pool \in Pool
  BY DEF MediaTypes, ThreadsKnown
<1>2. pool'.jobs = pool.jobs /\ pool'.results = pool.results
  BY <1>1 DEF Pool
<1>3. QED
  BY <1>2, SameOnTheWay

\* Files that are scanned are held until they are probed or sent.
LEMMA ScanNumbers ==
  ASSUME MediaTypes, Numbers, Running, Framed, run.next = <<>>, run'.pc \notin {"flush", "done"},
         NEW entries, run'.next = entries, Len(entries) \in Nat, NEW errors,
         Counts(run.scanned + Len(run'.next), run.sent, run.received, errors, run.lost),
         OnTheWay' = OnTheWay
  PROVE  Numbers'
<1>1. PICK n \in Nat : n = Len(run'.next)
  OBVIOUS
<1>2. Len(run.next) = 0
  OBVIOUS
<1>3. /\ run'.scanned = run.scanned + n /\ run'.sent = run.sent /\ run'.received = run.received
      /\ run'.lost = run.lost /\ run'.mode = run.mode
  BY <1>1 DEF Counts, Framed
<1>4. CASE run.mode = "serial"
  <2>1. run.scanned = run.received + 0 /\ run.lost = 0
    BY <1>2, <1>4 DEF Numbers
  <2>2. run'.scanned = run'.received + n
    BY <1>3, <2>1, NumbersAre
  <2>3. QED
    BY <1>1, <1>3, <1>4, <2>1, <2>2 DEF Numbers
<1>5. CASE run.mode # "serial"
  <2>1. run.scanned = run.sent + 0 /\ run.sent = run.received + OnTheWay + run.lost
    BY <1>2, <1>5 DEF Numbers
  <2>2. run'.scanned = run'.sent + n
    BY <1>3, <2>1, NumbersAre
  <2>3. QED
    BY <1>1, <1>3, <1>5, <2>1, <2>2 DEF Numbers
<1>6. QED
  BY <1>4, <1>5

LEMMA ListNumbers ==
  ASSUME MediaTypes, Course, OwnThreads, Numbers, OpenRoot \/ OpenDir \/ NextFile
  PROVE  Numbers'
<1>1. OnTheWay' = OnTheWay
  BY MainWay DEF OpenRoot, OpenDir, NextFile, threads
<1>2. Running /\ run.pc = "list" /\ run.next = <<>>
  BY DEF OpenRoot, OpenDir, NextFile, Listing, Running, Ended, MediaTypes, NextFits
<1>3. CASE OpenRoot
  <2>1. Framed /\ run'.pc = Again /\ SameCounts /\ run'.next = run.next
    BY <1>3, GoIs DEF OpenRoot
  <2>2. QED
    BY <1>1, <1>2, <2>1, SteadyNumbers DEF Framed, SameCounts, Counts, Again
<1>4. CASE OpenDir
  BY <1>1, <1>2, <1>4, OpenDirRun, SteadyNumbers DEF Framed, SameCounts, Counts
<1>5. CASE NextFile
  <2>1. PICK f, entry :
          run' = IF disk[f] = 0 THEN [run EXCEPT !.errors = @ + 1]
                 ELSE IF SkipUnchanged(entry) THEN [run EXCEPT !.pc = Again]
                 ELSE [run EXCEPT !.scanned = @ + 1, !.next = <<entry>>,
                         !.pc = IF run.mode = "serial" THEN "probe" ELSE "send"]
    BY <1>5 DEF NextFile
  <2>2. CASE disk[f] = 0 \/ SkipUnchanged(entry)
    <3>1. /\ Framed /\ run'.pc \in {run.pc, Again} /\ run'.next = run.next
          /\ \E errors : Counts(run.scanned, run.sent, run.received, errors, run.lost)
      BY <2>1, <2>2, NextFileRun DEF SameCounts
    <3>2. run'.pc \notin {"flush", "done"}
      BY <1>2, <3>1 DEF Again
    <3>3. QED
      BY <1>1, <1>2, <3>1, <3>2, SteadyNumbers DEF Framed, Counts
  <2>3. CASE disk[f] # 0 /\ ~SkipUnchanged(entry)
    <3>1. /\ Framed /\ run'.next = <<entry>>
          /\ run'.pc = IF run.mode = "serial" THEN "probe" ELSE "send"
          /\ Counts(run.scanned + 1, run.sent, run.received, run.errors, run.lost)
      BY <2>1, <2>3, NextFileRun
    <3>2. Len(run'.next) = 1 /\ run'.pc \notin {"flush", "done"}
      BY <3>1
    <3>3. Counts(run.scanned + Len(run'.next), run.sent, run.received, run.errors, run.lost)
      BY <3>1, <3>2
    <3>4. Len(<<entry>>) \in Nat
      OBVIOUS
    <3>5. QED
      BY <1>1, <1>2, <3>1, <3>2, <3>3, <3>4, ScanNumbers
  <2>4. QED
    BY <2>2, <2>3
<1>6. QED
  BY <1>3, <1>4, <1>5

LEMMA HereNumbers ==
  ASSUME MediaTypes, Course, OwnThreads, Numbers, ProbeHere \/ PushHere
  PROVE  Numbers'
<1>1. OnTheWay' = OnTheWay
  BY MainWay DEF ProbeHere, PushHere, threads
<1>2. CASE ProbeHere
  <2>1. /\ Framed /\ run'.pc = "push" /\ SameCounts /\ Len(run'.next) = 1 /\ Len(run.next) = 1
        /\ Running
    BY <1>2, ProbeHereRun DEF Running, Ended
  <2>2. QED
    BY <1>1, <2>1, SteadyNumbers DEF Framed, SameCounts, Counts
<1>3. CASE PushHere
  <2>1. /\ Framed /\ run'.pc \in {"list", "targets"}
        /\ Counts(run.scanned, run.sent, run.received + 1, run.errors, run.lost)
        /\ run'.next = <<>> /\ Len(run.next) = 1 /\ run.pc = "push"
    BY <1>3, PushHereRun
  <2>2. run.mode = "serial" /\ Running
    BY <2>1 DEF Course, Running, Ended
  <2>3. run.scanned = run.received + 1 /\ run.lost = 0
    BY <2>1, <2>2 DEF Numbers
  <2>4. Len(run'.next) = 0
    BY <2>1
  <2>5. run'.scanned = run'.received + Len(run'.next) /\ run'.lost = 0
    BY <2>1, <2>3, <2>4, NumbersAre DEF Counts
  <2>6. run'.mode = "serial"
    BY <2>1, <2>2 DEF Framed
  <2>7. QED
    BY <2>1, <2>5, <2>6 DEF Numbers
<1>4. QED
  BY <1>2, <1>3

\* The main thread goes on to wait for the results, or to flush what it wrote itself.
LEMMA EndNumbers ==
  ASSUME MediaTypes, Course, OwnThreads, Numbers, EndList \/ EndTargets
  PROVE  Numbers'
<1>1. OnTheWay' = OnTheWay
  BY MainWay DEF EndList, EndTargets
<1>2. Running /\ run.next = <<>>
  BY DEF EndList, EndTargets, Listing, Running, Ended, MediaTypes, NextFits
<1>3. /\ Framed /\ SameCounts /\ run'.next = run.next
      /\ run'.pc = IF run.mode = "serial" THEN "flush" ELSE "rest"
  <2>1. Go(IF run.mode = "serial" THEN "flush" ELSE "rest")
    BY DEF EndList, EndTargets
  <2>2. QED
    BY <2>1, GoIs
<1>4. CASE run.mode # "serial"
  BY <1>1, <1>2, <1>3, <1>4, SteadyNumbers DEF Framed, SameCounts, Counts
<1>5. CASE run.mode = "serial"
  <2>1. OnTheWay = 0
    <3>1. \A k \in Workers : worker[k].entries = <<>>
      BY <1>5 DEF OwnThreads, GoneWorker
    <3>2. QED
      BY <1>5, <3>1, NothingOnTheWay DEF OwnThreads
  <2>2. Len(run.next) = 0
    BY <1>2
  <2>3. run.scanned = run.received /\ run.lost = 0
    BY <1>2, <1>5, <2>2, NumbersAre DEF Numbers
  <2>4. run'.scanned = run'.received + Len(run'.next)
    BY <1>3, <2>2, <2>3, NumbersAre DEF SameCounts, Counts
  <2>5. run'.mode = "serial" /\ run'.pc = "flush"
    BY <1>3, <1>5 DEF Framed
  <2>6. QED
    BY <1>1, <1>3, <2>1, <2>3, <2>4, <2>5 DEF Numbers, SameCounts, Counts
<1>6. QED
  BY <1>4, <1>5

LEMMA TakeNumbers ==
  ASSUME MediaTypes, Course, Numbers, TakeResult, run.pc \in {"drain", "rest"}
  PROVE  Numbers'
<1>1. OnTheWay = OnTheWay' + 1 /\ OnTheWay' \in Nat
  BY TakeResultWay
<1>2. /\ Framed /\ run'.pc = run.pc /\ run'.next = run.next
      /\ Counts(run.scanned, run.sent, run.received + 1, run.errors, run.lost)
  BY TakeResultRun
<1>3. run.mode # "serial" /\ Running
  BY DEF Course, Running, Ended
<1>4. run.scanned = run.sent + Len(run.next) /\ run.sent = run.received + OnTheWay + run.lost
  BY <1>3 DEF Numbers
<1>5. PICK m \in Nat : m = OnTheWay'
  BY <1>1
<1>6. run.received + (m + 1) + run.lost = (run.received + 1) + m + run.lost
  BY NumbersAre
<1>7. run'.sent = run'.received + OnTheWay' + run'.lost
  BY <1>1, <1>2, <1>4, <1>5, <1>6 DEF Counts
<1>8. QED
  BY <1>2, <1>3, <1>4, <1>7 DEF Numbers, Framed, Counts

LEMMA SendNumbers ==
  ASSUME MediaTypes, Course, Numbers, SendJob
  PROVE  Numbers'
<1>1. OnTheWay' = OnTheWay + Len(run.next)
  BY SendJobWay
<1>2. /\ Framed /\ run'.pc = "drain" /\ run'.next = <<>> /\ run.pc = "send"
      /\ Counts(run.scanned, run.sent + Len(run.next), run.received, run.errors, run.lost)
  BY SendJobRun, SendJobIs
<1>3. run.mode # "serial" /\ Running
  BY <1>2 DEF Course, Running, Ended
<1>4. run.scanned = run.sent + Len(run.next) /\ run.sent = run.received + OnTheWay + run.lost
  BY <1>3 DEF Numbers
<1>5. PICK n \in Nat : n = Len(run.next)
  BY NumbersAre
<1>6. Len(run'.next) = 0
  BY <1>2
<1>7. run'.scanned = run'.sent + Len(run'.next)
  BY <1>2, <1>4, <1>5, <1>6, NumbersAre DEF Counts
<1>8. (run.received + OnTheWay + run.lost) + n = run.received + (OnTheWay + n) + run.lost
  BY NumbersAre
<1>9. run'.sent = run'.received + OnTheWay' + run'.lost
  BY <1>1, <1>2, <1>4, <1>5, <1>8 DEF Counts
<1>10. QED
  BY <1>2, <1>3, <1>7, <1>9 DEF Numbers, Framed

LEMMA LastNumbers ==
  ASSUME MediaTypes, Course, Numbers, EndRest \/ FlushRest
  PROVE  Numbers'
<1>1. OnTheWay' = OnTheWay
  BY MainWay DEF EndRest, FlushRest, threads
<1>2. CASE EndRest
  <2>1. Framed /\ run'.pc = "flush" /\ SameCounts /\ run'.next = run.next
    BY <1>2, GoIs DEF EndRest
  <2>2. run.mode # "serial" /\ Running /\ run.next = <<>> /\ ~(run.received < run.sent)
    BY <1>2 DEF EndRest, Course, Running, Ended, MediaTypes, NextFits, Outstanding
  <2>3. Len(run.next) = 0
    BY <2>2
  <2>4. run.scanned = run.sent + 0 /\ run.sent = run.received + OnTheWay + run.lost
    BY <2>2, <2>3 DEF Numbers
  <2>5. run.received = run.scanned /\ OnTheWay = 0 /\ run.lost = 0
    BY <2>2, <2>4, NumbersAre
  <2>6. QED
    BY <1>1, <2>1, <2>2, <2>4, <2>5 DEF Numbers, SameCounts, Counts, Framed, Running, Ended
<1>3. CASE FlushRest
  <2>1. Framed /\ run'.pc = "done" /\ SameCounts
    BY <1>3, GoIs DEF FlushRest
  <2>2. writer' = <<>> /\ run.pc = "flush"
    BY <1>3 DEF FlushRest
  <2>3. QED
    BY <1>1, <2>1, <2>2 DEF Numbers, SameCounts, Counts, Running, Ended
<1>4. QED
  BY <1>2, <1>3

LEMMA MainNumbers ==
  ASSUME MediaTypes, Course, OwnThreads, Numbers, Main, ~SendFails
  PROVE  Numbers'
<1>1. CASE NextTarget
  <2>1. /\ Framed /\ run'.pc \in {"probe", "send"} /\ Len(run'.next) \in Nat
        /\ Counts(run.scanned + Len(run'.next), run.sent, run.received, run.errors, run.lost)
    BY <1>1, NextTargetRun
  <2>2. Running /\ run.next = <<>>
    BY <1>1 DEF NextTarget, Running, Ended, MediaTypes, NextFits
  <2>3. OnTheWay' = OnTheWay
    BY <1>1, MainWay DEF NextTarget, threads
  <2>4. QED
    BY <2>1, <2>2, <2>3, ScanNumbers
<1>2. CASE TakeEvent
  <2>1. /\ Framed /\ run'.pc \in {"drain", "send"}
        /\ run'.next = ToProbe(Head(walk.events).entries)
        /\ Counts(run.scanned + Len(run'.next), run.sent, run.received,
                  run.errors + Head(walk.events).errors, run.lost)
    BY <1>2, TakeEventRun
  <2>2. Running /\ run.next = <<>>
    BY <1>2 DEF TakeEvent, Running, Ended, MediaTypes, NextFits
  <2>3. OnTheWay' = OnTheWay
    BY <1>2, MainWay DEF TakeEvent
  <2>4. run'.next \in Seq(Entries)
    <3>1. Head(walk.events).entries \in Seq(Entries)
      BY <1>2, TakeEventIs
    <3>2. Len(run.targets) \in Nat /\ run.scanned + Len(run.targets) <= run.max
      BY <2>2 DEF Course, MediaTypes, RunState
    <3>3. run.scanned <= run.max
      BY <3>2 DEF MediaTypes, RunState
    <3>4. QED
      BY <2>1, <3>1, <3>3, ToProbeIs
  <2>5. Len(run'.next) \in Nat
    BY <2>4
  <2>6. QED
    BY <2>1, <2>2, <2>3, <2>5, ScanNumbers
<1>3. CASE Drained \/ NoEvent \/ StopWalkers \/ JoinWalkers
  <2>1. OnTheWay' = OnTheWay
    BY <1>3, MainWay DEF Drained, NoEvent, StopWalkers, JoinWalkers, threads
  <2>2. Running
    BY <1>3 DEF Drained, NoEvent, StopWalkers, JoinWalkers, Running, Ended
  <2>3. PICK pc \in {"list", "targets", "event", "drain", "join", "rest"} : Go(pc)
    BY <1>3 DEF Drained, NoEvent, StopWalkers, JoinWalkers, AfterDrain
  <2>4. Framed /\ run'.pc = pc /\ SameCounts /\ run'.next = run.next
    BY <2>3, GoIs
  <2>5. QED
    BY <2>1, <2>2, <2>4, SteadyNumbers DEF Framed, SameCounts, Counts
<1>4. CASE DrainResults \/ AwaitResult
  BY <1>4, TakeNumbers DEF DrainResults, AwaitResult
<1>5. QED
  BY <1>1, <1>2, <1>3, <1>4, ListNumbers, HereNumbers, EndNumbers, SendNumbers, LastNumbers
  DEF Main

LEMMA WalkerNumbers ==
  ASSUME MediaTypes, Numbers, NEW w \in Walkers, Walker(w)
  PROVE  Numbers'
<1>1. UNCHANGED <<run, pool, worker, writer>>
  BY WalkerFrame
<1>2. OnTheWay' = OnTheWay
  BY <1>1, SameOnTheWay
<1>3. QED
  BY <1>1, <1>2 DEF Numbers, Running

LEMMA OtherNumbers ==
  ASSUME MediaTypes, Course, OwnThreads, Numbers,
         \/ \E f \in Files : EditFile(f)
         \/ \E k \in Workers : Worker(k) \/ WorkerPanics(k)
  PROVE  Numbers'
<1>1. /\ UNCHANGED writer /\ run'.pc = run.pc /\ run'.mode = run.mode /\ run'.scanned = run.scanned
      /\ run'.next = run.next /\ run'.sent = run.sent /\ run'.received = run.received
  BY OtherFrame
<1>2. CASE run'.lost = run.lost /\ OnTheWay' = OnTheWay
  BY <1>1, <1>2 DEF Numbers, Running
<1>3. CASE \E f \in Files : EditFile(f)
  <2>1. UNCHANGED <<pool, worker>> /\ run' = [run EXCEPT !.calm = FALSE]
    BY <1>3 DEF EditFile, threads
  <2>2. run'.lost = run.lost
    BY <2>1 DEF MediaTypes, RunState
  <2>3. QED
    BY <1>2, <2>1, <2>2, SameOnTheWay
<1>4. ASSUME NEW k \in Workers, Worker(k) PROVE Numbers'
  <2>1. run'.lost = run.lost
    BY <1>4 DEF Worker, TakeJob, ProbeFile, SendResult, WorkerLeaves
  <2>2. OnTheWay' = OnTheWay
    <3>1. CASE TakeJob(k)
      BY <3>1, TakeJobWay DEF Course
    <3>2. CASE SendResult(k)
      BY <3>2, SendResultWay
    <3>3. CASE ProbeFile(k)
      <4>1. /\ UNCHANGED pool /\ worker'[k].entries = worker[k].entries
            /\ \A j \in Workers \ {k} : worker'[j] = worker[j]
        BY <3>3, ProbeFileTypes DEF ProbeFile
      <4>2. QED
        BY <4>1, SameOnTheWay
    <3>4. CASE WorkerLeaves(k)
      <4>1. /\ UNCHANGED pool /\ worker' = [worker EXCEPT ![k] = GoneWorker]
            /\ UNCHANGED outside /\ worker[k].pc = "idle"
        BY <3>4 DEF WorkerLeaves
      <4>2. worker'[k].entries = <<>> /\ \A j \in Workers \ {k} : worker'[j] = worker[j]
        BY <4>1, WorkerStops
      <4>3. worker[k].entries = <<>>
        BY <4>1 DEF MediaTypes, WorkersFit
      <4>4. QED
        BY <4>1, <4>2, <4>3, SameOnTheWay
    <3>5. QED
      BY <1>4, <3>1, <3>2, <3>3, <3>4 DEF Worker
  <2>3. QED
    BY <1>2, <2>1, <2>2
<1>5. ASSUME NEW k \in Workers, WorkerPanics(k) PROVE Numbers'
  <2>1. OnTheWay = OnTheWay' + Len(worker[k].entries) /\ OnTheWay' \in Nat
    BY <1>5, WorkerPanicsWay
  <2>2. run'.lost = run.lost + Len(worker[k].entries)
    BY <1>5, WorkerPanicsRun DEF Counts
  <2>3. worker[k].pc # "gone" /\ worker[k].entries \in Seq(Entries) /\ worker[k].entries # <<>>
    BY <1>5, WorkerPanicsTypes DEF WorkerPanics
  <2>4. run.mode # "serial" /\ ~Rested
    BY <2>3, WorkerWorks
  <2>5. PICK n \in Nat \ {0} : n = Len(worker[k].entries)
    BY <2>3
  <2>6. PICK m \in Nat : m = OnTheWay'
    BY <2>1
  <2>7. OnTheWay = m + n /\ run'.lost = run.lost + n
    BY <2>1, <2>2, <2>5, <2>6
  <2>8. OnTheWay # 0
    BY <2>7
  <2>9. run.pc \notin {"flush", "done"}
    BY <2>8 DEF Numbers
  <2>10. run.received + (m + n) + run.lost = run.received + m + (run.lost + n)
    BY NumbersAre
  <2>11. Running => run'.sent = run'.received + OnTheWay' + run'.lost
    BY <1>1, <2>4, <2>6, <2>7, <2>10 DEF Numbers
  <2>12. QED
    BY <1>1, <2>4, <2>9, <2>11 DEF Numbers, Running
<1>6. QED
  BY <1>3, <1>4, <1>5

----------------------------------------------------------------------------
(* What a run knows of the files, as long as nobody changes them.          *)

\* The files that some part of the run still has in hand.
Held(f) ==
  \/ f \in lister.current
  \/ f \in FilesOf(run.targets) \/ f \in FilesOf(run.next)
  \/ f \in FilesOf(pool.results) \/ f \in FilesOf(writer)
  \/ \E job \in Range(pool.jobs) : f \in FilesOf(job)
  \/ \E k \in Workers : f \in FilesOf(worker[k].entries)
  \/ \E w \in Walkers : f \in FilesOf(walker[w].entries)
  \/ \E event \in Range(walk.events) : f \in FilesOf(event.entries)

AllFresh ==
  /\ Fresh(run.targets) /\ Fresh(run.next) /\ Fresh(pool.results) /\ Fresh(writer)
  /\ \A job \in Range(pool.jobs) : Fresh(job)
  /\ \A k \in Workers : Fresh(worker[k].entries) /\ Fresh(worker[k].probe)
  /\ \A w \in Walkers : Fresh(walker[w].entries)
  /\ \A event \in Range(walk.events) : Fresh(event.entries)

Known(f) == disk[f] = 0 \/ Covered(f) \/ Held(f)

\* The directories that are still to be listed.
Waits(dir) ==
  \/ dir \in Range(lister.roots) \/ dir \in Range(lister.dirs) \/ dir \in Range(walk.dirs)
  \/ \E w \in Walkers : dir \in walker[w].dirs

NoErrors ==
  /\ run.errors = 0
  /\ \A event \in Range(walk.events) : event.errors = 0
  /\ \A w \in Walkers : walker[w].pc = "stats" => walker[w].errors = 0

\* What was listed is closed under the directories below it, but for those that wait.
ListedAre(known) ==
  /\ \A dir \in Range(Roots) : dir \in known \/ Waits(dir)
  /\ \A dir \in known : /\ \A sub \in SubDirs[dir] : sub \in known \/ Waits(sub)
                        /\ \A f \in FilesIn[dir] : Known(f)

Coverage ==
  run.calm /\ run.lost = 0 /\ ~Rested =>
    /\ AllFresh
    /\ run.kind = "repair" => \A f \in run.loaded : disk[f] # 0 /\ Known(f)
    /\ run.kind = "build" /\ NoErrors /\ Room => \E known \in SUBSET Dirs : ListedAre(known)

LEMMA EmptyParts ==
  FilesOf(<<>>) = {} /\ Fresh(<<>>) /\ Range(<<>>) = {}
<1>1. Range(<<>>) = {}
  BY DEF Range
<1>2. QED
  BY <1>1 DEF FilesOf, Fresh

LEMMA OnePart ==
  ASSUME NEW e
  PROVE  FilesOf(<<e>>) = {e.file} /\ (Fresh(<<e>>) <=> e.stamp = disk[e.file]) /\ Range(<<e>>) = {e}
<1>1. Range(<<e>>) = {e}
  BY DEF Range
<1>2. QED
  BY <1>1 DEF FilesOf, Fresh

LEMMA TwoParts ==
  ASSUME NEW p, NEW q, NEW r, Range(p) = Range(q) \cup Range(r)
  PROVE  /\ FilesOf(p) = FilesOf(q) \cup FilesOf(r)
         /\ Fresh(p) <=> Fresh(q) /\ Fresh(r)
BY DEF FilesOf, Fresh

LEMMA MorePart ==
  ASSUME NEW S, NEW q \in Seq(S), NEW e \in S
  PROVE  /\ FilesOf(Append(q, e)) = FilesOf(q) \cup {e.file}
         /\ Fresh(Append(q, e)) <=> Fresh(q) /\ e.stamp = disk[e.file]
<1>1. Range(Append(q, e)) = Range(q) \cup {e}
  BY RangeAppend
<1>2. QED
  BY <1>1 DEF FilesOf, Fresh

LEMMA FirstPart ==
  ASSUME NEW S, NEW q \in Seq(S), q # <<>>
  PROVE  /\ FilesOf(q) = {Head(q).file} \cup FilesOf(Tail(q))
         /\ Fresh(q) <=> Head(q).stamp = disk[Head(q).file] /\ Fresh(Tail(q))
<1>1. Range(q) = {Head(q)} \cup Range(Tail(q))
  BY RangeHeadTail
<1>2. QED
  BY <1>1 DEF FilesOf, Fresh

\* What is fresh is told by the parts, while the disk stays.
LEMMA FreshNext ==
  ASSUME UNCHANGED disk,
         Fresh(run'.targets), Fresh(run'.next), Fresh(pool'.results), Fresh(writer'),
         \A job \in Range(pool'.jobs) : Fresh(job),
         \A k \in Workers : Fresh(worker'[k].entries) /\ Fresh(worker'[k].probe),
         \A w \in Walkers : Fresh(walker'[w].entries),
         \A event \in Range(walk'.events) : Fresh(event.entries)
  PROVE  AllFresh'
BY DEF AllFresh, Fresh

\* A step keeps the coverage when it keeps what is known and what waits.
LEMMA CoverageStep ==
  ASSUME Coverage, UNCHANGED disk, ~Rested, run'.calm => run.calm, run'.lost = 0 => run.lost = 0,
         run'.kind = run.kind, run'.loaded = run.loaded, run.loaded \subseteq Files,
         AllFresh => AllFresh',
         AllFresh /\ run.kind = "repair" => \A f \in Files : Known(f) => Known(f)',
         AllFresh /\ run.kind = "build" /\ NoErrors' /\ Room' =>
           /\ NoErrors /\ Room
           /\ \A f \in Files : Known(f) => Known(f)'
           /\ \E more \in SUBSET Dirs :
                /\ \A dir \in Dirs : Waits(dir) => Waits(dir)' \/ dir \in more
                /\ \A dir \in more : /\ \A sub \in SubDirs[dir] : Waits(sub)' \/ sub \in more
                                     /\ \A f \in FilesIn[dir] : Known(f)'
  PROVE  Coverage'
<1> SUFFICES ASSUME run'.calm, run'.lost = 0, ~Rested'
             PROVE  /\ AllFresh'
                    /\ run'.kind = "repair" => \A f \in run'.loaded : disk'[f] # 0 /\ Known(f)'
                    /\ run'.kind = "build" /\ NoErrors' /\ Room' =>
                         \E known \in SUBSET Dirs : ListedAre(known)'
  BY DEF Coverage
<1>1. /\ AllFresh
      /\ run.kind = "repair" => \A f \in run.loaded : disk[f] # 0 /\ Known(f)
      /\ run.kind = "build" /\ NoErrors /\ Room => \E known \in SUBSET Dirs : ListedAre(known)
  BY DEF Coverage
<1>2. run'.kind = "repair" => \A f \in run'.loaded : disk'[f] # 0 /\ Known(f)'
  BY <1>1
<1>3. ASSUME run'.kind = "build", NoErrors', Room'
      PROVE  \E known \in SUBSET Dirs : ListedAre(known)'
  <2>1. PICK known \in SUBSET Dirs : ListedAre(known)
    BY <1>1, <1>3
  <2>2. PICK more \in SUBSET Dirs :
          /\ \A dir \in Dirs : Waits(dir) => Waits(dir)' \/ dir \in more
          /\ \A dir \in more : /\ \A sub \in SubDirs[dir] : Waits(sub)' \/ sub \in more
                               /\ \A f \in FilesIn[dir] : Known(f)'
    BY <1>1, <1>3
  <2>3. \A f \in Files : Known(f) => Known(f)'
    BY <1>1, <1>3
  <2>4. \A dir \in Dirs : SubDirs[dir] \subseteq Dirs /\ FilesIn[dir] \subseteq Files
    BY TreeIs
  <2>5. Range(Roots) \subseteq Dirs
    BY MediaAssumption, RangeIs
  <2>6. \A dir \in Range(Roots) : dir \in known \cup more \/ Waits(dir)'
    BY <2>1, <2>2, <2>5 DEF ListedAre
  <2>7. ASSUME NEW dir \in known \cup more
        PROVE  /\ \A sub \in SubDirs[dir] : sub \in known \cup more \/ Waits(sub)'
               /\ \A f \in FilesIn[dir] : Known(f)'
    <3>1. CASE dir \in known
      BY <2>1, <2>2, <2>3, <2>4, <3>1 DEF ListedAre
    <3>2. CASE dir \in more
      BY <2>2, <3>2
    <3>3. QED
      BY <3>1, <3>2
  <2>8. ListedAre(known \cup more)'
    BY <2>6, <2>7 DEF ListedAre
  <2>9. QED
    BY <2>8
<1>4. QED
  BY <1>1, <1>2, <1>3

\* Nothing was listed: what waits goes on to wait.
LEMMA QuietStep ==
  ASSUME Coverage, UNCHANGED disk, ~Rested, run'.calm => run.calm, run'.lost = 0 => run.lost = 0,
         run'.kind = run.kind, run'.loaded = run.loaded, run.loaded \subseteq Files,
         AllFresh => AllFresh',
         AllFresh /\ (run.kind = "repair" \/ (NoErrors' /\ Room')) =>
           \A f \in Files : Known(f) => Known(f)',
         run.kind = "build" /\ NoErrors' /\ Room' =>
           NoErrors /\ Room /\ \A dir \in Dirs : Waits(dir) => Waits(dir)'
  PROVE  Coverage'
<1>1. AllFresh /\ run.kind = "build" /\ NoErrors' /\ Room' =>
        /\ NoErrors /\ Room
        /\ \A f \in Files : Known(f) => Known(f)'
        /\ \E more \in SUBSET Dirs :
             /\ \A dir \in Dirs : Waits(dir) => Waits(dir)' \/ dir \in more
             /\ \A dir \in more : /\ \A sub \in SubDirs[dir] : Waits(sub)' \/ sub \in more
                                  /\ \A f \in FilesIn[dir] : Known(f)'
  <2> SUFFICES ASSUME AllFresh, run.kind = "build", NoErrors', Room'
               PROVE  \E more \in SUBSET Dirs :
                        /\ \A dir \in Dirs : Waits(dir) => Waits(dir)' \/ dir \in more
                        /\ \A dir \in more :
                             /\ \A sub \in SubDirs[dir] : Waits(sub)' \/ sub \in more
                             /\ \A f \in FilesIn[dir] : Known(f)'
    OBVIOUS
  <2>1. {} \in SUBSET Dirs
    OBVIOUS
  <2>2. \A dir \in Dirs : Waits(dir) => Waits(dir)' \/ dir \in {}
    OBVIOUS
  <2>3. QED
    BY <2>1, <2>2
<1>2. AllFresh /\ run.kind = "repair" => \A f \in Files : Known(f) => Known(f)'
  OBVIOUS
<1>3. QED
  BY <1>1, <1>2, CoverageStep

\* What a step in which no file is written leaves known.
LEMMA StillKnown ==
  ASSUME UNCHANGED disk, UNCHANGED rows, \A f \in Files : Held(f) => Known(f)'
  PROVE  \A f \in Files : Known(f) => Known(f)'
BY DEF Known, Covered

\* Room only becomes less within a run.
LEMMA LessRoom ==
  ASSUME MediaTypes, run'.max = run.max, NEW n \in Nat, run'.scanned = run.scanned + n
  PROVE  Room' => Room
<1>1. run.scanned \in Nat /\ run.max \in Nat
  BY DEF MediaTypes, RunState
<1>2. QED
  BY <1>1 DEF Room

LEMMA BeginCoverage ==
  ASSUME MediaTypes, Ends, StartBuild \/ StartRepair \/ Killed \/ SendFails
  PROVE  Coverage'
<1>1. CASE Killed \/ SendFails
  <2>1. Rested'
    BY <1>1, EarlyEndRun DEF Rested
  <2>2. QED
    BY <2>1 DEF Coverage
<1>2. ASSUME NEW mode \in Modes, NEW roots \in Seq(Dirs), StartThreads(mode, roots)
      PROVE  /\ \A w \in Walkers : /\ Fresh(walker'[w].entries) /\ walker'[w].dirs = {}
                                   /\ walker'[w].pc # "stats"
             /\ \A k \in Workers : Fresh(worker'[k].entries) /\ Fresh(worker'[k].probe)
             /\ walk'.events = <<>> /\ walk'.dirs = roots /\ pool'.jobs = <<>>
             /\ Fresh(pool'.results) /\ Fresh(writer')
  <2>1. /\ \A w \in Walkers :
             walker'[w] = [pc |-> IF roots = <<>> THEN "gone" ELSE "idle", dirs |-> {},
                           entries |-> <<>>]
        /\ walk' = [dirs |-> roots, pending |-> Len(roots), stop |-> FALSE, events |-> <<>>,
                    closed |-> FALSE]
        /\ pool'.jobs = <<>> /\ pool'.results = <<>> /\ writer' = <<>>
        /\ \A k \in Workers : worker'[k].entries = <<>> /\ worker'[k].probe = <<>>
    BY <1>2, StartsFresh
  <2>2. \A w \in Walkers : /\ walker'[w].entries = <<>> /\ walker'[w].dirs = {}
                           /\ walker'[w].pc # "stats"
    BY <2>1
  <2>3. walk'.events = <<>> /\ walk'.dirs = roots
    BY <2>1
  <2>4. QED
    BY <2>1, <2>2, <2>3, EmptyParts
<1>3. CASE StartBuild
  <2>1. PICK mode \in Modes :
          /\ run'.kind = "build" /\ run'.targets = <<>> /\ run'.next = <<>>
          /\ StartThreads(mode, IF mode = "parallel" THEN Roots ELSE <<>>)
          /\ lister' = [NoLister EXCEPT !.roots = IF mode = "parallel" THEN <<>> ELSE Roots]
    BY <1>3, BuildRun
  <2>2. PICK roots \in Seq(Dirs) : roots = IF mode = "parallel" THEN Roots ELSE <<>>
    <3>1. Roots \in Seq(Dirs) /\ <<>> \in Seq(Dirs)
      BY MediaAssumption
    <3>2. QED
      BY <3>1
  <2>3. StartThreads(mode, roots) /\ UNCHANGED disk
    BY <1>3, <2>1, <2>2 DEF StartBuild, outside
  <2>4. AllFresh'
    BY <1>2, <2>1, <2>3, EmptyParts, FreshNext
  <2>5. \A dir \in Range(Roots) : Waits(dir)'
    <3>1. walk'.dirs = roots
      BY <1>2, <2>3
    <3>2. CASE mode = "parallel"
      BY <2>2, <3>1, <3>2 DEF Waits
    <3>3. CASE mode # "parallel"
      BY <2>1, <3>3 DEF Waits, NoLister
    <3>4. QED
      BY <3>2, <3>3
  <2>6. ListedAre({})'
    BY <2>5 DEF ListedAre
  <2>7. QED
    BY <2>1, <2>4, <2>6 DEF Coverage
<1>4. CASE StartRepair
  <2>1. PICK mode \in {"serial", "parallel"} :
          /\ run'.kind = "repair" /\ run'.targets \in Seq(Entries)
          /\ run'.next = <<>> /\ run'.loaded = FilesOf(run'.targets) /\ Fresh(run'.targets)
          /\ StartThreads(mode, <<>>)
    BY <1>4, RepairRun
  <2>2. <<>> \in Seq(Dirs) /\ mode \in Modes /\ UNCHANGED disk
    <3>1. UNCHANGED disk
      BY <1>4 DEF StartRepair, outside
    <3>2. <<>> \in Seq(Dirs) /\ mode \in Modes
      BY DEF Modes
    <3>3. QED
      BY <3>1, <3>2
  <2>3. AllFresh'
    BY <1>2, <2>1, <2>2, EmptyParts, FreshNext
  <2>4. \A f \in run'.loaded : Known(f)'
    BY <2>1 DEF Known, Held
  <2>5. ASSUME NEW f \in run'.loaded PROVE disk'[f] # 0
    <3>1. PICK e \in Range(run'.targets) : f = e.file
      BY <2>1 DEF FilesOf
    <3>2. e \in Entries
      BY <2>1, <3>1, RangeIs
    <3>3. e.stamp = disk[f] /\ e.stamp # 0
      BY <2>1, <3>1, <3>2 DEF Fresh, Entries, Stamps
    <3>4. QED
      BY <2>2, <3>3
  <2>6. QED
    BY <2>1, <2>3, <2>4, <2>5 DEF Coverage
<1>5. QED
  BY <1>1, <1>3, <1>4

\* The steps of the workers, and changes from outside.
LEMMA WorkerKeeps ==
  ASSUME MediaTypes, JobsFit, NEW k \in Workers, Worker(k)
  PROVE  /\ \A j \in Workers \ {k} : worker'[j] = worker[j]
         /\ AllFresh => /\ Fresh(pool'.results) /\ Fresh(worker'[k].entries)
                        /\ Fresh(worker'[k].probe)
         /\ Range(pool'.jobs) \subseteq Range(pool.jobs)
         /\ \A job \in Range(pool.jobs) : job \in Range(pool'.jobs) \/ job = worker'[k].entries
         /\ FilesOf(pool.results) \subseteq FilesOf(pool'.results)
         /\ FilesOf(worker[k].entries) \subseteq FilesOf(worker'[k].entries) \cup FilesOf(pool'.results)
<1>1. CASE TakeJob(k)
  <2>1. /\ pool.jobs \in Seq(Seq(Entries)) /\ pool.jobs # <<>>
        /\ pool'.jobs = Tail(pool.jobs) /\ pool'.results = pool.results
        /\ worker[k].entries = <<>>
        /\ worker'[k].entries = Head(pool.jobs) /\ worker'[k].probe = worker[k].probe
        /\ \A j \in Workers \ {k} : worker'[j] = worker[j]
    BY <1>1, TakeJobTypes
  <2>2. Range(pool.jobs) = {Head(pool.jobs)} \cup Range(Tail(pool.jobs))
    BY <2>1, RangeHeadTail
  <2>3. Range(pool.jobs) = {worker'[k].entries} \cup Range(pool'.jobs)
    BY <2>1, <2>2
  <2>4. FilesOf(worker[k].entries) = {}
    BY <2>1, EmptyParts
  <2>5. AllFresh => /\ Fresh(pool'.results) /\ Fresh(worker'[k].entries)
                    /\ Fresh(worker'[k].probe)
    BY <2>1, <2>3 DEF AllFresh
  <2>6. QED
    BY <2>1, <2>3, <2>4, <2>5
<1>2. CASE ProbeFile(k)
  <2>1. /\ worker[k].entries \in Seq(Entries) /\ worker[k].entries # <<>>
        /\ worker'[k].entries = worker[k].entries
        /\ \A j \in Workers \ {k} : worker'[j] = worker[j]
    BY <1>2, ProbeFileTypes
  <2>2. PICK probe \in Read : /\ worker'[k].probe = <<probe>>
                              /\ probe.file = Head(worker[k].entries).file
                              /\ probe.stamp = Head(worker[k].entries).stamp
    BY <1>2, ProbeFileTypes
  <2>3. UNCHANGED pool
    BY <1>2 DEF ProbeFile
  <2>4. Fresh(worker[k].entries) => probe.stamp = disk[probe.file]
    BY <2>1, <2>2, FirstPart
  <2>5. Fresh(worker[k].entries) => Fresh(worker'[k].probe)
    BY <2>2, <2>4, OnePart
  <2>6. QED
    BY <2>1, <2>3, <2>5 DEF AllFresh
<1>3. CASE SendResult(k)
  <2>1. /\ worker[k].entries \in Seq(Entries) /\ worker[k].entries # <<>>
        /\ worker'[k].entries = Tail(worker[k].entries) /\ worker'[k].probe = <<>>
        /\ \A j \in Workers \ {k} : worker'[j] = worker[j]
        /\ pool.results \in Seq(Whole) /\ pool'.jobs = pool.jobs
    BY <1>3, SendResultTypes
  <2>2. PICK probe \in Read, result \in Whole :
          /\ probe \in Range(worker[k].probe)
          /\ probe.file = Head(worker[k].entries).file
          /\ result.file = probe.file /\ result.stamp = probe.stamp
          /\ pool'.results = Append(pool.results, result)
    BY <1>3, SendResultTypes
  <2>3. /\ FilesOf(pool'.results) = FilesOf(pool.results) \cup {result.file}
        /\ Fresh(pool'.results) <=> Fresh(pool.results) /\ result.stamp = disk[result.file]
    BY <2>1, <2>2, MorePart
  <2>4. /\ FilesOf(worker[k].entries) = {Head(worker[k].entries).file}
                                          \cup FilesOf(Tail(worker[k].entries))
        /\ Fresh(worker[k].entries) => Fresh(Tail(worker[k].entries))
    BY <2>1, FirstPart
  <2>5. Fresh(worker[k].probe) => result.stamp = disk[result.file]
    BY <2>2 DEF Fresh
  <2>6. AllFresh => /\ Fresh(pool'.results) /\ Fresh(worker'[k].entries)
                    /\ Fresh(worker'[k].probe)
    BY <2>1, <2>3, <2>4, <2>5, EmptyParts DEF AllFresh
  <2>7. QED
    BY <2>1, <2>2, <2>3, <2>4, <2>6
<1>4. CASE WorkerLeaves(k)
  <2>1. /\ UNCHANGED pool /\ worker' = [worker EXCEPT ![k] = GoneWorker]
        /\ UNCHANGED outside /\ worker[k].pc = "idle"
    BY <1>4 DEF WorkerLeaves
  <2>2. /\ worker'[k].entries = <<>> /\ worker'[k].probe = <<>>
        /\ \A j \in Workers \ {k} : worker'[j] = worker[j]
    BY <2>1, WorkerStops
  <2>3. worker[k].entries = <<>>
    BY <2>1 DEF MediaTypes, WorkersFit
  <2>4. QED
    BY <2>1, <2>2, <2>3, EmptyParts DEF AllFresh
<1>5. QED
  BY <1>1, <1>2, <1>3, <1>4 DEF Worker

LEMMA WorkerCoverage ==
  ASSUME MediaTypes, Course, OwnThreads, Coverage, NEW k \in Workers, Worker(k)
  PROVE  Coverage'
<1>1. UNCHANGED <<disk, rows, lister, walk, walker, writer, run>> /\ worker[k].pc # "gone"
  BY DEF Worker, TakeJob, ProbeFile, SendResult, WorkerLeaves, outside
<1>2. /\ \A j \in Workers \ {k} : worker'[j] = worker[j]
      /\ AllFresh => /\ Fresh(pool'.results) /\ Fresh(worker'[k].entries)
                     /\ Fresh(worker'[k].probe)
      /\ Range(pool'.jobs) \subseteq Range(pool.jobs)
      /\ \A job \in Range(pool.jobs) : job \in Range(pool'.jobs) \/ job = worker'[k].entries
      /\ FilesOf(pool.results) \subseteq FilesOf(pool'.results)
      /\ FilesOf(worker[k].entries) \subseteq FilesOf(worker'[k].entries) \cup FilesOf(pool'.results)
  BY WorkerKeeps DEF Course
<1>3. ~Rested
  BY <1>1, WorkerWorks
<1>4. AllFresh => AllFresh'
  <2> SUFFICES ASSUME AllFresh PROVE AllFresh'
    OBVIOUS
  <2>1. \A j \in Workers : Fresh(worker'[j].entries) /\ Fresh(worker'[j].probe)
    BY <1>2 DEF AllFresh
  <2>2. \A job \in Range(pool'.jobs) : Fresh(job)
    BY <1>2 DEF AllFresh
  <2>3. /\ Fresh(run'.targets) /\ Fresh(run'.next) /\ Fresh(writer')
        /\ \A w \in Walkers : Fresh(walker'[w].entries)
        /\ \A event \in Range(walk'.events) : Fresh(event.entries)
    BY <1>1 DEF AllFresh
  <2>4. QED
    BY <1>1, <1>2, <2>1, <2>2, <2>3, FreshNext
<1>5. ASSUME NEW f \in Files, Held(f) PROVE Held(f)'
  <2>1. CASE f \in FilesOf(pool.results)
    BY <1>2, <2>1 DEF Held
  <2>2. CASE \E job \in Range(pool.jobs) : f \in FilesOf(job)
    BY <1>2, <2>2 DEF Held
  <2>3. CASE \E j \in Workers : f \in FilesOf(worker[j].entries)
    BY <1>2, <2>3 DEF Held
  <2>4. CASE \/ f \in lister.current \/ f \in FilesOf(run.targets) \/ f \in FilesOf(run.next)
             \/ f \in FilesOf(writer)
             \/ \E w \in Walkers : f \in FilesOf(walker[w].entries)
             \/ \E event \in Range(walk.events) : f \in FilesOf(event.entries)
    BY <1>1, <2>4 DEF Held
  <2>5. QED
    BY <1>5, <2>1, <2>2, <2>3, <2>4 DEF Held
<1>6. \A f \in Files : Held(f) => Known(f)'
  BY <1>5 DEF Known
<1>7. \A f \in Files : Known(f) => Known(f)'
  BY <1>1, <1>6, StillKnown
<1>8. (NoErrors' => NoErrors) /\ (Room' => Room) /\ \A dir \in Dirs : Waits(dir) => Waits(dir)'
  BY <1>1 DEF NoErrors, Room, Waits
<1>9. run.loaded \subseteq Files
  BY DEF MediaTypes, RunState
<1>10. QED
  BY <1>1, <1>3, <1>4, <1>7, <1>8, <1>9, QuietStep

LEMMA OtherCoverage ==
  ASSUME MediaTypes, Course, OwnThreads, Coverage,
         \/ \E f \in Files : EditFile(f)
         \/ \E k \in Workers : Worker(k) \/ WorkerPanics(k)
  PROVE  Coverage'
<1>1. CASE \E f \in Files : EditFile(f)
  <2>1. ~run'.calm
    BY <1>1 DEF EditFile, MediaTypes, RunState
  <2>2. QED
    BY <2>1 DEF Coverage
<1>2. ASSUME NEW k \in Workers, WorkerPanics(k) PROVE Coverage'
  <2>1. run'.lost = run.lost + Len(worker[k].entries)
    BY <1>2, WorkerPanicsRun DEF Counts
  <2>2. worker[k].entries \in Seq(Entries) /\ worker[k].entries # <<>>
    BY <1>2, WorkerPanicsTypes
  <2>3. PICK n \in Nat \ {0} : n = Len(worker[k].entries)
    BY <2>2
  <2>4. run'.lost # 0
    BY <2>1, <2>3, NumbersAre
  <2>5. QED
    BY <2>4 DEF Coverage
<1>3. QED
  BY <1>1, <1>2, WorkerCoverage

----------------------------------------------------------------------------
(* The steps of the walkers.                                               *)
LEMMA WalkerStep ==
  ASSUME MediaTypes, OwnThreads, Ends, Coverage, NEW w \in Walkers, Walker(w),
         \A v \in Walkers \ {w} : walker'[v] = walker[v],
         AllFresh => /\ Fresh(walker'[w].entries)
                     /\ \A event \in Range(walk'.events) : Fresh(event.entries),
         ~walk.closed /\ ~walk.stop /\ NoErrors' =>
           /\ \A event \in Range(walk.events) : event \in Range(walk'.events)
           /\ \A f \in FilesOf(walker[w].entries) :
                \/ f \in FilesOf(walker'[w].entries)
                \/ \E event \in Range(walk'.events) : f \in FilesOf(event.entries)
           /\ walker[w].pc = "stats" => walker[w].errors = 0
           /\ \E more \in SUBSET Dirs :
                /\ \A dir \in Range(walk.dirs) : dir \in Range(walk'.dirs) \/ dir \in more
                /\ \A dir \in walker[w].dirs : dir \in walker'[w].dirs \/ dir \in Range(walk'.dirs)
                /\ \A dir \in more :
                     /\ SubDirs[dir] \subseteq walker'[w].dirs
                     /\ \A f \in FilesIn[dir] : disk[f] = 0 \/ f \in FilesOf(walker'[w].entries)
  PROVE  Coverage'
<1>1. /\ walker[w].pc # "gone"
      /\ UNCHANGED <<disk, rows, run, lister, pool, worker, writer>>
  BY WalkerFrame
<1>2. Walking /\ ~Rested /\ ~AllGone(walker)
  BY <1>1, WalkerWorks
<1>3. run.kind = "build"
  BY <1>2 DEF Walking
<1>4. Room' => ~walk.closed /\ ~walk.stop /\ Room
  BY <1>1, <1>2 DEF Ends, Room
<1>5. AllFresh => AllFresh'
  <2> SUFFICES ASSUME AllFresh PROVE AllFresh'
    OBVIOUS
  <2>1. \A v \in Walkers : Fresh(walker'[v].entries)
    BY DEF AllFresh
  <2>2. /\ Fresh(run'.targets) /\ Fresh(run'.next) /\ Fresh(writer') /\ Fresh(pool'.results)
        /\ \A job \in Range(pool'.jobs) : Fresh(job)
        /\ \A k \in Workers : Fresh(worker'[k].entries) /\ Fresh(worker'[k].probe)
    BY <1>1 DEF AllFresh
  <2>3. QED
    BY <1>1, <2>1, <2>2, FreshNext
<1>6. ASSUME NoErrors', Room'
      PROVE  /\ NoErrors /\ Room
             /\ \A f \in Files : Known(f) => Known(f)'
             /\ \E more \in SUBSET Dirs :
                  /\ \A dir \in Dirs : Waits(dir) => Waits(dir)' \/ dir \in more
                  /\ \A dir \in more : /\ \A sub \in SubDirs[dir] : Waits(sub)' \/ sub \in more
                                       /\ \A f \in FilesIn[dir] : Known(f)'
  <2>1. /\ \A event \in Range(walk.events) : event \in Range(walk'.events)
        /\ \A f \in FilesOf(walker[w].entries) :
             \/ f \in FilesOf(walker'[w].entries)
             \/ \E event \in Range(walk'.events) : f \in FilesOf(event.entries)
        /\ walker[w].pc = "stats" => walker[w].errors = 0
    BY <1>4, <1>6
  <2>2. PICK more \in SUBSET Dirs :
          /\ \A dir \in Range(walk.dirs) : dir \in Range(walk'.dirs) \/ dir \in more
          /\ \A dir \in walker[w].dirs : dir \in walker'[w].dirs \/ dir \in Range(walk'.dirs)
          /\ \A dir \in more :
               /\ SubDirs[dir] \subseteq walker'[w].dirs
               /\ \A f \in FilesIn[dir] : disk[f] = 0 \/ f \in FilesOf(walker'[w].entries)
    BY <1>4, <1>6
  <2>3. NoErrors
    <3>1. \A v \in Walkers : walker[v].pc = "stats" => walker[v].errors = 0
      BY <1>6, <2>1 DEF NoErrors
    <3>2. QED
      BY <1>1, <1>6, <2>1, <3>1 DEF NoErrors
  <2>4. ASSUME NEW f \in Files, Held(f) PROVE Held(f)'
    <3>1. CASE \E v \in Walkers : f \in FilesOf(walker[v].entries)
      <4>1. PICK v \in Walkers : f \in FilesOf(walker[v].entries)
        BY <3>1
      <4>2. CASE v = w
        BY <2>1, <4>1, <4>2 DEF Held
      <4>3. CASE v # w
        BY <4>1, <4>3 DEF Held
      <4>4. QED
        BY <4>2, <4>3
    <3>2. CASE \E event \in Range(walk.events) : f \in FilesOf(event.entries)
      BY <2>1, <3>2 DEF Held
    <3>3. CASE \/ f \in lister.current \/ f \in FilesOf(run.targets) \/ f \in FilesOf(run.next)
               \/ f \in FilesOf(writer) \/ f \in FilesOf(pool.results)
               \/ \E job \in Range(pool.jobs) : f \in FilesOf(job)
               \/ \E k \in Workers : f \in FilesOf(worker[k].entries)
      BY <1>1, <3>3 DEF Held
    <3>4. QED
      BY <2>4, <3>1, <3>2, <3>3 DEF Held
  <2>5. \A f \in Files : Held(f) => Known(f)'
    BY <2>4 DEF Known
  <2>6. \A f \in Files : Known(f) => Known(f)'
    BY <1>1, <2>5, StillKnown
  <2>7. ASSUME NEW dir \in Dirs, Waits(dir) PROVE Waits(dir)' \/ dir \in more
    <3>1. CASE dir \in Range(walk.dirs)
      BY <2>2, <3>1 DEF Waits
    <3>2. CASE \E v \in Walkers : dir \in walker[v].dirs
      <4>1. PICK v \in Walkers : dir \in walker[v].dirs
        BY <3>2
      <4>2. CASE v = w
        BY <2>2, <4>1, <4>2 DEF Waits
      <4>3. CASE v # w
        BY <4>1, <4>3 DEF Waits
      <4>4. QED
        BY <4>2, <4>3
    <3>3. CASE dir \in Range(lister.roots) \/ dir \in Range(lister.dirs)
      BY <1>1, <3>3 DEF Waits
    <3>4. QED
      BY <2>7, <3>1, <3>2, <3>3 DEF Waits
  <2>8. ASSUME NEW dir \in more
        PROVE  /\ \A sub \in SubDirs[dir] : Waits(sub)' \/ sub \in more
               /\ \A f \in FilesIn[dir] : Known(f)'
    <3>1. \A sub \in SubDirs[dir] : Waits(sub)'
      BY <2>2 DEF Waits
    <3>2. \A f \in FilesIn[dir] : Known(f)'
      BY <1>1, <2>2 DEF Known, Held
    <3>3. QED
      BY <3>1, <3>2
  <2>9. QED
    BY <1>4, <1>6, <2>3, <2>6, <2>7, <2>8
<1>7. run.loaded \subseteq Files
  BY DEF MediaTypes, RunState
<1>8. QED
  BY <1>1, <1>2, <1>3, <1>5, <1>6, <1>7, CoverageStep

\* A walker sends an event.
LEMMA SendKeeps ==
  ASSUME MediaTypes, UNCHANGED outside, NEW event \in Event, Send(event)
  PROVE  /\ AllFresh /\ Fresh(event.entries) => \A e \in Range(walk'.events) : Fresh(e.entries)
         /\ ~walk.closed => Range(walk'.events) = Range(walk.events) \cup {event}
         /\ walk'.dirs = walk.dirs
<1>1. /\ walk'.dirs = walk.dirs
      /\ \/ walk.closed /\ walk'.events = walk.events
         \/ ~walk.closed /\ Range(walk'.events) = Range(walk.events) \cup {event}
  BY SendIs
<1>2. AllFresh => \A e \in Range(walk.events) : Fresh(e.entries)
  BY DEF AllFresh
<1>3. QED
  BY <1>1, <1>2

LEMMA EnumerateCoverage ==
  ASSUME MediaTypes, OwnThreads, Ends, Coverage, NEW w \in Walkers, Enumerate(w)
  PROVE  Coverage'
<1>1. /\ walk.dirs \in Seq(Dirs) /\ walk.dirs # <<>>
      /\ Head(walk.dirs) \in Dirs /\ walk' = [walk EXCEPT !.dirs = Tail(walk.dirs)]
      /\ walker'[w] \in {Found(Head(walk.dirs)), Unreadable}
      /\ \A v \in Walkers \ {w} : walker'[v] = walker[v]
  BY EnumerateTypes
<1>2. PICK dir \in Dirs : dir = Head(walk.dirs)
  BY <1>1
<1>3. walk'.dirs = Tail(walk.dirs) /\ walk'.events = walk.events
  BY <1>1 DEF MediaTypes, ThreadsKnown, Walk
<1>4. Range(walk.dirs) = {dir} \cup Range(walk'.dirs)
  BY <1>1, <1>2, <1>3, RangeHeadTail
<1>5. walker[w].pc = "idle" /\ walker[w].entries = <<>> /\ walker[w].dirs = {}
  BY DEF Enumerate, MediaTypes, WalkersFit
<1>6. FilesOf(walker[w].entries) = {}
  BY <1>5, EmptyParts
<1>7. CASE walker'[w] = Found(dir)
  <2>1. walker'[w].entries = Listed(dir) /\ walker'[w].dirs = SubDirs[dir]
    BY <1>7 DEF Found
  <2>2. Range(Listed(dir)) = {[file |-> f, stamp |-> disk[f]] : f \in {f \in FilesIn[dir] : disk[f] # 0}}
    BY ListedIs DEF MediaTypes
  <2>3. Fresh(Listed(dir))
    BY <2>2 DEF Fresh
  <2>4. \A f \in FilesIn[dir] : disk[f] = 0 \/ f \in FilesOf(Listed(dir))
    <3>1. ASSUME NEW f \in FilesIn[dir], disk[f] # 0 PROVE f \in FilesOf(Listed(dir))
      <4>1. [file |-> f, stamp |-> disk[f]] \in Range(Listed(dir))
        BY <2>2, <3>1
      <4>2. [file |-> f, stamp |-> disk[f]].file = f
        OBVIOUS
      <4>3. QED
        BY <4>1, <4>2 DEF FilesOf
    <3>2. QED
      BY <3>1
  <2>5. AllFresh => /\ Fresh(walker'[w].entries)
                    /\ \A event \in Range(walk'.events) : Fresh(event.entries)
    BY <1>3, <2>1, <2>3 DEF AllFresh
  <2>6. /\ {dir} \in SUBSET Dirs
        /\ \A d \in Range(walk.dirs) : d \in Range(walk'.dirs) \/ d \in {dir}
        /\ \A d \in walker[w].dirs : d \in walker'[w].dirs \/ d \in Range(walk'.dirs)
        /\ \A d \in {dir} :
             /\ SubDirs[d] \subseteq walker'[w].dirs
             /\ \A f \in FilesIn[d] : disk[f] = 0 \/ f \in FilesOf(walker'[w].entries)
    BY <1>4, <1>5, <2>1, <2>4
  <2>7. Walker(w)
    BY DEF Walker
  <2>8. /\ \A event \in Range(walk.events) : event \in Range(walk'.events)
        /\ \A f \in FilesOf(walker[w].entries) :
             \/ f \in FilesOf(walker'[w].entries)
             \/ \E event \in Range(walk'.events) : f \in FilesOf(event.entries)
        /\ walker[w].pc = "stats" => walker[w].errors = 0
    BY <1>3, <1>5, <1>6
  <2>9. \E more \in SUBSET Dirs :
          /\ \A d \in Range(walk.dirs) : d \in Range(walk'.dirs) \/ d \in more
          /\ \A d \in walker[w].dirs : d \in walker'[w].dirs \/ d \in Range(walk'.dirs)
          /\ \A d \in more :
               /\ SubDirs[d] \subseteq walker'[w].dirs
               /\ \A f \in FilesIn[d] : disk[f] = 0 \/ f \in FilesOf(walker'[w].entries)
    BY <2>6
  <2>10. QED
    BY <1>1, <2>5, <2>7, <2>8, <2>9, WalkerStep
<1>8. CASE walker'[w] = Unreadable
  <2>1. walker'[w].entries = <<>> /\ walker'[w].pc = "stats" /\ walker'[w].errors = 1
    BY <1>8 DEF Unreadable
  <2>2. ~NoErrors'
    BY <2>1 DEF NoErrors
  <2>3. AllFresh => /\ Fresh(walker'[w].entries)
                    /\ \A event \in Range(walk'.events) : Fresh(event.entries)
    BY <1>3, <2>1, EmptyParts DEF AllFresh
  <2>4. Walker(w)
    BY DEF Walker
  <2>5. QED
    BY <1>1, <2>2, <2>3, <2>4, WalkerStep
<1>9. QED
  BY <1>1, <1>2, <1>7, <1>8

\* The steps of a walker that list nothing.
LEMMA WalkerGoesOn ==
  ASSUME MediaTypes, OwnThreads, Ends, Coverage, NEW w \in Walkers, Walker(w),
         \A v \in Walkers \ {w} : walker'[v] = walker[v],
         AllFresh => /\ Fresh(walker'[w].entries)
                     /\ \A event \in Range(walk'.events) : Fresh(event.entries),
         ~walk.closed /\ ~walk.stop /\ NoErrors' =>
           /\ \A event \in Range(walk.events) : event \in Range(walk'.events)
           /\ \A f \in FilesOf(walker[w].entries) :
                \/ f \in FilesOf(walker'[w].entries)
                \/ \E event \in Range(walk'.events) : f \in FilesOf(event.entries)
           /\ walker[w].pc = "stats" => walker[w].errors = 0
           /\ \A dir \in Range(walk.dirs) : dir \in Range(walk'.dirs)
           /\ \A dir \in walker[w].dirs : dir \in walker'[w].dirs \/ dir \in Range(walk'.dirs)
  PROVE  Coverage'
<1>1. ~walk.closed /\ ~walk.stop /\ NoErrors' =>
        \E more \in SUBSET Dirs :
          /\ \A dir \in Range(walk.dirs) : dir \in Range(walk'.dirs) \/ dir \in more
          /\ \A dir \in walker[w].dirs : dir \in walker'[w].dirs \/ dir \in Range(walk'.dirs)
          /\ \A dir \in more :
               /\ SubDirs[dir] \subseteq walker'[w].dirs
               /\ \A f \in FilesIn[dir] : disk[f] = 0 \/ f \in FilesOf(walker'[w].entries)
  <2>1. {} \in SUBSET Dirs
    OBVIOUS
  <2>2. QED
    BY <2>1
<1>2. QED
  BY <1>1, WalkerStep

LEMMA WalkerCoverage ==
  ASSUME MediaTypes, OwnThreads, Ends, Coverage, NEW w \in Walkers, Walker(w)
  PROVE  Coverage'
<1>1. walk \in Walk /\ UNCHANGED outside
  BY WalkerFrame DEF MediaTypes, ThreadsKnown, outside
<1>2. CASE Skip(w)
  <2>1. walk' = [walk EXCEPT !.pending = @ - 1, !.dirs = Tail(walk.dirs)]
    BY <1>2, SkipTypes
  <2>2. walk'.events = walk.events /\ walk.stop /\ UNCHANGED walker
    BY <1>1, <1>2, <2>1 DEF Skip, Walk
  <2>3. AllFresh => /\ Fresh(walker'[w].entries)
                    /\ \A event \in Range(walk'.events) : Fresh(event.entries)
    BY <2>2 DEF AllFresh
  <2>4. QED
    BY <2>2, <2>3, WalkerGoesOn
<1>3. CASE SendStats(w)
  <2>1. PICK event \in Event : event = [errors |-> walker[w].errors, entries |-> <<>>]
    BY <1>3, SendStatsTypes
  <2>2. /\ Send(event)
        /\ walker'[w].dirs = walker[w].dirs /\ walker'[w].entries = walker[w].entries
        /\ \A v \in Walkers \ {w} : walker'[v] = walker[v]
    BY <1>3, <2>1, SendStatsTypes
  <2>3. /\ AllFresh /\ Fresh(event.entries) => \A e \in Range(walk'.events) : Fresh(e.entries)
        /\ ~walk.closed => Range(walk'.events) = Range(walk.events) \cup {event}
        /\ walk'.dirs = walk.dirs
    BY <1>1, <2>2, SendKeeps
  <2>4. event.entries = <<>> /\ event.errors = walker[w].errors
    BY <2>1
  <2>5. AllFresh => /\ Fresh(walker'[w].entries)
                    /\ \A e \in Range(walk'.events) : Fresh(e.entries)
    BY <2>2, <2>3, <2>4, EmptyParts DEF AllFresh
  <2>6. ~walk.closed /\ NoErrors' => event.errors = 0
    BY <2>3 DEF NoErrors
  <2>7. QED
    BY <2>2, <2>3, <2>4, <2>5, <2>6, WalkerGoesOn
<1>4. CASE QueueDir(w)
  <2>1. walker[w].pc = "dirs" /\ \A v \in Walkers \ {w} : walker'[v] = walker[v]
    BY <1>4, QueueDirTypes
  <2>2. PICK dir \in walker[w].dirs :
          /\ walk' = [walk EXCEPT !.dirs = Append(@, dir), !.pending = @ + 1]
          /\ Range(walk'.dirs) = Range(walk.dirs) \cup {dir}
          /\ walker'[w].dirs = walker[w].dirs \ {dir}
          /\ walker'[w].entries = walker[w].entries
    BY <1>4, QueueDirTypes
  <2>3. walk'.events = walk.events
    BY <1>1, <2>2 DEF Walk
  <2>4. AllFresh => /\ Fresh(walker'[w].entries)
                    /\ \A event \in Range(walk'.events) : Fresh(event.entries)
    BY <2>2, <2>3 DEF AllFresh
  <2>5. QED
    BY <2>1, <2>2, <2>3, <2>4, WalkerGoesOn
<1>5. CASE SendEntries(w)
  <2>1. PICK event \in Event : event = [errors |-> 0, entries |-> Chunk(w)]
    BY <1>5, SendEntriesTypes
  <2>2. /\ Send(event) /\ walker[w].pc = "entries"
        /\ walker'[w].dirs = walker[w].dirs /\ walker'[w].entries = RestOf(w)
        /\ Range(walker[w].entries) = Range(Chunk(w)) \cup Range(RestOf(w))
        /\ \A v \in Walkers \ {w} : walker'[v] = walker[v]
    BY <1>5, <2>1, SendEntriesTypes
  <2>3. /\ AllFresh /\ Fresh(event.entries) => \A e \in Range(walk'.events) : Fresh(e.entries)
        /\ ~walk.closed => Range(walk'.events) = Range(walk.events) \cup {event}
        /\ walk'.dirs = walk.dirs
    BY <1>1, <2>2, SendKeeps
  <2>4. event.entries = Chunk(w)
    BY <2>1
  <2>5. /\ FilesOf(walker[w].entries) = FilesOf(event.entries) \cup FilesOf(walker'[w].entries)
        /\ Fresh(walker[w].entries) => Fresh(event.entries) /\ Fresh(walker'[w].entries)
    BY <2>2, <2>4, TwoParts
  <2>6. AllFresh => /\ Fresh(walker'[w].entries)
                    /\ \A e \in Range(walk'.events) : Fresh(e.entries)
    <3>1. AllFresh => Fresh(walker[w].entries)
      BY DEF AllFresh
    <3>2. QED
      BY <2>3, <2>5, <3>1
  <2>7. QED
    BY <2>2, <2>3, <2>5, <2>6, WalkerGoesOn
<1>6. CASE DirDone(w)
  <2>1. /\ walk' = [walk EXCEPT !.pending = @ - 1]
        /\ walker'[w] = [pc |-> "idle", dirs |-> {}, entries |-> <<>>]
        /\ \A v \in Walkers \ {w} : walker'[v] = walker[v]
    BY <1>6, DirDoneTypes
  <2>2. walk'.events = walk.events /\ walk'.dirs = walk.dirs
    BY <1>1, <2>1 DEF Walk
  <2>3. ~walk.stop => walker[w].pc = "entries" /\ walker[w].entries = <<>> /\ walker[w].dirs = {}
    BY <1>6 DEF DirDone, MediaTypes, WalkersFit
  <2>4. walker'[w].entries = <<>>
    BY <2>1
  <2>5. AllFresh => /\ Fresh(walker'[w].entries)
                    /\ \A event \in Range(walk'.events) : Fresh(event.entries)
    BY <2>2, <2>4, EmptyParts DEF AllFresh
  <2>6. QED
    BY <2>1, <2>2, <2>3, <2>5, EmptyParts, WalkerGoesOn
<1>7. CASE WalkerLeaves(w)
  <2>1. /\ walker'[w] = [pc |-> "gone", dirs |-> {}, entries |-> <<>>]
        /\ \A v \in Walkers \ {w} : walker'[v] = walker[v]
    BY <1>7, WalkerLeavesTypes
  <2>2. UNCHANGED walk /\ walker[w].pc = "idle" /\ walker[w].entries = <<>> /\ walker[w].dirs = {}
    BY <1>7 DEF WalkerLeaves, MediaTypes, WalkersFit
  <2>3. walker'[w].entries = <<>>
    BY <2>1
  <2>4. AllFresh => /\ Fresh(walker'[w].entries)
                    /\ \A event \in Range(walk'.events) : Fresh(event.entries)
    BY <2>2, <2>3, EmptyParts DEF AllFresh
  <2>5. QED
    BY <2>1, <2>2, <2>4, EmptyParts, WalkerGoesOn
<1>8. QED
  BY <1>2, <1>3, <1>4, <1>5, <1>6, <1>7, EnumerateCoverage DEF Walker

\* What the main thread and the channels have in hand.
InHand(f) ==
  \/ f \in lister.current
  \/ f \in FilesOf(run.targets) \/ f \in FilesOf(run.next)
  \/ f \in FilesOf(pool.results) \/ f \in FilesOf(writer)
  \/ \E job \in Range(pool.jobs) : f \in FilesOf(job)
  \/ \E event \in Range(walk.events) : f \in FilesOf(event.entries)

HandFresh ==
  /\ Fresh(run.targets) /\ Fresh(run.next) /\ Fresh(pool.results) /\ Fresh(writer)
  /\ \A job \in Range(pool.jobs) : Fresh(job)
  /\ \A event \in Range(walk.events) : Fresh(event.entries)

ToList == Range(lister.roots) \cup Range(lister.dirs)

\* A step of the main thread.
LEMMA MainStep ==
  ASSUME MediaTypes, Coverage, MainFrame,
         walk'.dirs = walk.dirs, run'.lost = run.lost, Room' => Room,
         AllFresh => HandFresh',
         AllFresh => \A f \in Files : Covered(f) => Covered(f)',
         AllFresh /\ (run.kind = "repair" \/ (NoErrors' /\ Room')) =>
           \A f \in Files : InHand(f) => Known(f)',
         AllFresh /\ NoErrors' /\ Room' =>
           /\ run.errors = 0 /\ \A event \in Range(walk.events) : event.errors = 0
           /\ \E more \in SUBSET Dirs :
                /\ \A dir \in ToList : dir \in ToList' \/ dir \in more
                /\ \A dir \in more : SubDirs[dir] \subseteq ToList' /\ \A f \in FilesIn[dir] : Known(f)'
  PROVE  Coverage'
<1>1. /\ UNCHANGED disk /\ UNCHANGED walker /\ UNCHANGED worker /\ Running
      /\ run'.kind = run.kind /\ run'.loaded = run.loaded /\ run'.calm = run.calm
  BY DEF MainFrame, Framed, outside
<1>2. ~Rested
  BY <1>1 DEF Running, Ended, Rested
<1>3. run.loaded \subseteq Files
  BY DEF MediaTypes, RunState
<1>4. AllFresh => AllFresh'
  <2> SUFFICES ASSUME AllFresh PROVE AllFresh'
    OBVIOUS
  <2>1. /\ \A k \in Workers : Fresh(worker'[k].entries) /\ Fresh(worker'[k].probe)
        /\ \A w \in Walkers : Fresh(walker'[w].entries)
    BY <1>1 DEF AllFresh
  <2>2. HandFresh'
    OBVIOUS
  <2>3. /\ Fresh(run'.targets) /\ Fresh(run'.next) /\ Fresh(pool'.results) /\ Fresh(writer')
        /\ \A job \in Range(pool'.jobs) : Fresh(job)
        /\ \A event \in Range(walk'.events) : Fresh(event.entries)
    BY <1>1, <2>2 DEF HandFresh, Fresh
  <2>4. QED
    BY <1>1, <2>1, <2>3, FreshNext
<1>5. ASSUME AllFresh, run.kind = "repair" \/ (NoErrors' /\ Room')
      PROVE  \A f \in Files : Known(f) => Known(f)'
  <2> SUFFICES ASSUME NEW f \in Files, Known(f) PROVE Known(f)'
    OBVIOUS
  <2>1. CASE disk[f] = 0
    BY <1>1, <2>1 DEF Known
  <2>2. CASE Covered(f)
    BY <1>5, <2>2 DEF Known
  <2>3. CASE InHand(f)
    BY <1>5, <2>3
  <2>4. CASE \/ \E k \in Workers : f \in FilesOf(worker[k].entries)
             \/ \E w \in Walkers : f \in FilesOf(walker[w].entries)
    BY <1>1, <2>4 DEF Known, Held
  <2>5. QED
    BY <2>1, <2>2, <2>3, <2>4 DEF Known, Held, InHand
<1>6. ASSUME AllFresh, run.kind = "build", NoErrors', Room'
      PROVE  /\ NoErrors /\ Room
             /\ \A f \in Files : Known(f) => Known(f)'
             /\ \E more \in SUBSET Dirs :
                  /\ \A dir \in Dirs : Waits(dir) => Waits(dir)' \/ dir \in more
                  /\ \A dir \in more : /\ \A sub \in SubDirs[dir] : Waits(sub)' \/ sub \in more
                                       /\ \A f \in FilesIn[dir] : Known(f)'
  <2>1. run.errors = 0 /\ \A event \in Range(walk.events) : event.errors = 0
    BY <1>6
  <2>2. \A w \in Walkers : walker[w].pc = "stats" => walker[w].errors = 0
    BY <1>1, <1>6 DEF NoErrors
  <2>3. NoErrors /\ Room
    BY <1>6, <2>1, <2>2 DEF NoErrors
  <2>4. PICK more \in SUBSET Dirs :
          /\ \A dir \in ToList : dir \in ToList' \/ dir \in more
          /\ \A dir \in more : SubDirs[dir] \subseteq ToList' /\ \A f \in FilesIn[dir] : Known(f)'
    BY <1>6
  <2>5. ASSUME NEW dir, dir \in ToList' PROVE Waits(dir)'
    BY <2>5 DEF ToList, Waits
  <2>6. ASSUME NEW dir \in Dirs, Waits(dir) PROVE Waits(dir)' \/ dir \in more
    <3>1. CASE dir \in ToList
      BY <2>4, <2>5, <3>1
    <3>2. CASE dir \in Range(walk.dirs) \/ \E w \in Walkers : dir \in walker[w].dirs
      BY <1>1, <3>2 DEF Waits
    <3>3. QED
      BY <2>6, <3>1, <3>2 DEF Waits, ToList
  <2>7. \A dir \in more : /\ \A sub \in SubDirs[dir] : Waits(sub)' \/ sub \in more
                          /\ \A f \in FilesIn[dir] : Known(f)'
    BY <2>4, <2>5
  <2>8. QED
    BY <1>5, <1>6, <2>3, <2>6, <2>7
<1>7. QED
  BY <1>1, <1>2, <1>3, <1>4, <1>5, <1>6, CoverageStep

\* A step of the main thread that lists nothing.
LEMMA MainGoesOn ==
  ASSUME MediaTypes, Coverage, MainFrame,
         walk'.dirs = walk.dirs, run'.lost = run.lost, Room' => Room,
         AllFresh => HandFresh',
         AllFresh => \A f \in Files : Covered(f) => Covered(f)',
         AllFresh /\ (run.kind = "repair" \/ (NoErrors' /\ Room')) =>
           \A f \in Files : InHand(f) => Known(f)',
         AllFresh /\ NoErrors' /\ Room' =>
           /\ run.errors = 0 /\ \A event \in Range(walk.events) : event.errors = 0
           /\ ToList \subseteq ToList'
  PROVE  Coverage'
<1>1. AllFresh /\ NoErrors' /\ Room' =>
        /\ run.errors = 0 /\ \A event \in Range(walk.events) : event.errors = 0
        /\ \E more \in SUBSET Dirs :
             /\ \A dir \in ToList : dir \in ToList' \/ dir \in more
             /\ \A dir \in more : SubDirs[dir] \subseteq ToList' /\ \A f \in FilesIn[dir] : Known(f)'
  <2>1. {} \in SUBSET Dirs
    OBVIOUS
  <2>2. QED
    BY <2>1
<1>2. QED
  BY <1>1, MainStep

\* A step of it that keeps the rows, the channels and what is listed.
LEMMA MainTurns ==
  ASSUME MediaTypes, Coverage, MainFrame, UNCHANGED rows, UNCHANGED lister, UNCHANGED writer,
         UNCHANGED walk, pool'.jobs = pool.jobs, pool'.results = pool.results,
         SameCounts, run'.targets = run.targets, run'.next = run.next
  PROVE  Coverage'
<1>1. UNCHANGED disk /\ run'.max = run.max /\ run'.scanned = run.scanned
      /\ run'.lost = run.lost /\ run'.errors = run.errors
  BY DEF MainFrame, Framed, outside, SameCounts, Counts
<1>2. Room' => Room
  BY <1>1 DEF Room
<1>3. AllFresh => HandFresh'
  BY <1>1 DEF AllFresh, HandFresh, Fresh
<1>4. \A f \in Files : Covered(f) => Covered(f)'
  BY <1>1 DEF Covered
<1>5. ASSUME NEW f \in Files, InHand(f) PROVE Known(f)'
  BY <1>1, <1>5 DEF InHand, Known, Held
<1>6. NoErrors' => run.errors = 0 /\ \A event \in Range(walk.events) : event.errors = 0
  BY <1>1 DEF NoErrors
<1>7. ToList \subseteq ToList'
  BY DEF ToList
<1>8. QED
  BY <1>1, <1>2, <1>3, <1>4, <1>5, <1>6, <1>7, MainGoesOn

\* What is written covers the files it is of.
LEMMA FlushCovers ==
  ASSUME DiskKnown, RowsKnown, UNCHANGED disk, NEW probes \in Seq(Whole), Fresh(probes),
         rows' = Flushed(probes)
  PROVE  /\ \A f \in Files : Covered(f) => Covered(f)'
         /\ \A f \in FilesOf(probes) : f \in Files /\ Covered(f)'
<1>1. \A p \in Range(probes) : p \in Whole /\ p.stamp = disk[p.file]
  BY RangeIs DEF Fresh
<1>2. \A p \in Whole : p.file \in Files /\ RowOf(p).stamp = p.stamp /\ RowOf(p) # NoRow
  <2> SUFFICES ASSUME NEW p \in Whole
               PROVE  p.file \in Files /\ RowOf(p).stamp = p.stamp /\ RowOf(p) # NoRow
    OBVIOUS
  <2>1. p.file \in Files /\ p.status \in {"ok", "problem"}
    BY DEF Whole, Read, Probes
  <2>2. RowOf(p).stamp = p.stamp /\ RowOf(p).status = p.status /\ NoRow.status = "none"
    BY DEF RowOf, NoRow
  <2>3. QED
    BY <2>1, <2>2
<1>3. \A f \in Files :
        IF \E p \in Range(probes) : p.file = f
        THEN \E p \in Range(probes) : p.file = f /\ Flushed(probes)[f] = RowOf(p)
        ELSE Flushed(probes)[f] = rows[f]
  BY FlushedIs
<1>4. ASSUME NEW f \in Files, \E p \in Range(probes) : p.file = f PROVE Covered(f)'
  <2>1. PICK p \in Range(probes) : p.file = f /\ rows'[f] = RowOf(p)
    BY <1>3, <1>4
  <2>2. QED
    BY <1>1, <1>2, <2>1 DEF Covered
<1>5. ASSUME NEW f \in Files, Covered(f), ~ \E p \in Range(probes) : p.file = f PROVE Covered(f)'
  BY <1>3, <1>5 DEF Covered
<1>6. ASSUME NEW f \in FilesOf(probes) PROVE f \in Files /\ \E p \in Range(probes) : p.file = f
  BY <1>1, <1>2 DEF FilesOf
<1>7. QED
  BY <1>4, <1>5, <1>6

LEMMA PushCovers ==
  ASSUME MediaTypes, UNCHANGED outside, NEW probe \in Whole, Push(probe),
         Fresh(writer), probe.stamp = disk[probe.file]
  PROVE  /\ \A f \in Files : Covered(f) => Covered(f)'
         /\ \A f \in FilesOf(writer) \cup {probe.file} : Covered(f)' \/ f \in FilesOf(writer')
         /\ Fresh(writer')
<1>1. writer \in Seq(Whole) /\ UNCHANGED disk /\ DiskKnown /\ RowsKnown
  BY DEF MediaTypes, ThreadsKnown, outside
<1>2. PICK pending \in Seq(Whole) : pending = Append(writer, probe)
  <2>1. Append(writer, probe) \in Seq(Whole)
    BY <1>1, RangeAppend
  <2>2. QED
    BY <2>1
<1>3. FilesOf(pending) = FilesOf(writer) \cup {probe.file} /\ Fresh(pending)
  BY <1>1, <1>2, MorePart
<1>4. CASE rows' = rows /\ writer' = pending
  BY <1>1, <1>3, <1>4 DEF Covered
<1>5. CASE rows' = Flushed(pending) /\ writer' = <<>>
  <2>1. /\ \A f \in Files : Covered(f) => Covered(f)'
        /\ \A f \in FilesOf(pending) : Covered(f)'
    BY <1>1, <1>3, <1>5, FlushCovers
  <2>2. QED
    BY <1>3, <1>5, <2>1, EmptyParts
<1>6. QED
  BY <1>2, <1>4, <1>5, PushIs

LEMMA OpenRootCoverage ==
  ASSUME MediaTypes, Coverage, MainFrame, OpenRoot
  PROVE  Coverage'
<1>1. /\ UNCHANGED rows /\ UNCHANGED writer /\ UNCHANGED walk /\ UNCHANGED pool /\ UNCHANGED disk
      /\ lister.roots # <<>> /\ lister.dirs = <<>>
      /\ lister' = [lister EXCEPT !.roots = Tail(@), !.dirs = <<Head(lister.roots)>>]
      /\ Go(Again)
  BY DEF OpenRoot, threads, outside
<1>2. SameCounts /\ run'.targets = run.targets /\ run'.next = run.next /\ run'.max = run.max
  BY <1>1, GoIs DEF Framed
<1>3. /\ lister'.roots = Tail(lister.roots) /\ lister'.dirs = <<Head(lister.roots)>>
      /\ lister'.current = lister.current /\ lister.roots \in Seq(Dirs)
  BY <1>1 DEF MediaTypes, ThreadsKnown, Lister
<1>4. Range(lister.roots) = {Head(lister.roots)} \cup Range(Tail(lister.roots))
  BY <1>1, <1>3, RangeHeadTail
<1>5. ToList \subseteq ToList'
  BY <1>1, <1>3, <1>4, OnePart, EmptyParts DEF ToList
<1>6. Room' => Room
  BY <1>2 DEF Room, SameCounts, Counts
<1>7. AllFresh => HandFresh'
  BY <1>1, <1>2 DEF AllFresh, HandFresh, Fresh
<1>8. \A f \in Files : Covered(f) => Covered(f)'
  BY <1>1 DEF Covered
<1>9. ASSUME NEW f \in Files, InHand(f) PROVE Known(f)'
  BY <1>1, <1>2, <1>3, <1>9 DEF InHand, Known, Held
<1>10. NoErrors' => run.errors = 0 /\ \A event \in Range(walk.events) : event.errors = 0
  BY <1>1, <1>2 DEF NoErrors, SameCounts, Counts
<1>11. run'.lost = run.lost
  BY <1>2 DEF SameCounts, Counts
<1>12. QED
  BY <1>1, <1>5, <1>6, <1>7, <1>8, <1>9, <1>10, <1>11, MainGoesOn

LEMMA RangeConcat ==
  ASSUME NEW S, NEW p \in Seq(S), NEW q \in Seq(S)
  PROVE  Range(p \o q) = Range(p) \cup Range(q)
<1>1. PICK m \in Nat, n \in Nat : m = Len(p) /\ n = Len(q)
  OBVIOUS
<1>2. /\ DOMAIN p = 1 .. m /\ DOMAIN q = 1 .. n /\ DOMAIN (p \o q) = 1 .. m + n
      /\ \A i \in 1 .. m : (p \o q)[i] = p[i]
      /\ \A i \in 1 .. m + n : i \notin 1 .. m => i - m \in 1 .. n /\ (p \o q)[i] = q[i - m]
      /\ \A i \in 1 .. n : i + m \in 1 .. m + n /\ (p \o q)[i + m] = q[i]
      /\ \A i \in 1 .. m : i \in 1 .. m + n
  <2>1. /\ Len(p \o q) = m + n /\ p \o q \in Seq(S)
        /\ \A i \in 1 .. m + n : (p \o q)[i] = IF i <= m THEN p[i] ELSE q[i - m]
    BY <1>1, ConcatProperties
  <2>2. DOMAIN p = 1 .. m /\ DOMAIN q = 1 .. n /\ DOMAIN (p \o q) = 1 .. m + n
    BY <1>1, <2>1
  <2>3. \A i \in 1 .. n : i + m \in 1 .. m + n /\ ~(i + m <= m) /\ (i + m) - m = i
    OBVIOUS
  <2>4. \A i \in 1 .. m : i \in 1 .. m + n /\ i <= m
    OBVIOUS
  <2>5. \A i \in 1 .. m + n : i \notin 1 .. m => i - m \in 1 .. n /\ ~(i <= m)
    OBVIOUS
  <2>6. QED
    BY <2>1, <2>2, <2>3, <2>4, <2>5
<1>3. ASSUME NEW x \in Range(p \o q) PROVE x \in Range(p) \cup Range(q)
  <2>1. PICK i \in 1 .. m + n : x = (p \o q)[i]
    BY <1>2 DEF Range
  <2>2. CASE i \in 1 .. m
    BY <1>2, <2>1, <2>2 DEF Range
  <2>3. CASE i \notin 1 .. m
    BY <1>2, <2>1, <2>3 DEF Range
  <2>4. QED
    BY <2>2, <2>3
<1>4. ASSUME NEW x \in Range(p) PROVE x \in Range(p \o q)
  <2>1. PICK i \in 1 .. m : x = p[i]
    BY <1>2 DEF Range
  <2>2. i \in DOMAIN (p \o q) /\ x = (p \o q)[i]
    BY <1>2, <2>1
  <2>3. QED
    BY <2>2 DEF Range
<1>5. ASSUME NEW x \in Range(q) PROVE x \in Range(p \o q)
  <2>1. PICK i \in 1 .. n : x = q[i]
    BY <1>2 DEF Range
  <2>2. i + m \in DOMAIN (p \o q) /\ x = (p \o q)[i + m]
    BY <1>2, <2>1
  <2>3. QED
    BY <2>2 DEF Range
<1>6. QED
  BY <1>3, <1>4, <1>5

LEMMA OpenDirCoverage ==
  ASSUME MediaTypes, Coverage, MainFrame, OpenDir
  PROVE  Coverage'
<1>1. /\ UNCHANGED rows /\ UNCHANGED writer /\ UNCHANGED walk /\ UNCHANGED pool /\ UNCHANGED disk
      /\ lister.dirs # <<>> /\ lister.dirs \in Seq(Dirs) /\ lister \in Lister
      /\ lister.current = {}
  BY DEF OpenDir, threads, outside, MediaTypes, ThreadsKnown, Lister
<1>2. PICK dir \in Dirs : dir = Last(lister.dirs)
  BY <1>1, FrontLast
<1>3. /\ run'.targets = run.targets /\ run'.next = run.next /\ run'.max = run.max
      /\ \/ SameCounts
         \/ Counts(run.scanned, run.sent, run.received, run.errors + 1, run.lost)
  BY OpenDirRun DEF Framed
<1>4. run'.scanned = run.scanned /\ run'.lost = run.lost
  BY <1>3 DEF Counts, SameCounts
<1>5. Room' => Room
  BY <1>3, <1>4 DEF Room
<1>6. AllFresh => HandFresh'
  BY <1>1, <1>3 DEF AllFresh, HandFresh, Fresh
<1>7. \A f \in Files : Covered(f) => Covered(f)'
  BY <1>1 DEF Covered
<1>8. ASSUME NEW f \in Files, InHand(f) PROVE Known(f)'
  BY <1>1, <1>3, <1>8 DEF InHand, Known, Held
<1>9. CASE run' = [run EXCEPT !.errors = @ + 1]
  <2>1. run'.errors = run.errors + 1 /\ run.errors \in Nat
    BY <1>9 DEF MediaTypes, RunState
  <2>2. ~NoErrors'
    BY <2>1 DEF NoErrors
  <2>3. QED
    BY <1>1, <1>4, <1>5, <1>6, <1>7, <1>8, <2>2, MainGoesOn
<1>10. CASE /\ lister' = [lister EXCEPT !.dirs = Front(lister.dirs) \o SetToSeq(SubDirs[dir]),
                                        !.current = {f \in FilesIn[dir] : disk[f] # 0}]
            /\ run' = run
  <2>1. /\ Front(lister.dirs) \in Seq(Dirs) /\ SetToSeq(SubDirs[dir]) \in Seq(Dirs)
        /\ Range(lister.dirs) = Range(Front(lister.dirs)) \cup {dir}
        /\ Range(SetToSeq(SubDirs[dir])) = SubDirs[dir]
    BY <1>1, <1>2, FrontLast, TreeIs
  <2>2. PICK dirs : dirs = Front(lister.dirs) \o SetToSeq(SubDirs[dir])
    OBVIOUS
  <2>3. Range(dirs) = Range(Front(lister.dirs)) \cup SubDirs[dir]
    BY <2>1, <2>2, RangeConcat
  <2>4. lister' = [lister EXCEPT !.dirs = dirs, !.current = {f \in FilesIn[dir] : disk[f] # 0}]
    BY <1>10, <2>2
  <2>5. /\ lister'.roots = lister.roots /\ lister'.dirs = dirs
        /\ lister'.current = {f \in FilesIn[dir] : disk[f] # 0}
    BY <1>1, <2>4 DEF Lister
  <2>6. \A d \in ToList : d \in ToList' \/ d \in {dir}
    BY <2>1, <2>3, <2>5 DEF ToList
  <2>7. SubDirs[dir] \subseteq ToList'
    BY <2>3, <2>5 DEF ToList
  <2>8. ASSUME NEW f \in FilesIn[dir] PROVE Known(f)'
    <3>1. CASE disk[f] = 0
      BY <1>1, <3>1 DEF Known
    <3>2. CASE disk[f] # 0
      BY <2>5, <3>2 DEF Known, Held
    <3>3. QED
      BY <3>1, <3>2
  <2>9. \E more \in SUBSET Dirs :
          /\ \A d \in ToList : d \in ToList' \/ d \in more
          /\ \A d \in more : SubDirs[d] \subseteq ToList' /\ \A f \in FilesIn[d] : Known(f)'
    <3>1. {dir} \in SUBSET Dirs
      OBVIOUS
    <3>2. QED
      BY <3>1, <2>6, <2>7, <2>8
  <2>10. NoErrors' => run.errors = 0 /\ \A event \in Range(walk.events) : event.errors = 0
    BY <1>1, <1>10 DEF NoErrors
  <2>11. QED
    BY <1>1, <1>4, <1>5, <1>6, <1>7, <1>8, <2>9, <2>10, MainStep
<1>11. QED
  BY <1>2, <1>9, <1>10 DEF OpenDir

LEMMA NextFileCoverage ==
  ASSUME MediaTypes, Coverage, MainFrame, NextFile
  PROVE  Coverage'
<1>1. /\ UNCHANGED rows /\ UNCHANGED writer /\ UNCHANGED walk /\ UNCHANGED pool /\ UNCHANGED disk
      /\ lister \in Lister /\ run.pc = "list" /\ run.next = <<>>
  BY DEF NextFile, Listing, threads, outside, MediaTypes, ThreadsKnown, NextFits
<1>2. PICK f \in lister.current :
        LET entry == [file |-> f, stamp |-> disk[f]]
        IN /\ lister' = [lister EXCEPT !.current = @ \ {f}]
           /\ run' = IF disk[f] = 0 THEN [run EXCEPT !.errors = @ + 1]
                     ELSE IF SkipUnchanged(entry) THEN [run EXCEPT !.pc = Again]
                     ELSE [run EXCEPT !.scanned = @ + 1, !.next = <<entry>>,
                             !.pc = IF run.mode = "serial" THEN "probe" ELSE "send"]
  BY DEF NextFile
<1>3. PICK entry : entry = [file |-> f, stamp |-> disk[f]]
  OBVIOUS
<1>4. run' = IF disk[f] = 0 THEN [run EXCEPT !.errors = @ + 1]
             ELSE IF SkipUnchanged(entry) THEN [run EXCEPT !.pc = Again]
             ELSE [run EXCEPT !.scanned = @ + 1, !.next = <<entry>>,
                     !.pc = IF run.mode = "serial" THEN "probe" ELSE "send"]
  BY <1>2, <1>3
<1>5. /\ run'.targets = run.targets /\ run'.max = run.max
      /\ disk[f] = 0 =>
           /\ run'.next = run.next
           /\ Counts(run.scanned, run.sent, run.received, run.errors + 1, run.lost)
      /\ disk[f] # 0 /\ SkipUnchanged(entry) => run'.next = run.next /\ SameCounts
      /\ disk[f] # 0 /\ ~SkipUnchanged(entry) =>
           /\ run'.next = <<entry>>
           /\ Counts(run.scanned + 1, run.sent, run.received, run.errors, run.lost)
  BY <1>4, NextFileRun DEF Framed
<1>6. /\ lister'.roots = lister.roots /\ lister'.dirs = lister.dirs
      /\ lister'.current = lister.current \ {f}
  BY <1>1, <1>2 DEF Lister
<1>7. run.errors \in Nat /\ run.scanned \in Nat /\ run.max \in Nat
  BY DEF MediaTypes, RunState
<1>8. run'.lost = run.lost /\ (run'.scanned = run.scanned \/ run'.scanned = run.scanned + 1)
      /\ (run'.errors = run.errors \/ run'.errors = run.errors + 1)
  BY <1>5 DEF Counts, SameCounts
<1>9. Room' => Room
  BY <1>5, <1>7, <1>8 DEF Room
<1>10. NoErrors' => run.errors = 0 /\ \A event \in Range(walk.events) : event.errors = 0
  BY <1>1, <1>7, <1>8 DEF NoErrors
<1>11. Fresh(run'.next) /\ FilesOf(run.next) = {}
  <2>1. Fresh(<<>>) /\ FilesOf(<<>>) = {} /\ Fresh(<<entry>>)
    BY <1>3, EmptyParts, OnePart
  <2>2. run'.next = <<>> \/ run'.next = <<entry>>
    BY <1>1, <1>5
  <2>3. QED
    BY <1>1, <2>1, <2>2
<1>12. AllFresh => HandFresh'
  BY <1>1, <1>5, <1>11 DEF AllFresh, HandFresh, Fresh
<1>13. \A g \in Files : Covered(g) => Covered(g)'
  BY <1>1 DEF Covered
<1>14. Known(f)'
  <2>1. CASE disk[f] = 0
    BY <1>1, <2>1 DEF Known
  <2>2. CASE disk[f] # 0 /\ SkipUnchanged(entry)
    BY <1>1, <1>3, <2>2 DEF Known, Covered, SkipUnchanged
  <2>3. CASE disk[f] # 0 /\ ~SkipUnchanged(entry)
    <3>1. FilesOf(<<entry>>) = {entry.file} /\ entry.file = f
      BY <1>3, OnePart
    <3>2. f \in FilesOf(run'.next)
      BY <1>5, <2>3, <3>1
    <3>3. QED
      BY <3>2 DEF Known, Held
  <2>4. QED
    BY <2>1, <2>2, <2>3
<1>15. ASSUME NEW g \in Files, InHand(g) PROVE Known(g)'
  <2>1. CASE g = f
    BY <1>14, <2>1
  <2>2. CASE g # f /\ g \in lister.current
    BY <1>6, <2>2 DEF Known, Held
  <2>3. CASE \/ g \in FilesOf(run.targets)
             \/ g \in FilesOf(pool.results) \/ g \in FilesOf(writer)
             \/ \E job \in Range(pool.jobs) : g \in FilesOf(job)
             \/ \E event \in Range(walk.events) : g \in FilesOf(event.entries)
    BY <1>1, <1>5, <2>3 DEF Known, Held
  <2>4. QED
    BY <1>11, <1>15, <2>1, <2>2, <2>3 DEF InHand
<1>16. ToList \subseteq ToList'
  BY <1>6 DEF ToList
<1>17. QED
  BY <1>1, <1>8, <1>9, <1>10, <1>12, <1>13, <1>15, <1>16, MainGoesOn

LEMMA EndListCoverage ==
  ASSUME MediaTypes, Coverage, MainFrame, EndList
  PROVE  Coverage'
<1>1. /\ UNCHANGED rows /\ UNCHANGED writer /\ UNCHANGED walk /\ UNCHANGED disk
      /\ lister' = NoLister /\ pool' = [pool EXCEPT !.open = FALSE] /\ (~Room \/ ListEnds)
      /\ Listing
  BY DEF EndList, outside
<1>2. PICK pc : Go(pc)
  BY DEF EndList
<1>3. SameCounts /\ run'.targets = run.targets /\ run'.next = run.next /\ run'.max = run.max
  BY <1>2, GoIs DEF Framed
<1>4. pool'.jobs = pool.jobs /\ pool'.results = pool.results
  BY <1>1 DEF MediaTypes, ThreadsKnown, Pool
<1>5. run'.lost = run.lost /\ run'.scanned = run.scanned /\ run'.errors = run.errors
  BY <1>3 DEF SameCounts, Counts
<1>6. Room' => Room
  BY <1>3, <1>5 DEF Room
<1>7. AllFresh => HandFresh'
  BY <1>1, <1>3, <1>4 DEF AllFresh, HandFresh, Fresh
<1>8. \A f \in Files : Covered(f) => Covered(f)'
  BY <1>1 DEF Covered
<1>9. ~(run.kind = "repair") /\ (Room' => ListEnds)
  BY <1>1, <1>6 DEF Listing
<1>10. ASSUME NEW f \in Files, InHand(f), ListEnds PROVE Known(f)'
  BY <1>1, <1>3, <1>4, <1>10 DEF InHand, Known, Held, ListEnds
<1>11. ListEnds => ToList \subseteq ToList'
  BY EmptyParts DEF ListEnds, ToList
<1>12. NoErrors' => run.errors = 0 /\ \A event \in Range(walk.events) : event.errors = 0
  BY <1>1, <1>5 DEF NoErrors
<1>13. QED
  BY <1>1, <1>5, <1>6, <1>7, <1>8, <1>9, <1>10, <1>11, <1>12, MainGoesOn

LEMMA ProbeHereCoverage ==
  ASSUME MediaTypes, Coverage, MainFrame, ProbeHere
  PROVE  Coverage'
<1>1. /\ UNCHANGED rows /\ UNCHANGED writer /\ UNCHANGED walk /\ UNCHANGED pool /\ UNCHANGED disk
      /\ UNCHANGED lister
  BY DEF ProbeHere, threads, outside
<1>2. SameCounts /\ run'.targets = run.targets /\ run'.max = run.max
  BY ProbeHereRun DEF Framed
<1>3. run.next \in Seq(Entries) /\ Len(run.next) = 1
  BY ProbeHereRun
<1>4. PICK probe \in Read :
        /\ run'.next = <<probe>> /\ probe.file = Head(run.next).file
        /\ probe.stamp = Head(run.next).stamp
  BY ProbeHereRun
<1>5. run.next = <<Head(run.next)>>
  BY <1>3
<1>6. PICK entry : entry = Head(run.next)
  OBVIOUS
<1>7. /\ FilesOf(run.next) = {entry.file} /\ FilesOf(run'.next) = {entry.file}
      /\ Fresh(run.next) => Fresh(run'.next)
  BY <1>4, <1>5, <1>6, OnePart
<1>8. run'.lost = run.lost /\ run'.scanned = run.scanned /\ run'.errors = run.errors
  BY <1>2 DEF SameCounts, Counts
<1>9. Room' => Room
  BY <1>2, <1>8 DEF Room
<1>10. AllFresh => HandFresh'
  BY <1>1, <1>2, <1>7 DEF AllFresh, HandFresh, Fresh
<1>11. \A f \in Files : Covered(f) => Covered(f)'
  BY <1>1 DEF Covered
<1>12. ASSUME NEW f \in Files, InHand(f) PROVE Known(f)'
  BY <1>1, <1>2, <1>7, <1>12 DEF InHand, Known, Held
<1>13. NoErrors' => run.errors = 0 /\ \A event \in Range(walk.events) : event.errors = 0
  BY <1>1, <1>8 DEF NoErrors
<1>14. ToList \subseteq ToList'
  BY <1>1 DEF ToList
<1>15. QED
  BY <1>1, <1>8, <1>9, <1>10, <1>11, <1>12, <1>13, <1>14, MainGoesOn

LEMMA PushHereCoverage ==
  ASSUME MediaTypes, Coverage, MainFrame, PushHere
  PROVE  Coverage'
<1>1. /\ UNCHANGED outside /\ UNCHANGED walk /\ UNCHANGED pool /\ UNCHANGED disk
      /\ UNCHANGED lister /\ Push(Complete(Head(run.next)))
  BY DEF PushHere, threads, outside
<1>2. /\ Counts(run.scanned, run.sent, run.received + 1, run.errors, run.lost)
      /\ run'.targets = run.targets /\ run'.next = <<>> /\ run'.max = run.max
      /\ run.next \in Seq(Read) /\ Len(run.next) = 1
  BY PushHereRun DEF Framed
<1>3. PICK probe \in Read : probe = Head(run.next) /\ run.next = <<probe>>
  BY <1>2
<1>4. /\ Complete(probe) \in Whole
      /\ Complete(probe).file = probe.file /\ Complete(probe).stamp = probe.stamp
  BY CompleteIs DEF MediaTypes
<1>5. PICK whole \in Whole : whole = Complete(probe)
  BY <1>4
<1>6. FilesOf(run.next) = {whole.file} /\ (Fresh(run.next) <=> whole.stamp = disk[whole.file])
  BY <1>3, <1>4, <1>5, OnePart
<1>7. AllFresh => /\ \A f \in Files : Covered(f) => Covered(f)'
                  /\ \A f \in FilesOf(writer) \cup {whole.file} : Covered(f)' \/ f \in FilesOf(writer')
                  /\ Fresh(writer')
  <2> SUFFICES ASSUME AllFresh
               PROVE  /\ \A f \in Files : Covered(f) => Covered(f)'
                      /\ \A f \in FilesOf(writer) \cup {whole.file} :
                           Covered(f)' \/ f \in FilesOf(writer')
                      /\ Fresh(writer')
    OBVIOUS
  <2>1. Fresh(writer) /\ whole.stamp = disk[whole.file] /\ Push(whole)
    BY <1>1, <1>3, <1>5, <1>6 DEF AllFresh
  <2>2. QED
    BY <1>1, <2>1, PushCovers
<1>8. run'.lost = run.lost /\ run'.scanned = run.scanned /\ run'.errors = run.errors
  BY <1>2 DEF Counts
<1>9. Room' => Room
  BY <1>2, <1>8 DEF Room
<1>10. AllFresh => HandFresh'
  <2>1. Fresh(run'.next)
    BY <1>2, EmptyParts
  <2>2. QED
    BY <1>1, <1>2, <1>7, <2>1 DEF AllFresh, HandFresh, Fresh
<1>11. ASSUME AllFresh, NEW f \in Files, InHand(f) PROVE Known(f)'
  <2>1. CASE f \in FilesOf(writer) \cup FilesOf(run.next)
    BY <1>6, <1>7, <1>11, <2>1 DEF Known, Held
  <2>2. CASE f \notin FilesOf(writer) \cup FilesOf(run.next)
    BY <1>1, <1>2, <1>11, <2>2 DEF InHand, Known, Held
  <2>3. QED
    BY <2>1, <2>2
<1>12. NoErrors' => run.errors = 0 /\ \A event \in Range(walk.events) : event.errors = 0
  BY <1>1, <1>8 DEF NoErrors
<1>13. ToList \subseteq ToList'
  BY <1>1 DEF ToList
<1>14. QED
  BY <1>1, <1>7, <1>8, <1>9, <1>10, <1>11, <1>12, <1>13, MainGoesOn

LEMMA NextTargetCoverage ==
  ASSUME MediaTypes, Course, Coverage, MainFrame, NextTarget
  PROVE  Coverage'
<1>1. /\ UNCHANGED rows /\ UNCHANGED writer /\ UNCHANGED walk /\ UNCHANGED pool /\ UNCHANGED disk
      /\ UNCHANGED lister /\ run.kind = "repair" /\ run.next = <<>>
  BY DEF NextTarget, threads, outside, Course, MediaTypes, NextFits
<1>2. /\ Counts(run.scanned + Len(run'.next), run.sent, run.received, run.errors, run.lost)
      /\ run'.next \in Seq(Entries) /\ run'.max = run.max
      /\ Range(run.targets) = Range(run'.next) \cup Range(run'.targets)
  BY NextTargetRun DEF Framed
<1>3. /\ FilesOf(run.targets) = FilesOf(run'.next) \cup FilesOf(run'.targets)
      /\ Fresh(run.targets) <=> Fresh(run'.next) /\ Fresh(run'.targets)
  <2>1. PICK next : next = run'.next
    OBVIOUS
  <2>2. PICK rest : rest = run'.targets
    OBVIOUS
  <2>3. Range(run.targets) = Range(next) \cup Range(rest)
    BY <1>2, <2>1, <2>2
  <2>4. /\ FilesOf(run.targets) = FilesOf(next) \cup FilesOf(rest)
        /\ Fresh(run.targets) <=> Fresh(next) /\ Fresh(rest)
    BY <2>3, TwoParts
  <2>5. QED
    BY <2>1, <2>2, <2>4
<1>4. PICK n \in Nat : n = Len(run'.next)
  BY <1>2
<1>5. run'.scanned = run.scanned + n /\ run'.lost = run.lost /\ run'.errors = run.errors
  BY <1>2, <1>4 DEF Counts
<1>6. Room' => Room
  BY <1>2, <1>5, LessRoom
<1>7. AllFresh => HandFresh'
  BY <1>1, <1>3 DEF AllFresh, HandFresh, Fresh
<1>8. \A f \in Files : Covered(f) => Covered(f)'
  BY <1>1 DEF Covered
<1>9. ASSUME NEW f \in Files, InHand(f) PROVE Known(f)'
  BY <1>1, <1>3, <1>9, EmptyParts DEF InHand, Known, Held
<1>10. NoErrors' => run.errors = 0 /\ \A event \in Range(walk.events) : event.errors = 0
  BY <1>1, <1>5 DEF NoErrors
<1>11. ToList \subseteq ToList'
  BY <1>1 DEF ToList
<1>12. QED
  BY <1>1, <1>5, <1>6, <1>7, <1>8, <1>9, <1>10, <1>11, MainGoesOn

LEMMA TakeResultCoverage ==
  ASSUME MediaTypes, Coverage, MainFrame, TakeResult
  PROVE  Coverage'
<1>1. /\ UNCHANGED outside /\ UNCHANGED walk /\ UNCHANGED disk /\ UNCHANGED lister
      /\ pool.results # <<>> /\ Push(Head(pool.results))
      /\ pool.results \in Seq(Whole) /\ pool' = [pool EXCEPT !.results = Tail(@)]
  BY DEF TakeResult, outside, MediaTypes, ThreadsKnown, Pool
<1>2. pool'.jobs = pool.jobs /\ pool'.results = Tail(pool.results)
  BY <1>1 DEF MediaTypes, ThreadsKnown, Pool
<1>3. PICK whole \in Whole : whole = Head(pool.results)
  BY <1>1, RangeHeadTail
<1>4. /\ FilesOf(pool.results) = {whole.file} \cup FilesOf(pool'.results)
      /\ Fresh(pool.results) <=> whole.stamp = disk[whole.file] /\ Fresh(pool'.results)
  BY <1>1, <1>2, <1>3, FirstPart
<1>5. /\ Counts(run.scanned, run.sent, run.received + 1, run.errors, run.lost)
      /\ run'.targets = run.targets /\ run'.next = run.next /\ run'.max = run.max
  BY TakeResultRun DEF Framed
<1>6. AllFresh => /\ \A f \in Files : Covered(f) => Covered(f)'
                  /\ \A f \in FilesOf(writer) \cup {whole.file} : Covered(f)' \/ f \in FilesOf(writer')
                  /\ Fresh(writer')
  <2> SUFFICES ASSUME AllFresh
               PROVE  /\ \A f \in Files : Covered(f) => Covered(f)'
                      /\ \A f \in FilesOf(writer) \cup {whole.file} :
                           Covered(f)' \/ f \in FilesOf(writer')
                      /\ Fresh(writer')
    OBVIOUS
  <2>1. Fresh(writer) /\ whole.stamp = disk[whole.file] /\ Push(whole)
    BY <1>1, <1>3, <1>4 DEF AllFresh
  <2>2. QED
    BY <1>1, <2>1, PushCovers
<1>7. run'.lost = run.lost /\ run'.scanned = run.scanned /\ run'.errors = run.errors
  BY <1>5 DEF Counts
<1>8. Room' => Room
  BY <1>5, <1>7 DEF Room
<1>9. AllFresh => HandFresh'
  BY <1>1, <1>2, <1>4, <1>5, <1>6 DEF AllFresh, HandFresh, Fresh
<1>10. ASSUME AllFresh, NEW f \in Files, InHand(f) PROVE Known(f)'
  <2>1. CASE f \in FilesOf(writer) \cup {whole.file}
    BY <1>6, <1>10, <2>1 DEF Known, Held
  <2>2. CASE f \notin FilesOf(writer) \cup {whole.file}
    BY <1>1, <1>2, <1>4, <1>5, <1>10, <2>2 DEF InHand, Known, Held
  <2>3. QED
    BY <2>1, <2>2
<1>11. NoErrors' => run.errors = 0 /\ \A event \in Range(walk.events) : event.errors = 0
  BY <1>1, <1>7 DEF NoErrors
<1>12. ToList \subseteq ToList'
  BY <1>1 DEF ToList
<1>13. QED
  BY <1>1, <1>6, <1>7, <1>8, <1>9, <1>10, <1>11, <1>12, MainGoesOn

LEMMA TakeEventCoverage ==
  ASSUME MediaTypes, Course, Coverage, MainFrame, TakeEvent
  PROVE  Coverage'
<1>1. /\ UNCHANGED rows /\ UNCHANGED writer /\ UNCHANGED pool /\ UNCHANGED disk
      /\ UNCHANGED lister /\ run.pc = "event"
  BY DEF TakeEvent, outside
<1>2. run.next = <<>> /\ run.kind = "build"
  BY <1>1 DEF MediaTypes, NextFits, Course, Walking
<1>3. run.scanned <= run.max /\ run.scanned \in Nat /\ run.max \in Nat /\ run.errors \in Nat
  <2>1. run.scanned \in Nat /\ run.max \in Nat /\ run.targets \in Seq(Entries) /\ run.errors \in Nat
    BY DEF MediaTypes, RunState
  <2>2. Len(run.targets) \in Nat
    BY <2>1
  <2>3. run.scanned + Len(run.targets) <= run.max
    BY <1>1 DEF Course, Running, Ended
  <2>4. QED
    BY <2>1, <2>2, <2>3
<1>4. PICK event \in Event :
        /\ event = Head(walk.events) /\ event.entries \in Seq(Entries) /\ event.errors \in Nat
        /\ Range(walk.events) = {event} \cup Range(walk'.events) /\ walk'.dirs = walk.dirs
  BY TakeEventIs
<1>5. PICK next \in Seq(Entries) :
        /\ next = ToProbe(event.entries) /\ Range(next) \subseteq Range(event.entries)
        /\ Len(next) <= run.max - run.scanned
        /\ run.scanned + Len(next) < run.max =>
             \A e \in Range(event.entries) : SkipUnchanged(e) \/ e \in Range(next)
  BY <1>3, <1>4, ToProbeIs
<1>6. /\ run'.targets = run.targets /\ run'.next = next /\ run'.max = run.max
      /\ Counts(run.scanned + Len(next), run.sent, run.received, run.errors + event.errors, run.lost)
  BY <1>4, <1>5, TakeEventRun DEF Framed
<1>7. PICK n \in Nat : n = Len(next)
  OBVIOUS
<1>8. run'.scanned = run.scanned + n /\ run'.lost = run.lost
      /\ run'.errors = run.errors + event.errors
  BY <1>6, <1>7 DEF Counts
<1>9. Room' => Room /\ run.scanned + n < run.max
  BY <1>3, <1>6, <1>8 DEF Room
<1>10. AllFresh => Fresh(event.entries) /\ Fresh(next)
  BY <1>4, <1>5 DEF AllFresh, Fresh
<1>11. AllFresh => HandFresh'
  BY <1>1, <1>4, <1>6, <1>10 DEF AllFresh, HandFresh, Fresh
<1>12. \A f \in Files : Covered(f) => Covered(f)'
  BY <1>1 DEF Covered
<1>13. ASSUME AllFresh, Room', NEW f \in Files, InHand(f) PROVE Known(f)'
  <2>1. CASE f \in FilesOf(event.entries)
    <3>1. PICK e \in Range(event.entries) : e.file = f
      BY <2>1 DEF FilesOf
    <3>2. e.stamp = disk[f]
      BY <1>10, <1>13, <3>1 DEF Fresh
    <3>3. CASE SkipUnchanged(e)
      BY <1>1, <3>1, <3>2, <3>3 DEF SkipUnchanged, Known, Covered
    <3>4. CASE e \in Range(next)
      BY <1>6, <3>1, <3>4 DEF FilesOf, Known, Held
    <3>5. QED
      BY <1>5, <1>7, <1>9, <1>13, <3>1, <3>3, <3>4
  <2>2. CASE \E e \in Range(walk'.events) : f \in FilesOf(e.entries)
    BY <2>2 DEF Known, Held
  <2>3. CASE \/ f \in lister.current \/ f \in FilesOf(run.targets)
             \/ f \in FilesOf(pool.results) \/ f \in FilesOf(writer)
             \/ \E job \in Range(pool.jobs) : f \in FilesOf(job)
    BY <1>1, <1>6, <2>3 DEF Known, Held
  <2>4. QED
    BY <1>2, <1>4, <1>13, <2>1, <2>2, <2>3, EmptyParts DEF InHand
<1>14. NoErrors' => run.errors = 0 /\ \A e \in Range(walk.events) : e.errors = 0
  <2> SUFFICES ASSUME NoErrors'
               PROVE  run.errors = 0 /\ \A e \in Range(walk.events) : e.errors = 0
    OBVIOUS
  <2>1. run.errors + event.errors = 0 /\ \A e \in Range(walk'.events) : e.errors = 0
    BY <1>8 DEF NoErrors
  <2>2. run.errors = 0 /\ event.errors = 0
    BY <1>3, <1>4, <2>1
  <2>3. QED
    BY <1>4, <2>1, <2>2
<1>15. ToList \subseteq ToList'
  BY <1>1 DEF ToList
<1>16. ~(run.kind = "repair")
  BY <1>2
<1>17. QED
  BY <1>4, <1>8, <1>9, <1>11, <1>12, <1>13, <1>14, <1>15, <1>16, MainGoesOn

LEMMA StopWalkersCoverage ==
  ASSUME MediaTypes, Course, Coverage, MainFrame, StopWalkers
  PROVE  Coverage'
<1>1. /\ UNCHANGED rows /\ UNCHANGED writer /\ UNCHANGED pool /\ UNCHANGED disk
      /\ UNCHANGED lister /\ Go("join")
      /\ walk' = [walk EXCEPT !.stop = TRUE, !.closed = TRUE, !.events = <<>>]
  BY DEF StopWalkers, outside
<1>2. SameCounts /\ run'.targets = run.targets /\ run'.next = run.next /\ run'.max = run.max
  BY <1>1, GoIs DEF Framed
<1>3. walk'.dirs = walk.dirs /\ walk'.events = <<>>
  BY <1>1 DEF MediaTypes, ThreadsKnown, Walk
<1>4. run'.lost = run.lost /\ run'.scanned = run.scanned /\ run'.errors = run.errors
  BY <1>2 DEF SameCounts, Counts
<1>5. Room' => Room
  BY <1>2, <1>4 DEF Room
<1>6. run.kind = "build" /\ (Room => walk.events = <<>>)
  BY DEF StopWalkers, WalkEnds, Disconnected, Course, Walking
<1>7. AllFresh => HandFresh'
  BY <1>1, <1>2, <1>3, EmptyParts DEF AllFresh, HandFresh, Fresh
<1>8. \A f \in Files : Covered(f) => Covered(f)'
  BY <1>1 DEF Covered
<1>9. ASSUME Room', NEW f \in Files, InHand(f) PROVE Known(f)'
  BY <1>1, <1>2, <1>3, <1>5, <1>6, <1>9 DEF InHand, Known, Held
<1>10. NoErrors' /\ Room' =>
         run.errors = 0 /\ \A event \in Range(walk.events) : event.errors = 0
  BY <1>3, <1>4, <1>5, <1>6 DEF NoErrors
<1>11. ToList \subseteq ToList'
  BY <1>1 DEF ToList
<1>12. ~(run.kind = "repair")
  BY <1>6
<1>13. QED
  BY <1>3, <1>4, <1>5, <1>7, <1>8, <1>9, <1>10, <1>11, <1>12, MainGoesOn

LEMMA SendJobCoverage ==
  ASSUME MediaTypes, Coverage, MainFrame, SendJob
  PROVE  Coverage'
<1>1. /\ UNCHANGED rows /\ UNCHANGED writer /\ UNCHANGED walk /\ UNCHANGED disk
      /\ UNCHANGED lister /\ pool' = [pool EXCEPT !.jobs = Append(@, run.next)]
      /\ run.next \in Seq(Entries) /\ pool.jobs \in Seq(Seq(Entries)) /\ pool \in Pool
  BY DEF SendJob, outside, MediaTypes, NextFits, ThreadsKnown, Pool
<1>2. /\ Counts(run.scanned, run.sent + Len(run.next), run.received, run.errors, run.lost)
      /\ run'.targets = run.targets /\ run'.next = <<>> /\ run'.max = run.max
  BY SendJobRun DEF Framed
<1>3. pool'.jobs = Append(pool.jobs, run.next) /\ pool'.results = pool.results
  BY <1>1 DEF Pool
<1>4. Range(pool'.jobs) = Range(pool.jobs) \cup {run.next}
  BY <1>1, <1>3, RangeAppend
<1>5. run'.lost = run.lost /\ run'.scanned = run.scanned /\ run'.errors = run.errors
  BY <1>2 DEF Counts
<1>6. Room' => Room
  BY <1>2, <1>5 DEF Room
<1>7. AllFresh => HandFresh'
  <2>1. Fresh(run'.next)
    BY <1>2, EmptyParts
  <2>2. QED
    BY <1>1, <1>2, <1>3, <1>4, <2>1 DEF AllFresh, HandFresh, Fresh
<1>8. \A f \in Files : Covered(f) => Covered(f)'
  BY <1>1 DEF Covered
<1>9. ASSUME NEW f \in Files, InHand(f) PROVE Known(f)'
  <2>1. CASE f \in FilesOf(run.next)
    BY <1>4, <2>1 DEF Known, Held
  <2>2. CASE f \notin FilesOf(run.next)
    BY <1>1, <1>2, <1>3, <1>4, <1>9, <2>2 DEF InHand, Known, Held
  <2>3. QED
    BY <2>1, <2>2
<1>10. NoErrors' => run.errors = 0 /\ \A event \in Range(walk.events) : event.errors = 0
  BY <1>1, <1>5 DEF NoErrors
<1>11. ToList \subseteq ToList'
  BY <1>1 DEF ToList
<1>12. QED
  BY <1>1, <1>5, <1>6, <1>7, <1>8, <1>9, <1>10, <1>11, MainGoesOn

LEMMA FlushRestCoverage ==
  ASSUME MediaTypes, Coverage, MainFrame, FlushRest
  PROVE  Coverage'
<1>1. /\ rows' = Flushed(writer) /\ writer' = <<>> /\ UNCHANGED walk /\ UNCHANGED disk
      /\ UNCHANGED lister /\ UNCHANGED pool /\ Go("done")
      /\ writer \in Seq(Whole) /\ DiskKnown /\ RowsKnown
  BY DEF FlushRest, threads, outside, MediaTypes, ThreadsKnown
<1>2. SameCounts /\ run'.targets = run.targets /\ run'.next = run.next /\ run'.max = run.max
  BY <1>1, GoIs DEF Framed
<1>3. run'.lost = run.lost /\ run'.scanned = run.scanned /\ run'.errors = run.errors
  BY <1>2 DEF SameCounts, Counts
<1>4. Room' => Room
  BY <1>2, <1>3 DEF Room
<1>5. AllFresh => HandFresh'
  BY <1>1, <1>2, EmptyParts DEF AllFresh, HandFresh, Fresh
<1>6. AllFresh => /\ \A f \in Files : Covered(f) => Covered(f)'
                  /\ \A f \in FilesOf(writer) : Covered(f)'
  BY <1>1, FlushCovers DEF AllFresh
<1>7. ASSUME AllFresh, NEW f \in Files, InHand(f) PROVE Known(f)'
  <2>1. CASE f \in FilesOf(writer)
    BY <1>6, <1>7, <2>1 DEF Known
  <2>2. CASE f \notin FilesOf(writer)
    BY <1>1, <1>2, <1>7, <2>2 DEF InHand, Known, Held
  <2>3. QED
    BY <2>1, <2>2
<1>8. NoErrors' => run.errors = 0 /\ \A event \in Range(walk.events) : event.errors = 0
  BY <1>1, <1>3 DEF NoErrors
<1>9. ToList \subseteq ToList'
  BY <1>1 DEF ToList
<1>10. QED
  BY <1>1, <1>3, <1>4, <1>5, <1>6, <1>7, <1>8, <1>9, MainGoesOn

LEMMA TurnCoverage ==
  ASSUME MediaTypes, Coverage, MainFrame,
         EndTargets \/ Drained \/ NoEvent \/ JoinWalkers \/ EndRest
  PROVE  Coverage'
<1>1. /\ UNCHANGED rows /\ UNCHANGED writer /\ UNCHANGED walk /\ UNCHANGED lister
      /\ UNCHANGED pool \/ pool' = [pool EXCEPT !.open = FALSE]
  BY DEF EndTargets, Drained, NoEvent, JoinWalkers, EndRest, threads
<1>2. PICK pc : Go(pc)
  BY DEF EndTargets, Drained, NoEvent, JoinWalkers, EndRest
<1>3. SameCounts /\ run'.targets = run.targets /\ run'.next = run.next
  BY <1>2, GoIs
<1>4. pool'.jobs = pool.jobs /\ pool'.results = pool.results
  BY <1>1 DEF MediaTypes, ThreadsKnown, Pool
<1>5. QED
  BY <1>1, <1>3, <1>4, MainTurns

LEMMA MainCoverage ==
  ASSUME MediaTypes, Course, Coverage, Main, ~SendFails
  PROVE  Coverage'
<1>1. MainFrame
  BY MainFrames
<1>2. QED
  BY <1>1, OpenRootCoverage, OpenDirCoverage, NextFileCoverage, EndListCoverage, ProbeHereCoverage,
     PushHereCoverage, NextTargetCoverage, TakeResultCoverage, TakeEventCoverage,
     StopWalkersCoverage, SendJobCoverage, FlushRestCoverage, TurnCoverage
     DEF Main, DrainResults, AwaitResult

----------------------------------------------------------------------------
(* Runs account for the files.                                             *)
Accounts ==
  /\ MediaTypes /\ Course /\ OwnThreads /\ Ends /\ WalkCounted /\ Numbers /\ Coverage

LEMMA FirstAccounts ==
  ASSUME Init
  PROVE  Accounts
<1>1. MediaTypes /\ Course
  BY FirstTypes
<1>2. /\ run.pc = "off" /\ run.kind = "build" /\ run.mode = "serial" /\ run.targets = <<>>
      /\ lister = NoLister
      /\ walk.events = <<>> /\ walk.dirs = <<>> /\ ~walk.closed /\ ~walk.stop /\ walk.pending = 0
      /\ pool.jobs = <<>> /\ pool.results = <<>>
      /\ \A k \in Workers : worker[k] = GoneWorker
      /\ DOMAIN walker = Walkers /\ \A w \in Walkers : walker[w].pc = "gone"
  BY DEF Init, Resting, NoWalk, NoPool, Gone
<1>3. OwnThreads
  BY <1>2 DEF OwnThreads, AllGone
<1>4. Ends
  BY <1>2 DEF Ends, Over, Walking
<1>5. WalkCounted
  <2>1. Busy = {} /\ Len(walk.dirs) = 0
    BY <1>2 DEF Busy
  <2>2. Cardinality(Busy) = 0
    BY <2>1, BusyIs
  <2>3. QED
    BY <1>2, <2>1, <2>2 DEF WalkCounted
<1>6. Numbers
  BY <1>2 DEF Numbers, Running, Ended
<1>7. Coverage
  BY <1>2 DEF Coverage, Rested
<1>8. QED
  BY <1>1, <1>3, <1>4, <1>5, <1>6, <1>7 DEF Accounts

LEMMA SameAccounts ==
  ASSUME Accounts, UNCHANGED mediaVars
  PROVE  OwnThreads' /\ Ends' /\ WalkCounted' /\ Numbers' /\ Coverage'
<1>1. /\ UNCHANGED disk /\ UNCHANGED rows /\ UNCHANGED run /\ UNCHANGED lister /\ UNCHANGED walk
      /\ UNCHANGED walker /\ UNCHANGED pool /\ UNCHANGED worker /\ UNCHANGED writer
  BY DEF mediaVars, threads, outside
<1>2. Over' = Over /\ Rested' = Rested /\ Walking' = Walking /\ Running' = Running
      /\ Room' = Room /\ AllGone(walker)' = AllGone(walker)
  BY <1>1 DEF Over, Rested, Walking, Running, Room, AllGone
<1>3. OwnThreads' /\ Ends'
  BY <1>1, <1>2 DEF Accounts, OwnThreads, Ends
<1>4. WalkCounted'
  BY <1>1, SameWalk DEF Accounts
<1>5. Numbers'
  <2>1. OnTheWay' = OnTheWay
    BY <1>1, SameOnTheWay
  <2>2. QED
    BY <1>1, <1>2, <2>1 DEF Accounts, Numbers
<1>6. Coverage'
  <2>1. AllFresh' = AllFresh
    BY <1>1 DEF AllFresh, Fresh
  <2>2. \A f : Known(f)' = Known(f)
    BY <1>1 DEF Known, Covered, Held, FilesOf
  <2>3. NoErrors' = NoErrors
    BY <1>1 DEF NoErrors
  <2>4. \A dir : Waits(dir)' = Waits(dir)
    BY <1>1 DEF Waits
  <2>5. \A known : ListedAre(known) => ListedAre(known)'
    BY <2>2, <2>4 DEF ListedAre
  <2>6. QED
    BY <1>1, <1>2, <2>1, <2>2, <2>3, <2>5 DEF Accounts, Coverage
<1>7. QED
  BY <1>3, <1>4, <1>5, <1>6

LEMMA AccountsStep ==
  ASSUME Accounts, [Next]_mediaVars
  PROVE  Accounts'
<1>1. MediaTypes /\ Course /\ OwnThreads /\ Ends /\ WalkCounted /\ Numbers /\ Coverage
  BY DEF Accounts
<1>2. MediaTypes' /\ Course'
  BY <1>1, TypesStep
<1>3. CASE UNCHANGED mediaVars
  BY <1>2, <1>3, SameAccounts DEF Accounts
<1>4. CASE StartBuild \/ StartRepair \/ Killed \/ SendFails
  BY <1>1, <1>2, <1>4, BeginThreads, BeginWalk, BeginNumbers, BeginCoverage DEF Accounts
<1>5. CASE Main /\ ~SendFails
  BY <1>1, <1>2, <1>5, MainThreads, MainWalk, MainNumbers, MainCoverage DEF Accounts
<1>6. ASSUME NEW w \in Walkers, Walker(w) PROVE Accounts'
  BY <1>1, <1>2, <1>6, WalkerThreads, WalkerWalk, WalkerNumbers, WalkerCoverage DEF Accounts
<1>7. CASE \/ \E f \in Files : EditFile(f)
           \/ \E k \in Workers : Worker(k) \/ WorkerPanics(k)
  <2>1. WalkCounted'
    <3>1. UNCHANGED walk /\ UNCHANGED walker
      BY <1>1, <1>7, OtherFrame
    <3>2. QED
      BY <1>1, <3>1, SameWalk
  <2>2. OwnThreads' /\ Ends'
    BY <1>1, <1>7, OtherThreads
  <2>3. Numbers'
    BY <1>1, <1>7, OtherNumbers
  <2>4. Coverage'
    BY <1>1, <1>7, OtherCoverage
  <2>5. QED
    BY <1>2, <2>1, <2>2, <2>3, <2>4 DEF Accounts
<1>8. QED
  BY <1>3, <1>4, <1>5, <1>6, <1>7 DEF Next

\* When a run has returned nothing waits or is in hand.
LEMMA DoneIsEmpty ==
  ASSUME Accounts, run.pc = "done"
  PROVE  /\ AllGone(walker) /\ OnTheWay = 0 /\ run.received = run.scanned /\ writer = <<>>
         /\ run.lost = 0 /\ \A f : ~Held(f)
         /\ \A dir : ~Waits(dir)
         /\ run.errors = 0 => NoErrors
<1>1. Over /\ ~Rested
  BY DEF Over, Rested
<1>2. /\ OnTheWay = 0 /\ run.received = run.scanned /\ writer = <<>> /\ run.lost = 0
  BY DEF Accounts, Numbers
<1>3. AllGone(walker) /\ DOMAIN walker = Walkers
  BY <1>1 DEF Accounts, OwnThreads, MediaTypes, ThreadsKnown
<1>4. \A w \in Walkers : walker[w].pc = "gone"
  BY <1>3 DEF AllGone
<1>5. \A w \in Walkers : walker[w].dirs = {} /\ walker[w].entries = <<>>
  BY <1>4 DEF Accounts, MediaTypes, WalkersFit
<1>6. lister = NoLister /\ run.targets = <<>>
  <2>1. Course /\ Ends
    BY DEF Accounts
  <2>2. lister = NoLister /\ run.targets = <<>>
    BY <1>1, <2>1 DEF Ends
  <2>3. QED
    BY <2>2
<1>7. run.next = <<>>
  BY DEF Accounts, MediaTypes, NextFits
<1>8. walk.dirs = <<>> /\ walk.events = <<>>
  <2>1. CASE ~Walking
    BY <2>1 DEF Accounts, OwnThreads
  <2>2. CASE Walking
    <3>1. walk.events = <<>>
      BY <1>1, <2>2 DEF Accounts, Ends
    <3>2. PICK w : w \in Walkers
      BY MediaAssumption
    <3>3. QED
      BY <1>4, <3>1, <3>2 DEF Accounts, WalkCounted
  <2>3. QED
    BY <2>1, <2>2
<1>9. pool.jobs = <<>> /\ pool.results = <<>> /\ \A k \in Workers : worker[k].entries = <<>>
  BY <1>2, NoneOnTheWay DEF Accounts, Course
<1>10. lister.roots = <<>> /\ lister.dirs = <<>> /\ lister.current = {}
  BY <1>6 DEF NoLister
<1>11. ASSUME NEW f PROVE ~Held(f)
  BY <1>2, <1>5, <1>6, <1>7, <1>8, <1>9, <1>10, EmptyParts DEF Held
<1>12. ASSUME NEW dir PROVE ~Waits(dir)
  BY <1>5, <1>8, <1>10, EmptyParts DEF Waits
<1>13. run.errors = 0 => NoErrors
  BY <1>4, <1>8, EmptyParts DEF NoErrors
<1>14. QED
  BY <1>2, <1>3, <1>11, <1>12, <1>13

LEMMA AccountsCover ==
  ASSUME Accounts
  PROVE  CompleteRunCovers
<1> SUFFICES ASSUME run.pc = "done", run.calm
             PROVE  IF run.kind = "repair" THEN \A f \in run.loaded : Covered(f)
                    ELSE run.errors = 0 /\ Room =>
                           \A f \in UNION {FilesIn[dir] : dir \in Dirs} : disk[f] # 0 => Covered(f)
  BY DEF CompleteRunCovers
<1>1. /\ run.lost = 0 /\ \A f : ~Held(f)
      /\ \A dir : ~Waits(dir)
      /\ run.errors = 0 => NoErrors
  BY DoneIsEmpty
<1>2. ~Rested /\ run.kind \in {"build", "repair"}
  BY DEF Rested, Accounts, MediaTypes, RunState
<1>3. Coverage
  BY DEF Accounts
<1>4. CASE run.kind = "repair"
  BY <1>1, <1>2, <1>3, <1>4 DEF Coverage, Known
<1>5. CASE run.kind = "build"
  <2> SUFFICES ASSUME run.errors = 0, Room, NEW dir \in Dirs, NEW f \in FilesIn[dir], disk[f] # 0
               PROVE  Covered(f)
    BY <1>5
  <2>1. PICK known \in SUBSET Dirs : ListedAre(known)
    BY <1>1, <1>2, <1>3, <1>5 DEF Coverage
  <2>2. /\ Range(Roots) \subseteq known
        /\ \A d \in known : SubDirs[d] \subseteq known /\ \A g \in FilesIn[d] : Known(g)
    BY <1>1, <2>1 DEF ListedAre
  <2>3. known = Dirs
    BY <2>2, TreeAssumption
  <2>4. QED
    BY <1>1, <2>2, <2>3 DEF Known
<1>6. QED
  BY <1>2, <1>4, <1>5

LEMMA AccountsAddUp ==
  ASSUME Accounts
  PROVE  ReportAddsUp
<1>1. Running => run.scanned <= run.max
  <2>1. run.scanned \in Nat /\ run.max \in Nat /\ run.targets \in Seq(Entries)
    BY DEF Accounts, MediaTypes, RunState
  <2>2. Len(run.targets) \in Nat
    BY <2>1
  <2>3. Running => run.scanned + Len(run.targets) <= run.max
    BY DEF Accounts, Course
  <2>4. QED
    BY <2>1, <2>2, <2>3
<1>2. Running /\ run.mode # "serial" => run.sent = run.received + OnTheWay + run.lost
  BY DEF Accounts, Numbers
<1>3. run.pc = "done" => /\ run.received = run.scanned /\ writer = <<>>
                         /\ OnTheWay = 0 /\ AllGone(walker)
  BY DoneIsEmpty
<1>4. QED
  BY <1>1, <1>2, <1>3 DEF ReportAddsUp, Running

\* The inductive invariant of builds and repairs, for every tree of directories,
\* any number of walkers and workers, and any size of channels and batches.
THEOREM MediaInvariant == Spec => []Accounts
<1>1. Init => Accounts
  BY FirstAccounts
<1>2. Accounts /\ [Next]_mediaVars => Accounts'
  BY AccountsStep
<1>3. QED
  BY <1>1, <1>2, PTL DEF Spec

\* When a build or repair returns it has a row of every file it met, and every
\* file it scanned was written, in every mode: with walkers the run ends only
\* when no directory is pending, with workers only when every result is there
\* (build_serial, build_parallel, spawn_parallel_walkers, repair_parallel).
THEOREM RunsAccount == Spec => []RunAccounts
<1>1. Accounts => RunAccounts
  BY AccountsCover, AccountsAddUp DEF RunAccounts
<1>2. QED
  BY <1>1, MediaInvariant, PTL
=============================================================================
