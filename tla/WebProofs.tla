------------------------------ MODULE WebProofs ------------------------------
(***************************************************************************)
(* Proofs about the requests of the web service, for every set of          *)
(* requests, every size of the queue and of the pool, and every number of  *)
(* panics: the inductive invariant behind NothingLeaks; and about the      *)
(* maintenance controller of the service, for every set of clients and     *)
(* every number of runs: its inductive invariant, what follows of it, and  *)
(* that it implements MaintenanceTask.                                     *)
(***************************************************************************)
EXTENDS WebRequests, MaintenanceController, FiniteSetTheorems, TLAPS

----------------------------------------------------------------------------
(* What a change of one place of a function does to the number of places   *)
(* with a value in P.                                                      *)

Places(f, D, P) == {d \in D : f[d] \in P}

LEMMA Moved ==
  ASSUME NEW D, IsFiniteSet(D), NEW f, f = [d \in D |-> f[d]], NEW r \in D, NEW p, NEW P
  PROVE  LET g == [f EXCEPT ![r] = p]
         IN /\ IsFiniteSet(Places(f, D, P))
            /\ Cardinality(Places(f, D, P)) \in Nat
            /\ Cardinality(Places(g, D, P))
                 = Cardinality(Places(f, D, P)) + (IF p \in P THEN 1 ELSE 0)
                                                - (IF f[r] \in P THEN 1 ELSE 0)
            /\ f[r] \in P => Cardinality(Places(f, D, P)) > 0
<1> DEFINE g == [f EXCEPT ![r] = p]
           A == Places(f, D, P)
           B == Places(g, D, P)
           C == A \ {r}
<1>1. IsFiniteSet(A) /\ Cardinality(A) \in Nat
  <2>1. A \in SUBSET D
    BY DEF Places
  <2>2. QED
    BY <2>1, FS_Subset, FS_CardinalityType
<1>2. IsFiniteSet(C) /\ Cardinality(C) \in Nat
  BY <1>1, FS_RemoveElement, FS_CardinalityType
<1>3. Cardinality(A) = Cardinality(C) + (IF f[r] \in P THEN 1 ELSE 0)
  <2>1. CASE f[r] \in P
    <3>1. A = C \cup {r} /\ r \notin C
      BY <2>1 DEF Places
    <3>2. QED
      BY <2>1, <3>1, <1>2, FS_AddElement
  <2>2. CASE f[r] \notin P
    <3>1. A = C
      BY <2>2 DEF Places
    <3>2. QED
      BY <2>2, <3>1, <1>2
  <2>3. QED
    BY <2>1, <2>2
<1>4. Cardinality(B) = Cardinality(C) + (IF p \in P THEN 1 ELSE 0)
  <2>1. \A d \in D : g[d] = IF d = r THEN p ELSE f[d]
    OBVIOUS
  <2>2. CASE p \in P
    <3>1. B = C \cup {r} /\ r \notin C
      BY <2>1, <2>2 DEF Places
    <3>2. QED
      BY <2>2, <3>1, <1>2, FS_AddElement
  <2>3. CASE p \notin P
    <3>1. B = C
      BY <2>1, <2>3 DEF Places
    <3>2. QED
      BY <2>3, <3>1, <1>2
  <2>4. QED
    BY <2>2, <2>3
<1> HIDE DEF A, B, C, g
<1>5. Cardinality(B) = Cardinality(A) + (IF p \in P THEN 1 ELSE 0)
                                       - (IF f[r] \in P THEN 1 ELSE 0)
  BY <1>1, <1>2, <1>3, <1>4
<1>6. f[r] \in P => Cardinality(A) > 0
  BY <1>2, <1>3
<1>7. QED
  BY <1>1, <1>5, <1>6 DEF A, B, g

\* What is in a queue.
LEMMA RangeAppend ==
  ASSUME NEW S, NEW q \in Seq(S), NEW x \in S
  PROVE  Range(Append(q, x)) = Range(q) \cup {x}
<1>1. /\ Len(q) \in Nat /\ DOMAIN q = 1 .. Len(q)
      /\ DOMAIN Append(q, x) = 1 .. (Len(q) + 1) /\ Append(q, x)[Len(q) + 1] = x
      /\ \A i \in 1 .. Len(q) : Append(q, x)[i] = q[i]
  OBVIOUS
<1>2. \A i \in 1 .. (Len(q) + 1) : i = Len(q) + 1 \/ i \in 1 .. Len(q)
  BY <1>1
<1>3. Range(Append(q, x)) \subseteq Range(q) \cup {x}
  BY <1>1, <1>2 DEF Range
<1>4. Len(q) + 1 \in 1 .. (Len(q) + 1) /\ 1 .. Len(q) \subseteq 1 .. (Len(q) + 1)
  BY <1>1
<1>5. x \in Range(Append(q, x)) /\ Range(q) \subseteq Range(Append(q, x))
  <2>1. x \in Range(Append(q, x))
    BY <1>1, <1>4 DEF Range
  <2>2. ASSUME NEW y \in Range(q) PROVE y \in Range(Append(q, x))
    <3>1. PICK i \in 1 .. Len(q) : y = q[i]
      BY <1>1 DEF Range
    <3>2. y = Append(q, x)[i] /\ i \in DOMAIN Append(q, x)
      BY <3>1, <1>1, <1>4
    <3>3. QED
      BY <3>2 DEF Range
  <2>3. QED
    BY <2>1, <2>2
<1>6. QED
  BY <1>3, <1>5

LEMMA RangeHeadTail ==
  ASSUME NEW S, NEW q \in Seq(S), q # <<>>
  PROVE  /\ Range(q) = {Head(q)} \cup Range(Tail(q))
         /\ Head(q) \in S /\ Tail(q) \in Seq(S) /\ Len(q) = Len(Tail(q)) + 1
<1>1. /\ Len(q) \in Nat \ {0} /\ DOMAIN q = 1 .. Len(q) /\ Head(q) = q[1]
      /\ Tail(q) \in Seq(S) /\ Len(Tail(q)) = Len(q) - 1
      /\ DOMAIN Tail(q) = 1 .. (Len(q) - 1)
      /\ \A i \in 1 .. (Len(q) - 1) : Tail(q)[i] = q[i + 1]
  OBVIOUS
<1>2. \A i \in 1 .. Len(q) : i = 1 \/ (i - 1 \in 1 .. (Len(q) - 1) /\ Tail(q)[i - 1] = q[i])
  BY <1>1
<1>3. Range(q) \subseteq {Head(q)} \cup Range(Tail(q))
  <2> SUFFICES ASSUME NEW y \in Range(q), y # Head(q)
               PROVE  y \in Range(Tail(q))
    OBVIOUS
  <2>1. PICK i \in 1 .. Len(q) : y = q[i]
    BY <1>1 DEF Range
  <2>2. i - 1 \in DOMAIN Tail(q) /\ y = Tail(q)[i - 1]
    BY <2>1, <1>1, <1>2
  <2>3. QED
    BY <2>2 DEF Range
<1>4. \A i \in 1 .. (Len(q) - 1) : i + 1 \in 1 .. Len(q)
  BY <1>1
<1>5. {Head(q)} \cup Range(Tail(q)) \subseteq Range(q)
  <2>1. Head(q) \in Range(q)
    BY <1>1 DEF Range
  <2>2. ASSUME NEW y \in Range(Tail(q)) PROVE y \in Range(q)
    <3>1. PICK i \in 1 .. (Len(q) - 1) : y = Tail(q)[i]
      BY <1>1 DEF Range
    <3>2. i + 1 \in DOMAIN q /\ y = q[i + 1]
      BY <3>1, <1>1, <1>4
    <3>3. QED
      BY <3>2 DEF Range
  <2>3. QED
    BY <2>1, <2>2
<1>6. QED
  BY <1>1, <1>3, <1>5

----------------------------------------------------------------------------
(* Where the requests are, counted.                                        *)

LEMMA RequestMoved ==
  ASSUME WebTypeOK, NEW r \in Requests, NEW to, request' = [request EXCEPT ![r] = to], NEW P
  PROVE  /\ Cardinality(At(P)) \in Nat
         /\ Cardinality(At(P)') = Cardinality(At(P)) + (IF to \in P THEN 1 ELSE 0)
                                                    - (IF request[r] \in P THEN 1 ELSE 0)
         /\ request[r] \in P => Cardinality(At(P)) > 0
<1>1. IsFiniteSet(Requests) /\ request = [d \in Requests |-> request[d]]
  BY WebAssumption DEF WebTypeOK
<1>2. At(P) = Places(request, Requests, P) /\ At(P)' = Places(request', Requests, P)
  BY DEF At, Places
<1>3. /\ Cardinality(Places(request, Requests, P)) \in Nat
      /\ Cardinality(Places([request EXCEPT ![r] = to], Requests, P))
           = Cardinality(Places(request, Requests, P)) + (IF to \in P THEN 1 ELSE 0)
                                             - (IF request[r] \in P THEN 1 ELSE 0)
      /\ request[r] \in P => Cardinality(Places(request, Requests, P)) > 0
  BY <1>1, Moved
<1>4. QED
  BY <1>2, <1>3

LEMMA AtCounted ==
  ASSUME NEW P PROVE Cardinality(At(P)) \in Nat
<1>1. At(P) \in SUBSET Requests
  BY DEF At
<1>2. QED
  BY <1>1, WebAssumption, FS_Subset, FS_CardinalityType

LEMMA RequestStays ==
  ASSUME WebTypeOK, NEW r \in Requests, NEW to, request' = [request EXCEPT ![r] = to],
         NEW P, to \notin P, request[r] \notin P
  PROVE  Cardinality(At(P)') = Cardinality(At(P))
<1>1. /\ Cardinality(At(P)) \in Nat
      /\ Cardinality(At(P)') = Cardinality(At(P)) + (IF to \in P THEN 1 ELSE 0)
                                                 - (IF request[r] \in P THEN 1 ELSE 0)
  BY RequestMoved
<1>2. QED
  BY <1>1

LEMMA JobMoved ==
  ASSUME WebTypeOK, NEW r \in Chats, NEW to, job' = [job EXCEPT ![r] = to], NEW P
  PROVE  /\ Cardinality(JobsAt(P)) \in Nat
         /\ Cardinality(JobsAt(P)') = Cardinality(JobsAt(P)) + (IF to \in P THEN 1 ELSE 0)
                                                    - (IF job[r] \in P THEN 1 ELSE 0)
         /\ job[r] \in P => Cardinality(JobsAt(P)) > 0
<1>1. Chats \in SUBSET Requests
  BY DEF Requests
<1>2. IsFiniteSet(Chats) /\ job = [d \in Chats |-> job[d]]
  BY <1>1, WebAssumption, FS_Subset DEF WebTypeOK
<1>3. JobsAt(P) = Places(job, Chats, P) /\ JobsAt(P)' = Places(job', Chats, P)
  BY DEF JobsAt, Places
<1>4. /\ Cardinality(Places(job, Chats, P)) \in Nat
      /\ Cardinality(Places([job EXCEPT ![r] = to], Chats, P))
           = Cardinality(Places(job, Chats, P)) + (IF to \in P THEN 1 ELSE 0)
                                             - (IF job[r] \in P THEN 1 ELSE 0)
      /\ job[r] \in P => Cardinality(Places(job, Chats, P)) > 0
  BY <1>2, Moved
<1>5. QED
  BY <1>3, <1>4

Popped == {t \in {searcher} : t.pc = "popped"}

LEMMA PoppedCounted ==
  Cardinality(Popped) = IF searcher.pc = "popped" THEN 1 ELSE 0
<1>1. CASE searcher.pc = "popped"
  <2>1. Popped = {searcher}
    BY <1>1 DEF Popped
  <2>2. QED
    BY <1>1, <2>1, FS_Singleton
<1>2. CASE searcher.pc # "popped"
  <2>1. Popped = {}
    BY <1>2 DEF Popped
  <2>2. QED
    BY <1>2, <2>1, FS_EmptySet
<1>3. QED
  BY <1>1, <1>2

\* MetricsTell, with the command that was just taken as a number.
LEMMA MetricsInNumbers ==
  MetricsTell <=>
    (searcher.pc # "dead" =>
       /\ metrics.queued = Len(queue) + Cardinality(At({"send", "uncount"}))
                           + (IF searcher.pc = "popped" THEN 1 ELSE 0)
       /\ metrics.active <=> searcher.pc = "work")
BY PoppedCounted DEF MetricsTell, Popped

LEMMA KindsApart ==
  /\ Texts \subseteq Searches /\ Uploads \subseteq Searches /\ Searches \subseteq Requests
  /\ Chats \subseteq Requests /\ Searches \cap Chats = {} /\ Texts \cap Uploads = {}
  /\ Nobody \notin Requests
BY WebAssumption DEF Searches, Requests

LEMMA WhatIsLost ==
  ASSUME WebTypeOK
  PROVE  Lost \subseteq Searches \cup {Nobody}
<1>1. Range(queue) \subseteq Searches
  BY DEF WebTypeOK, Range
<1>2. QED
  BY <1>1 DEF Lost, WebTypeOK

----------------------------------------------------------------------------
(* Types.                                                                  *)

\* What fetch_sub takes away was counted.
LEMMA CountedBefore ==
  ASSUME WebTypeOK, QueuedNeverWraps, NEW r \in Searches, Refuse(r)
  PROVE  metrics.queued - 1 \in Nat
<1>1. /\ request' = [request EXCEPT ![r] = "refused"] /\ r \in Requests
      /\ request[r] \in {"send", "uncount"}
  BY DEF Refuse, Goes, Requests
<1>2. /\ Cardinality(At({"send", "uncount"})) \in Nat
      /\ Cardinality(At({"send", "uncount"})) > 0
  BY <1>1, RequestMoved
<1>3. metrics.queued \in Nat /\ metrics.queued >= Cardinality(At({"send", "uncount"}))
  BY DEF WebTypeOK, Metrics, QueuedNeverWraps
<1>4. QED
  BY <1>2, <1>3

\* What the steps make of the records.
LEMMA PoolChanges ==
  ASSUME NEW p \in ChatPool, NEW b \in BOOLEAN, NEW h \in Requests \cup {Nobody}
  PROVE  /\ p.connections > 0 => [p EXCEPT !.connections = @ - 1] \in ChatPool
         /\ p.free > 0 => [p EXCEPT !.free = @ - 1] \in ChatPool
         /\ [p EXCEPT !.connections = @ + 1] \in ChatPool
         /\ [p EXCEPT !.free = @ + 1] \in ChatPool
         /\ [p EXCEPT !.holder = h] \in ChatPool
         /\ [p EXCEPT !.holder = h, !.poisoned = b, !.free = @ + 1] \in ChatPool
<1>1. p.connections > 0 => [p EXCEPT !.connections = @ - 1] \in ChatPool
  BY DEF ChatPool
<1>2. p.free > 0 => [p EXCEPT !.free = @ - 1] \in ChatPool
  BY DEF ChatPool
<1>3. [p EXCEPT !.connections = @ + 1] \in ChatPool
  BY DEF ChatPool
<1>4. [p EXCEPT !.free = @ + 1] \in ChatPool
  BY DEF ChatPool
<1>5. [p EXCEPT !.holder = h] \in ChatPool
  BY DEF ChatPool
<1>6. [p EXCEPT !.holder = h, !.poisoned = b, !.free = @ + 1] \in ChatPool
  <2>1. [p EXCEPT !.holder = h, !.poisoned = b] \in ChatPool
    BY DEF ChatPool
  <2>2. \A q \in ChatPool : [q EXCEPT !.free = @ + 1] \in ChatPool
    BY DEF ChatPool
  <2>3. [[p EXCEPT !.holder = h, !.poisoned = b] EXCEPT !.free = @ + 1] \in ChatPool
    BY <2>1, <2>2
  <2>4. QED
    BY <2>3
<1>7. QED
  BY <1>1, <1>2, <1>3, <1>4, <1>5, <1>6

LEMMA MetricsChange ==
  ASSUME NEW m \in Metrics, NEW b \in BOOLEAN
  PROVE  /\ [m EXCEPT !.queued = @ + 1] \in Metrics
         /\ m.queued - 1 \in Nat => [m EXCEPT !.queued = @ + -1] \in Metrics
         /\ [m EXCEPT !.active = b] \in Metrics
         /\ [m EXCEPT !.active = b, !.completed = @ + 1] \in Metrics
         /\ [m EXCEPT !.active = b, !.failed = @ + 1] \in Metrics
         /\ [m EXCEPT !.cancelled = @ + 1] \in Metrics
<1>1. [m EXCEPT !.queued = @ + 1] \in Metrics
  BY DEF Metrics
<1>2. m.queued - 1 \in Nat => [m EXCEPT !.queued = @ + -1] \in Metrics
  BY DEF Metrics
<1>3. [m EXCEPT !.active = b] \in Metrics
  BY DEF Metrics
<1>4. [m EXCEPT !.active = b, !.completed = @ + 1] \in Metrics
  <2>1. \A n \in Metrics : [n EXCEPT !.completed = @ + 1] \in Metrics
    BY DEF Metrics
  <2>2. [[m EXCEPT !.active = b] EXCEPT !.completed = @ + 1] \in Metrics
    BY <1>3, <2>1
  <2>3. QED
    BY <2>2
<1>5. [m EXCEPT !.active = b, !.failed = @ + 1] \in Metrics
  <2>1. \A n \in Metrics : [n EXCEPT !.failed = @ + 1] \in Metrics
    BY DEF Metrics
  <2>2. [[m EXCEPT !.active = b] EXCEPT !.failed = @ + 1] \in Metrics
    BY <1>3, <2>1
  <2>3. QED
    BY <2>2
<1>6. [m EXCEPT !.cancelled = @ + 1] \in Metrics
  BY DEF Metrics
<1>7. QED
  BY <1>1, <1>2, <1>3, <1>4, <1>5, <1>6

LEMMA WebTypeStep == WebTypeOK /\ QueuedNeverWraps /\ WebNext => WebTypeOK'
<1> USE DEF WebTypeOK, searchOf, chatOf, Goes, JobGoes
<1>1. ASSUME WebTypeOK, NEW r \in Uploads, r \in Requests, StartUpload(r) PROVE WebTypeOK'
  BY <1>1 DEF StartUpload, RequestPcs, Waiting
<1>2. ASSUME WebTypeOK, NEW r \in Uploads, r \in Requests, WriteFile(r) PROVE WebTypeOK'
  BY <1>2 DEF WriteFile
<1>3. ASSUME WebTypeOK, NEW r \in Uploads, r \in Requests, WriteFails(r) PROVE WebTypeOK'
  BY <1>3 DEF WriteFails, RequestPcs, Waiting, Ended
<1>4. ASSUME WebTypeOK, NEW r \in Uploads, r \in Requests, RefuseOptions(r) PROVE WebTypeOK'
  BY <1>4 DEF RefuseOptions, RequestPcs, Waiting, Ended
<1>5. ASSUME WebTypeOK, NEW r \in Searches, r \in Requests, Submit(r) PROVE WebTypeOK'
  <2>1. metrics' \in Metrics
    BY <1>5, MetricsChange DEF Submit, Counted
  <2>2. QED
    BY <1>5, <2>1 DEF Submit, RequestPcs, Waiting
<1>6. ASSUME WebTypeOK, NEW r \in Searches, r \in Requests, TrySend(r) PROVE WebTypeOK'
  BY <1>6 DEF TrySend, RequestPcs, Waiting
<1>7. ASSUME WebTypeOK, NEW r \in Searches, r \in Requests, metrics.queued - 1 \in Nat, Refuse(r) PROVE WebTypeOK'
  BY <1>7 DEF Refuse, RequestPcs, Waiting, Ended, Refused, Counted, Metrics
<1>8. ASSUME WebTypeOK, NEW r \in Searches, r \in Requests, Answer(r) PROVE WebTypeOK'
  BY <1>8 DEF Answer, RequestPcs, Waiting, Ended
<1>9. ASSUME WebTypeOK, NEW r \in Searches, r \in Requests, SearchTimeout(r) PROVE WebTypeOK'
  BY <1>9 DEF SearchTimeout, RequestPcs, Waiting, Ended
<1>10. ASSUME WebTypeOK, NEW r \in Requests, Leave(r) PROVE WebTypeOK'
  BY <1>10 DEF Leave, RequestPcs, Waiting, Ended
<1>11. ASSUME WebTypeOK, Recv PROVE WebTypeOK'
  BY <1>11 DEF Recv
<1>12. ASSUME WebTypeOK, Uncount PROVE WebTypeOK'
  <2>1. metrics' \in Metrics
    <3>1. metrics' = IF metrics.queued = 0 THEN metrics ELSE [metrics EXCEPT !.queued = @ + -1]
      BY <1>12 DEF Uncount, Counted
    <3>2. metrics \in Metrics /\ metrics.queued \in Nat
      BY <1>12 DEF Metrics
    <3>3. CASE metrics.queued = 0
      BY <3>1, <3>2, <3>3
    <3>4. CASE metrics.queued # 0
      <4>1. metrics.queued - 1 \in Nat /\ TRUE \in BOOLEAN
        BY <3>2, <3>4
      <4>2. [metrics EXCEPT !.queued = @ + -1] \in Metrics
        BY <3>2, <4>1, MetricsChange
      <4>3. QED
        BY <3>1, <3>4, <4>2
    <3>5. QED
      BY <3>3, <3>4
  <2>2. QED
    BY <1>12, <2>1 DEF Uncount
<1>13. ASSUME WebTypeOK, Skip PROVE WebTypeOK'
  BY <1>13 DEF Skip, Idle, Metrics
<1>14. ASSUME WebTypeOK, Work PROVE WebTypeOK'
  BY <1>14 DEF Work, Metrics
<1>15. ASSUME WebTypeOK, Worked PROVE WebTypeOK'
  <2>1. metrics' \in Metrics
    <3>1. CASE metrics' = [metrics EXCEPT !.active = FALSE, !.completed = @ + 1]
      BY <1>15, <3>1, MetricsChange
    <3>2. CASE metrics' = [metrics EXCEPT !.active = FALSE, !.failed = @ + 1]
      BY <1>15, <3>2, MetricsChange
    <3>3. QED
      BY <1>15, <3>1, <3>2 DEF Worked
  <2>2. searcher' \in [pc : {"recv", "popped", "check", "work", "value", "error", "dead"},
                      cmd : Searches \cup {Nobody}]
    BY <1>15 DEF Worked
  <2>3. QED
    BY <1>15, <2>1, <2>2 DEF Worked
<1>16. ASSUME WebTypeOK, Respond PROVE WebTypeOK'
  BY <1>16 DEF Respond, Idle
<1>17. ASSUME WebTypeOK, WorkerPanics PROVE WebTypeOK'
  BY <1>17 DEF WorkerPanics, Idle
<1>18. ASSUME WebTypeOK, NEW r \in Chats, r \in Requests, Ask(r) PROVE WebTypeOK'
  BY <1>18 DEF Ask, RequestPcs, Waiting
<1>19. ASSUME WebTypeOK, NEW r \in Chats, r \in Requests, Acquire(r) PROVE WebTypeOK'
  <2>1. pool' \in ChatPool
    BY <1>19 DEF Acquire, ChatPool
  <2>2. job' \in [Chats -> JobPcs]
    BY <1>19 DEF Acquire, JobPcs
  <2>3. QED
    BY <1>19, <2>1, <2>2 DEF Acquire, RequestPcs, Waiting
<1>20. ASSUME WebTypeOK, NEW r \in Chats, r \in Requests, JobAnswered(r) PROVE WebTypeOK'
  BY <1>20 DEF JobAnswered, RequestPcs, Waiting, Ended
<1>21. ASSUME WebTypeOK, NEW r \in Chats, r \in Requests, Pop(r) PROVE WebTypeOK'
  <2>1. pool' \in ChatPool
    <3>1. CASE pool.connections > 0
      BY <1>21, <3>1, PoolChanges DEF Pop
    <3>2. CASE ~(pool.connections > 0)
      BY <1>21, <3>2, PoolChanges DEF Pop, PermitBack
    <3>3. QED
      BY <3>1, <3>2
  <2>2. job' \in [Chats -> JobPcs]
    BY <1>21 DEF Pop, JobPcs
  <2>3. QED
    BY <1>21, <2>1, <2>2 DEF Pop
<1>22. ASSUME WebTypeOK, NEW r \in Chats, r \in Requests, Lock(r) PROVE WebTypeOK'
  <2>1. pool' \in ChatPool
    BY <1>22 DEF Lock, ChatPool
  <2>2. job' \in [Chats -> JobPcs]
    BY <1>22 DEF Lock, JobPcs
  <2>3. QED
    BY <1>22, <2>1, <2>2 DEF Lock
<1>23. ASSUME WebTypeOK, NEW r \in Chats, r \in Requests, Operate(r) PROVE WebTypeOK'
  <2>1. pool' \in ChatPool
    BY <1>23 DEF Operate, Unlocked, ChatPool
  <2>2. job' \in [Chats -> JobPcs]
    BY <1>23 DEF Operate, JobPcs
  <2>3. QED
    BY <1>23, <2>1, <2>2 DEF Operate
<1>24. ASSUME WebTypeOK, NEW r \in Chats, r \in Requests, Push(r) PROVE WebTypeOK'
  <2>1. pool' \in ChatPool
    BY <1>24 DEF Push, ChatPool
  <2>2. job' \in [Chats -> JobPcs]
    BY <1>24 DEF Push, JobPcs
  <2>3. QED
    BY <1>24, <2>1, <2>2 DEF Push
<1>25. ASSUME WebTypeOK, NEW r \in Chats, r \in Requests, Release(r) PROVE WebTypeOK'
  <2>1. pool' \in ChatPool
    BY <1>25 DEF Release, PermitBack, ChatPool
  <2>2. job' \in [Chats -> JobPcs]
    BY <1>25 DEF Release, JobPcs
  <2>3. QED
    BY <1>25, <2>1, <2>2 DEF Release
<1>26. ASSUME WebTypeOK, NEW r \in Chats, r \in Requests, OperationPanics(r) PROVE WebTypeOK'
  <2>1. pool' \in ChatPool
    <3>1. Unlocked(r) \in Requests \cup {Nobody} /\ pool.free + 1 \in Nat
      BY <1>26 DEF Unlocked, ChatPool
    <3>2. (pool.poisoned \/ pool.holder = r) \in BOOLEAN
      OBVIOUS
    <3>3. pool' = [pool EXCEPT !.holder = Unlocked(r),
                              !.poisoned = pool.poisoned \/ pool.holder = r,
                              !.free = pool.free + 1]
      BY <1>26 DEF OperationPanics
    <3>4. QED
      BY <1>26, <3>1, <3>2, <3>3 DEF ChatPool
  <2>2. job' \in [Chats -> JobPcs]
    BY <1>26 DEF OperationPanics, JobPcs
  <2>3. QED
    BY <1>26, <2>1, <2>2 DEF OperationPanics
<1>27. QED
  BY <1>1, <1>2, <1>3, <1>4, <1>5, <1>6, <1>7, <1>8, <1>9, <1>10, <1>11, <1>12, <1>13, <1>14, <1>15, <1>16, <1>17, <1>18, <1>19, <1>20, <1>21, <1>22, <1>23, <1>24, <1>25, <1>26, CountedBefore, KindsApart DEF WebNext, UploadStep, SearchStep, ThreadStep, ChatStep,
     JobStep

----------------------------------------------------------------------------
(* Steps of the other part.                                                *)

\* A handler moves between places that the queue's counter leaves out.
LEMMA MovedOnly ==
  ASSUME WebTypeOK, NEW r \in Requests, NEW to, request' = [request EXCEPT ![r] = to],
         UNCHANGED <<reply, queue, searcher, metrics>>,
         request[r] \notin {"send", "uncount"}, to \notin {"send", "uncount", "wait"}
  PROVE  /\ MetricsTell => MetricsTell'
         /\ DeathIsTold => DeathIsTold'
         /\ WaitersQueued => WaitersQueued'
         /\ QueuedNeverWraps => QueuedNeverWraps'
         /\ CommandsSent /\ (r \notin Lost \/ to \in {"answered", "stopped", "timed out", "left"})
              => CommandsSent'
<1>1. \A x \in Requests : request'[x] = IF x = r THEN to ELSE request[x]
  BY DEF WebTypeOK
<1>2. Lost' = Lost /\ Lost \subseteq Searches \cup {Nobody} /\ Searches \subseteq Requests
  BY WhatIsLost, KindsApart DEF Lost
<1>3. /\ Cardinality(At({"send", "uncount"})') = Cardinality(At({"send", "uncount"}))
      /\ Cardinality(At({"send", "uncount"})) \in Nat
  BY RequestStays, AtCounted
<1>4. MetricsTell => MetricsTell'
  BY <1>3 DEF MetricsTell
<1>5. DeathIsTold => DeathIsTold'
  BY <1>1, <1>2 DEF DeathIsTold
<1>6. WaitersQueued => WaitersQueued'
  BY <1>1, <1>2 DEF WaitersQueued
<1>7. QueuedNeverWraps => QueuedNeverWraps'
  BY <1>3 DEF QueuedNeverWraps
<1>8. CommandsSent /\ (r \notin Lost \/ to \in {"answered", "stopped", "timed out", "left"})
        => CommandsSent'
  BY <1>1, <1>2 DEF CommandsSent
<1>9. QED
  BY <1>4, <1>5, <1>6, <1>7, <1>8

\* A handler of an answered search or of another kind moves.
LEMMA SearchFrame ==
  ASSUME WebTypeOK, NEW r \in Requests, NEW to, UNCHANGED searchOf,
         request' = [request EXCEPT ![r] = to],
         request[r] \notin {"send", "uncount"}, to \notin {"send", "uncount", "wait"},
         request[r] \in {"write", "unguarded"} => to = "unguarded",
         r \in Searches /\ request[r] # "write" => to \in {"answered", "stopped", "timed out", "left"}
  PROVE  SearchInv => SearchInv'
<1>1. \A x \in Requests : request'[x] = IF x = r THEN to ELSE request[x]
  BY DEF WebTypeOK
<1>2. /\ Lost' = Lost /\ Lost \subseteq Searches \cup {Nobody} /\ Searches \subseteq Requests
      /\ UNCHANGED <<reply, writing, files, queue, searcher, metrics>>
      /\ files \subseteq Requests /\ writing \subseteq Requests /\ Nobody \notin Requests
  BY WhatIsLost, KindsApart DEF Lost, searchOf, WebTypeOK
<1>3. CommandsSent => r \notin Lost \/ to \in {"answered", "stopped", "timed out", "left"}
  BY <1>2 DEF CommandsSent
<1>4. UploadsHaveOwner => UploadsHaveOwner'
  BY <1>1, <1>2 DEF UploadsHaveOwner, At
<1>5. GuardConsumed => GuardConsumed'
  BY <1>2 DEF GuardConsumed
<1>6. WritersKnown => WritersKnown'
  BY <1>1, <1>2 DEF WritersKnown, At
<1>7. /\ MetricsTell => MetricsTell'
      /\ DeathIsTold => DeathIsTold'
      /\ WaitersQueued => WaitersQueued'
      /\ QueuedNeverWraps => QueuedNeverWraps'
      /\ CommandsSent => CommandsSent'
  BY <1>2, <1>3, MovedOnly
<1>8. QED
  BY <1>4, <1>5, <1>6, <1>7 DEF SearchInv

LEMMA ChatFrame ==
  ASSUME UNCHANGED chatOf,
         \A r \in Chats : request'[r] \in {"away", "permit"} => request[r] \in {"away", "permit"}
  PROVE  ChatInv => ChatInv'
BY DEF ChatInv, chatOf, JobAfterPermit, PermitMeansConnection, JobsAt

----------------------------------------------------------------------------
(* The file of an upload.                                                  *)

LEMMA StartUploadStep ==
  ASSUME WebTypeOK, NEW r \in Uploads, StartUpload(r)
  PROVE  SearchInv => SearchInv'
<1>1. /\ request[r] = "away" /\ request' = [request EXCEPT ![r] = "write"]
      /\ writing' = writing \cup {r} /\ UNCHANGED <<reply, files, queue, searcher, metrics>>
  BY DEF StartUpload, Goes
<1>2. /\ r \in Requests /\ Nobody \notin Requests /\ Searches \subseteq Requests
      /\ files \subseteq Requests /\ writing \subseteq Requests
      /\ Lost' = Lost /\ Lost \subseteq Searches \cup {Nobody}
  BY <1>1, KindsApart, WhatIsLost DEF Lost, WebTypeOK
<1>3. \A x \in Requests : request'[x] = IF x = r THEN "write" ELSE request[x]
  BY <1>1 DEF WebTypeOK
<1>4. CommandsSent => r \notin Lost
  BY <1>1, <1>2 DEF CommandsSent
<1>5. UploadsHaveOwner => UploadsHaveOwner'
  BY <1>1, <1>2, <1>3 DEF UploadsHaveOwner, At
<1>6. GuardConsumed => GuardConsumed'
  BY <1>1 DEF GuardConsumed
<1>7. UploadsHaveOwner /\ CommandsSent /\ WritersKnown => WritersKnown'
  <2>1. UploadsHaveOwner /\ CommandsSent => r \notin files
    BY <1>1, <1>4 DEF UploadsHaveOwner, At
  <2>2. QED
    BY <1>1, <1>2, <1>3, <2>1 DEF WritersKnown, At
<1>8. /\ MetricsTell => MetricsTell'
      /\ DeathIsTold => DeathIsTold'
      /\ WaitersQueued => WaitersQueued'
      /\ QueuedNeverWraps => QueuedNeverWraps'
      /\ CommandsSent => CommandsSent'
  BY <1>1, <1>2, <1>4, MovedOnly
<1>9. QED
  BY <1>5, <1>6, <1>7, <1>8 DEF SearchInv

\* The blocking thread has written the file, or a part of it.
LEMMA WriteStep ==
  ASSUME WebTypeOK, NEW r \in Uploads, WriteFile(r) \/ WriteFails(r)
  PROVE  SearchInv => SearchInv'
<1>1. /\ r \in writing /\ writing' = writing \ {r} /\ files' = files \cup {r}
      /\ UNCHANGED <<reply, queue, searcher, metrics>>
      /\ \/ UNCHANGED request
         \/ request[r] = "write" /\ request' = [request EXCEPT ![r] = "unguarded"]
  BY DEF WriteFile, WriteFails, Goes
<1>2. /\ r \in Requests /\ Nobody \notin Requests /\ Searches \subseteq Requests
      /\ files \subseteq Requests /\ writing \subseteq Requests
      /\ Lost' = Lost /\ Lost \subseteq Searches \cup {Nobody}
  BY <1>1, KindsApart, WhatIsLost DEF Lost, WebTypeOK
<1>3. \A x \in Requests : request'[x] = request[x] \/ (x = r /\ request'[x] = "unguarded")
  BY <1>1 DEF WebTypeOK
<1>4. WritersKnown => request[r] \in {"write", "unguarded"}
  BY <1>1 DEF WritersKnown, At
<1>5. WritersKnown => request'[r] \in {"write", "unguarded"}
  BY <1>2, <1>3, <1>4
<1>6. WritersKnown /\ CommandsSent => r \notin Lost
  BY <1>2, <1>4 DEF CommandsSent
<1>7. UploadsHaveOwner /\ WritersKnown => UploadsHaveOwner'
  BY <1>1, <1>2, <1>3, <1>5 DEF UploadsHaveOwner, At
<1>8. GuardConsumed /\ WritersKnown /\ CommandsSent => GuardConsumed'
  BY <1>1, <1>6 DEF GuardConsumed, Lost
<1>9. WritersKnown => WritersKnown'
  BY <1>1, <1>2, <1>3, <1>5 DEF WritersKnown, At
<1>10. WritersKnown /\ CommandsSent =>
         /\ MetricsTell => MetricsTell'
         /\ DeathIsTold => DeathIsTold'
         /\ WaitersQueued => WaitersQueued'
         /\ QueuedNeverWraps => QueuedNeverWraps'
         /\ CommandsSent => CommandsSent'
  <2>1. CASE UNCHANGED request
    BY <1>1, <1>2, <2>1 DEF MetricsTell, DeathIsTold, WaitersQueued, QueuedNeverWraps,
       CommandsSent, At
  <2>2. CASE request[r] = "write" /\ request' = [request EXCEPT ![r] = "unguarded"]
    BY <1>1, <1>2, <1>6, <2>2, MovedOnly
  <2>3. QED
    BY <1>1, <2>1, <2>2
<1>11. QED
  BY <1>7, <1>8, <1>9, <1>10 DEF SearchInv

LEMMA RefuseOptionsStep ==
  ASSUME WebTypeOK, NEW r \in Uploads, RefuseOptions(r)
  PROVE  SearchInv => SearchInv'
<1>1. /\ request[r] = "write" /\ r \in files /\ request' = [request EXCEPT ![r] = "answered"]
      /\ files' = files \ {r} /\ UNCHANGED <<reply, writing, queue, searcher, metrics>>
  BY DEF RefuseOptions, Goes
<1>2. /\ r \in Requests /\ files \subseteq Requests /\ writing \subseteq Requests /\ Lost' = Lost
  BY <1>1, KindsApart DEF Lost, WebTypeOK
<1>3. \A x \in Requests : request'[x] = IF x = r THEN "answered" ELSE request[x]
  BY <1>1 DEF WebTypeOK
<1>4. UploadsHaveOwner => UploadsHaveOwner'
  BY <1>1, <1>2, <1>3 DEF UploadsHaveOwner, At
<1>5. GuardConsumed => GuardConsumed'
  BY <1>1 DEF GuardConsumed
<1>6. WritersKnown => WritersKnown'
  BY <1>1, <1>2, <1>3 DEF WritersKnown, At
<1>7. /\ MetricsTell => MetricsTell'
      /\ DeathIsTold => DeathIsTold'
      /\ WaitersQueued => WaitersQueued'
      /\ QueuedNeverWraps => QueuedNeverWraps'
      /\ CommandsSent => CommandsSent'
  BY <1>1, <1>2, MovedOnly
<1>8. QED
  BY <1>4, <1>5, <1>6, <1>7 DEF SearchInv

----------------------------------------------------------------------------
(* SearchActor::execute.                                                   *)

LEMMA SubmitStep ==
  ASSUME WebTypeOK, NEW r \in Searches, Submit(r)
  PROVE  SearchInv => SearchInv'
<1>1. /\ request[r] \in {"away", "write"} /\ request' = [request EXCEPT ![r] = "send"]
      /\ metrics' = [metrics EXCEPT !.queued = @ + 1]
      /\ UNCHANGED <<reply, writing, files, queue, searcher>>
      /\ r \in Uploads => r \in files
  BY KindsApart DEF Submit, Goes, Counted
<1>2. /\ r \in Requests /\ Nobody \notin Requests /\ Searches \subseteq Requests
      /\ files \subseteq Requests /\ writing \subseteq Uploads /\ Uploads \subseteq Requests
      /\ Lost' = Lost /\ Lost \subseteq Searches \cup {Nobody}
  BY <1>1, KindsApart, WhatIsLost DEF Lost, WebTypeOK
<1>3. \A x \in Requests : request'[x] = IF x = r THEN "send" ELSE request[x]
  BY <1>1, <1>2 DEF WebTypeOK
<1>4. /\ Cardinality(At({"send", "uncount"})) \in Nat
      /\ Cardinality(At({"send", "uncount"})') = Cardinality(At({"send", "uncount"})) + 1
  <2>1. /\ Cardinality(At({"send", "uncount"})) \in Nat
        /\ Cardinality(At({"send", "uncount"})')
             = Cardinality(At({"send", "uncount"}))
               + (IF "send" \in {"send", "uncount"} THEN 1 ELSE 0)
               - (IF request[r] \in {"send", "uncount"} THEN 1 ELSE 0)
    BY <1>1, <1>2, RequestMoved
  <2>2. request[r] \notin {"send", "uncount"}
    BY <1>1
  <2>3. QED
    BY <2>1, <2>2
<1>5. /\ metrics.queued \in Nat /\ metrics'.queued = metrics.queued + 1
      /\ metrics'.active = metrics.active /\ Len(queue) \in Nat
  BY <1>1 DEF WebTypeOK, Metrics
<1>6. UploadsHaveOwner => UploadsHaveOwner'
  BY <1>1, <1>2, <1>3 DEF UploadsHaveOwner, At
<1>7. MetricsTell => MetricsTell'
  BY <1>1, <1>4, <1>5, PoppedCounted DEF MetricsTell, Popped
<1>8. DeathIsTold => DeathIsTold'
  BY <1>1, <1>2, <1>3 DEF DeathIsTold
<1>9. CommandsSent => CommandsSent'
  BY <1>1, <1>2, <1>3 DEF CommandsSent
<1>10. GuardConsumed => GuardConsumed'
  BY <1>1 DEF GuardConsumed
<1>11. WaitersQueued => WaitersQueued'
  BY <1>1, <1>2, <1>3 DEF WaitersQueued
<1>12. WritersKnown => WritersKnown'
  BY <1>1, <1>2, <1>3 DEF WritersKnown, At
<1>13. QueuedNeverWraps => QueuedNeverWraps'
  BY <1>4, <1>5 DEF QueuedNeverWraps
<1>14. QED
  BY <1>6, <1>7, <1>8, <1>9, <1>10, <1>11, <1>12, <1>13 DEF SearchInv

LEMMA SentStep ==
  ASSUME WebTypeOK, NEW r \in Searches, request[r] = "send", searcher.pc # "dead",
         queue' = Append(queue, r), request' = [request EXCEPT ![r] = "wait"],
         UNCHANGED <<reply, writing, files, searcher, metrics>>
  PROVE  SearchInv => SearchInv'
<1>1. /\ r \in Requests /\ Nobody \notin Requests /\ Searches \subseteq Requests
      /\ files \subseteq Requests /\ writing \subseteq Requests
      /\ Lost \subseteq Searches \cup {Nobody}
  BY KindsApart, WhatIsLost DEF WebTypeOK
<1>2. Lost' = Lost \cup {r}
  <2>1. Range(queue') = Range(queue) \cup {r}
    BY RangeAppend DEF WebTypeOK
  <2>2. QED
    BY <2>1 DEF Lost
<1>3. Len(queue) \in Nat /\ Len(queue') = Len(queue) + 1 /\ metrics.queued \in Nat
  BY DEF WebTypeOK, Metrics
<1>4. \A x \in Requests : request'[x] = IF x = r THEN "wait" ELSE request[x]
  BY <1>1 DEF WebTypeOK
<1>5. /\ Cardinality(At({"send", "uncount"})) \in Nat
      /\ Cardinality(At({"send", "uncount"})') = Cardinality(At({"send", "uncount"})) - 1
      /\ Cardinality(At({"send", "uncount"})') \in Nat
  <2>1. /\ Cardinality(At({"send", "uncount"})) \in Nat
        /\ Cardinality(At({"send", "uncount"})')
             = Cardinality(At({"send", "uncount"}))
               + (IF "wait" \in {"send", "uncount"} THEN 1 ELSE 0)
               - (IF request[r] \in {"send", "uncount"} THEN 1 ELSE 0)
        /\ request[r] \in {"send", "uncount"} => Cardinality(At({"send", "uncount"})) > 0
    BY <1>1, RequestMoved
  <2>2. QED
    BY <2>1
<1>6. UploadsHaveOwner => UploadsHaveOwner'
  BY <1>1, <1>2, <1>4 DEF UploadsHaveOwner, At
<1>7. MetricsTell => MetricsTell'
  BY <1>3, <1>5, PoppedCounted DEF MetricsTell, Popped
<1>8. DeathIsTold'
  BY DEF DeathIsTold
<1>9. CommandsSent => CommandsSent'
  BY <1>1, <1>2, <1>4 DEF CommandsSent
<1>10. GuardConsumed => GuardConsumed'
  BY DEF GuardConsumed
<1>11. WaitersQueued => WaitersQueued'
  BY <1>1, <1>2, <1>4 DEF WaitersQueued
<1>12. WritersKnown => WritersKnown'
  BY <1>1, <1>4 DEF WritersKnown, At
<1>13. QueuedNeverWraps => QueuedNeverWraps'
  BY <1>3, <1>5 DEF QueuedNeverWraps
<1>14. QED
  BY <1>6, <1>7, <1>8, <1>9, <1>10, <1>11, <1>12, <1>13 DEF SearchInv

LEMMA NotSentStep ==
  ASSUME WebTypeOK, NEW r \in Searches, request[r] = "send",
         request' = [request EXCEPT ![r] = "uncount"],
         UNCHANGED <<reply, writing, files, queue, searcher, metrics>>
  PROVE  SearchInv => SearchInv'
<1>1. /\ r \in Requests /\ Nobody \notin Requests /\ Searches \subseteq Requests
      /\ files \subseteq Requests /\ writing \subseteq Requests
      /\ Lost' = Lost /\ Lost \subseteq Searches \cup {Nobody}
  BY KindsApart, WhatIsLost DEF Lost, WebTypeOK
<1>2. \A x \in Requests : request'[x] = IF x = r THEN "uncount" ELSE request[x]
  BY <1>1 DEF WebTypeOK
<1>3. At({"send", "uncount"})' = At({"send", "uncount"})
  BY <1>1, <1>2 DEF At
<1>4. UploadsHaveOwner => UploadsHaveOwner'
  BY <1>1, <1>2 DEF UploadsHaveOwner, At
<1>5. MetricsTell => MetricsTell'
  BY <1>3 DEF MetricsTell
<1>6. DeathIsTold => DeathIsTold'
  BY <1>1, <1>2 DEF DeathIsTold
<1>7. CommandsSent => CommandsSent'
  BY <1>1, <1>2 DEF CommandsSent
<1>8. GuardConsumed => GuardConsumed'
  BY DEF GuardConsumed
<1>9. WaitersQueued => WaitersQueued'
  BY <1>1, <1>2 DEF WaitersQueued
<1>10. WritersKnown => WritersKnown'
  BY <1>1, <1>2 DEF WritersKnown, At
<1>11. QueuedNeverWraps => QueuedNeverWraps'
  BY <1>3 DEF QueuedNeverWraps
<1>12. QED
  BY <1>4, <1>5, <1>6, <1>7, <1>8, <1>9, <1>10, <1>11 DEF SearchInv

LEMMA RefuseStep ==
  ASSUME WebTypeOK, NEW r \in Searches, Refuse(r)
  PROVE  SearchInv => SearchInv'
<1>1. /\ request[r] = "uncount" /\ request' = [request EXCEPT ![r] = "refused"]
      /\ metrics' = [metrics EXCEPT !.queued = @ + -1] /\ files' = files \ {r}
      /\ UNCHANGED <<reply, writing, queue, searcher>>
  BY DEF Refuse, Goes, Counted, Refused
<1>2. /\ r \in Requests /\ Nobody \notin Requests /\ Searches \subseteq Requests
      /\ files \subseteq Requests /\ writing \subseteq Requests
      /\ Lost' = Lost /\ Lost \subseteq Searches \cup {Nobody}
  BY <1>1, KindsApart, WhatIsLost DEF Lost, WebTypeOK
<1>3. \A x \in Requests : request'[x] = IF x = r THEN "refused" ELSE request[x]
  BY <1>1, <1>2 DEF WebTypeOK
<1>4. /\ Cardinality(At({"send", "uncount"})) \in Nat
      /\ Cardinality(At({"send", "uncount"})') = Cardinality(At({"send", "uncount"})) - 1
  <2>1. /\ Cardinality(At({"send", "uncount"})) \in Nat
        /\ Cardinality(At({"send", "uncount"})')
             = Cardinality(At({"send", "uncount"}))
               + (IF "refused" \in {"send", "uncount"} THEN 1 ELSE 0)
               - (IF request[r] \in {"send", "uncount"} THEN 1 ELSE 0)
    <3>1. \A P : /\ Cardinality(At(P)) \in Nat
                 /\ Cardinality(At(P)') = Cardinality(At(P))
                      + (IF "refused" \in P THEN 1 ELSE 0)
                      - (IF request[r] \in P THEN 1 ELSE 0)
      BY <1>1, <1>2, RequestMoved
    <3>2. QED
      BY <3>1
  <2>2. request[r] \in {"send", "uncount"}
    BY <1>1
  <2>3. QED
    BY <2>1, <2>2
<1>5. /\ metrics.queued \in Nat /\ metrics'.queued = metrics.queued - 1
      /\ metrics'.active = metrics.active /\ Len(queue) \in Nat
  BY <1>1 DEF WebTypeOK, Metrics
<1>6. UploadsHaveOwner => UploadsHaveOwner'
  BY <1>1, <1>2, <1>3 DEF UploadsHaveOwner, At
<1>7. MetricsTell => MetricsTell'
  BY <1>1, <1>4, <1>5, PoppedCounted DEF MetricsTell, Popped
<1>8. DeathIsTold => DeathIsTold'
  BY <1>1, <1>2, <1>3 DEF DeathIsTold
<1>9. CommandsSent => CommandsSent'
  BY <1>1, <1>2, <1>3 DEF CommandsSent
<1>10. GuardConsumed => GuardConsumed'
  BY <1>1 DEF GuardConsumed
<1>11. WaitersQueued => WaitersQueued'
  BY <1>1, <1>2, <1>3 DEF WaitersQueued
<1>12. WritersKnown => WritersKnown'
  BY <1>1, <1>2, <1>3 DEF WritersKnown, At
<1>13. QueuedNeverWraps => QueuedNeverWraps'
  BY <1>4, <1>5 DEF QueuedNeverWraps
<1>14. QED
  BY <1>6, <1>7, <1>8, <1>9, <1>10, <1>11, <1>12, <1>13 DEF SearchInv

----------------------------------------------------------------------------
(* The search thread.                                                      *)

LEMMA ThreadFacts ==
  ASSUME WebTypeOK
  PROVE  /\ searcher.cmd \in Searches \cup {Nobody} /\ Len(queue) \in Nat
         /\ metrics.queued \in Nat /\ metrics.active \in BOOLEAN
         /\ Cardinality(At({"send", "uncount"})) \in Nat
         /\ Lost \subseteq Searches \cup {Nobody} /\ Searches \subseteq Requests
         /\ files \subseteq Searches /\ Nobody \notin Requests
BY WhatIsLost, KindsApart, AtCounted DEF WebTypeOK, Metrics

LEMMA RecvStep ==
  ASSUME WebTypeOK, Recv
  PROVE  SearchInv => SearchInv'
<1>1. /\ searcher.pc = "recv" /\ searcher'.pc = "popped" /\ searcher'.cmd = Head(queue)
      /\ queue' = Tail(queue) /\ queue # <<>>
      /\ UNCHANGED <<request, reply, writing, files, metrics>>
  BY DEF Recv
<1>2. /\ Head(queue) \in Searches /\ Len(queue') \in Nat /\ Len(queue) = Len(queue') + 1
      /\ Lost' = Range(queue)
  <2>1. /\ Range(queue) = {Head(queue)} \cup Range(Tail(queue))
        /\ Head(queue) \in Searches /\ Tail(queue) \in Seq(Searches)
        /\ Len(queue) = Len(Tail(queue)) + 1
    BY <1>1, RangeHeadTail DEF WebTypeOK
  <2>2. QED
    BY <1>1, <2>1 DEF Lost
<1>3. CommandsSent => Lost = Lost' \cup {Nobody}
  BY <1>1, <1>2 DEF CommandsSent, Lost
<1>4. At({"send", "uncount"})' = At({"send", "uncount"})
  BY <1>1 DEF At
<1>5. UploadsHaveOwner /\ CommandsSent => UploadsHaveOwner'
  BY <1>1, <1>3, ThreadFacts DEF UploadsHaveOwner, At
<1>6. MetricsTell => MetricsTell'
  <2>1. Popped = {} /\ Popped' = {searcher'}
    BY <1>1 DEF Popped
  <2>2. Cardinality(Popped) = 0 /\ Cardinality(Popped') = 1
    BY <2>1, FS_EmptySet, FS_Singleton
  <2>3. QED
    BY <1>1, <1>2, <1>4, <2>2, ThreadFacts DEF MetricsTell, Popped
<1>7. DeathIsTold'
  BY <1>1 DEF DeathIsTold
<1>8. CommandsSent => CommandsSent'
  BY <1>1, <1>2, <1>3, ThreadFacts DEF CommandsSent
<1>9. GuardConsumed'
  BY <1>1 DEF GuardConsumed
<1>10. WaitersQueued /\ CommandsSent => WaitersQueued'
  BY <1>1, <1>3, ThreadFacts DEF WaitersQueued
<1>11. WritersKnown => WritersKnown'
  BY <1>1 DEF WritersKnown, At
<1>12. QueuedNeverWraps => QueuedNeverWraps'
  BY <1>1, <1>4 DEF QueuedNeverWraps
<1>13. QED
  BY <1>5, <1>6, <1>7, <1>8, <1>9, <1>10, <1>11, <1>12 DEF SearchInv

LEMMA UncountStep ==
  ASSUME WebTypeOK, Uncount
  PROVE  SearchInv => SearchInv'
<1>1. /\ searcher.pc = "popped" /\ searcher'.pc = "check" /\ searcher'.cmd = searcher.cmd
      /\ UNCHANGED <<request, reply, writing, files, queue>>
  BY DEF Uncount, WebTypeOK
<1>2. metrics.queued > 0 => metrics'.queued = metrics.queued - 1
  BY DEF Uncount, Counted, WebTypeOK, Metrics
<1>3. metrics'.active = metrics.active
  BY DEF Uncount, Counted, WebTypeOK, Metrics
<1>4. Lost' = Lost /\ At({"send", "uncount"})' = At({"send", "uncount"})
  BY <1>1 DEF Lost, At
<1>5. Cardinality(Popped) = 1 /\ Cardinality(Popped') = 0
  BY <1>1, PoppedCounted, FS_EmptySet, FS_Singleton DEF Popped
<1>6. MetricsTell =>
        /\ metrics.queued = Len(queue) + Cardinality(At({"send", "uncount"})) + 1
        /\ metrics.active = FALSE
  BY <1>1, <1>5, ThreadFacts DEF MetricsTell, Popped
<1>7. MetricsTell => MetricsTell'
  <2>1. MetricsTell => metrics'.queued = Len(queue) + Cardinality(At({"send", "uncount"}))
    BY <1>2, <1>6, ThreadFacts
  <2>2. QED
    BY <1>1, <1>3, <1>4, <1>5, <1>6, <2>1, ThreadFacts DEF MetricsTell, Popped
<1>8. UploadsHaveOwner => UploadsHaveOwner'
  BY <1>1, <1>4 DEF UploadsHaveOwner, At
<1>9. DeathIsTold'
  BY <1>1 DEF DeathIsTold
<1>10. CommandsSent => CommandsSent'
  BY <1>1, <1>4 DEF CommandsSent
<1>11. GuardConsumed'
  BY <1>1 DEF GuardConsumed
<1>12. WaitersQueued => WaitersQueued'
  BY <1>1, <1>4 DEF WaitersQueued
<1>13. WritersKnown => WritersKnown'
  BY <1>1 DEF WritersKnown, At
<1>14. MetricsTell => QueuedNeverWraps'
  BY <1>2, <1>4, <1>6, ThreadFacts DEF QueuedNeverWraps
<1>15. QED
  BY <1>7, <1>8, <1>9, <1>10, <1>11, <1>12, <1>13, <1>14 DEF SearchInv

\* The thread has done with its command and waits for the next one.
LEMMA TakenUp ==
  ASSUME WebTypeOK, searcher.cmd # Nobody, searcher'.pc = "recv", searcher'.cmd = Nobody,
         searcher.pc \notin {"popped", "work", "recv", "dead"},
         UNCHANGED <<request, writing, queue>>,
         files' = files \ {searcher.cmd},
         metrics'.queued = metrics.queued, metrics'.active = metrics.active,
         \A r \in Searches \ {searcher.cmd} : reply'[r] = reply[r],
         request[searcher.cmd] = "wait" => reply'[searcher.cmd] # "none"
  PROVE  SearchInv => SearchInv'
<1>1. Lost' = Range(queue) \cup {Nobody} /\ Lost = Range(queue) \cup {searcher.cmd}
  BY DEF Lost
<1>2. At({"send", "uncount"})' = At({"send", "uncount"})
  BY DEF At
<1>3. Cardinality(Popped) = 0 /\ Cardinality(Popped') = 0
  BY PoppedCounted, FS_EmptySet DEF Popped
<1>4. UploadsHaveOwner => UploadsHaveOwner'
  BY <1>1, ThreadFacts DEF UploadsHaveOwner, At
<1>5. MetricsTell => MetricsTell'
  BY <1>2, <1>3, ThreadFacts DEF MetricsTell, Popped
<1>6. DeathIsTold'
  BY DEF DeathIsTold
<1>7. CommandsSent => CommandsSent'
  BY <1>1 DEF CommandsSent
<1>8. GuardConsumed'
  BY DEF GuardConsumed
<1>9. WaitersQueued => WaitersQueued'
  BY <1>1, ThreadFacts DEF WaitersQueued
<1>10. WritersKnown => WritersKnown'
  BY DEF WritersKnown, At
<1>11. QueuedNeverWraps => QueuedNeverWraps'
  BY <1>2 DEF QueuedNeverWraps
<1>12. QED
  BY <1>4, <1>5, <1>6, <1>7, <1>8, <1>9, <1>10, <1>11 DEF SearchInv

LEMMA SkipStep ==
  ASSUME WebTypeOK, Skip
  PROVE  SearchInv => SearchInv'
<1>1. /\ searcher.pc = "check" /\ request[searcher.cmd] # "wait"
      /\ searcher'.pc = "recv" /\ searcher'.cmd = Nobody
      /\ files' = files \ {searcher.cmd} /\ UNCHANGED <<request, reply, writing, queue>>
  BY DEF Skip, NobodyWaits, Idle
<1>2. metrics'.queued = metrics.queued /\ metrics'.active = metrics.active
  BY DEF Skip, WebTypeOK, Metrics
<1>3. CommandsSent => searcher.cmd # Nobody
  BY <1>1 DEF CommandsSent
<1>4. searcher.cmd # Nobody => (SearchInv => SearchInv')
  BY <1>1, <1>2, TakenUp
<1>5. QED
  BY <1>3, <1>4 DEF SearchInv

LEMMA RespondStep ==
  ASSUME WebTypeOK, Respond
  PROVE  SearchInv => SearchInv'
<1>1. /\ searcher.pc \in {"value", "error"} /\ searcher'.pc = "recv" /\ searcher'.cmd = Nobody
      /\ UNCHANGED <<request, files, writing, queue, metrics>>
  BY DEF Respond, Idle
<1>2. /\ \A r \in Searches \ {searcher.cmd} : reply'[r] = reply[r]
      /\ searcher.cmd \in Searches /\ request[searcher.cmd] = "wait"
           => reply'[searcher.cmd] = searcher.pc
  BY DEF Respond, NobodyWaits, WebTypeOK
<1>3. CommandsSent /\ GuardConsumed =>
        searcher.cmd # Nobody /\ searcher.cmd \in Searches /\ files = files \ {searcher.cmd}
  BY <1>1, ThreadFacts DEF CommandsSent, GuardConsumed
<1>4. ASSUME searcher.cmd # Nobody, searcher.cmd \in Searches, files = files \ {searcher.cmd}
      PROVE  SearchInv => SearchInv'
  BY <1>1, <1>2, <1>4, TakenUp
<1>5. QED
  BY <1>3, <1>4 DEF SearchInv

\* The thread searches; it has searched.
LEMMA WorkStep ==
  ASSUME WebTypeOK, Work \/ Worked
  PROVE  SearchInv => SearchInv'
<1>1. /\ searcher'.cmd = searcher.cmd /\ files' \subseteq files
      /\ UNCHANGED <<request, reply, writing, queue>>
      /\ \/ searcher.pc = "check" /\ searcher'.pc = "work" /\ files' = files
         \/ /\ searcher.pc = "work" /\ searcher'.pc \in {"value", "error"}
            /\ files' = files \ {searcher.cmd}
  BY DEF Work, Worked, WebTypeOK
<1>2. metrics'.queued = metrics.queued /\ (metrics'.active <=> searcher'.pc = "work")
  <2>1. CASE Work
    BY <2>1 DEF Work, WebTypeOK, Metrics
  <2>2. CASE Worked
    BY <2>2 DEF Worked, WebTypeOK, Metrics
  <2>3. QED
    BY <2>1, <2>2
<1>3. Lost' = Lost /\ At({"send", "uncount"})' = At({"send", "uncount"})
  BY <1>1 DEF Lost, At
<1>4. Cardinality(Popped) = 0 /\ Cardinality(Popped') = 0
  BY <1>1, PoppedCounted, FS_EmptySet DEF Popped
<1>5. UploadsHaveOwner => UploadsHaveOwner'
  BY <1>1, <1>3 DEF UploadsHaveOwner, At
<1>6. MetricsTell => MetricsTell'
  BY <1>1, <1>2, <1>3, <1>4, ThreadFacts DEF MetricsTell, Popped
<1>7. DeathIsTold'
  BY <1>1 DEF DeathIsTold
<1>8. CommandsSent => CommandsSent'
  BY <1>1, <1>3 DEF CommandsSent
<1>9. GuardConsumed'
  BY <1>1 DEF GuardConsumed
<1>10. WaitersQueued => WaitersQueued'
  BY <1>1, <1>3 DEF WaitersQueued
<1>11. WritersKnown => WritersKnown'
  BY <1>1 DEF WritersKnown, At
<1>12. QueuedNeverWraps => QueuedNeverWraps'
  BY <1>2, <1>3 DEF QueuedNeverWraps
<1>13. QED
  BY <1>5, <1>6, <1>7, <1>8, <1>9, <1>10, <1>11, <1>12 DEF SearchInv

LEMMA PanicStep ==
  ASSUME WebTypeOK, WorkerPanics
  PROVE  SearchInv => SearchInv'
<1>1. /\ searcher'.pc = "dead" /\ searcher'.cmd = Nobody /\ queue' = <<>>
      /\ files' = files \ Lost /\ UNCHANGED <<request, writing, metrics>>
      /\ \A r \in Searches : reply'[r] = IF r \in Lost THEN "dropped" ELSE reply[r]
  BY DEF WorkerPanics
<1>2. Lost' = {Nobody}
  <2>1. Range(queue') = {}
    BY <1>1 DEF Range
  <2>2. QED
    BY <1>1, <2>1 DEF Lost
<1>3. UploadsHaveOwner => UploadsHaveOwner'
  BY <1>1 DEF UploadsHaveOwner, At
<1>4. MetricsTell'
  BY <1>1 DEF MetricsTell
<1>5. WaitersQueued => DeathIsTold' /\ WaitersQueued'
  BY <1>1 DEF DeathIsTold, WaitersQueued
<1>6. CommandsSent'
  BY <1>1, <1>2 DEF CommandsSent
<1>7. GuardConsumed'
  BY <1>1 DEF GuardConsumed
<1>8. WritersKnown => WritersKnown'
  BY <1>1 DEF WritersKnown, At
<1>9. QueuedNeverWraps => QueuedNeverWraps'
  BY <1>1 DEF QueuedNeverWraps, At
<1>10. QED
  BY <1>3, <1>4, <1>5, <1>6, <1>7, <1>8, <1>9 DEF SearchInv

----------------------------------------------------------------------------
(* The pool of connections.                                                *)

LEMMA PoolFacts ==
  ASSUME WebTypeOK
  PROVE  pool.free \in Nat /\ pool.connections \in Nat /\ pool \in ChatPool
BY DEF WebTypeOK, ChatPool

\* A job comes among those at P, leaves them, or neither.
LEMMA JobEnters ==
  ASSUME WebTypeOK, NEW r \in Chats, NEW to, job' = [job EXCEPT ![r] = to],
         NEW P, to \in P, job[r] \notin P
  PROVE  Cardinality(JobsAt(P)') = Cardinality(JobsAt(P)) + 1
<1>1. /\ Cardinality(JobsAt(P)) \in Nat
      /\ Cardinality(JobsAt(P)') = Cardinality(JobsAt(P)) + (IF to \in P THEN 1 ELSE 0)
                                                  - (IF job[r] \in P THEN 1 ELSE 0)
  BY JobMoved
<1>2. QED
  BY <1>1

LEMMA JobLeaves ==
  ASSUME WebTypeOK, NEW r \in Chats, NEW to, job' = [job EXCEPT ![r] = to],
         NEW P, to \notin P, job[r] \in P
  PROVE  /\ Cardinality(JobsAt(P)') = Cardinality(JobsAt(P)) - 1
         /\ Cardinality(JobsAt(P)) > 0
<1>1. /\ Cardinality(JobsAt(P)) \in Nat
      /\ Cardinality(JobsAt(P)') = Cardinality(JobsAt(P)) + (IF to \in P THEN 1 ELSE 0)
                                                  - (IF job[r] \in P THEN 1 ELSE 0)
      /\ job[r] \in P => Cardinality(JobsAt(P)) > 0
  BY JobMoved
<1>2. QED
  BY <1>1

LEMMA JobElsewhere ==
  ASSUME WebTypeOK, NEW r \in Chats, NEW to, job' = [job EXCEPT ![r] = to],
         NEW P, to \notin P, job[r] \notin P
  PROVE  JobsAt(P)' = JobsAt(P)
<1>1. \A x \in Chats : job'[x] = IF x = r THEN to ELSE job[x]
  BY DEF WebTypeOK
<1>2. QED
  BY <1>1 DEF JobsAt

LEMMA JobsCounted ==
  ASSUME NEW P PROVE Cardinality(JobsAt(P)) \in Nat
<1>1. JobsAt(P) \in SUBSET Requests
  BY KindsApart DEF JobsAt
<1>2. QED
  BY <1>1, WebAssumption, FS_Subset, FS_CardinalityType

PermitPcs == {"pop", "release"}
PanicPcs  == {"panicked"}
HasPermit == JobsAt(PermitPcs)
Panicked  == JobsAt(PanicPcs)

\* The two numbers of the pool and the two counts of jobs move together.
LEMMA JobMoves ==
  ASSUME WebTypeOK, NEW r \in Chats, NEW to, job' = [job EXCEPT ![r] = to],
         job[r] # "panicked", to # "no connection",
         PermitMeansConnection =>
           pool'.connections + Cardinality(Panicked') = pool'.free + Cardinality(HasPermit')
  PROVE  PermitMeansConnection => PermitMeansConnection'
<1>1. \A x \in Chats : job'[x] = IF x = r THEN to ELSE job[x]
  BY DEF WebTypeOK
<1>2. JobsAt({"no connection"})' \subseteq JobsAt({"no connection"})
  BY <1>1 DEF JobsAt
<1>3. JobsAt({"panicked"}) \subseteq JobsAt({"panicked"})'
  BY <1>1 DEF JobsAt
<1>4. QED
  BY <1>2, <1>3 DEF PermitMeansConnection, Panicked, HasPermit, PanicPcs, PermitPcs

\* Where a job has a permit and its connection is in the pool; where it lost one.
LEMMA WhichPcs ==
  /\ \A pc \in JobPcs : pc \in PermitPcs <=> pc = "pop" \/ pc = "release"
  /\ \A pc \in JobPcs : pc \in PanicPcs <=> pc = "panicked"
  /\ {"none", "pop", "locked out", "work", "push", "release", "done", "no connection",
      "panicked"} = JobPcs
BY DEF PermitPcs, PanicPcs, JobPcs

LEMMA BalanceBefore ==
  /\ Cardinality(HasPermit) \in Nat /\ Cardinality(Panicked) \in Nat
  /\ PermitMeansConnection =>
       pool.connections + Cardinality(Panicked) = pool.free + Cardinality(HasPermit)
BY JobsCounted DEF HasPermit, Panicked, PermitPcs, PanicPcs, PermitMeansConnection

LEMMA AcquireStep ==
  ASSUME WebTypeOK, NEW r \in Chats, Acquire(r)
  PROVE  ChatInv => ChatInv'
<1>1. /\ request[r] = "permit" /\ request' = [request EXCEPT ![r] = "task"]
      /\ job' = [job EXCEPT ![r] = "pop"] /\ r \in Requests
  BY KindsApart DEF Acquire, Goes
<1>2. /\ pool.free > 0 /\ pool'.free = pool.free - 1 /\ pool'.connections = pool.connections
      /\ pool'.free \in Nat /\ pool'.connections \in Nat
  BY DEF Acquire, WebTypeOK, ChatPool
<1>3. JobAfterPermit => job[r] = "none"
  BY <1>1 DEF JobAfterPermit
<1>4. JobAfterPermit => JobAfterPermit'
  <2>1. \A x \in Chats : /\ request'[x] = IF x = r THEN "task" ELSE request[x]
                         /\ job'[x] = IF x = r THEN "pop" ELSE job[x]
    BY <1>1, KindsApart DEF WebTypeOK
  <2>2. QED
    BY <2>1 DEF JobAfterPermit
<1>5. ASSUME job[r] = "none" PROVE PermitMeansConnection => PermitMeansConnection'
  <2>1. Cardinality(HasPermit') = Cardinality(HasPermit) + 1
    BY <1>1, <1>5, WhichPcs, JobEnters DEF HasPermit
  <2>2. Panicked' = Panicked
    BY <1>1, <1>5, WhichPcs, JobElsewhere DEF Panicked
  <2>3. PermitMeansConnection =>
          pool'.connections + Cardinality(Panicked') = pool'.free + Cardinality(HasPermit')
    BY <1>2, <2>1, <2>2, PoolFacts, BalanceBefore
  <2>4. "pop" # "no connection" /\ job[r] # "panicked"
    BY <1>5
  <2>5. QED
    BY <1>1, <2>3, <2>4, JobMoves
<1>6. QED
  BY <1>3, <1>4, <1>5 DEF ChatInv

\* The steps of a job after Acquire.
LEMMA PoolInNumbers ==
  ASSUME WebTypeOK, NEW r \in Chats
  PROVE  /\ Lock(r) \/ Operate(r) =>
              pool'.free = pool.free /\ pool'.connections = pool.connections
         /\ OperationPanics(r) \/ Release(r) =>
              pool'.free = pool.free + 1 /\ pool'.connections = pool.connections
         /\ Push(r) => pool'.free = pool.free /\ pool'.connections = pool.connections + 1
         /\ Pop(r) /\ pool.connections > 0 =>
              pool'.free = pool.free /\ pool'.connections = pool.connections - 1
         /\ Pop(r) /\ pool.connections = 0 =>
              pool'.free = pool.free + 1 /\ pool'.connections = pool.connections
<1> USE PoolFacts DEF ChatPool
<1>1. Lock(r) \/ Operate(r) => pool'.free = pool.free /\ pool'.connections = pool.connections
  BY DEF Lock, Operate
<1>2. OperationPanics(r) =>
        pool'.free = pool.free + 1 /\ pool'.connections = pool.connections
  BY DEF OperationPanics
<1>3. Push(r) => pool'.free = pool.free /\ pool'.connections = pool.connections + 1
  BY DEF Push
<1>4. Release(r) => pool'.free = pool.free + 1 /\ pool'.connections = pool.connections
  BY DEF Release, PermitBack
<1>5. Pop(r) /\ pool.connections > 0 =>
        pool'.free = pool.free /\ pool'.connections = pool.connections - 1
  BY DEF Pop
<1>6. Pop(r) /\ pool.connections = 0 =>
        pool'.free = pool.free + 1 /\ pool'.connections = pool.connections
  <2>1. pool.connections = 0 => ~(pool.connections > 0)
    OBVIOUS
  <2>2. Pop(r) /\ ~(pool.connections > 0) => pool' = [pool EXCEPT !.free = @ + 1]
    BY DEF Pop, PermitBack
  <2>3. QED
    BY <2>1, <2>2
<1>7. QED
  BY <1>1, <1>2, <1>3, <1>4, <1>5, <1>6

LEMMA JobStaysLate ==
  ASSUME WebTypeOK, NEW r \in Chats, NEW to, job' = [job EXCEPT ![r] = to],
         UNCHANGED request, job[r] # "none"
  PROVE  JobAfterPermit => JobAfterPermit'
<1>1. \A x \in Chats : job'[x] = IF x = r THEN to ELSE job[x]
  BY DEF WebTypeOK
<1>2. QED
  BY <1>1 DEF JobAfterPermit

LEMMA JobSteps ==
  ASSUME WebTypeOK, NEW r \in Chats, JobStep(r) \/ OperationPanics(r)
  PROVE  ChatInv => ChatInv'
<1>1. UNCHANGED request /\ job[r] # "none" /\ \E to : job' = [job EXCEPT ![r] = to]
  BY DEF JobStep, Pop, Lock, Operate, Push, Release, OperationPanics, JobGoes
<1>2. JobAfterPermit => JobAfterPermit'
  BY <1>1, JobStaysLate
<1>3. ASSUME Lock(r) PROVE PermitMeansConnection => PermitMeansConnection'
  <2>1. pool'.free = pool.free /\ pool'.connections = pool.connections
    BY <1>3, PoolInNumbers
  <2>2. PICK to \in {"work", "push"} : job' = [job EXCEPT ![r] = to]
    BY <1>3 DEF Lock, JobGoes
  <2>3. job[r] = "locked out"
    BY <1>3 DEF Lock
  <2>4. HasPermit' = HasPermit
    BY <2>2, <2>3, WhichPcs, JobElsewhere DEF HasPermit
  <2>5. Panicked' = Panicked
    BY <2>2, <2>3, WhichPcs, JobElsewhere DEF Panicked
  <2>6. PermitMeansConnection =>
          pool'.connections + Cardinality(Panicked') = pool'.free + Cardinality(HasPermit')
    BY <2>1, <2>4, <2>5, PoolFacts, BalanceBefore
  <2>7. QED
    BY <2>2, <2>3, <2>6, JobMoves
<1>4. ASSUME Operate(r) PROVE PermitMeansConnection => PermitMeansConnection'
  <2>1. pool'.free = pool.free /\ pool'.connections = pool.connections
    BY <1>4, PoolInNumbers
  <2>2. job' = [job EXCEPT ![r] = "push"]
    BY <1>4 DEF Operate, JobGoes
  <2>3. job[r] = "work"
    BY <1>4 DEF Operate
  <2>4. HasPermit' = HasPermit
    BY <2>2, <2>3, WhichPcs, JobElsewhere DEF HasPermit
  <2>5. Panicked' = Panicked
    BY <2>2, <2>3, WhichPcs, JobElsewhere DEF Panicked
  <2>6. PermitMeansConnection =>
          pool'.connections + Cardinality(Panicked') = pool'.free + Cardinality(HasPermit')
    BY <2>1, <2>4, <2>5, PoolFacts, BalanceBefore
  <2>7. QED
    BY <2>2, <2>3, <2>6, JobMoves
<1>5. ASSUME OperationPanics(r) PROVE PermitMeansConnection => PermitMeansConnection'
  <2>1. pool'.free = pool.free + 1 /\ pool'.connections = pool.connections
    BY <1>5, PoolInNumbers
  <2>2. job' = [job EXCEPT ![r] = "panicked"]
    BY <1>5 DEF OperationPanics, JobGoes
  <2>3. job[r] = "work"
    BY <1>5 DEF OperationPanics
  <2>4. HasPermit' = HasPermit
    BY <2>2, <2>3, WhichPcs, JobElsewhere DEF HasPermit
  <2>5. Cardinality(Panicked') = Cardinality(Panicked) + 1
    BY <2>2, <2>3, WhichPcs, JobEnters DEF Panicked
  <2>6. PermitMeansConnection =>
          pool'.connections + Cardinality(Panicked') = pool'.free + Cardinality(HasPermit')
    BY <2>1, <2>4, <2>5, PoolFacts, BalanceBefore
  <2>7. QED
    BY <2>2, <2>3, <2>6, JobMoves
<1>6. ASSUME Push(r) PROVE PermitMeansConnection => PermitMeansConnection'
  <2>1. pool'.free = pool.free /\ pool'.connections = pool.connections + 1
    BY <1>6, PoolInNumbers
  <2>2. job' = [job EXCEPT ![r] = "release"]
    BY <1>6 DEF Push, JobGoes
  <2>3. job[r] = "push"
    BY <1>6 DEF Push
  <2>4. Cardinality(HasPermit') = Cardinality(HasPermit) + 1
    BY <2>2, <2>3, WhichPcs, JobEnters DEF HasPermit
  <2>5. Panicked' = Panicked
    BY <2>2, <2>3, WhichPcs, JobElsewhere DEF Panicked
  <2>6. PermitMeansConnection =>
          pool'.connections + Cardinality(Panicked') = pool'.free + Cardinality(HasPermit')
    BY <2>1, <2>4, <2>5, PoolFacts, BalanceBefore
  <2>7. QED
    BY <2>2, <2>3, <2>6, JobMoves
<1>7. ASSUME Release(r) PROVE PermitMeansConnection => PermitMeansConnection'
  <2>1. pool'.free = pool.free + 1 /\ pool'.connections = pool.connections
    BY <1>7, PoolInNumbers
  <2>2. job' = [job EXCEPT ![r] = "done"]
    BY <1>7 DEF Release, JobGoes
  <2>3. job[r] = "release"
    BY <1>7 DEF Release
  <2>4. Cardinality(HasPermit') = Cardinality(HasPermit) - 1
    BY <2>2, <2>3, WhichPcs, JobLeaves DEF HasPermit
  <2>5. Panicked' = Panicked
    BY <2>2, <2>3, WhichPcs, JobElsewhere DEF Panicked
  <2>6. PermitMeansConnection =>
          pool'.connections + Cardinality(Panicked') = pool'.free + Cardinality(HasPermit')
    BY <2>1, <2>4, <2>5, PoolFacts, BalanceBefore
  <2>7. QED
    BY <2>2, <2>3, <2>6, JobMoves
<1>8. ASSUME Pop(r), pool.connections > 0 PROVE PermitMeansConnection => PermitMeansConnection'
  <2>1. pool'.free = pool.free /\ pool'.connections = pool.connections - 1
    BY <1>8, PoolInNumbers
  <2>2. job' = [job EXCEPT ![r] = "locked out"]
    BY <1>8 DEF Pop, JobGoes
  <2>3. job[r] = "pop"
    BY <1>8 DEF Pop
  <2>4. Cardinality(HasPermit') = Cardinality(HasPermit) - 1
    BY <2>2, <2>3, WhichPcs, JobLeaves DEF HasPermit
  <2>5. Panicked' = Panicked
    BY <2>2, <2>3, WhichPcs, JobElsewhere DEF Panicked
  <2>6. PermitMeansConnection =>
          pool'.connections + Cardinality(Panicked') = pool'.free + Cardinality(HasPermit')
    BY <2>1, <2>4, <2>5, PoolFacts, BalanceBefore
  <2>7. QED
    BY <2>2, <2>3, <2>6, JobMoves
\* A permit without a connection: an operation has panicked before.
<1>9. ASSUME Pop(r), pool.connections = 0
      PROVE  PermitMeansConnection => PermitMeansConnection'
  <2>1. pool'.free = pool.free + 1 /\ pool'.connections = 0
    BY <1>9, PoolInNumbers
  <2>2. job' = [job EXCEPT ![r] = "no connection"]
    <3>1. ~(pool.connections > 0)
      BY <1>9
    <3>2. QED
      BY <1>9, <3>1 DEF Pop, JobGoes
  <2>3. job[r] = "pop"
    BY <1>9 DEF Pop
  <2>4. Cardinality(HasPermit') = Cardinality(HasPermit) - 1 /\ Cardinality(HasPermit) > 0
    BY <2>2, <2>3, WhichPcs, JobLeaves DEF HasPermit
  <2>5. Panicked' = Panicked
    BY <2>2, <2>3, WhichPcs, JobElsewhere DEF Panicked
  <2>6. PermitMeansConnection => Cardinality(Panicked) = pool.free + Cardinality(HasPermit)
    BY <1>9, BalanceBefore
  <2>7. Cardinality(HasPermit) \in Nat /\ Cardinality(Panicked) \in Nat /\ pool.free \in Nat
    BY BalanceBefore, PoolFacts
  <2>8. PermitMeansConnection => Panicked # {}
    <3>1. PermitMeansConnection => Cardinality(Panicked) > 0
      BY <2>4, <2>6, <2>7
    <3>2. Cardinality({}) = 0
      BY FS_EmptySet
    <3>3. QED
      BY <3>1, <3>2
  <2>9. PermitMeansConnection =>
          pool'.connections + Cardinality(Panicked') = pool'.free + Cardinality(HasPermit')
    BY <2>1, <2>4, <2>5, <2>6, <2>7
  <2>10. QED
    BY <2>5, <2>8, <2>9 DEF PermitMeansConnection, HasPermit, Panicked, PanicPcs, PermitPcs
<1>10. pool.connections > 0 \/ pool.connections = 0
  BY PoolFacts
<1>11. QED
  BY <1>2, <1>3, <1>4, <1>5, <1>6, <1>7, <1>8, <1>9, <1>10 DEF JobStep, ChatInv

----------------------------------------------------------------------------
(* The theorems.                                                           *)

LEMMA WebInitially == WebInit => WebInv
<1> SUFFICES ASSUME WebInit PROVE WebInv
  OBVIOUS
<1>1. /\ \A r \in Requests : request[r] \in {"away", "answered"}
      /\ request \in [Requests -> RequestPcs]
  BY DEF WebInit, RequestPcs, Ended
<1>2. /\ files = {} /\ writing = {} /\ queue = <<>>
      /\ searcher.pc = "recv" /\ searcher.cmd = Nobody
      /\ metrics.queued = 0 /\ metrics.active = FALSE
      /\ pool.free = PoolSize /\ pool.connections = PoolSize
      /\ \A r \in Chats : job[r] = "none"
  BY DEF WebInit, Idle
<1>3. WebTypeOK
  <2>1. /\ reply \in [Searches -> {"none", "value", "error", "dropped"}]
        /\ writing \in SUBSET Uploads /\ files \in SUBSET Uploads
        /\ queue \in Seq(Searches)
    BY DEF WebInit
  <2>2. searcher \in [pc : {"recv", "popped", "check", "work", "value", "error", "dead"},
                      cmd : Searches \cup {Nobody}]
    BY DEF WebInit, Idle
  <2>3. metrics \in Metrics
    BY DEF WebInit, Metrics
  <2>4. pool \in ChatPool
    BY WebAssumption DEF WebInit, ChatPool
  <2>5. job \in [Chats -> JobPcs]
    BY DEF WebInit, JobPcs
  <2>6. QED
    BY <1>1, <2>1, <2>2, <2>3, <2>4, <2>5 DEF WebTypeOK
<1>4. Lost = {Nobody}
  BY <1>2 DEF Lost, Range
<1>5. At({"send", "uncount"}) = {}
  BY <1>1 DEF At
<1>6. Cardinality(At({"send", "uncount"})) = 0
  BY <1>5, FS_EmptySet
<1>7. SearchInv
  <2>1. UploadsHaveOwner /\ GuardConsumed /\ WritersKnown /\ DeathIsTold
    BY <1>2 DEF UploadsHaveOwner, GuardConsumed, WritersKnown, DeathIsTold
  <2>2. Cardinality(Popped) = 0
    BY <1>2, PoppedCounted
  <2>3. MetricsTell
    BY <1>2, <1>6, <2>2 DEF MetricsTell, Popped
  <2>4. CommandsSent
    BY <1>2, <1>4 DEF CommandsSent
  <2>5. WaitersQueued
    BY <1>1, KindsApart DEF WaitersQueued
  <2>6. QueuedNeverWraps
    BY <1>2, <1>6 DEF QueuedNeverWraps
  <2>7. QED
    BY <2>1, <2>3, <2>4, <2>5, <2>6 DEF SearchInv
<1>8. ChatInv
  <2>1. JobAfterPermit
    BY <1>2 DEF JobAfterPermit
  <2>2. JobsAt({"panicked"}) = {} /\ JobsAt({"pop", "release"}) = {}
        /\ JobsAt({"no connection"}) = {}
    BY <1>2 DEF JobsAt
  <2>3. Cardinality(JobsAt({"panicked"})) = 0 /\ Cardinality(JobsAt({"pop", "release"})) = 0
    BY <2>2, FS_EmptySet
  <2>4. PermitMeansConnection
    BY <1>2, <2>2, <2>3, WebAssumption DEF PermitMeansConnection
  <2>5. QED
    BY <2>1, <2>4 DEF ChatInv
<1>9. QED
  BY <1>3, <1>7, <1>8 DEF WebInv

\* Handlers that only move, each with where it goes.
LEMMA WaitingSteps ==
  ASSUME WebTypeOK, NEW r \in Requests,
         \/ r \in Searches /\ (Answer(r) \/ SearchTimeout(r))
         \/ Leave(r)
         \/ r \in Chats /\ (Ask(r) \/ JobAnswered(r))
  PROVE  (SearchInv => SearchInv') /\ (ChatInv => ChatInv')
<1>1. PICK to : /\ request' = [request EXCEPT ![r] = to]
                /\ request[r] \notin {"send", "uncount"}
                /\ to \notin {"send", "uncount", "wait"}
                /\ request[r] \in {"write", "unguarded"} => to = "unguarded"
                /\ r \in Searches /\ request[r] # "write"
                     => to \in {"answered", "stopped", "timed out", "left"}
                /\ to \in {"away", "permit"} => request[r] \in {"away", "permit"}
                /\ UNCHANGED searchOf /\ UNCHANGED chatOf
  <2>1. ASSUME r \in Searches, Answer(r)
        PROVE  request' = [request EXCEPT ![r] = IF reply[r] = "dropped" THEN "stopped"
                                                                    ELSE "answered"]
    BY <2>1 DEF Answer, Goes
  <2>2. ASSUME Leave(r)
        PROVE  request' = [request EXCEPT ![r] = IF request[r] = "write" THEN "unguarded"
                                                                    ELSE "left"]
    BY <2>2 DEF Leave, Goes
  <2>3. CASE r \in Searches /\ Answer(r)
    BY <2>1, <2>3 DEF Answer
  <2>4. CASE r \in Searches /\ SearchTimeout(r)
    BY <2>4 DEF SearchTimeout, Goes
  <2>5. CASE Leave(r)
    BY <2>2, <2>5 DEF Leave, Waiting
  <2>6. CASE r \in Chats /\ Ask(r)
    BY <2>6, KindsApart DEF Ask, Goes
  <2>7. CASE r \in Chats /\ JobAnswered(r)
    BY <2>7, KindsApart DEF JobAnswered, Goes
  <2>8. QED
    BY <2>3, <2>4, <2>5, <2>6, <2>7
<1>2. SearchInv => SearchInv'
  BY <1>1, SearchFrame
<1>3. \A x \in Chats : request'[x] \in {"away", "permit"} => request[x] \in {"away", "permit"}
  BY <1>1, KindsApart DEF WebTypeOK
<1>4. ChatInv => ChatInv'
  BY <1>1, <1>3, ChatFrame
<1>5. QED
  BY <1>2, <1>4

\* Steps of one part leave the invariant of the other alone.
LEMMA SearchKept ==
  ASSUME UNCHANGED <<request, searchOf>>
  PROVE  SearchInv => SearchInv'
<1>1. /\ UNCHANGED <<request, reply, writing, files, queue, searcher, metrics>>
      /\ Lost' = Lost
  BY DEF searchOf, Lost
<1>2. UploadsHaveOwner => UploadsHaveOwner'
  BY <1>1 DEF UploadsHaveOwner, At
<1>3. MetricsTell => MetricsTell'
  BY <1>1 DEF MetricsTell, At
<1>4. DeathIsTold /\ CommandsSent /\ GuardConsumed /\ WaitersQueued =>
        DeathIsTold' /\ CommandsSent' /\ GuardConsumed' /\ WaitersQueued'
  BY <1>1 DEF DeathIsTold, CommandsSent, GuardConsumed, WaitersQueued
<1>5. WritersKnown /\ QueuedNeverWraps => WritersKnown' /\ QueuedNeverWraps'
  BY <1>1 DEF WritersKnown, QueuedNeverWraps, At
<1>6. QED
  BY <1>2, <1>3, <1>4, <1>5 DEF SearchInv

LEMMA ChatKept ==
  ASSUME WebTypeOK, NEW r \in Searches, UNCHANGED chatOf,
         UNCHANGED request \/ \E to : request' = [request EXCEPT ![r] = to]
  PROVE  ChatInv => ChatInv'
<1>1. \A x \in Chats : request'[x] = request[x]
  BY KindsApart DEF WebTypeOK
<1>2. QED
  BY <1>1, ChatFrame

LEMMA WebStep == WebInv /\ [WebNext]_webVars => WebInv'
<1> SUFFICES ASSUME WebTypeOK, SearchInv, ChatInv, [WebNext]_webVars
             PROVE  WebTypeOK' /\ SearchInv' /\ ChatInv'
  BY DEF WebInv
<1>1. QueuedNeverWraps
  BY DEF SearchInv
<1>2. CASE UNCHANGED webVars
  <2>1. UNCHANGED <<request, searchOf, chatOf>>
    BY <1>2 DEF webVars, searchOf, chatOf
  <2>2. SearchInv' /\ ChatInv'
    BY <2>1, SearchKept, ChatFrame
  <2>3. WebTypeOK'
    BY <1>2 DEF WebTypeOK, webVars
  <2>4. QED
    BY <2>2, <2>3
<1>3. ASSUME WebNext PROVE WebTypeOK'
  BY <1>1, <1>3, WebTypeStep
<1>4. ASSUME NEW r \in Uploads, UploadStep(r) PROVE SearchInv' /\ ChatInv'
  <2>1. UNCHANGED chatOf /\ (UNCHANGED request \/ \E to : request' = [request EXCEPT ![r] = to])
    BY <1>4 DEF UploadStep, StartUpload, WriteFile, WriteFails, RefuseOptions, Goes
  <2>2. ChatInv'
    BY <2>1, KindsApart, ChatKept
  <2>3. SearchInv'
    BY <1>4, StartUploadStep, WriteStep, RefuseOptionsStep DEF UploadStep
  <2>4. QED
    BY <2>2, <2>3
<1>5. ASSUME NEW r \in Searches, Submit(r) \/ TrySend(r) \/ Refuse(r)
      PROVE  SearchInv' /\ ChatInv'
  <2>1. UNCHANGED chatOf /\ \E to : request' = [request EXCEPT ![r] = to]
    BY <1>5 DEF Submit, TrySend, Refuse, Goes
  <2>2. ChatInv'
    BY <2>1, ChatKept
  <2>3. CASE TrySend(r)
    <3>1. /\ request[r] = "send" /\ UNCHANGED <<reply, writing, files, searcher, metrics>>
          /\ \/ /\ searcher.pc # "dead" /\ queue' = Append(queue, r)
                /\ request' = [request EXCEPT ![r] = "wait"]
             \/ request' = [request EXCEPT ![r] = "uncount"] /\ UNCHANGED queue
      BY <2>3 DEF TrySend, Goes
    <3>2. SearchInv'
      BY <3>1, SentStep, NotSentStep
    <3>3. QED
      BY <2>2, <3>2
  <2>4. CASE Submit(r) \/ Refuse(r)
    <3>1. SearchInv'
      BY <2>4, SubmitStep, RefuseStep
    <3>2. QED
      BY <2>2, <3>1
  <2>5. QED
    BY <1>5, <2>3, <2>4
<1>6. ASSUME NEW r \in Requests,
             \/ r \in Searches /\ (Answer(r) \/ SearchTimeout(r))
             \/ Leave(r)
             \/ r \in Chats /\ (Ask(r) \/ JobAnswered(r))
      PROVE  SearchInv' /\ ChatInv'
  BY <1>6, WaitingSteps
<1>7. ASSUME ThreadStep \/ WorkerPanics PROVE SearchInv' /\ ChatInv'
  <2>1. UNCHANGED <<request, chatOf>>
    BY <1>7 DEF ThreadStep, Recv, Uncount, Skip, Work, Worked, Respond, WorkerPanics
  <2>2. ChatInv'
    BY <2>1, ChatFrame
  <2>3. SearchInv'
    BY <1>7, RecvStep, UncountStep, SkipStep, WorkStep, RespondStep, PanicStep DEF ThreadStep
  <2>4. QED
    BY <2>2, <2>3
<1>8. ASSUME NEW r \in Chats, Acquire(r) PROVE SearchInv' /\ ChatInv'
  <2>1. /\ request[r] = "permit" /\ request' = [request EXCEPT ![r] = "task"]
        /\ UNCHANGED searchOf /\ r \in Requests /\ r \notin Searches
    BY <1>8, KindsApart DEF Acquire, Goes
  <2>2. SearchInv'
    BY <2>1, SearchFrame
  <2>3. ChatInv'
    BY <1>8, AcquireStep
  <2>4. QED
    BY <2>2, <2>3
<1>9. ASSUME NEW r \in Chats, JobStep(r) \/ OperationPanics(r) PROVE SearchInv' /\ ChatInv'
  <2>1. UNCHANGED <<request, searchOf>>
    BY <1>9 DEF JobStep, Pop, Lock, Operate, Push, Release, OperationPanics
  <2>2. SearchInv'
    BY <2>1, SearchKept
  <2>3. ChatInv'
    BY <1>9, JobSteps
  <2>4. QED
    BY <2>2, <2>3
<1>10. ASSUME WebNext PROVE SearchInv' /\ ChatInv'
  <2>1. CASE \E r \in Uploads : UploadStep(r)
    BY <2>1, <1>4
  <2>2. CASE \E r \in Searches : SearchStep(r)
    BY <2>2, <1>5, <1>6, KindsApart DEF SearchStep
  <2>3. CASE \E r \in Requests : Leave(r)
    BY <2>3, <1>6
  <2>4. CASE ThreadStep \/ WorkerPanics
    BY <2>4, <1>7
  <2>5. CASE \E r \in Chats : ChatStep(r) \/ JobStep(r) \/ OperationPanics(r)
    BY <2>5, <1>6, <1>8, <1>9, KindsApart DEF ChatStep
  <2>6. QED
    BY <1>10, <2>1, <2>2, <2>3, <2>4, <2>5 DEF WebNext
<1>11. QED
  BY <1>2, <1>3, <1>10

(***************************************************************************)
(* The inductive invariant holds in every reachable state, for every set   *)
(* of requests, size of the queue and of the pool, and number of panics.   *)
(***************************************************************************)
THEOREM WebInvariant == WebSpec => []WebInv
<1>1. WebInit => WebInv
  BY WebInitially
<1>2. WebInv /\ [WebNext]_webVars => WebInv'
  BY WebStep
<1>3. QED
  BY <1>1, <1>2, PTL DEF WebSpec

(***************************************************************************)
(* Uploads' files, the search metrics, the answers of a dead search thread *)
(* and the connections of the chat pool are accounted for, whoever leaves, *)
(* whatever panics.                                                        *)
(***************************************************************************)
THEOREM WebLeaksNothing == WebSpec => []NothingLeaks
<1>1. WebInv => NothingLeaks
  BY DEF WebInv, SearchInv, ChatInv, NothingLeaks
<1>2. QED
  BY <1>1, WebInvariant, PTL

(***************************************************************************)
(* SearchActor::execute and the search thread never take more away from    *)
(* SearchMetrics.queued than was counted: the AtomicUsize does not wrap.   *)
(***************************************************************************)
THEOREM CounterNeverWraps ==
  WebSpec => [](/\ QueuedNeverWraps
                /\ \A r \in Searches : request[r] = "uncount" => metrics.queued > 0)
<1>1. WebInv => /\ QueuedNeverWraps
                /\ \A r \in Searches : request[r] = "uncount" => metrics.queued > 0
  <2> SUFFICES ASSUME WebTypeOK, QueuedNeverWraps, NEW r \in Searches, request[r] = "uncount"
               PROVE  metrics.queued > 0
    BY DEF WebInv, SearchInv
  <2>1. r \in At({"send", "uncount"})
    BY KindsApart DEF At
  <2>2. Cardinality(At({"send", "uncount"})) # 0
    <3>1. At({"send", "uncount"}) \in SUBSET Requests
      BY DEF At
    <3>2. IsFiniteSet(At({"send", "uncount"}))
      BY <3>1, WebAssumption, FS_Subset
    <3>3. QED
      BY <2>1, <3>2, FS_EmptySet
  <2>3. Cardinality(At({"send", "uncount"})) \in Nat /\ metrics.queued \in Nat
    BY AtCounted, ThreadFacts
  <2>4. QED
    BY <2>2, <2>3 DEF QueuedNeverWraps
<1>2. QED
  BY <1>1, WebInvariant, PTL

----------------------------------------------------------------------------
(***************************************************************************)
(* The maintenance controller.                                             *)
(***************************************************************************)

LEMMA InitInv == ControllerInit => ControllerInv
<1>1. 1 .. MaxRuns = Runs /\ 0 \in 0 .. MaxRuns
  BY ControllerAssumption DEF Runs
<1>2. QED
  BY <1>1 DEF ControllerInit, ControllerInv, ControllerTypeOK, MaintenanceRuntime, Progress,
     NoRun, RunIsLatest, NotStartedYet, RequestOwnsRun, ThreadOwnsRun, Working, Active,
     PauseOfThisRun, ErrorOfLastRun

(***************************************************************************)
(* A request starts, serves or gives back a run.                           *)
(***************************************************************************)
LEMMA StartTaskInv ==
  ASSUME ControllerInv, NEW c \in Clients, StartTask(c)
  PROVE  ControllerInv'
<1> DEFINE r == started + 1
<1> USE ControllerAssumption DEF NoRun, Runs
<1>1. r \in Runs /\ r \in 0 .. MaxRuns /\ started' = r /\ started \in Nat
  BY DEF StartTask, ControllerInv, ControllerTypeOK
<1>2. /\ runtime' = [running |-> TRUE, stopping |-> FALSE, cancel |-> r, last_error |-> NoRun]
      /\ handler' = [handler EXCEPT ![c] = r]
      /\ ~runtime.running /\ flag' = flag /\ thread' = thread
  BY <1>1 DEF StartTask, RuntimeOf, MayStart
<1>3. thread[r] = "none" /\ ~flag[r]
  BY <1>1 DEF ControllerInv, NotStartedYet
<1>4. \A d \in Clients : handler[d] = NoRun
  BY <1>2 DEF ControllerInv, RequestOwnsRun
<1>5. Working = {}
  BY <1>2 DEF ControllerInv, ThreadOwnsRun
<1>6. ControllerTypeOK'
  BY <1>1, <1>2 DEF ControllerInv, ControllerTypeOK, MaintenanceRuntime
<1>7. RunIsLatest' /\ PauseOfThisRun' /\ ErrorOfLastRun'
  BY <1>1, <1>2, <1>3 DEF RunIsLatest, PauseOfThisRun, ErrorOfLastRun
<1>8. NotStartedYet'
  BY <1>1, <1>2 DEF ControllerInv, NotStartedYet
<1>9. RequestOwnsRun'
  BY <1>1, <1>2, <1>3, <1>4 DEF ControllerInv, ControllerTypeOK, RequestOwnsRun
<1>10. ThreadOwnsRun'
  BY <1>2, <1>5 DEF ThreadOwnsRun, Working
<1>11. QED
  BY <1>6, <1>7, <1>8, <1>9, <1>10 DEF ControllerInv

LEMMA SpawnInv ==
  ASSUME ControllerInv, NEW c \in Clients, Spawn(c)
  PROVE  ControllerInv'
<1> USE ControllerAssumption DEF NoRun, Runs
<1>1. /\ started \in Runs /\ handler[c] = started
      /\ runtime.running /\ thread[started] = "none"
      /\ \A d \in Clients \ {c} : handler[d] = NoRun
  BY DEF Spawn, ControllerInv, RequestOwnsRun, ControllerTypeOK
<1>2. /\ thread' = [thread EXCEPT ![started] = "work"]
      /\ handler' = [handler EXCEPT ![c] = NoRun]
      /\ UNCHANGED <<runtime, flag, started>>
  BY <1>1 DEF Spawn
<1>3. ControllerTypeOK'
  BY <1>1, <1>2 DEF ControllerInv, ControllerTypeOK, Progress, Active
<1>4. RunIsLatest' /\ PauseOfThisRun' /\ ErrorOfLastRun'
  BY <1>1, <1>2 DEF ControllerInv, RunIsLatest, PauseOfThisRun, ErrorOfLastRun
<1>5. NotStartedYet'
  BY <1>1, <1>2 DEF ControllerInv, NotStartedYet, ControllerTypeOK
<1>6. RequestOwnsRun'
  BY <1>1, <1>2 DEF ControllerInv, ControllerTypeOK, RequestOwnsRun
<1>7. ThreadOwnsRun'
  BY <1>1, <1>2 DEF ControllerInv, ControllerTypeOK, ThreadOwnsRun, Working
<1>8. QED
  BY <1>3, <1>4, <1>5, <1>6, <1>7 DEF ControllerInv

LEMMA SpawnFailedInv ==
  ASSUME ControllerInv, NEW c \in Clients, SpawnFailed(c)
  PROVE  ControllerInv'
<1> USE ControllerAssumption DEF NoRun, Runs
<1>1. /\ started \in Runs /\ handler[c] = started
      /\ runtime.running /\ thread[started] = "none"
      /\ \A d \in Clients \ {c} : handler[d] = NoRun
  BY DEF SpawnFailed, ControllerInv, RequestOwnsRun, ControllerTypeOK
<1>2. /\ runtime' = [runtime EXCEPT !.running = FALSE, !.cancel = NoRun]
      /\ handler' = [handler EXCEPT ![c] = NoRun]
      /\ UNCHANGED <<flag, thread, started>>
  BY DEF SpawnFailed, GivenBack
<1>3. Working = {}
  BY <1>1 DEF ControllerInv, ThreadOwnsRun, Working, Active
<1>4. runtime' \in MaintenanceRuntime /\ ~runtime'.running
      /\ runtime'.last_error = runtime.last_error
  BY <1>2 DEF ControllerInv, ControllerTypeOK, MaintenanceRuntime
<1>5. ControllerTypeOK'
  BY <1>2, <1>4 DEF ControllerInv, ControllerTypeOK
<1>6. RunIsLatest' /\ PauseOfThisRun' /\ NotStartedYet'
  BY <1>2, <1>4 DEF ControllerInv, RunIsLatest, PauseOfThisRun, NotStartedYet
<1>7. ErrorOfLastRun'
  BY <1>1, <1>2, <1>4 DEF ControllerInv, ErrorOfLastRun
<1>8. RequestOwnsRun' /\ ThreadOwnsRun'
  BY <1>1, <1>2, <1>3 DEF ControllerInv, ControllerTypeOK, RequestOwnsRun, ThreadOwnsRun,
     Working
<1>9. QED
  BY <1>5, <1>6, <1>7, <1>8 DEF ControllerInv

LEMMA PauseTaskInv ==
  ASSUME ControllerInv, PauseTask
  PROVE  ControllerInv'
<1> USE ControllerAssumption DEF NoRun, Runs
<1>1. /\ runtime.running /\ runtime.cancel = started /\ started \in Runs
      /\ runtime.last_error = NoRun
  BY DEF PauseTask, ControllerInv, ControllerTypeOK, MaintenanceRuntime, RunIsLatest,
     ErrorOfLastRun
<1>2. /\ runtime' = [runtime EXCEPT !.stopping = TRUE]
      /\ flag' = [r \in Runs |-> flag[r] \/ r = started]
      /\ UNCHANGED <<thread, handler, started>>
  BY <1>1 DEF PauseTask, Signalled
<1>3. /\ runtime' \in MaintenanceRuntime /\ runtime'.running /\ runtime'.stopping
      /\ runtime'.cancel = started /\ runtime'.last_error = NoRun
  BY <1>1, <1>2 DEF ControllerInv, ControllerTypeOK, MaintenanceRuntime
<1>4. flag' \in [Runs -> BOOLEAN] /\ flag'[started]
      /\ \A r \in Runs \ {started} : flag'[r] = flag[r]
  BY <1>1, <1>2, Zenon DEF ControllerInv, ControllerTypeOK
<1>5. ControllerTypeOK'
  BY <1>2, <1>3, <1>4 DEF ControllerInv, ControllerTypeOK
<1>6. RunIsLatest' /\ PauseOfThisRun' /\ ErrorOfLastRun'
  BY <1>2, <1>3, <1>4 DEF RunIsLatest, PauseOfThisRun, ErrorOfLastRun
<1>7. NotStartedYet'
  BY <1>1, <1>2, <1>4 DEF ControllerInv, NotStartedYet
<1>8. RequestOwnsRun' /\ ThreadOwnsRun'
  BY <1>2, <1>3 DEF ControllerInv, RequestOwnsRun, ThreadOwnsRun, Working
<1>9. QED
  BY <1>5, <1>6, <1>7, <1>8 DEF ControllerInv

(***************************************************************************)
(* A thread moves on.                                                      *)
(***************************************************************************)
\* The steps that leave the runtime alone only have to keep the threads.
LEMMA ThreadStepInv ==
  ASSUME ControllerInv, NEW r \in Runs, NEW p \in Progress \ {"none"},
         thread[r] \notin {"none", "ended"},
         p \in Active => thread[r] \in Active,
         thread' = [thread EXCEPT ![r] = p],
         UNCHANGED <<runtime, flag, handler, started>>
  PROVE  ControllerInv'
<1> USE ControllerAssumption DEF NoRun, Runs
<1>1. ControllerTypeOK'
  BY DEF ControllerInv, ControllerTypeOK
<1>2. RunIsLatest' /\ PauseOfThisRun'
  BY DEF ControllerInv, RunIsLatest, PauseOfThisRun
<1>3. NotStartedYet'
  BY DEF ControllerInv, ControllerTypeOK, NotStartedYet
<1>4. RequestOwnsRun'
  BY DEF ControllerInv, ControllerTypeOK, RequestOwnsRun
<1>5. ThreadOwnsRun'
  BY DEF ControllerInv, ControllerTypeOK, ThreadOwnsRun, Working
<1>6. ErrorOfLastRun'
  BY DEF ControllerInv, ControllerTypeOK, ErrorOfLastRun
<1>7. QED
  BY <1>1, <1>2, <1>3, <1>4, <1>5, <1>6 DEF ControllerInv

LEMMA SettleInv ==
  ASSUME ControllerInv, NEW r \in Runs, Settle(r)
  PROVE  ControllerInv'
<1> USE ControllerAssumption DEF NoRun, Runs
<1>1. r \in Working /\ r = started /\ runtime.running /\ started \in Nat
  BY DEF Settle, ControllerInv, ControllerTypeOK, ThreadOwnsRun, Working, Active
<1>2. \A d \in Clients : handler[d] = NoRun
  BY <1>1 DEF Working, Active, ControllerInv, RequestOwnsRun
<1>3. \A q \in Runs \ {r} : thread[q] \notin Active
  BY <1>1 DEF Working, ControllerInv, ThreadOwnsRun
<1>4. PICK p \in {"cleanup", "ended"} : thread' = [thread EXCEPT ![r] = p]
      /\ (p = "cleanup" => thread[r] = "succeeded")
  BY DEF Settle, ControllerInv, ControllerTypeOK
<1>5. /\ runtime' = [running |-> FALSE, stopping |-> FALSE, cancel |-> NoRun,
                     last_error |-> ErrorOf(r)]
      /\ UNCHANGED <<flag, handler, started>>
  BY DEF Settle
<1>6. ErrorOf(r) \in {r, NoRun} /\ (ErrorOf(r) # NoRun => thread[r] = "failed" /\ ~flag[r])
  BY <1>1 DEF ErrorOf
<1>7. ControllerTypeOK'
  BY <1>4, <1>5, <1>6 DEF ControllerInv, ControllerTypeOK, MaintenanceRuntime, Progress
<1>8. RunIsLatest' /\ PauseOfThisRun'
  BY <1>5 DEF RunIsLatest, PauseOfThisRun
<1>9. NotStartedYet'
  BY <1>1, <1>4, <1>5 DEF ControllerInv, ControllerTypeOK, NotStartedYet
<1>10. RequestOwnsRun'
  BY <1>2, <1>5 DEF RequestOwnsRun
<1>11. ThreadOwnsRun'
  BY <1>3, <1>4 DEF ControllerInv, ControllerTypeOK, ThreadOwnsRun, Working, Active
<1>12. ErrorOfLastRun'
  BY <1>1, <1>4, <1>5, <1>6 DEF ControllerInv, ControllerTypeOK, ErrorOfLastRun
<1>13. QED
  BY <1>7, <1>8, <1>9, <1>10, <1>11, <1>12 DEF ControllerInv

LEMMA NextInv == ControllerInv /\ [ControllerNext]_controllerVars => ControllerInv'
<1> SUFFICES ASSUME ControllerInv, [ControllerNext]_controllerVars
             PROVE  ControllerInv'
  OBVIOUS
<1>1. ASSUME NEW c \in Clients, StartTask(c) \/ Spawn(c) \/ SpawnFailed(c)
      PROVE  ControllerInv'
  BY <1>1, StartTaskInv, SpawnInv, SpawnFailedInv
<1>2. CASE PauseTask
  BY <1>2, PauseTaskInv
<1>3. ASSUME NEW r \in Runs, WorkEnds(r)
      PROVE  ControllerInv'
  <2>1. PICK p \in {"succeeded", "failed"} : thread' = [thread EXCEPT ![r] = p]
    BY <1>3 DEF WorkEnds
  <2>2. QED
    BY <1>3, <2>1, ThreadStepInv DEF WorkEnds, Progress, Active
<1>4. ASSUME NEW r \in Runs, Settle(r)
      PROVE  ControllerInv'
  BY <1>4, SettleInv
<1>5. ASSUME NEW r \in Runs, Cleanup(r)
      PROVE  ControllerInv'
  <2>1. "ended" \in Progress \ {"none"} /\ "ended" \notin Active
    BY DEF Progress, Active
  <2>2. QED
    BY <1>5, <2>1, ThreadStepInv DEF Cleanup
<1>6. ASSUME NEW r \in Runs, Panic(r)
      PROVE  ControllerInv'
  <2>1. "died" \in Progress \ {"none"} /\ "died" \notin Active
    BY DEF Progress, Active
  <2>2. QED
    BY <1>6, <2>1, ThreadStepInv DEF Panic
<1>7. CASE UNCHANGED controllerVars
  BY <1>7 DEF controllerVars, ControllerInv, ControllerTypeOK, RunIsLatest, NotStartedYet,
     RequestOwnsRun, ThreadOwnsRun, Working, PauseOfThisRun, ErrorOfLastRun
<1>8. QED
  BY <1>1, <1>2, <1>3, <1>4, <1>5, <1>6, <1>7 DEF ControllerNext

(***************************************************************************)
(* A running task is owned by one request, one thread or a dead thread:    *)
(* the inductive invariant of MaintenanceController.                       *)
(***************************************************************************)
THEOREM ControllerInvariant == ControllerSpec => []ControllerInv
<1>1. ControllerInit => ControllerInv
  BY InitInv
<1>2. ControllerInv /\ [ControllerNext]_controllerVars => ControllerInv'
  BY NextInv
<1>3. QED
  BY <1>1, <1>2, PTL DEF ControllerSpec

(***************************************************************************)
(* The page's stopping mark and the flag of the current run always agree   *)
(* (MaintenanceController::pause and start).                               *)
(***************************************************************************)
THEOREM PausesReachTheirRun == ControllerSpec => []PauseOfThisRun
<1>1. ControllerInv => PauseOfThisRun
  BY DEF ControllerInv
<1>2. QED
  BY <1>1, ControllerInvariant, PTL

(***************************************************************************)
(* last_error always is of the last run, which ended without being paused. *)
(***************************************************************************)
THEOREM ErrorsAreRecent == ControllerSpec => []ErrorOfLastRun
<1>1. ControllerInv => ErrorOfLastRun
  BY DEF ControllerInv
<1>2. QED
  BY <1>1, ControllerInvariant, PTL

(***************************************************************************)
(* The runtime, the flags and the threads keep their types.                *)
(***************************************************************************)
THEOREM ControllerTypeCorrect == ControllerSpec => []ControllerTypeOK
<1>1. ControllerInv => ControllerTypeOK
  BY DEF ControllerInv
<1>2. QED
  BY <1>1, ControllerInvariant, PTL

(***************************************************************************)
(* Refinement: every step of the controller is a step of MaintenanceTask,  *)
(* or one that MaintenanceTask does not see.                               *)
(***************************************************************************)
LEMMA NextRefines ==
  ASSUME ControllerInv, [ControllerNext]_controllerVars
  PROVE  [Task!TaskNext]_(Task!taskVars)
<1> USE ControllerAssumption DEF NoRun, Runs
<1>1. ASSUME NEW c \in Clients, StartTask(c)
      PROVE  Task!Begin
  <2>1. ~runtime.running /\ runtime'.running /\ ~runtime'.stopping /\ thread' = thread
    BY <1>1 DEF StartTask, MayStart, RuntimeOf
  <2>2. Working = {}
    BY <2>1 DEF ControllerInv, ThreadOwnsRun
  <2>3. Phase = "idle" /\ Phase' = "running" /\ Working' = Working
    BY <2>1 DEF Phase, Working
  <2>4. QED
    BY <2>2, <2>3 DEF Task!Begin
<1>2. ASSUME NEW c \in Clients, Spawn(c)
      PROVE  Task!Enter
  <2>1. /\ runtime.running /\ thread[started] = "none" /\ started \in Runs
        /\ thread' = [thread EXCEPT ![started] = "work"] /\ runtime' = runtime
    BY <1>2 DEF Spawn, ControllerInv, RequestOwnsRun, ControllerTypeOK
  <2>2. Working = {}
    BY <2>1 DEF ControllerInv, ThreadOwnsRun, Working, Active
  <2>3. Working' = {started}
    BY <2>1, <2>2 DEF ControllerInv, ControllerTypeOK, Working, Active
  <2>4. Phase # "idle" /\ Phase' = Phase
    BY <2>1 DEF Phase
  <2>5. QED
    BY <2>1, <2>2, <2>3, <2>4 DEF Task!Enter
<1>3. ASSUME NEW c \in Clients, SpawnFailed(c)
      PROVE  Task!End
  <2>1. runtime.running /\ thread[started] = "none" /\ thread' = thread
    BY <1>3 DEF SpawnFailed, ControllerInv, RequestOwnsRun
  <2>2. ~runtime'.running
    BY <1>3 DEF SpawnFailed, GivenBack, ControllerInv, ControllerTypeOK, MaintenanceRuntime
  <2>3. Working' = {}
    BY <2>1 DEF ControllerInv, ThreadOwnsRun, Working, Active
  <2>4. Phase # "idle" /\ Phase' = "idle"
    BY <2>1, <2>2 DEF Phase
  <2>5. QED
    BY <2>3, <2>4 DEF Task!End
<1>4. ASSUME PauseTask
      PROVE  [Task!Pause]_(Task!taskVars)
  <2>1. /\ runtime.running /\ runtime'.running /\ runtime'.stopping /\ thread' = thread
        /\ runtime.stopping \in BOOLEAN
    BY <1>4 DEF PauseTask, ControllerInv, ControllerTypeOK, MaintenanceRuntime
  <2>2. Working' = Working
    BY <2>1 DEF Working
  <2>3. Phase \in {"running", "pausing"} /\ Phase' = "pausing"
    BY <2>1 DEF Phase
  <2>4. QED
    BY <2>2, <2>3 DEF Task!Pause, Task!taskVars
<1>5. ASSUME NEW r \in Runs, WorkEnds(r)
      PROVE  UNCHANGED Task!taskVars
  <2>1. PICK p \in {"succeeded", "failed"} : thread' = [thread EXCEPT ![r] = p]
    BY <1>5 DEF WorkEnds
  <2>2. Working' = Working /\ Phase' = Phase
    BY <1>5, <2>1 DEF WorkEnds, ControllerInv, ControllerTypeOK, Working, Active, Phase
  <2>3. QED
    BY <2>2 DEF Task!taskVars
<1>6. ASSUME NEW r \in Runs, Settle(r)
      PROVE  Task!End
  <2>1. r \in Working /\ r = started /\ runtime.running
    BY <1>6 DEF Settle, ControllerInv, ThreadOwnsRun, Working, Active
  <2>2. PICK p \in {"cleanup", "ended"} : thread' = [thread EXCEPT ![r] = p]
    BY <1>6 DEF Settle
  <2>3. Working' = {}
    BY <2>1, <2>2 DEF ControllerInv, ControllerTypeOK, ThreadOwnsRun, Working, Active
  <2>4. Phase # "idle" /\ Phase' = "idle"
    BY <1>6, <2>1 DEF Settle, Phase
  <2>5. QED
    BY <2>3, <2>4 DEF Task!End
<1>7. ASSUME NEW r \in Runs, Cleanup(r)
      PROVE  UNCHANGED Task!taskVars
  <2>1. Working' = Working /\ Phase' = Phase
    BY <1>7 DEF Cleanup, ControllerInv, ControllerTypeOK, Working, Active, Phase
  <2>2. QED
    BY <2>1 DEF Task!taskVars
<1>8. ASSUME NEW r \in Runs, Panic(r)
      PROVE  Task!Die
  <2>1. r \in Working /\ r = started
    BY <1>8 DEF Panic, ControllerInv, ThreadOwnsRun, Working, Active
  <2>2. Working' = {} /\ Phase' = Phase
    BY <1>8, <2>1 DEF Panic, ControllerInv, ControllerTypeOK, ThreadOwnsRun, Working,
       Active, Phase
  <2>3. QED
    BY <2>1, <2>2 DEF Task!Die
<1>9. CASE UNCHANGED controllerVars
  BY <1>9 DEF controllerVars, Task!taskVars, Working, Phase
<1>10. QED
  BY <1>1, <1>2, <1>3, <1>4, <1>5, <1>6, <1>7, <1>8, <1>9 DEF ControllerNext, Task!TaskNext

(***************************************************************************)
(* The controller keeps the promise of MaintenanceTask: at most one thread *)
(* works on the task, and none while it is shown as idle.                  *)
(***************************************************************************)
THEOREM ControllerImplementsTask == ControllerSpec => ImplementsTask
<1>1. ControllerInit => Task!TaskInit
  BY DEF ControllerInit, Task!TaskInit, Phase, Working, Active
<1>2. ControllerInv /\ [ControllerNext]_controllerVars
        => [Task!TaskNext]_(Task!taskVars)
  BY NextRefines
<1>3. QED
  BY <1>1, <1>2, ControllerInvariant, PTL DEF ControllerSpec, ImplementsTask, Task!TaskSpec
=============================================================================
