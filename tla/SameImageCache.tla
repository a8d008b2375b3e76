--------------------------- MODULE SameImageCache ---------------------------
(***************************************************************************)
(* The cache of same-image groups (image_insights.rs, SameImageCache) and  *)
(* the ranking that resolves its candidates through it.                    *)
(*                                                                         *)
(* A group joins the exact groups whose representatives look like the one  *)
(* that is asked for.  Readers (details, comparisons) and the workers of a *)
(* ranking resolve images at once; indexers regroup assets meanwhile.      *)
(* Vectors and exact groups are reduced to the versions of the manifest.   *)
(***************************************************************************)
EXTENDS Naturals, FiniteSetsExt, SequencesExt, Functions

CONSTANTS
  Assets,       \* asset ids, numbers
  ExactOf,      \* version -> asset -> its exact representative
  NearOf,       \* version -> representative -> representatives over the threshold
  Readers,      \* calls of the web handlers, one each
  AskedFor,     \* images the readers ask for
  RankWorkers,  \* threads of resolve_candidates_parallel
  Candidates,   \* sequence of representatives the ranking resolves
  MaxGroups,    \* SAME_CACHE_MAX_GROUPS
  MaxMembers,   \* SAME_CACHE_MAX_MEMBERS
  Parallelism   \* SAME_GROUP_PARALLELISM

\* As many workers as candidates, up to a limit.  In the first version an exact
\* representative is one of its group, and the vector index offers such only.
ASSUME SameCacheAssumption ==
  /\ Assets \subseteq Nat \ {0} /\ IsFiniteSet(Assets)
  /\ DOMAIN ExactOf # {} /\ DOMAIN ExactOf \subseteq Nat \ {0} /\ DOMAIN NearOf = DOMAIN ExactOf
  /\ \A v \in DOMAIN ExactOf :
       ExactOf[v] \in [Assets -> Assets] /\ NearOf[v] \in [Assets -> SUBSET Assets]
  /\ LET v == Min(DOMAIN ExactOf)
     IN  \A a \in Assets : \A r \in {ExactOf[v][a]} \cup NearOf[v][a] : ExactOf[v][r] = r
  /\ Candidates \in Seq(Assets)
  /\ MaxGroups \in Nat /\ MaxMembers \in Nat /\ Parallelism \in Nat \ {0}
  /\ Readers \cap RankWorkers = {} /\ AskedFor \subseteq Assets
  /\ IsFiniteSet(RankWorkers) /\ (Candidates # <<>> => RankWorkers # {})

Versions == DOMAIN ExactOf
Callers  == Readers \cup RankWorkers
NoneYet  == 0

VARIABLES
  version,  \* version of the manifest
  cache,    \* SameCacheInner, under its mutex
  checked,  \* whether the identity was checked less than two seconds ago
  calls,    \* caller -> its call of resolve
  rank      \* resolve_candidates_parallel

sameVars == <<version, cache, checked, calls, rank>>

\* seen and expanded: the versions its scores and its assets were read from.
Groups  == [reps : SUBSET Assets, assets : SUBSET Assets,
            seen : Versions \cup {NoneYet}, expanded : Versions \cup {NoneYet}]
NoGroup == [reps |-> {}, assets |-> {}, seen |-> NoneYet, expanded |-> NoneYet]
Failure == [NoGroup EXCEPT !.reps = Assets]

Key(group) == Min(group.reps)

EmptyCache(identity) ==
  [identity |-> identity, entries |-> <<>>, aliases |-> <<>>, lru |-> <<>>,
   members |-> 0, inflight |-> <<>>]

CallSteps == {"idle", "identity", "lookup", "wait", "permit", "query", "expand",
              "publish", "answer", "done"}
\* identity is NoneYet in a call that does not check; flight is the caller
\* whose Inflight the call waits for.
Call     == [pc : CallSteps, asset : Assets \cup {NoneYet}, identity : Versions \cup {NoneYet},
             flight : Callers, group : Groups \cup {NoGroup, Failure}]
IdleCall(c)  == [pc |-> "idle", asset |-> NoneYet, identity |-> NoneYet, flight |-> c,
             group |-> NoGroup]

SameInit ==
  /\ version = Min(Versions)
  /\ cache = EmptyCache(NoneYet)
  /\ checked = FALSE
  /\ calls = [c \in Callers |-> IdleCall(c)]
  /\ rank = [pc |-> "off", next |-> 0, resolved |-> {}, failed |-> FALSE, cancel |-> FALSE]

----------------------------------------------------------------------------
(***************************************************************************)
(* The bookkeeping of SameCacheInner.                                      *)
(***************************************************************************)

\* A key is in the list once at most.
Touched(seq, key) ==
  LET position == CHOOSE i \in DOMAIN seq : seq[i] = key
  IN  Append(IF key \in Range(seq) THEN RemoveAt(seq, position) ELSE seq, key)

\* The members of groups, each with the key of its group.
Members(entries) == UNION {{k} \X entries[k].assets : k \in DOMAIN entries}

\* Bug: the aliases of evicted groups are left behind.
AliasesKept(inner, gone) == inner.aliases

AliasesWithout(inner, gone) ==
  Restrict(inner.aliases, {a \in DOMAIN inner.aliases : inner.aliases[a] \notin gone})

\* The n oldest keys are popped, and their groups go. Subtracting saturates.
Dropped(inner, n) ==
  LET gone  == {inner.lru[i] : i \in 1 .. n} \cap DOMAIN inner.entries
      freed == Cardinality(Members(Restrict(inner.entries, gone)))
  IN  [inner EXCEPT
        !.lru = SubSeq(@, n + 1, Len(@)),
        !.entries = Restrict(@, DOMAIN @ \ gone),
        !.members = IF freed > @ THEN 0 ELSE @ - freed,
        !.aliases = AliasesWithout(inner, gone)]

Over(inner) == Cardinality(DOMAIN inner.entries) > MaxGroups \/ inner.members > MaxMembers

\* The loop pops the oldest group until the cache fits or is empty.
Evicted(inner) ==
  LET fits == {n \in 0 .. Len(inner.lru) : ~Over(Dropped(inner, n))}
  IN  Dropped(inner, IF fits = {} THEN Len(inner.lru) ELSE Min(fits))

\* Every alias of a group names its key, over the key it named before.
InsertSameGroup(inner, group) ==
  LET key == Key(group)
      named == group.reps \cup group.assets
  IN  Evicted([inner EXCEPT
        !.members = @ + Cardinality(group.assets),
        !.aliases = [a \in named \cup DOMAIN @ |-> IF a \in named THEN key ELSE @[a]],
        !.entries = [k \in {key} \cup DOMAIN @ |-> IF k = key THEN group ELSE @[k]],
        !.lru = Touched(@, key)])

----------------------------------------------------------------------------
(***************************************************************************)
(* resolve.                                                                *)
(***************************************************************************)
ManifestChanges ==
  /\ version + 1 \in Versions
  /\ version' = version + 1
  /\ UNCHANGED <<cache, checked, calls, rank>>

TwoSecondsPass ==
  /\ checked
  /\ checked' = FALSE
  /\ UNCHANGED <<version, cache, calls, rank>>

\* A call first decides whether it checks the identity.
Asks(c, asset) ==
  calls' = [calls EXCEPT ![c] =
    [IdleCall(c) EXCEPT !.pc = IF checked THEN "lookup" ELSE "identity", !.asset = asset]]

ReaderAsks(c, asset) ==
  /\ c \in Readers /\ calls[c].pc = "idle"
  /\ Asks(c, asset)
  /\ UNCHANGED <<version, cache, checked, rank>>

Moves(c, step) == calls' = [calls EXCEPT ![c].pc = step]
Returns(c, group) ==
  calls' = [calls EXCEPT ![c] = [IdleCall(c) EXCEPT !.pc = "done", !.asset = calls[c].asset,
                                                !.group = group]]

\* manifest_identity can fail, and the call with it.
ReadIdentity(c) ==
  /\ calls[c].pc = "identity"
  /\ \/ calls' = [calls EXCEPT ![c].pc = "lookup", ![c].identity = version]
     \/ Returns(c, Failure)
  /\ UNCHANGED <<version, cache, checked, rank>>

Checks(c)   == calls[c].identity # NoneYet
Outdated(c) == Checks(c) /\ cache.identity # calls[c].identity
Inner(c)    == IF Outdated(c) THEN EmptyCache(calls[c].identity) ELSE cache

Known(inner, asset) ==
  asset \in DOMAIN inner.aliases /\ inner.aliases[asset] \in DOMAIN inner.entries

Hit(c) ==
  LET inner == Inner(c) key == inner.aliases[calls[c].asset]
  IN  /\ Known(inner, calls[c].asset)
      /\ cache' = [inner EXCEPT !.lru = Touched(@, key)]
      /\ Returns(c, inner.entries[key])

NotComputing(inner, asset) == asset \notin DOMAIN inner.inflight

JoinFlight(c) ==
  LET inner == Inner(c) asset == calls[c].asset
  IN  /\ ~Known(inner, asset) /\ ~NotComputing(inner, asset)
      /\ cache' = inner
      /\ calls' = [calls EXCEPT ![c].pc = "wait", ![c].identity = NoneYet,
                               ![c].flight = inner.inflight[asset]]

OwnFlight(c) ==
  LET inner == Inner(c) asset == calls[c].asset
  IN  /\ ~Known(inner, asset) /\ NotComputing(inner, asset)
      /\ cache' = [inner EXCEPT !.inflight =
                     [a \in {asset} \cup DOMAIN @ |-> IF a = asset THEN c ELSE @[a]]]
      /\ calls' = [calls EXCEPT ![c].pc = "permit", ![c].identity = NoneYet]

\* One critical section, the replacement of an outdated cache included.
Lookup(c) ==
  /\ calls[c].pc = "lookup"
  /\ Hit(c) \/ JoinFlight(c) \/ OwnFlight(c)
  /\ checked' = (checked \/ Checks(c))
  /\ UNCHANGED <<version, rank>>

Computing == {c \in Callers : calls[c].pc \in {"query", "expand", "publish", "answer"}}

Acquire(c) ==
  /\ calls[c].pc = "permit" /\ Cardinality(Computing) < Parallelism
  /\ Moves(c, "query")
  /\ UNCHANGED <<version, cache, checked, rank>>

\* Offers of the vector index, or of the stored vectors, over the threshold.
Similar(rep) == NearOf[version][rep]

\* compute_same_image_group: the exact representative and the neighbours over
\* the threshold, then the assets of their groups, in statements of their own.
\* An error of the first shows at the second.
Query(c) ==
  /\ calls[c].pc = "query"
  /\ LET rep == ExactOf[version][calls[c].asset]
     IN  calls' = [calls EXCEPT ![c].pc = "expand", ![c].group.seen = version,
                     ![c].group.reps = {rep} \cup Similar(rep)]
  /\ UNCHANGED <<version, cache, checked, rank>>

Expand(c) ==
  /\ calls[c].pc = "expand"
  /\ \/ calls' = [calls EXCEPT ![c].pc = "publish", ![c].group.expanded = version,
          ![c].group.assets = {a \in Assets : ExactOf[version][a] \in calls[c].group.reps}]
     \/ calls' = [calls EXCEPT ![c].pc = "publish", ![c].group = Failure]
  /\ UNCHANGED <<version, cache, checked, rank>>

KnownReps(inner, group) == {r \in group.reps : r \in DOMAIN inner.aliases}

\* The first known representative decides; its group is served instead.
Publish(c) ==
  LET group == calls[c].group
      inner == [cache EXCEPT !.inflight = Restrict(@, DOMAIN @ \ {calls[c].asset})]
      known == KnownReps(inner, group)
      key   == inner.aliases[Min(known)]
  IN  /\ calls[c].pc = "publish"
      /\ IF group = Failure
           THEN cache' = inner /\ Moves(c, "answer")
         ELSE IF known = {}
           THEN cache' = InsertSameGroup(inner, group) /\ Moves(c, "answer")
         ELSE /\ cache' = inner
              /\ calls' = [calls EXCEPT ![c].pc = "answer",
                   ![c].group = IF key \in DOMAIN inner.entries THEN inner.entries[key] ELSE group]
      /\ UNCHANGED <<version, checked, rank>>

WaitingFor(c) == {d \in Callers : calls[d].pc = "wait" /\ calls[d].flight = c}

\* Bug: an error leaves before the waiting calls are told.
ToldOfSuccess(c) == IF calls[c].group = Failure THEN {} ELSE WaitingFor(c)

Told(c) == WaitingFor(c)

\* The result wakes the calls that wait for this Inflight, which nobody finds
\* in the cache any more; the permit goes back when the call returns.
Answer(c) ==
  /\ calls[c].pc = "answer"
  /\ calls' = [d \in Callers |->
       IF d \in {c} \cup Told(c)
       THEN [calls[d] EXCEPT !.pc = "done", !.group = calls[c].group, !.flight = d]
       ELSE calls[d]]
  /\ UNCHANGED <<version, cache, checked, rank>>

\* The gallery only looks for groups that are there.
Peek(asset) ==
  /\ Known(cache, asset)
  /\ cache' = [cache EXCEPT !.lru = Touched(@, cache.aliases[asset])]
  /\ UNCHANGED <<version, checked, calls, rank>>

CallStep(c) ==
  \/ ReadIdentity(c) \/ Lookup(c) \/ Acquire(c) \/ Query(c) \/ Expand(c)
  \/ Publish(c) \/ Answer(c)

----------------------------------------------------------------------------
(***************************************************************************)
(* resolve_candidates_parallel.                                            *)
(***************************************************************************)
StartRanking ==
  /\ rank.pc = "off"
  /\ rank' = [rank EXCEPT !.pc = "running"]
  /\ UNCHANGED <<version, cache, checked, calls>>

CancelRanking ==
  /\ rank.pc = "running" /\ ~rank.cancel
  /\ rank' = [rank EXCEPT !.cancel = TRUE]
  /\ UNCHANGED <<version, cache, checked, calls>>

\* A worker takes the next candidate unless it sees the flag or none is left;
\* its previous result is in the channel by then.  The idle state with a
\* flight of another marks a worker that has left its loop.
Left(w) == calls[w].pc = "done" /\ calls[w].asset = NoneYet
Leaves(w) == calls' = [calls EXCEPT ![w] = [IdleCall(w) EXCEPT !.pc = "done"]]

TakeCandidate(w) ==
  /\ rank.pc = "running" /\ calls[w].pc = "idle"
  /\ \/ rank.cancel /\ Leaves(w) /\ UNCHANGED rank
     \/ /\ rank.next < Len(Candidates)
        /\ Asks(w, Candidates[rank.next + 1])
        /\ rank' = [rank EXCEPT !.next = @ + 1]
     \/ /\ rank.next >= Len(Candidates)
        /\ Leaves(w)
        /\ rank' = [rank EXCEPT !.next = @ + 1]
  /\ UNCHANGED <<version, cache, checked>>

\* The result is the one of the candidate the worker took; candidates are
\* distinct.
SendResult(w) ==
  /\ calls[w].pc = "done" /\ calls[w].asset # NoneYet
  /\ calls' = [calls EXCEPT ![w] = IdleCall(w)]
  /\ rank' = [rank EXCEPT
       !.resolved = @ \cup {i \in DOMAIN Candidates : Candidates[i] = calls[w].asset},
       !.failed = @ \/ calls[w].group = Failure]
  /\ UNCHANGED <<version, cache, checked>>

\* Bug: the flag is not looked at after the workers.
CancelIgnored == FALSE

CancelSeen == rank.cancel

\* All workers have dropped their senders.
CollectResults ==
  /\ rank.pc = "running" /\ \A w \in RankWorkers : Left(w)
  /\ rank' = [rank EXCEPT !.pc = IF CancelSeen THEN "cancelled"
                                 ELSE IF rank.failed THEN "error" ELSE "resolved"]
  /\ UNCHANGED <<version, cache, checked, calls>>

WorkerStep(w) == TakeCandidate(w) \/ SendResult(w)

SameNext ==
  \/ ManifestChanges \/ TwoSecondsPass \/ StartRanking \/ CancelRanking
  \/ \E c \in Readers, asset \in AskedFor : ReaderAsks(c, asset)
  \/ \E asset \in AskedFor : Peek(asset)
  \/ \E c \in Callers : CallStep(c)
  \/ \E w \in RankWorkers : WorkerStep(w)
  \/ CollectResults

SameSpec == SameInit /\ [][SameNext]_sameVars

----------------------------------------------------------------------------
SameCacheTypeOK ==
  /\ version \in Versions /\ checked \in BOOLEAN
  /\ cache.identity \in Versions \cup {NoneYet}
  /\ cache.lru \in BoundedSeq(Assets, MaxGroups) /\ cache.members \in Nat
  /\ DOMAIN cache.inflight \subseteq Assets
  /\ Range(cache.inflight) \subseteq Callers
  /\ calls \in [Callers -> Call]
  /\ rank.pc \in {"off", "running", "resolved", "cancelled", "error"}
  /\ rank.next <= Len(Candidates) + Cardinality(RankWorkers)

Sizes == Cardinality(Members(cache.entries))

\* Until the manifest changes under running calls.
Undisturbed == version = Min(Versions)

\* While the manifest stays the same, groups in the cache share no image and
\* the members are counted exactly.
GroupsDisjoint ==
  Undisturbed =>
    /\ cache.members = Sizes
    /\ \A j, k \in DOMAIN cache.entries :
         j # k => cache.entries[j].assets \cap cache.entries[k].assets = {}

\* Maps, list and counter of the cache agree whatever order groups come and
\* go in: no alias leads nowhere, every group can be evicted, and the cache
\* keeps to both limits.
CacheBookkeeping ==
  /\ SameCacheTypeOK
  /\ DOMAIN cache.entries = Range(cache.lru) /\ IsInjective(cache.lru)
  /\ Range(cache.aliases) \subseteq DOMAIN cache.entries
  /\ Cardinality(DOMAIN cache.entries) <= MaxGroups
  /\ Sizes <= Min({cache.members, MaxMembers})
  /\ GroupsDisjoint

\* An image is computed by one call at a time; the others wait for it.
ComputedOnce ==
  Undisturbed =>
    \A c, d \in {x \in Callers : calls[x].pc \in {"permit", "query", "expand", "publish"}} :
      c # d => calls[c].asset # calls[d].asset

\* "every same-image candidate has a worker result": a ranking that was not
\* cancelled has one for each candidate.
EveryCandidateResolved ==
  rank.pc \in {"resolved", "error"} => rank.resolved = 1 .. Len(Candidates)

\* A new identity invalidates the whole cache: nothing older is served.
NothingOlderCached ==
  \A k \in DOMAIN cache.entries : cache.entries[k].seen >= cache.identity

\* A call that waits is not forgotten: the call it waits for computes the
\* same image and will answer it, also when a new identity has removed the
\* Inflight from the cache and somebody else computes the image again.
WaitersHaveOwner ==
  /\ ComputedOnce
  /\ \A c \in Callers :
       calls[c].pc = "wait" =>
         LET owner == calls[calls[c].flight]
         IN  owner.pc \in {"permit", "query", "expand", "publish", "answer"}
             /\ owner.asset = calls[c].asset

\* Evictions, cancellations and new identities, at any moment of a resolution,
\* leave a cache that agrees with itself, and nobody without an answer.
SameImagesSound == CacheBookkeeping /\ EveryCandidateResolved /\ WaitersHaveOwner
=============================================================================
