------------------------------ MODULE MCLinking ------------------------------
(***************************************************************************)
(* The threads of one run of link-chat, and then the runs of link-chat     *)
(* with their transactions.  The two share no state: the threads are gone, *)
(* one way or the other, before the first transaction of the other part.   *)
(*                                                                         *)
(* Four messages in batches of two, two parsers, a cache of one path and   *)
(* three changes of the index.                                             *)
(***************************************************************************)
EXTENDS ChatLinker, LinkWorkers

\* ChatLinker: two assets, two conversations, messages 1..3 and two versions
\* of the chat database; the second rewrites the first conversation and no
\* longer has the other.
CONSTANTS a1, a2, t1, t2

MCAssets == {a1, a2}
MCTables == {t1, t2}
MCChatTables == {<<1, t1>>, <<1, t2>>, <<2, t1>>}
MCMessages ==
  {<<1, t1, 1>>, <<1, t1, 2>>, <<1, t1, 3>>, <<1, t2, 2>>, <<2, t1, 1>>, <<2, t1, 3>>}
MCPlain == {<<1, t1, 1, a1>>, <<1, t1, 3, a1>>, <<1, t2, 2, a2>>, <<2, t1, 3, a2>>}
MCForwarded == {<<1, t1, 1, a2>>, <<1, t1, 2, a1>>, <<2, t1, 1, a1>>}

\* The second conversation is unreadable, the first is not.
MCCorrupt == {<<1, t2, 2>>}

CONSTANTS p1, p2, w1, w2

MCPaths == {p1, p2}
MCParsers == {w1, w2}
MCMessage(candidates) == [parses |-> TRUE, groups |-> candidates]
MCLog ==
  <<MCMessage(<< <<p1, p2>> >>), [parses |-> FALSE, groups |-> << <<p1>> >>],
    MCMessage(<< <<p1>>, <<p2, p1>> >>), MCMessage(<< <<p2>> >>)>>

linkingVars == <<linkVars, linkerVars>>

\* What is left of the threads when they are gone.
ThreadsGone ==
  /\ indexed = {} /\ kept = {} /\ ever = {} /\ changes = 0
  /\ parser = [w \in Parsers |-> Does("left", 0)] /\ jobs = <<>> /\ parsed = <<>>
  /\ main = [pc |-> "returned", last |-> 0, upto |-> 0, sent |-> {}, got |-> {}, found |-> {},
             tried |-> 0]
  /\ todo = {} /\ lookups = <<>> /\ linked = {}

Forget ==
  /\ main.pc \in {"returned", "panicked"} \/ WaitsForTheDead
  /\ indexed' = {} /\ kept' = {} /\ ever' = {} /\ changes' = 0
  /\ parser' = [w \in Parsers |-> Does("left", 0)] /\ jobs' = <<>> /\ parsed' = <<>>
  /\ main' = [pc |-> "returned", last |-> 0, upto |-> 0, sent |-> {}, got |-> {}, found |-> {},
              tried |-> 0]
  /\ todo' = {} /\ lookups' = <<>> /\ linked' = {}

\* The threads are explored over an empty manifest only.
NothingLinked ==
  /\ \A t \in Tables : scan[t] = NoRow
  /\ groups = [a \in Assets |-> a]

LinkingInit == LinkerInit /\ (ThreadsGone \/ (LinkInit /\ NothingLinked))

LinkingNext ==
  \/ ~ThreadsGone /\ LinkNext /\ UNCHANGED linkerVars
  \/ ~ThreadsGone /\ Forget /\ UNCHANGED linkerVars
  \/ ThreadsGone /\ LinkerNext /\ UNCHANGED linkVars

LinkingSpec ==
  /\ LinkingInit /\ [][LinkingNext]_linkingVars
  /\ LinkFairness /\ WF_linkVars(Forget)
  /\ WF_linkerVars(ThreadsGone /\ LinkerStep) /\ WF_linkerVars(ThreadsGone /\ StartLink)
=============================================================================
