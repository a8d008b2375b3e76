-------------------------- MODULE MCRankingTasks --------------------------
(***************************************************************************)
(* Two browsers, one of which sends a request token, ask for a ranking     *)
(* while the index is prepared and the content changes; the new content    *)
(* has another number of vectors.                                          *)
(*                                                                         *)
(* And the pages of the popularity analysis (PopularityViews), which share *)
(* no state with these: three groups of four images in messages of six     *)
(* days, one without a date, and every filter on dates, senders, tables    *)
(* and types.  Same images may overlap.  All limits are so low that they   *)
(* cut.                                                                    *)
(***************************************************************************)
EXTENDS RankingTasks, PopularityViews

CONSTANTS b1, b2, t1

MCPoints   == <<1, 2>>
MCBrowsers == {b1, b2}
MCTokenOf  == [b \in MCBrowsers |-> IF b = b1 THEN NoToken ELSE t1]

MCMessage(row, date, sender, table, assets) ==
  [row |-> row, date |-> date, sender |-> sender, table |-> table, type |-> table \div 2,
   assets |-> assets]
MCMessages ==
  {MCMessage(1, 20, 1, 1, {1, 2}), MCMessage(2, 20, 2, 2, {1, 3}),
   MCMessage(3, 23, 1, 2, {3}), MCMessage(4, 24, 2, 1, {4, 2}),
   MCMessage(5, None, 1, 1, {3}), MCMessage(6, 24, 1, 3, {3, 4})}
MCRep == <<1, 1, 3, 4>>
MCFirst == {m \in MCMessages : m.row \in {1, 2, 4, 6}}
MCArchives == {{}, MCFirst, MCMessages}
MCResolutions ==
  {[r \in {1, 3, 4} |-> IF r = 4 THEN {4} ELSE {1, 3}],
   [r \in {1, 3, 4} |-> CASE r = 1 -> {1, 3} [] r = 3 -> {1, 3, 4} [] OTHER -> {3, 4}]}
MCNoFilter == [from |-> None, to |-> None, senders |-> {}, tables |-> {}, types |-> {}]
MCFilters ==
  {q \in [from : {None, 21, 24}, to : {None, 20, 24}, senders : {{}, {1}, {1, 2}},
          tables : {{}, {2}}, types : {{}, {0}}] :
     q.from = None \/ q.to = None \/ q.from <= q.to}

VARIABLE part   \* what is explored: "tasks" or "pages"

RankingPagesInit ==
  \/ part = "tasks" /\ facts = {} /\ query = MCNoFilter /\ ViewsInit /\ RankingInit
  \/ part = "pages" /\ available = FALSE /\ RankingInit /\ ViewsInit

RankingPagesNext ==
  /\ UNCHANGED part
  /\ \/ part = "tasks" /\ RankingNext /\ UNCHANGED viewVars
     \/ part = "pages" /\ ViewsNext /\ UNCHANGED rankingVars

\* RankingFairness, for the tasks.
RankingPagesSpec ==
  /\ RankingPagesInit /\ [][RankingPagesNext]_<<part, rankingVars, viewVars>>
  /\ WF_rankingVars(part = "tasks" /\ VectorSteps /\ PrepStep)
  /\ WF_rankingVars(part = "tasks" /\ \E r \in Runs : RunStep(r))
=============================================================================
