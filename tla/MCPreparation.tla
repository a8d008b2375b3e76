---------------------------- MODULE MCPreparation ----------------------------
(***************************************************************************)
(* From the files of QQ to the analysis: preprocessing of a database       *)
(* (MCPreprocess) and of Info.db (MCInfoStreams), reading of contents, and *)
(* builds of the popularity analysis.  They share no state; each is        *)
(* explored with the others at rest.                                       *)
(***************************************************************************)
EXTENDS PopularityBuild, MessageFrames, MCPreprocess, MCInfoStreams

\* PopularityBuild: two assets, two conversations, messages 1..2; the second
\* version of the chat database has lost the second conversation and a
\* message of the first.
CONSTANTS a1, a2, t1, t2

MCAssets == {a1, a2}
MCTables == {t1, t2}
MCChatTables == {<<1, t1>>, <<1, t2>>, <<2, t1>>}
MCMessages == {<<1, t1, 1>>, <<1, t1, 2>>, <<1, t2, 1>>, <<2, t1, 1>>}
MCPlain == {<<1, t1, 1, a1>>, <<1, t1, 2, a2>>, <<2, t1, 1, a2>>}
MCForwarded == {<<1, t1, 1, a2>>, <<1, t2, 1, a1>>}

\* MessageFrames: contents of up to five cells; a gap of two cells may be a
\* text, and the scan for the next element sees two cells.
MCCell(kind, len, useful) == [kind |-> kind, len |-> len, useful |-> useful]

MCCells ==
  {MCCell("other", 0, FALSE), MCCell("wide", 0, FALSE), MCCell("layout", 0, TRUE),
   MCCell("text", 3, TRUE), MCCell("frame", 1, TRUE), MCCell("frame", 2, FALSE),
   MCCell("multi", 1, TRUE), MCCell("multi", 2, FALSE), MCCell("record", 1, TRUE),
   MCCell("record", 2, FALSE)}

preparationVars == <<prepVars, frameVars, streamVars, builderVars>>

\* What is left of a part when it is over.
PrepOver ==
  /\ shape = [d \in Databases |-> "raw"] /\ file = [d \in Databases |-> 0]
  /\ prepared = [d \in Databases |-> Nothing] /\ working = [d \in Databases |-> Nothing]
  /\ held = {} /\ catalog = [d \in Databases |-> "none"]
  /\ prep = [PrepIdle EXCEPT !.pc = "over"]

ContentRead ==
  /\ content = <<>> /\ reader = "none" /\ at = 1 /\ out = {} /\ silent = {} /\ maybe = FALSE

StreamsRead ==
  /\ info = 1 /\ disk = <<>> /\ clock = 0 /\ extract = NoRun /\ store = NoStore
  /\ ask = [t \in Readers |-> Silent] /\ events = MaxEvents

Close ==
  /\ reader = "none" /\ content # <<>>
  /\ content' = <<>> /\ reader' = "none" /\ at' = 1 /\ out' = {} /\ silent' = {}
  /\ maybe' = FALSE

CloseStreams ==
  /\ extract.pc \in {None, "done", "failed"} /\ \A t \in Readers : ask[t].pc = "idle"
  /\ events = MaxEvents
  /\ info' = 1 /\ disk' = <<>> /\ clock' = 0 /\ extract' = NoRun /\ store' = NoStore
  /\ ask' = [t \in Readers |-> Silent] /\ UNCHANGED events

\* The other parts are explored over the first manifest only.
NothingBuilt ==
  /\ occ = [k \in Keys |-> Absent] /\ groups = [a \in Assets |-> a]
  /\ cube = {} /\ build = NoRow /\ \A t \in Tables : analysis[t] = NoRow

PreparationInit ==
  /\ BuilderInit
  /\ \/ PrepOver /\ ContentRead /\ StreamsRead
     \/ NothingBuilt /\ PrepInit /\ ContentRead /\ StreamsRead
     \/ NothingBuilt /\ PrepOver /\ FramesInit /\ StreamsRead
     \/ NothingBuilt /\ PrepOver /\ ContentRead /\ StreamsInit

PreparationNext ==
  \/ prep.pc # "over" /\ PrepNext /\ UNCHANGED <<frameVars, streamVars, builderVars>>
  \/ content # <<>> /\ (FramesNext \/ Close) /\ UNCHANGED <<prepVars, streamVars, builderVars>>
  \/ clock > 0 /\ (StreamsNext \/ CloseStreams) /\ UNCHANGED <<prepVars, frameVars, builderVars>>
  \/ /\ prep.pc = "over" /\ content = <<>> /\ clock = 0
     /\ BuilderNext /\ UNCHANGED <<prepVars, frameVars, streamVars>>

PreparationSpec ==
  PreparationInit /\ [][PreparationNext]_preparationVars /\ PrepFairness
=============================================================================
