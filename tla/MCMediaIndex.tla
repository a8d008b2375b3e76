---------------------------- MODULE MCMediaIndex ----------------------------
(***************************************************************************)
(* The index, or the parsers: `part` says which a behaviour is about.      *)
(*                                                                         *)
(* A root without files of its own over a directory that is the second     *)
(* root as well, so that its file is met and probed twice.  Two other      *)
(* files have rows of builds over other roots.                             *)
(***************************************************************************)
EXTENDS MediaIndex, MCMediaWalks

CONSTANTS account, image, clip, photo, song

MCRoots   == <<account, image>>
MCSubDirs == [d \in Dirs |-> IF d = account THEN {image} ELSE {}]
MCFilesIn == [d \in Dirs |-> IF d = account THEN {} ELSE {photo}]
MCPaths   == <<clip, photo, song>>

MCProblem == [stamp |-> 2, content |-> 2, hash |-> 2, status |-> "problem"]
MCEarlierRows == {[f \in Files |-> row] : row \in {NoRow, MCProblem}}

VARIABLE part

bothVars == <<part, mediaVars, walksVars>>

NoSample == CHOOSE s \in MCSamples : s.size = 6

BothInit ==
  \/ /\ part = "index"
     /\ Init
     /\ sample = NoSample /\ sight = [len |-> 6, more |-> FALSE, tail |-> NoTail] /\ parse = NoParse
  \/ /\ part = "parsers"
     /\ WalksInit
     /\ disk = [f \in Files |-> 0] /\ edits = 0 /\ rows = [f \in Files |-> NoRow]
     /\ run = Resting /\ lister = NoLister
     /\ walk = NoWalk /\ walker = [w \in Walkers |-> Gone]
     /\ pool = NoPool /\ worker = [k \in Workers |-> GoneWorker]
     /\ writer = <<>>

BothNext ==
  \/ part = "index" /\ Next /\ UNCHANGED <<part, walksVars>>
  \/ part = "parsers" /\ WalksNext /\ UNCHANGED <<part, mediaVars>>

InIndex(action) == part = "index" /\ action /\ UNCHANGED <<part, walksVars>>

MediaSpec ==
  /\ BothInit /\ [][BothNext]_bothVars
  /\ WF_bothVars(InIndex(Main))
  /\ \A w \in Walkers : WF_bothVars(InIndex(Walker(w)))
  /\ \A k \in Workers : WF_bothVars(InIndex(Worker(k)))
=============================================================================
