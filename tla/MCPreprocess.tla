---------------------------- MODULE MCPreprocess ----------------------------
(***************************************************************************)
(* One database of every form with three versions, the second without      *)
(* tables and of the same length as the first, and every combination of    *)
(* options, also of runs that leave the database out.                      *)
(***************************************************************************)
EXTENDS Preprocess

CONSTANT d1

MCDatabases == {d1}
MCKinds == [MCDatabases -> Forms]
MCSizes == <<1, 1, 2>>
MCRequests ==
  [dbs : SUBSET MCDatabases, prepare : BOOLEAN, rekey : BOOLEAN, force : BOOLEAN]
=============================================================================
