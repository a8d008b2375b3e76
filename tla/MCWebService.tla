---------------------------- MODULE MCWebService ----------------------------
(***************************************************************************)
(* The requests and the maintenance controller of the web service.  They   *)
(* share no state, so that each is checked with the other one at rest:     *)
(* three searches, or three chat operations, or two browsers that start    *)
(* and pause three runs of a task.                                         *)
(***************************************************************************)
EXTENDS WebRequests, MaintenanceController

CONSTANTS c1, c2, s1, u1, u2, r1, r2, r3

MCClients == {c1, c2}
MCTraffic == {{s1, u1, u2}, {r1, r2, r3}, {}}

serviceVars == <<webVars, controllerVars>>

ServiceInit == WebInit /\ ControllerInit

NoTraffic == \A r \in Requests : request[r] = "answered" /\ (r \in Chats => job[r] = "none")

ServiceNext ==
  \/ WebNext /\ UNCHANGED controllerVars
  \/ NoTraffic /\ ControllerNext /\ UNCHANGED webVars

ServiceSpec ==
  ServiceInit /\ [][ServiceNext]_serviceVars /\ WebFairness /\ ControllerFairness
=============================================================================
