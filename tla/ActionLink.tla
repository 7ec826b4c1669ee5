------------------------------ MODULE ActionLink ------------------------------
(***************************************************************************)
(* What is in flight between the task manager, the client of               *)
(* /mission/execute_inspection, and the inspection executor, its server,   *)
(* and on the topics between them: rclpy's action protocol and DDS, as the *)
(* two nodes use them.  Requests, responses, feedback and results travel   *)
(* on endpoints of their own, so nothing orders one kind after another.    *)
(* Feedback is a set: its topic delivers in order, but messages of two     *)
(* goals may be handled in either order here, which only adds behaviours.  *)
(***************************************************************************)
EXTENDS MissionQueue

CONSTANTS
  MaxMissions,       (* bound: missions one history may start              *)
  MaxCrashes,        (* bound: crashes of the task manager                 *)
  MaxLate,           (* bound: feedback that a result may overtake         *)
  NoResult

ASSUME LinkAssumption ==
  /\ MaxMissions \in Nat \ {0} /\ MaxCrashes \in Nat
  /\ MaxLate \in Nat

Missions == 1 .. MaxMissions
Clients  == 0 .. MaxCrashes       (* incarnations of the task manager      *)

Goals     == [task : Tasks, mission : Missions, client : Clients]
Feedbacks == [task : Tasks, mission : Missions]
Outcomes  == {"SUCCEEDED", "SKIPPED", "FAILED", "CANCELLED", "STOPPED"}
Results   == [task : Tasks, mission : Missions, outcome : Outcomes]

ASSUME NoResultAssumption == NoResult \notin Results

VARIABLES
  goalReqs,      (* goal requests not yet received by the executor         *)
  goalResp,      (* the response on its way back                           *)
  cancels,       (* the clients whose request to cancel their goal is under*)
                 (* way                                                    *)
  staleCancel,   (* the same for a goal whose result was handled already   *)
  cancelAck,     (* a cancel response on its way back                      *)
  feedback,      (* feedback messages on their way                         *)
  result,        (* the result of the goal that finished last              *)
  snapshot,      (* emergency_stop_latched in the last InspectionTaskArray *)
  navVel,        (* the /cmd_vel_nav sample not yet handled                *)
  client         (* the incarnation of the task manager that is connected  *)

linkVars ==
  << goalReqs, goalResp, cancels, staleCancel, cancelAck, feedback, result, snapshot,
     navVel, client >>

LinkTypeOK ==
  /\ goalReqs \in SUBSET Goals
  /\ goalResp \in {"none", "accepted", "rejected"}
  /\ cancels \in SUBSET Clients
  /\ staleCancel \in BOOLEAN
  /\ cancelAck \in BOOLEAN
  /\ feedback \in SUBSET Feedbacks
  /\ result \in Results \cup {NoResult}
  /\ snapshot \in BOOLEAN
  /\ navVel \in {"none", "zero", "moving"}
  /\ client \in Clients

LinkInit ==
  /\ goalReqs = {} /\ goalResp = "none" /\ cancels = {} /\ staleCancel = FALSE
  /\ cancelAck = FALSE /\ feedback = {} /\ result = NoResult /\ snapshot = FALSE /\ navVel = "none"
  /\ client = 0

(* The task manager process dies: what was addressed to it is lost.  What   *)
(* it sent has been handed to DDS and stays on its way, the last snapshot   *)
(* included, which is on a topic of depth one until the next one replaces   *)
(* it (a restart publishes one of the same latch at once).                  *)
ClientDies ==
  /\ client' = client + 1
  /\ goalResp' = "none" /\ staleCancel' = FALSE /\ cancelAck' = FALSE
  /\ feedback' = {} /\ result' = NoResult
  /\ UNCHANGED << goalReqs, cancels, snapshot, navVel >>
=============================================================================
