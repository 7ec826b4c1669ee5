-------------------------- MODULE InspectionExecutor --------------------------
(***************************************************************************)
(* The node inspection_executor (inspection_executor.py): an action server *)
(* that takes one goal at a time, reports the task it works on, has Nav2   *)
(* drive there and returns what came of it.  The task manager sends goals  *)
(* of one task.  The node runs on one thread: what one coroutine does      *)
(* between two awaits is one action, and a callback can come in at every   *)
(* await.                                                                  *)
(*                                                                         *)
(* Nav2 is external: it accepts or refuses a goal, publishes velocities    *)
(* while it drives and ends a goal in success or failure at any time, in   *)
(* cancellation only once it was asked to.                                 *)
(***************************************************************************)
EXTENDS ActionLink

CONSTANTS
  ContinueOnUnreachable,   (* parameter continue_on_unreachable            *)
  NavVelocities            (* what Nav2 may put on /cmd_vel_nav            *)

ASSUME ExecutorAssumption ==
  /\ ContinueOnUnreachable \in BOOLEAN
  /\ NavVelocities \subseteq {"zero", "moving"}

VARIABLES
  phase,          (* where _execute_action is; "idle": not _goal_reserved  *)
  goal,           (* the goal it executes                                  *)
  cancelRequested,(* goal_handle.is_cancel_requested                       *)
  navCancel,      (* Nav2 was asked to cancel its goal                     *)
  execLatched     (* _emergency_stop_latched: the executor's view          *)

execVars == << phase, goal, cancelRequested, navCancel, execLatched >>

Phases == {"idle", "accepted", "requesting", "navigating"}

ExecTypeOK ==
  /\ phase \in Phases
  /\ goal \in Goals
  /\ cancelRequested \in BOOLEAN
  /\ navCancel \in BOOLEAN
  /\ execLatched \in BOOLEAN

(* What goal holds while the executor has none. *)
IdleGoal == [task |-> RouteTask(Registry[1]), mission |-> 1, client |-> 0]

ExecInit ==
  /\ phase = "idle"
  /\ goal = IdleGoal
  /\ cancelRequested = FALSE /\ navCancel = FALSE /\ execLatched = FALSE

(* _accept_goal, and the response the action server sends. *)
ReceiveGoal(g) ==
  /\ g \in goalReqs
  /\ goalReqs' = goalReqs \ {g}
  /\ \/ /\ phase = "idle" /\ ~execLatched
        /\ phase' = "accepted" /\ goal' = g
        /\ cancelRequested' = FALSE /\ navCancel' = FALSE
        /\ goalResp' = IF g.client = client THEN "accepted" ELSE goalResp
     \/ /\ phase # "idle" \/ execLatched
        /\ goalResp' = IF g.client = client THEN "rejected" ELSE goalResp
        /\ UNCHANGED << phase, goal, cancelRequested, navCancel >>
  /\ UNCHANGED << execLatched, cancels, staleCancel, cancelAck, feedback, result,
                  snapshot, navVel, client >>

(***************************************************************************)
(* The coroutine returns: the latch is reported before a cancellation, and *)
(* either before what Nav2 answered.                                       *)
(***************************************************************************)
Outcome(nav) ==
  CASE execLatched                      -> "STOPPED"
    [] ~execLatched /\ cancelRequested  -> "CANCELLED"
    [] ~execLatched /\ ~cancelRequested -> 
         IF nav = "FAILED" /\ ContinueOnUnreachable THEN "SKIPPED" ELSE nav

Return(nav) ==
  /\ phase' = "idle"
  /\ result' = IF goal.client = client
               THEN [task |-> goal.task, mission |-> goal.mission, outcome |-> Outcome(nav)]
               ELSE result
  /\ goal' = IdleGoal /\ cancelRequested' = FALSE
  /\ UNCHANGED execLatched

Interrupted == execLatched \/ cancelRequested

Progress ==
  feedback' = IF goal.client = client
              THEN feedback \cup {[task |-> goal.task, mission |-> goal.mission]}
              ELSE feedback

(* _execute_action up to its first await. *)
BeginExecution ==
  /\ phase = "accepted"
  /\ \/ /\ Interrupted
        /\ Return("CANCELLED")
        /\ UNCHANGED << feedback, navCancel >>
     \/ /\ ~Interrupted                 \* wait_for_server times out
        /\ Progress
        /\ Return("FAILED")
        /\ UNCHANGED navCancel
     \/ /\ ~Interrupted
        /\ Progress
        /\ phase' = "requesting"
        /\ UNCHANGED << goal, cancelRequested, navCancel, execLatched, result >>
  /\ UNCHANGED << goalReqs, goalResp, cancels, staleCancel, cancelAck, snapshot, navVel, client >>

(* Nav2 answers the goal; a stop that came meanwhile is passed on now. *)
NavAnswers ==
  /\ phase = "requesting"
  /\ \/ /\ phase' = "navigating"
        /\ navCancel' = Interrupted
        /\ UNCHANGED << goal, cancelRequested, execLatched, result >>
     \/ Return("FAILED") /\ UNCHANGED navCancel
  /\ UNCHANGED << goalReqs, goalResp, cancels, staleCancel, cancelAck, feedback, snapshot, navVel, client >>

NavFinishes(nav) ==
  /\ phase = "navigating"
  /\ nav = "CANCELLED" => navCancel
  /\ Return(nav)
  /\ navCancel' = FALSE
  /\ UNCHANGED << goalReqs, goalResp, cancels, staleCancel, cancelAck, feedback, snapshot, navVel, client >>

NavCancelled == NavFinishes("CANCELLED")

NavDrives(v) ==
  /\ phase = "navigating"
  /\ navVel' = v
  /\ UNCHANGED << execVars, goalReqs, goalResp, cancels, staleCancel, cancelAck, feedback,
                  result, snapshot, client >>

(* _cancel_goal: accepted as long as the goal it names runs. *)
ReceiveCancel(c) ==
  LET hit == phase # "idle" /\ goal.client = c
  IN  /\ c \in cancels
      /\ cancels' = cancels \ {c}
      /\ cancelRequested' = (cancelRequested \/ hit)
      /\ navCancel' = (navCancel \/ (hit /\ phase = "navigating"))
      /\ cancelAck' = (cancelAck \/ c = client)
      /\ UNCHANGED << phase, goal, execLatched, goalReqs, goalResp, staleCancel, feedback,
                      result, snapshot, navVel, client >>

(* A cancel request that arrives after its goal was forgotten. *)
ReceiveStaleCancel ==
  /\ staleCancel
  /\ staleCancel' = FALSE /\ cancelAck' = TRUE
  /\ UNCHANGED << execVars, goalReqs, goalResp, cancels, feedback, result, snapshot, navVel,
                  client >>

(* Mutant of OnMissionState: the stop is not passed on to Nav2. *)
MissionStateNotPassedOn ==
  /\ execLatched # snapshot
  /\ execLatched' = snapshot
  /\ UNCHANGED << phase, goal, cancelRequested, navCancel, linkVars >>

(***************************************************************************)
(* _on_mission_state.  One writer whose revisions never decrease feeds a   *)
(* topic of depth one: the sample delivered is the latest.                 *)
(***************************************************************************)
OnMissionState ==
  /\ execLatched # snapshot
  /\ execLatched' = snapshot
  /\ navCancel' = (navCancel \/ (snapshot /\ phase = "navigating"))
  /\ UNCHANGED << phase, goal, cancelRequested, linkVars >>

ExecNext ==
  \/ \E g \in goalReqs : ReceiveGoal(g)
  \/ BeginExecution
  \/ NavAnswers
  \/ \E nav \in {"SUCCEEDED", "FAILED", "CANCELLED"} : NavFinishes(nav)
  \/ \E v \in NavVelocities : NavDrives(v)
  \/ \E c \in cancels : ReceiveCancel(c)
  \/ ReceiveStaleCancel
  \/ OnMissionState
=============================================================================
