------------------------------ MODULE TaskManager ------------------------------
(***************************************************************************)
(* The node task_manager (mission_node.py): MissionRuntime with its        *)
(* MissionEngine, the snapshot store, the velocity arbiter and the client  *)
(* of the inspection executor.  The node spins on one thread, so a handler *)
(* is one action; it may die between two handlers, or inside a start.      *)
(*                                                                         *)
(* Revisions.  Every handler that changes the runtime adds one to          *)
(* state_revision before it publishes, so "the dispatched signature equals *)
(* the current one" is a Boolean that the next revision resets, and the    *)
(* row of the store is the content saved at the current revision.          *)
(***************************************************************************)
EXTENDS ActionLink, VelocityArbiter

CONSTANTS
  MaxLatches,        (* bound: emergency stops latched per mission         *)
  RiskMessages,      (* the /risk/assets samples: asset -> score           *)
  Commands,          (* the operator commands a history may use            *)
  Recovery           (* a restart may be given the stored run_id and       *)
                     (* mission_id; the launch files give neither both     *)

AllCommands == {"start", "pause", "resume", "stop", "mode", "estop", "reset", "manual"}

ASSUME ManagerAssumption ==
  /\ MaxLatches \in Nat
  /\ RiskMessages \subseteq [Assets -> Nat]
  /\ Commands \subseteq AllCommands
  /\ Recovery \in BOOLEAN

VARIABLES
  \* MissionRuntime and MissionEngine
  mission,       (* run_id and mission_id: new together at every start     *)
  missionState,
  lifecycle,     (* of the RunContext                                      *)
  active,        (* active_task_id                                         *)
  completed,     (* completed_tasks                                        *)
  progress,      (* progress_0_1 as a fraction                             *)
  robotMode,
  latched,       (* emergency_stop_latched                                 *)
  latchRev,      (* latch_revision                                         *)
  order,         (* the queue: tasks in execution order                    *)
  taskState,
  prio,          (* computed_priority                                      *)
  cooling,       (* a normal replan was applied less than 10 s ago         *)
  \* TaskManagerNode
  sendFuture,    (* _inspection_send_future is not None                    *)
  handle,        (* _inspection_goal_handle is not None                    *)
  cancelFuture,  (* _inspection_cancel_future is not None                  *)
  dispatched,    (* _dispatched_execution_signature is the current one     *)
  replacement,   (* _replacement_requested                                 *)
  barrier,       (* _motion_barrier_requested                              *)
  arb,           (* _velocity_arbiter                                      *)
  cmdVel,        (* the last velocity on /cmd_vel                          *)
  serverReady,   (* the action server has been discovered                  *)
  saved,         (* the store's latest row                                 *)
  alive,         (* the process runs                                       *)
  \* history
  usedRevisions  (* every latch_revision a latch was given                *)

runtimeVars == << mission, missionState, lifecycle, active, completed, progress, robotMode,
                  latched, latchRev, order, taskState, prio, cooling, usedRevisions >>
clientVars  == << sendFuture, handle, cancelFuture, dispatched >>
flagVars    == << replacement, barrier >>
velocityVars == << arb, cmdVel >>
processVars == << serverReady, saved, alive >>
managerVars == << runtimeVars, clientVars, flagVars, velocityVars, processVars >>

MissionStates == {"READY", "RUNNING", "PAUSED", "SUCCEEDED", "FAILED", "STOPPED"}
Ended         == {"SUCCEEDED", "FAILED", "STOPPED"}
Lifecycles    == {"STARTING", "ACTIVE", "ENDED"}

(* persistence_record *)
Content ==
  [ mission |-> mission, missionState |-> missionState, lifecycle |-> lifecycle,
    active |-> active, completed |-> completed, progress |-> progress,
    robotMode |-> robotMode, latched |-> latched, latchRev |-> latchRev,
    order |-> order, taskState |-> taskState, prio |-> prio ]

(***************************************************************************)
(* Parts of the handlers.                                                  *)
(***************************************************************************)
InFlight == sendFuture \/ handle

(* _cancel_execution_goal, called when wanted *)
CancelGoal(wanted) ==
  IF wanted /\ handle /\ ~cancelFuture
  THEN cancels' = cancels \cup {client} /\ cancelFuture' = TRUE
  ELSE UNCHANGED << cancels, cancelFuture >>

Runnable ==
  ~latched /\ robotMode = "AUTONOMOUS" /\ missionState = "RUNNING" /\ lifecycle = "ACTIVE"

(* Mutant of Dispatch: a request under way is not waited for. *)
DispatchOverSend(known, held) ==
  \/ \E t \in Tasks :
       /\ Runnable' /\ ~known /\ serverReady /\ ~held
       /\ IsNextQueued(t, order', taskState')
       /\ goalReqs' = goalReqs \cup {[task |-> t, mission |-> mission', client |-> client]}
       /\ sendFuture' = TRUE /\ dispatched' = TRUE
  \/ /\ \/ ~Runnable' \/ known \/ ~serverReady \/ held
        \/ \A t \in Tasks : ~IsNextQueued(t, order', taskState')
     /\ dispatched' = known
     /\ UNCHANGED << goalReqs, sendFuture >>

(***************************************************************************)
(* _dispatch_execution_snapshot on the state the handler leaves: known     *)
(* tells whether the signature is that of a goal already sent, held        *)
(* whether a goal handle is kept.                                          *)
(***************************************************************************)
Dispatch(known, held) ==
  \/ \E t \in Tasks :
       /\ Runnable' /\ ~known /\ serverReady /\ ~sendFuture /\ ~held
       /\ IsNextQueued(t, order', taskState')
       /\ goalReqs' = goalReqs \cup {[task |-> t, mission |-> mission', client |-> client]}
       /\ sendFuture' = TRUE /\ dispatched' = TRUE
  \/ /\ \/ ~Runnable' \/ known \/ ~serverReady \/ sendFuture \/ held
        \/ \A t \in Tasks : ~IsNextQueued(t, order', taskState')
     /\ dispatched' = known
     /\ UNCHANGED << goalReqs, sendFuture >>

NoDispatch(known) == dispatched' = known /\ UNCHANGED << goalReqs, sendFuture >>

(* Mutant of Publish: only state transitions are saved. *)
PublishUnsaved(a, velocity) ==
  /\ arb' = Refresh(a, mission', lifecycle' = "ACTIVE", robotMode', latched')
  /\ cmdVel' = IF RefreshStops(a, mission', lifecycle' = "ACTIVE", robotMode', latched')
               THEN "zero" ELSE velocity
  /\ saved' = IF lifecycle' = lifecycle /\ missionState' = missionState THEN saved ELSE Content'
  /\ snapshot' = latched'

(***************************************************************************)
(* _publish without its dispatch: the arbiter a is refreshed, the record   *)
(* is saved and the topics carry the new state.                            *)
(***************************************************************************)
Publish(a, velocity) ==
  /\ arb' = Refresh(a, mission', lifecycle' = "ACTIVE", robotMode', latched')
  /\ cmdVel' = IF RefreshStops(a, mission', lifecycle' = "ACTIVE", robotMode', latched')
               THEN "zero" ELSE velocity
  /\ saved' = Content'
  /\ snapshot' = latched'

Halted == RecordPublished(arb, "zero")      \* _publish_velocity((0, 0, 0))

(***************************************************************************)
(* A sample of /risk/assets: MissionRuntime.apply_risks, then what         *)
(* _on_risk does when the execution has to be replaced.                    *)
(***************************************************************************)
RiskApplied(replace) ==
  /\ UNCHANGED << mission, missionState, lifecycle, completed, progress, robotMode, latched,
                  latchRev, usedRevisions, handle, barrier, serverReady, alive,
                  goalResp, staleCancel, cancelAck, feedback, result, navVel, client >>
  /\ IF replace /\ InFlight
     THEN replacement' = TRUE /\ NoDispatch(FALSE) /\ CancelGoal(TRUE)
     ELSE /\ UNCHANGED replacement
          /\ IF replace THEN Dispatch(FALSE, handle) /\ CancelGoal(~Runnable')
                        ELSE NoDispatch(FALSE) /\ UNCHANGED << cancels, cancelFuture >>
  /\ Publish(arb, cmdVel)

ActivePreserved == active' # NoTask /\ taskState'[active'] = "ACTIVE"

EmergencyRisk(scores) ==
  /\ alive /\ missionState \in {"RUNNING", "PAUSED"} /\ ~latched
  /\ \E a \in EmergencyAssets(scores) :
       LET t == EmergencyTask(a)
           preempted == active # NoTask /\ active # t
       IN  /\ IsFirstAsset(a, EmergencyAssets(scores))
           /\ prio' = [prio EXCEPT ![t] = ComputedPriority(t, scores[a])]
           /\ \E o \in Orders(ToSet(order) \cup {t}) :
                IsEmergencyOrder(order, o, t, prio') /\ order' = o
           /\ taskState' = IF preempted THEN Demoted(EmergencyQueued(t, taskState))
                           ELSE EmergencyQueued(t, taskState)
           /\ active' = IF preempted THEN NoTask ELSE active
  /\ UNCHANGED cooling
  /\ RiskApplied(~ActivePreserved)

NormalRisk(scores) ==
  /\ alive /\ missionState \in {"RUNNING", "PAUSED"} /\ ~latched
  /\ EmergencyAssets(scores) = {} /\ ~cooling
  /\ prio' = RiskPriorities(prio, taskState, scores)
  /\ \E o \in Orders(ToSet(order)) : IsReplan(order, o, taskState, prio') /\ order' = o
  /\ prio' # prio \/ order' # order
  /\ cooling' = TRUE
  /\ UNCHANGED << taskState, active >>
  /\ RiskApplied(~ActivePreserved)

CooldownEnds ==
  /\ cooling /\ cooling' = FALSE
  /\ UNCHANGED << mission, missionState, lifecycle, active, completed, progress, robotMode,
                  latched, latchRev, order, taskState, prio, usedRevisions, clientVars, flagVars,
                  velocityVars, processVars, linkVars >>

(***************************************************************************)
(* _manage_mission.  A refused request only publishes, as the timer does.  *)
(***************************************************************************)
FreshQueue(m) ==
  /\ mission' = m
  /\ order' = InitialOrder /\ taskState' = InitialState
  /\ prio' = [t \in Tasks |-> 0]
  /\ active' = NoTask /\ completed' = 0 /\ progress' = << 0, 1 >> /\ cooling' = FALSE

(* MissionRuntime.manage("start"): the new engine's latch revision is 0. *)
Start ==
  /\ alive /\ "start" \in Commands
  /\ missionState \in Ended /\ ~latched /\ mission < MaxMissions
  /\ FreshQueue(mission + 1)
  /\ latchRev' = 0
  /\ UNCHANGED << robotMode, latched, usedRevisions >>

(* The start published and activated, and published again. *)
ManageStart ==
  /\ Start
  /\ missionState' = "RUNNING" /\ lifecycle' = "ACTIVE"
  /\ LET starting == Refresh(arb, mission', FALSE, robotMode', latched')
         stops    == RefreshStops(arb, mission', FALSE, robotMode', latched')
     IN  Publish(starting, IF stops THEN "zero" ELSE cmdVel)
  /\ Dispatch(FALSE, handle) /\ CancelGoal(~Runnable')
  /\ UNCHANGED << handle, flagVars, serverReady, alive, goalResp, staleCancel, cancelAck,
                  feedback, result, navVel, client >>

(* pause and stop halt the robot before they publish. *)
Halting ==
  /\ UNCHANGED << mission, active, completed, progress, robotMode, latched, latchRev, usedRevisions,
                  order, taskState, prio, cooling, handle, barrier, serverReady, alive,
                  goalResp, staleCancel, cancelAck, feedback, result, navVel, client >>
  /\ replacement' = FALSE
  /\ Publish(Halted, "zero")
  /\ Dispatch(FALSE, handle) /\ CancelGoal(TRUE)

ManagePause ==
  /\ alive /\ "pause" \in Commands /\ missionState = "RUNNING"
  /\ missionState' = "PAUSED" /\ UNCHANGED lifecycle
  /\ Halting

ManageStop ==
  /\ alive /\ "stop" \in Commands /\ missionState \in {"RUNNING", "PAUSED"}
  /\ missionState' = "STOPPED" /\ lifecycle' = "ENDED"
  /\ Halting

ManageResume ==
  /\ UNCHANGED << mission, lifecycle, active, completed, progress, robotMode, latched, latchRev,
                  usedRevisions, order, taskState, prio, cooling, handle, flagVars, serverReady, alive,
                  goalResp, staleCancel, cancelAck, feedback, result, navVel, client >>
  /\ alive /\ "resume" \in Commands /\ missionState = "PAUSED" /\ ~latched
  /\ missionState' = "RUNNING"
  /\ Publish(arb, cmdVel)
  /\ Dispatch(FALSE, handle) /\ CancelGoal(~Runnable')

(***************************************************************************)
(* _arm_motion_safety_barrier, then _motion_safety_barrier_pending: the    *)
(* two handlers below go on only when nothing is in flight and zero        *)
(* velocity has been published for long enough.                            *)
(***************************************************************************)
(* Mutant of BarrierPending: a goal request under way is forgotten. *)
PendingWithoutSend == handle \/ cancelFuture \/ ~ZeroBarrierSatisfied(Halted)

(* Mutant of BarrierPending: zero velocity is not waited for. *)
PendingGoalOnly == InFlight \/ cancelFuture

BarrierPending == InFlight \/ cancelFuture \/ ~ZeroBarrierSatisfied(Halted)

BarrierRefuses ==
  /\ BarrierPending
  /\ barrier' = TRUE /\ replacement' = InFlight
  /\ CancelGoal(TRUE)
  /\ arb' = Halted /\ cmdVel' = "zero"
  /\ UNCHANGED << runtimeVars, sendFuture, handle, dispatched, processVars, goalReqs, goalResp,
                  staleCancel, cancelAck, feedback, result, snapshot, navVel, client >>

BarrierPasses ==
  /\ UNCHANGED << mission, missionState, lifecycle, active, completed, progress, latchRev,
                  usedRevisions, order, taskState, prio, cooling, handle, cancelFuture, serverReady,
                  alive, goalResp, cancels, staleCancel, cancelAck, feedback, result, navVel,
                  client >>
  /\ ~BarrierPending
  /\ barrier' = FALSE /\ replacement' = FALSE
  /\ Publish(Halted, "zero")
  /\ Dispatch(FALSE, handle)

(* _set_robot_mode, with the revisions it compares up to date. *)
SetRobotMode(target) ==
  /\ alive /\ "mode" \in Commands /\ ~latched
  /\ target # robotMode
  /\ target = "AUTONOMOUS" => missionState \in {"READY", "RUNNING", "PAUSED"}
  /\ \/ BarrierRefuses
     \/ robotMode' = target /\ UNCHANGED latched /\ BarrierPasses

(* Mutant of ResetStop: the mode is left as it is. *)
ResetStopKeepingMode(observed) ==
  /\ alive /\ "reset" \in Commands
  /\ latched /\ observed = latchRev
  /\ \/ BarrierRefuses
     \/ latched' = FALSE /\ UNCHANGED robotMode /\ BarrierPasses

(* _reset_stop: observed is the latch revision on the operator's page. *)
ResetStop(observed) ==
  /\ alive /\ "reset" \in Commands
  /\ latched /\ observed = latchRev
  /\ \/ BarrierRefuses
     \/ latched' = FALSE /\ robotMode' = "MANUAL" /\ BarrierPasses

EmergencyStop ==
  /\ UNCHANGED << mission, missionState, lifecycle, active, completed, progress, order,
                  taskState, prio, cooling, handle, serverReady, alive, goalResp, staleCancel,
                  cancelAck, feedback, result, navVel, client >>
  /\ alive /\ "estop" \in Commands
  /\ latched \/ latchRev < MaxLatches
  /\ latched' = TRUE /\ robotMode' = "ESTOP"
  /\ latchRev' = IF latched THEN latchRev ELSE latchRev + 1
  /\ usedRevisions' = usedRevisions \cup {latchRev'}
  /\ replacement' = InFlight /\ barrier' = TRUE
  /\ CancelGoal(TRUE)
  /\ Publish(Halted, "zero")
  /\ NoDispatch(FALSE)                 \* _publish finds the latch

(***************************************************************************)
(* The 0.5 s timer.  The store refuses a row that differs from the one it  *)
(* holds for the same state revision; the exception ends the process.      *)
(***************************************************************************)
PublishTimer ==
  /\ UNCHANGED << handle, flagVars, serverReady, alive, goalResp, staleCancel, cancelAck,
                  feedback, result, navVel, client >>
  /\ alive /\ Content = saved
  /\ UNCHANGED runtimeVars
  /\ Publish(arb, cmdVel)
  /\ Dispatch(dispatched, handle) /\ CancelGoal(~Runnable')

Dies ==
  /\ alive' = FALSE
  /\ ClientDies
  /\ sendFuture' = FALSE /\ handle' = FALSE /\ cancelFuture' = FALSE /\ dispatched' = FALSE
  /\ replacement' = FALSE /\ barrier' = FALSE /\ serverReady' = FALSE
  /\ arb' = NewArbiter(mission)
  /\ UNCHANGED << runtimeVars, cmdVel >>

(* The bounds on crashes, and on missions for the restart that follows. *)
MayDie(m) == client < MaxCrashes /\ (Recovery \/ m < MaxMissions)

RevisionConflict ==
  /\ alive /\ Content # saved /\ MayDie(mission)
  /\ Dies /\ UNCHANGED saved

ServerDiscovered ==
  /\ alive /\ ~serverReady /\ serverReady' = TRUE
  /\ UNCHANGED << runtimeVars, clientVars, flagVars, velocityVars, saved, alive, linkVars >>

(***************************************************************************)
(* The client of the inspection executor.                                  *)
(***************************************************************************)
OnGoalResponse ==
  /\ alive /\ sendFuture /\ goalResp # "none"
  /\ goalResp' = "none" /\ sendFuture' = FALSE
  /\ IF goalResp = "accepted"
     THEN /\ handle' = TRUE /\ UNCHANGED dispatched
          /\ IF replacement /\ ~cancelFuture
             THEN cancels' = cancels \cup {client} /\ cancelFuture' = TRUE
             ELSE UNCHANGED << cancels, cancelFuture >>
     ELSE /\ dispatched' = FALSE
          /\ UNCHANGED << handle, cancels, cancelFuture >>
  /\ UNCHANGED << runtimeVars, flagVars, velocityVars, processVars, goalReqs, staleCancel,
                  cancelAck, feedback, result, snapshot, navVel, client >>

OnCancelled ==
  /\ alive /\ cancelAck
  /\ cancelAck' = FALSE /\ cancelFuture' = FALSE
  /\ UNCHANGED << runtimeVars, sendFuture, handle, dispatched, flagVars, velocityVars,
                  processVars, goalReqs, goalResp, cancels, staleCancel, feedback, result,
                  snapshot, navVel, client >>

(***************************************************************************)
(* _on_execution_feedback.  Emergency task ids are the same in every       *)
(* mission, route task ids are not.                                        *)
(***************************************************************************)
Known(f) == taskState[f.task] # "ABSENT" /\ (f.mission = mission \/ IsEmergency(f.task))

TaskBecomesActive(f) ==
  /\ missionState = "RUNNING" /\ Known(f)
  /\ \/ active # f.task \/ taskState[f.task] # "ACTIVE"
     \/ \E t \in Tasks \ {f.task} : taskState[t] = "ACTIVE"

OnFeedback(f) ==
  /\ UNCHANGED << mission, missionState, lifecycle, completed, robotMode, latched, latchRev,
                  usedRevisions, order, prio, cooling, sendFuture, handle, cancelFuture, flagVars,
                  serverReady, alive, goalReqs, goalResp, cancels, staleCancel, cancelAck,
                  result, navVel, client >>
  /\ alive /\ f \in feedback
  /\ feedback' = feedback \ {f}
  /\ IF TaskBecomesActive(f)
     THEN /\ taskState' = [Demoted(taskState) EXCEPT ![f.task] = "ACTIVE"]
          /\ active' = f.task
          /\ progress' = << completed, Len(order) >>
          /\ Publish(arb, cmdVel) /\ dispatched' = FALSE
     ELSE UNCHANGED << taskState, active, progress, velocityVars, saved, snapshot, dispatched >>

(***************************************************************************)
(* MissionRuntime.finish_execution: the outcome is that of the task which  *)
(* is active now.                                                          *)
(***************************************************************************)
TerminalState(outcome) ==
  IF outcome \in {"SUCCEEDED", "SKIPPED"} THEN outcome ELSE "FAILED"

(* Mutant of CanFinish: a result counts in any mission state. *)
CanFinishAnyState == active # NoTask

CanFinish == missionState = "RUNNING" /\ active # NoTask

In(states, state) == Cardinality({t \in Tasks : state[t] \in states})

Good(outcome) == outcome \in {"SUCCEEDED", "SKIPPED"}

(* Mutant of GoesOn: the outcome is not looked at. *)
GoesOnAfterFailure(outcome) == \E t \in Tasks : taskState'[t] = "QUEUED"

(* Mutant of GoesOn: the queue is not looked at. *)
NeverDone(outcome) == Good(outcome)

GoesOn(outcome) == Good(outcome) /\ \E t \in Tasks : taskState'[t] = "QUEUED"

Finish(task, outcome) ==
  /\ taskState' = [taskState EXCEPT ![task] = TerminalState(outcome)]
  /\ active' = NoTask
  /\ completed' = In({"SUCCEEDED"}, taskState')
  /\ progress' = << In({"SUCCEEDED", "SKIPPED"}, taskState'), Len(order) >>
  /\ IF GoesOn(outcome)
     THEN UNCHANGED << missionState, lifecycle >>
     ELSE /\ missionState' = IF Good(outcome) THEN "SUCCEEDED" ELSE "FAILED"
          /\ lifecycle' = "ENDED"

(* Mutant of FinishExecution: the head of the queue is finished. *)
FinishHead(outcome) == Finish(order[1], outcome)

FinishExecution(outcome) == Finish(active, outcome)

(* What every branch of _on_execution_result leaves behind. *)
ResultHandled ==
  /\ alive /\ handle /\ result # NoResult
  /\ Cardinality(feedback) <= MaxLate
  /\ result' = NoResult
  /\ cancelFuture' = FALSE /\ handle' = FALSE
  /\ cancels' = cancels \ {client}
  /\ staleCancel' = (staleCancel \/ client \in cancels)
  /\ UNCHANGED << mission, robotMode, latched, latchRev, usedRevisions, order, prio, cooling,
                  barrier, serverReady, alive, goalResp, cancelAck, feedback, navVel, client >>

(* _replacement_requested: the result is dropped. *)
ResultReplaced ==
  /\ replacement /\ replacement' = FALSE
  /\ ResultHandled
  /\ UNCHANGED << missionState, lifecycle, active, completed, progress, taskState,
                  velocityVars, saved, snapshot >>
  /\ IF barrier THEN NoDispatch(dispatched) ELSE Dispatch(dispatched, FALSE)

ResultLatched ==
  /\ ~replacement /\ latched
  /\ ResultHandled
  /\ UNCHANGED << missionState, lifecycle, active, completed, progress, taskState,
                  velocityVars, saved, snapshot, replacement >>
  /\ NoDispatch(dispatched)

ResultApplied ==
  /\ ~replacement /\ ~latched /\ result # NoResult
  /\ ResultHandled
  /\ UNCHANGED replacement
  /\ IF CanFinish
     THEN FinishExecution(result.outcome) /\ Publish(arb, cmdVel)
     ELSE UNCHANGED << missionState, lifecycle, active, completed, progress, taskState,
                       velocityVars, saved, snapshot >>
  /\ Dispatch(FALSE, FALSE)

OnResult == ResultReplaced \/ ResultLatched \/ ResultApplied

(***************************************************************************)
(* Velocities and time.                                                    *)
(***************************************************************************)
velocityFrame == << runtimeVars, clientVars, flagVars, processVars, goalReqs, goalResp, cancels,
                    staleCancel, cancelAck, feedback, result, snapshot, client >>

OnNavVelocity ==
  /\ alive /\ navVel # "none" /\ navVel' = "none"
  /\ IF missionState = "RUNNING" /\ NavAccepted(arb)
     THEN arb' = AcceptNav(arb, navVel) /\ cmdVel' = navVel
     ELSE UNCHANGED velocityVars
  /\ UNCHANGED velocityFrame

(* An accepted sample of /cmd_vel_manual; a refused one only has a status. *)
OnManualVelocity(v, duration) ==
  /\ alive /\ "manual" \in Commands
  /\ ManualAccepted(arb, mission)
  /\ arb' = AcceptManual(arb, v, duration) /\ cmdVel' = v
  /\ UNCHANGED << velocityFrame, navVel >>

VelocityTick ==
  /\ alive /\ DeadlinePassed(arb)
  /\ arb' = TickStop(arb) /\ cmdVel' = "zero"
  /\ UNCHANGED << velocityFrame, navVel >>

Elapse ==
  /\ Elapsed(arb) # arb /\ arb' = Elapsed(arb)
  /\ UNCHANGED << velocityFrame, cmdVel, navVel >>

(***************************************************************************)
(* The process dies: between two handlers, or in a start once the new      *)
(* mission's first record is saved.                                        *)
(***************************************************************************)
Crash ==
  /\ alive /\ MayDie(mission)
  /\ Dies /\ UNCHANGED saved

CrashInStart ==
  /\ MayDie(mission + 1)
  /\ Start
  /\ missionState' = "READY" /\ lifecycle' = "STARTING"
  /\ saved' = Content'
  /\ alive' = FALSE
  /\ ClientDies
  /\ sendFuture' = FALSE /\ handle' = FALSE /\ cancelFuture' = FALSE /\ dispatched' = FALSE
  /\ replacement' = FALSE /\ barrier' = FALSE /\ serverReady' = FALSE
  /\ arb' = NewArbiter(mission')
  /\ UNCHANGED cmdVel

(***************************************************************************)
(* load_or_create_runtime and the rest of __init__.  The same identity     *)
(* finds its record and goes on from it, with no task active; any other    *)
(* starts a mission of its own, which inherits mode and latch.             *)
(***************************************************************************)
Restart ==
  /\ ~alive /\ alive' = TRUE
  /\ UNCHANGED << clientVars, flagVars, cmdVel, serverReady, goalReqs, goalResp, cancels,
                  staleCancel, cancelAck, feedback, result, navVel, client >>

StartedArbiter ==
  Refresh(NewArbiter(mission'), mission', lifecycle' = "ACTIVE", robotMode', latched')

RestartSame ==
  /\ Recovery
  /\ IF saved.lifecycle = "STARTING"
     THEN /\ missionState' = "RUNNING" /\ lifecycle' = "ACTIVE"
     ELSE missionState' = saved.missionState /\ lifecycle' = saved.lifecycle
  /\ mission' = saved.mission /\ order' = saved.order /\ prio' = saved.prio
  /\ taskState' = Demoted(saved.taskState)
  /\ active' = NoTask
  /\ completed' = saved.completed /\ progress' = saved.progress /\ cooling' = FALSE
  /\ robotMode' = saved.robotMode /\ latched' = saved.latched /\ latchRev' = saved.latchRev
  /\ UNCHANGED usedRevisions
  /\ IF saved.lifecycle = "STARTING"
     THEN saved' = Content' /\ snapshot' = latched'
     ELSE UNCHANGED << saved, snapshot >>
  /\ arb' = StartedArbiter
  /\ Restart

(* Mutant of InheritSafety: a new mission is not latched. *)
InheritModeOnly ==
  robotMode' = saved.robotMode /\ latched' = FALSE /\ latchRev' = 0

(* What a mission takes over from the one in the store. *)
InheritSafety ==
  /\ latched' = saved.latched
  /\ robotMode' = IF saved.latched THEN "ESTOP" ELSE saved.robotMode
  /\ latchRev' = IF saved.latched THEN saved.latchRev ELSE 0

(* It stores two rows, an idle one and the STARTING one, before it is      *)
(* ACTIVE.  One action stands for them: a process that dies after the      *)
(* first leaves mode and latch as they were, for the next start to         *)
(* inherit; one that dies after the second is restored to what follows.    *)
RestartOther ==
  /\ mission < MaxMissions
  /\ FreshQueue(mission + 1)
  /\ missionState' = "RUNNING" /\ lifecycle' = "ACTIVE"
  /\ InheritSafety
  /\ UNCHANGED usedRevisions
  /\ saved' = Content' /\ snapshot' = latched'
  /\ arb' = StartedArbiter
  /\ Restart

ManagerInit ==
  /\ mission = 1 /\ missionState = "RUNNING" /\ lifecycle = "ACTIVE"
  /\ order = InitialOrder /\ taskState = InitialState /\ prio = [t \in Tasks |-> 0]
  /\ active = NoTask /\ completed = 0 /\ progress = << 0, 1 >> /\ cooling = FALSE
  /\ robotMode = "AUTONOMOUS" /\ latched = FALSE /\ latchRev = 0 /\ usedRevisions = {}
  /\ sendFuture = FALSE /\ handle = FALSE /\ cancelFuture = FALSE /\ dispatched = FALSE
  /\ replacement = FALSE /\ barrier = FALSE
  /\ arb = Refresh(NewArbiter(1), 1, TRUE, "AUTONOMOUS", FALSE) /\ cmdVel = "zero"
  /\ serverReady = FALSE /\ alive = TRUE
  /\ saved = Content

OperatorCommand ==
  \/ ManageStart \/ ManagePause \/ ManageResume \/ ManageStop
  \/ \E target \in {"AUTONOMOUS", "MANUAL"} : SetRobotMode(target)
  \/ EmergencyStop
  \/ \E observed \in 1 .. MaxLatches : ResetStop(observed)
  \/ \E v \in Velocities, d \in 1 .. ManualHold : OnManualVelocity(v, d)

RiskUpdate == \E scores \in RiskMessages : EmergencyRisk(scores) \/ NormalRisk(scores)

ManagerNext ==
  \/ OperatorCommand \/ RiskUpdate \/ CooldownEnds
  \/ PublishTimer \/ ServerDiscovered
  \/ OnGoalResponse \/ OnCancelled \/ OnResult
  \/ \E f \in feedback : OnFeedback(f)
  \/ OnNavVelocity \/ VelocityTick \/ Elapse
  \/ Crash \/ CrashInStart \/ RevisionConflict \/ RestartSame \/ RestartOther
=============================================================================
