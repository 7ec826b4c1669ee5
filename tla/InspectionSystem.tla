--------------------------- MODULE InspectionSystem ---------------------------
(***************************************************************************)
(* The task manager and the inspection executor together, with the         *)
(* messages between them, Nav2 behind the executor and the operators and   *)
(* the risk node in front of the task manager.                             *)
(***************************************************************************)
EXTENDS TaskManager, InspectionExecutor

vars == << managerVars, execVars, linkVars >>

Init == LinkInit /\ ManagerInit /\ ExecInit

Next ==
  \/ ManagerNext /\ UNCHANGED execVars
  \/ ExecNext /\ UNCHANGED managerVars

Spec == Init /\ [][Next]_vars

(***************************************************************************)
(* Fairness.  Both nodes spin: a message that is there is delivered and a  *)
(* timer that is due fires.  Nav2 answers every goal and ends one it was   *)
(* asked to cancel; nothing is assumed of one it was not.  Operators, the  *)
(* risk node and crashes are free not to happen.                           *)
(***************************************************************************)
ManagerFairness ==
  /\ WF_vars(PublishTimer /\ UNCHANGED execVars)
  /\ WF_vars(ServerDiscovered /\ UNCHANGED execVars)
  /\ WF_vars(OnGoalResponse /\ UNCHANGED execVars)
  /\ WF_vars(OnCancelled /\ UNCHANGED execVars)
  /\ WF_vars(OnResult /\ UNCHANGED execVars)
  /\ WF_vars((\E f \in feedback : OnFeedback(f)) /\ UNCHANGED execVars)
  /\ WF_vars(OnNavVelocity /\ UNCHANGED execVars)
  /\ WF_vars(VelocityTick /\ UNCHANGED execVars)
  /\ WF_vars(Elapse /\ UNCHANGED execVars)

ExecutorFairness ==
  /\ WF_vars((\E g \in goalReqs : ReceiveGoal(g)) /\ UNCHANGED managerVars)
  /\ WF_vars(BeginExecution /\ UNCHANGED managerVars)
  /\ WF_vars(NavAnswers /\ UNCHANGED managerVars)
  /\ WF_vars(NavCancelled /\ UNCHANGED managerVars)
  /\ WF_vars((\E c \in cancels : ReceiveCancel(c)) /\ UNCHANGED managerVars)
  /\ WF_vars(ReceiveStaleCancel /\ UNCHANGED managerVars)
  /\ WF_vars(OnMissionState /\ UNCHANGED managerVars)

Fairness == ManagerFairness /\ ExecutorFairness

FairSpec == Spec /\ Fairness

Fractions == Nat \X Nat

Contents ==
  [ mission : Missions, missionState : MissionStates, lifecycle : Lifecycles,
    active : Tasks \cup {NoTask}, completed : Nat, progress : Fractions,
    robotMode : RobotModes, latched : BOOLEAN, latchRev : Nat,
    order : Seq(Tasks), taskState : [Tasks -> TaskStates], prio : [Tasks -> Int] ]

TypeOK ==
  /\ LinkTypeOK /\ ExecTypeOK
  /\ Content \in Contents
  /\ cooling \in BOOLEAN
  /\ sendFuture \in BOOLEAN /\ handle \in BOOLEAN /\ cancelFuture \in BOOLEAN
  /\ dispatched \in BOOLEAN /\ replacement \in BOOLEAN /\ barrier \in BOOLEAN
  /\ arb \in Arbiters(Missions) /\ cmdVel \in Velocities
  /\ serverReady \in BOOLEAN /\ alive \in BOOLEAN
  /\ saved \in Contents
  /\ usedRevisions \in SUBSET Nat

(***************************************************************************)
(* Safety.                                                                 *)
(***************************************************************************)

(* The robot moves only where a mode allows it: in AUTONOMOUS while the    *)
(* mission runs, in MANUAL while the deadline of the command that moves it *)
(* is armed, never under a latch or outside an active run (_publish with   *)
(* SafeVelocityArbiter; handlers publish zero before they return).         *)
StoppedMeansZero ==
  alive /\ cmdVel = "moving" =>
    /\ ~latched /\ lifecycle = "ACTIVE"
    /\ \/ robotMode = "AUTONOMOUS" /\ missionState = "RUNNING"
       \/ robotMode = "MANUAL" /\ arb.manualLeft # NoDeadline

(* In MANUAL no goal is left anywhere: not at the executor, not on its way *)
(* there, not in the bookkeeping of the task manager (_set_robot_mode and  *)
(* _reset_stop with their motion barrier).                                 *)
ManualHasNoGoal ==
  alive /\ robotMode = "MANUAL" => ~InFlight /\ phase = "idle" /\ goalReqs = {}

(* At most one goal exists, and the task manager knows of it: it never     *)
(* sends a goal that the executor has to refuse because it is busy         *)
(* (_dispatch_execution_snapshot, _on_execution_result).                   *)
OneGoal ==
  /\ ~(sendFuture /\ handle)
  /\ Cardinality(goalReqs) + (IF phase = "idle" THEN 0 ELSE 1) <= (IF InFlight THEN 1 ELSE 0)

(* active_task_id names the one task whose state is ACTIVE, whatever order *)
(* feedback, results and risk samples come in (apply_execution_feedback,   *)
(* finish_execution, apply_risks).                                         *)
ActiveConsistent ==
  \A t \in Tasks : taskState[t] = "ACTIVE" <=> active = t

(* ESTOP is the mode exactly while the latch is set, through starts,       *)
(* resets and restarts.                                                    *)
ModeLatch == robotMode = "ESTOP" <=> latched

(* A mission goes on only while no task has failed, and succeeds only with *)
(* every task of its queue done or skipped (finish_execution).             *)
EndedMeansDone ==
  /\ missionState \in {"RUNNING", "PAUSED"} => \A t \in Tasks : taskState[t] # "FAILED"
  /\ missionState = "SUCCEEDED" =>
       \A t \in Tasks : taskState[t] \in {"SUCCEEDED", "SKIPPED", "ABSENT"}

(* Between two handlers the store holds the runtime as it is: a crash      *)
(* forgets nothing that was announced, and no publication meets a row of   *)
(* its own revision with another content (_publish, MissionSnapshotStore). *)
SavedIsCurrent == alive => Content = saved

(***************************************************************************)
(* What a step may not do.                                                 *)
(***************************************************************************)

(* A task that was finished in a mission stays as it was finished, unless  *)
(* feedback of that very task is handled after the result was              *)
(* (_on_execution_feedback does not look whether the task is terminal).    *)
TerminalStays ==
  [][\A t \in Tasks : mission' = mission /\ taskState[t] \in Terminal
        => \/ taskState'[t] = taskState[t]
           \/ \E f \in feedback \ feedback' : f.task = t]_vars

(* No route task is sent while an emergency task waits in the queue.       *)
EmergencyFirst ==
  [][\A g \in goalReqs' \ goalReqs :
       ~IsEmergency(g.task) => \A a \in Assets : taskState'[EmergencyTask(a)] # "QUEUED"]_vars

(* A latch that was acknowledged before the task manager died is set when  *)
(* it is back, under the same identity or another.                         *)
LatchSurvives == [][latched /\ ~latched' => alive]_vars

(***************************************************************************)
(* The abstract view: who may move the robot.                              *)
(***************************************************************************)
Authority ==
  INSTANCE MotionAuthority WITH
    mode <- robotMode,
    moving <- (cmdVel = "moving"),
    executing <- (InFlight \/ phase # "idle" \/ goalReqs # {})

(* The two nodes together hand the authority over as MotionAuthority says: *)
(* a stop is immediate, and a mode changes or a latch is released only     *)
(* with the robot at rest and no goal left in either node or between them  *)
(* (_set_robot_mode, _reset_stop, _emergency_stop, _publish).              *)
KeepsAuthority == Authority!AuthoritySpec

(***************************************************************************)
(* Liveness.                                                               *)
(***************************************************************************)

(* After an emergency stop the executor comes to rest, with the task       *)
(* manager that sent its goal or without it.                               *)
StopHalts == latched ~> (phase = "idle" /\ goalReqs = {}) \/ ~latched

(* After an emergency stop, or after a first reset refused by a restarted  *)
(* task manager, a reset becomes possible: the goal is accounted for, its  *)
(* cancellation answered, and zero velocity held long enough.              *)
ResetBecomesPossible ==
  latched /\ barrier ~> ~latched \/ ~alive \/ ~BarrierPending

(* Nav2 ends every goal that it accepted. *)
NavSpec ==
  /\ FairSpec
  /\ WF_vars((\E nav \in {"SUCCEEDED", "FAILED"} : NavFinishes(nav)) /\ UNCHANGED managerVars)

(* A pause left the last task ACTIVE without a goal. *)
Stranded ==
  active # NoTask /\ ~InFlight /\ \A t \in Tasks : taskState[t] # "QUEUED"

(* A mission that stays runnable ends, or strands on a task that a pause   *)
(* left ACTIVE: only queued tasks are dispatched when it is resumed        *)
(* (_dispatch_execution_snapshot).                                         *)
MissionEnds == Runnable ~> ~Runnable \/ Stranded

(***************************************************************************)
(* Expected of this code by its documents, and not kept: TLC refutes each  *)
(* with the constants README.md names beside it.  No run checks them.      *)
(***************************************************************************)

(* An emergency takes the robot from the active task only to send it to an *)
(* emergency task that is still to be done.                                *)
PreemptionRunsEmergency ==
  [][\A t \in Tasks : alive /\ taskState[t] = "ACTIVE" /\ taskState'[t] = "QUEUED" /\ active' = NoTask
       => \E a \in Assets : taskState'[EmergencyTask(a)] = "QUEUED"]_vars

(* Every latch has a revision of its own, so that a reset read off an old  *)
(* page never matches a later latch.                                       *)
LatchRevisionFresh == [][~latched /\ latched' => latchRev' \notin usedRevisions]_vars

(* Nothing is dispatched between the refusal of a mode change or a reset   *)
(* whose barrier is pending and the request that passes it.                *)
NoDispatchUnderBarrier == [][barrier /\ barrier' => goalReqs' \subseteq goalReqs]_vars

(* A mission that may run has a goal on its way or at the executor, or     *)
(* gets one.                                                               *)
RunnableGetsGoal == Runnable ~> InFlight \/ ~Runnable
=============================================================================
