-------------------------- MODULE InspectionMotion_proofs --------------------------
(***************************************************************************)
(* Who may move the robot, for a task manager that does not crash          *)
(* (MaxCrashes = 0: a goal or a velocity of a process that died is known   *)
(* to nobody; section 7 of the README has the trace).  Everything else is  *)
(* arbitrary: assets, risk samples, missions, latches and hold times.      *)
(*                                                                         *)
(* The inductive invariant has two halves.  MotionInv ties /cmd_vel to the *)
(* arbiter and the arbiter to the runtime; TokenInv follows the one goal   *)
(* from request to result.                                                 *)
(***************************************************************************)
EXTENDS InspectionSafety_proofs

(* While the robot moves the arbiter knows that it puts out a velocity and *)
(* its zero clock is not running.                                          *)
MotionInv ==
  /\ alive
  /\ arb.active = (lifecycle = "ACTIVE") /\ arb.mode = robotMode /\ arb.latched = latched
  /\ cmdVel = "moving" => arb.output /\ arb.zeroAge = NotZero
  /\ StoppedMeansZero

(* A goal is a request, or a response and a run at the executor, or a      *)
(* handle and a run, or a response or a handle and a result.               *)
TokenInv ==
  /\ ~(sendFuture /\ handle)
  /\ goalReqs = {} \/ \E g \in Goals : goalReqs = {g}
  /\ goalReqs # {} => sendFuture /\ goalResp = "none" /\ phase = "idle" /\ result = NoResult
  /\ goalResp # "none" => sendFuture
  /\ goalResp = "rejected" => phase = "idle" /\ result = NoResult
  /\ phase # "idle" => (handle \/ goalResp = "accepted") /\ result = NoResult
  /\ result # NoResult => handle \/ goalResp = "accepted"
  /\ robotMode = "MANUAL" => ~InFlight
(* With no crash there is one client, and it runs.                         *)
LEMMA OneClient ==
  ASSUME MaxCrashes = 0, TypeOK
  PROVE  /\ client = 0 /\ ~(client < MaxCrashes)
         /\ \A g \in goalReqs : g.client = client
         /\ goal.client = client
  BY DEF TypeOK, LinkTypeOK, ExecTypeOK, Goals, Clients

(***************************************************************************)
(* What a publication does to the velocity.                                *)
(***************************************************************************)
ArbiterInStep == arb.active = (lifecycle = "ACTIVE") /\ arb.mode = robotMode /\ arb.latched = latched

(* After a publication the arbiter holds what the runtime holds.           *)
LEMMA PublishInStep ==
  ASSUME RuntimeTypeOK', NEW a \in Arbiters(Missions), NEW velocity, Publish(a, velocity)
  PROVE  ArbiterInStep' /\ cmdVel' \in {"zero", velocity}
<1>1. mission' \in Missions /\ robotMode' \in RobotModes /\ latched' \in BOOLEAN
  BY ContentFields DEF RuntimeTypeOK
<1>2. DEFINE on == lifecycle' = "ACTIVE"
<1>3. on \in BOOLEAN
  OBVIOUS
<1>4. arb' = Refresh(a, mission', on, robotMode', latched') /\ cmdVel' \in {"zero", velocity}
  BY DEF Publish
<1>5. arb'.active = on /\ arb'.mode = robotMode' /\ arb'.latched = latched'
  <2> HIDE DEF on
  <2> QED BY <1>1, <1>3, <1>4, RefreshType
<1> QED BY <1>4, <1>5 DEF ArbiterInStep

(* A publication that leaves the robot moving found neither a latch nor    *)
(* another mode, and the run goes on.                                      *)
LEMMA PublishGoesOn ==
  ASSUME TypeOK, RuntimeTypeOK', MotionInv, Publish(arb, cmdVel), cmdVel' = "moving"
  PROVE  /\ cmdVel = "moving" /\ ~latched' /\ robotMode' = robotMode /\ lifecycle' = "ACTIVE"
         /\ arb'.output /\ arb'.zeroAge = NotZero /\ arb'.manualLeft = arb.manualLeft
<1>1. mission' \in Missions /\ robotMode' \in RobotModes /\ latched' \in BOOLEAN
  BY ContentFields DEF RuntimeTypeOK
<1>2. ~RefreshStops(arb, mission', lifecycle' = "ACTIVE", robotMode', latched')
  BY DEF Publish
<1>3. cmdVel = "moving" /\ arb.output /\ arb.zeroAge = NotZero
  BY <1>2 DEF Publish, MotionInv
<1>4. arb \in Arbiters(Missions) /\ arb.active
  BY <1>3 DEF TypeOK, MotionInv, StoppedMeansZero
<1>5. /\ ~latched' /\ robotMode' = arb.mode /\ (lifecycle' = "ACTIVE" \/ ~arb.active)
      /\ arb'.manualLeft = arb.manualLeft /\ arb'.zeroAge = arb.zeroAge /\ arb'.output
  <2> DEFINE on == lifecycle' = "ACTIVE"
  <2>1. on \in BOOLEAN
    OBVIOUS
  <2>2. arb' = Refresh(arb, mission', on, robotMode', latched')
    BY DEF Publish
  <2>3. /\ ~latched' /\ robotMode' = arb.mode /\ (on \/ ~arb.active)
        /\ arb'.manualLeft = arb.manualLeft /\ arb'.zeroAge = arb.zeroAge /\ arb'.output
    <3>1. ~RefreshStops(arb, mission', on, robotMode', latched')
      BY <1>2
    <3> HIDE DEF on
    <3> QED BY <1>1, <1>3, <1>4, <2>1, <2>2, <3>1, RefreshGoesOn
  <2> QED BY <2>3
<1> QED BY <1>3, <1>4, <1>5 DEF MotionInv

(* Publishing zero leaves context and mode of the arbiter alone.           *)
LEMMA HaltedFields ==
  ASSUME TypeOK, MotionInv
  PROVE  /\ Halted \in Arbiters(Missions)
         /\ Halted.active = arb.active /\ Halted.mode = arb.mode /\ Halted.latched = arb.latched
  BY HaltedType, RecordPublishedType DEF Halted, TypeOK, Velocities

(* A handler that publishes the velocity as it is keeps MotionInv, if it   *)
(* ends the run whenever it takes the mission out of RUNNING.              *)
LEMMA MotionPublished ==
  ASSUME TypeOK, RuntimeTypeOK', MotionInv, Publish(arb, cmdVel), UNCHANGED alive,
         missionState = "RUNNING" => missionState' = "RUNNING" \/ lifecycle' # "ACTIVE"
  PROVE  MotionInv'
<1>1. ArbiterInStep' /\ cmdVel' \in {"zero", cmdVel}
  BY PublishInStep DEF TypeOK
<1>2. CASE cmdVel' # "moving"
  BY <1>1, <1>2 DEF MotionInv, ArbiterInStep, StoppedMeansZero
<1>3. CASE cmdVel' = "moving"
  BY <1>1, <1>3, PublishGoesOn DEF MotionInv, ArbiterInStep, StoppedMeansZero
<1> QED BY <1>2, <1>3

(* A handler that publishes zero keeps MotionInv whatever else it does.    *)
LEMMA MotionHalted ==
  ASSUME TypeOK, RuntimeTypeOK', MotionInv, Publish(Halted, "zero"), UNCHANGED alive
  PROVE  MotionInv'
<1>1. ArbiterInStep' /\ cmdVel' = "zero"
  BY HaltedFields, PublishInStep
<1> QED BY <1>1 DEF MotionInv, ArbiterInStep, StoppedMeansZero

(* The robot stands when the task manager starts.                          *)
LEMMA MotionInit == Init => MotionInv
<1> SUFFICES ASSUME Init PROVE MotionInv
  OBVIOUS
<1>1. 1 \in Missions
  BY LinkAssumption DEF Missions
<1>2. NewArbiter(1) \in Arbiters(Missions)
  BY <1>1, NewArbiterType
<1>3. arb.active = TRUE /\ arb.mode = "AUTONOMOUS" /\ arb.latched = FALSE
  <2> DEFINE on == TRUE
             off == FALSE
  <2>1. arb = Refresh(NewArbiter(1), 1, on, "AUTONOMOUS", off)
    BY DEF Init, ManagerInit
  <2>2. "AUTONOMOUS" \in RobotModes /\ on \in BOOLEAN /\ off \in BOOLEAN
    BY DEF RobotModes
  <2>3. arb.active = on /\ arb.mode = "AUTONOMOUS" /\ arb.latched = off
    <3> HIDE DEF on, off
    <3> QED BY <1>1, <1>2, <2>1, <2>2, RefreshType
  <2> QED BY <2>3
<1> QED BY <1>3 DEF Init, ManagerInit, MotionInv, StoppedMeansZero

(* Every step keeps MotionInv.                                             *)
LEMMA MotionStep ==
  ASSUME MaxCrashes = 0, TypeOK, TypeOK', MotionInv, [Next]_vars
  PROVE  MotionInv'
<1>1. RuntimeTypeOK' /\ arb \in Arbiters(Missions) /\ arb' \in Arbiters(Missions)
  BY DEF TypeOK, RuntimeTypeOK
<1>2. ASSUME UNCHANGED << alive, arb, cmdVel, lifecycle, robotMode, latched, missionState >>
      PROVE  MotionInv'
  BY <1>2 DEF MotionInv, StoppedMeansZero
<1>3. CASE UNCHANGED vars
  BY <1>2, <1>3 DEF vars, managerVars, runtimeVars, velocityVars, processVars
<1>4. CASE ExecNext /\ UNCHANGED managerVars
  BY <1>2, <1>4 DEF managerVars, runtimeVars, velocityVars, processVars
<1>5. CASE ManageStart
  <2>1. DEFINE start == Refresh(arb, mission', FALSE, robotMode', latched')
               stops == RefreshStops(arb, mission', FALSE, robotMode', latched')
  <2>2. mission' \in Missions /\ robotMode' \in RobotModes /\ latched' \in BOOLEAN
    BY <1>1, ContentFields DEF RuntimeTypeOK
  <2>3. start \in Arbiters(Missions)
    BY <1>1, <2>2, RefreshType
  <2>4. (IF stops THEN "zero" ELSE cmdVel) # "moving"
    <3> SUFFICES ASSUME ~stops, cmdVel = "moving" PROVE FALSE
      OBVIOUS
    <3>1. arb.output /\ arb.active
      BY DEF MotionInv, StoppedMeansZero
    <3> DEFINE off == FALSE
    <3>2. ~RefreshStops(arb, mission', off, robotMode', latched') /\ off \in BOOLEAN
      OBVIOUS
    <3>3. off \/ ~arb.active
      <4> HIDE DEF off
      <4> QED BY <1>1, <2>2, <3>1, <3>2, RefreshGoesOn
    <3> QED BY <3>1, <3>3
  <2>5. Publish(start, IF stops THEN "zero" ELSE cmdVel) /\ UNCHANGED alive
    BY <1>5 DEF ManageStart
  <2>6. ArbiterInStep' /\ cmdVel' # "moving"
    <3> HIDE DEF start, stops
    <3> QED BY <1>1, <2>3, <2>4, <2>5, PublishInStep
  <2> QED BY <2>5, <2>6 DEF MotionInv, ArbiterInStep, StoppedMeansZero
<1>6. CASE ManagePause \/ ManageStop
  BY <1>1, <1>6, MotionHalted DEF ManagePause, ManageStop, Halting
<1>7. CASE ManageResume
  BY <1>1, <1>7, MotionPublished DEF ManageResume
<1>8. CASE BarrierRefuses
  <2>1. /\ arb' = Halted /\ cmdVel' = "zero"
        /\ UNCHANGED << alive, lifecycle, robotMode, latched, missionState >>
    BY <1>8 DEF BarrierRefuses, runtimeVars, processVars
  <2> QED BY <2>1, HaltedFields DEF MotionInv, StoppedMeansZero
<1>9. CASE BarrierPasses
  BY <1>1, <1>9, MotionHalted DEF BarrierPasses
<1>10. ASSUME NEW target \in {"AUTONOMOUS", "MANUAL"}, SetRobotMode(target) PROVE MotionInv'
  BY <1>8, <1>9, <1>10 DEF SetRobotMode
<1>11. ASSUME NEW observed \in 1 .. MaxLatches, ResetStop(observed) PROVE MotionInv'
  BY <1>8, <1>9, <1>11 DEF ResetStop
<1>12. CASE EmergencyStop
  BY <1>1, <1>12, MotionHalted DEF EmergencyStop
<1>13. ASSUME NEW v \in Velocities, NEW d \in 1 .. ManualHold, OnManualVelocity(v, d)
       PROVE  MotionInv'
  <2>1. /\ arb' = AcceptManual(arb, v, d) /\ cmdVel' = v
        /\ UNCHANGED << alive, lifecycle, robotMode, latched, missionState >>
        /\ arb.active /\ arb.mode = "MANUAL" /\ ~arb.latched
    BY <1>13 DEF OnManualVelocity, velocityFrame, runtimeVars, processVars, ManualAccepted
  <2>2. /\ arb'.active = arb.active /\ arb'.mode = arb.mode /\ arb'.latched = arb.latched
        /\ arb'.manualLeft # NoDeadline
        /\ v = "moving" => arb'.output /\ arb'.zeroAge = NotZero
    BY <1>1, <2>1, AcceptedFields
  <2> QED BY <2>1, <2>2 DEF MotionInv, StoppedMeansZero
<1>14. ASSUME NEW scores \in RiskMessages, EmergencyRisk(scores) \/ NormalRisk(scores)
       PROVE  MotionInv'
  BY <1>1, <1>14, MotionPublished DEF EmergencyRisk, NormalRisk, RiskApplied
<1>15. CASE PublishTimer
  BY <1>1, <1>15, MotionPublished DEF PublishTimer, runtimeVars
<1>16. CASE CooldownEnds \/ ServerDiscovered \/ OnGoalResponse \/ OnCancelled
  BY <1>2, <1>16 DEF CooldownEnds, ServerDiscovered, OnGoalResponse, OnCancelled, runtimeVars,
                     velocityVars, processVars
<1>17. CASE OnResult
  <2>1. UNCHANGED << alive, robotMode, latched >>
    BY <1>17 DEF OnResult, ResultReplaced, ResultLatched, ResultApplied, ResultHandled
  <2>2. CASE UNCHANGED << missionState, lifecycle, velocityVars >>
    BY <1>2, <2>1, <2>2 DEF velocityVars
  <2>3. CASE CanFinish /\ FinishExecution(result.outcome) /\ Publish(arb, cmdVel)
    <3>1. missionState' = "RUNNING" \/ lifecycle' # "ACTIVE"
      BY <2>3 DEF CanFinish, FinishExecution, Finish
    <3> QED BY <1>1, <2>1, <2>3, <3>1, MotionPublished
  <2> QED BY <1>17, <2>2, <2>3 DEF OnResult, ResultReplaced, ResultLatched, ResultApplied
<1>18. ASSUME NEW f \in feedback, OnFeedback(f) PROVE MotionInv'
  <2>1. CASE TaskBecomesActive(f)
    BY <1>1, <1>18, <2>1, MotionPublished DEF OnFeedback
  <2>2. CASE ~TaskBecomesActive(f)
    BY <1>2, <1>18, <2>2 DEF OnFeedback, velocityVars
  <2> QED BY <2>1, <2>2
<1>19. CASE OnNavVelocity
  <2>1. UNCHANGED << alive, lifecycle, robotMode, latched, missionState >>
    BY <1>19 DEF OnNavVelocity, velocityFrame, runtimeVars, processVars
  <2>2. CASE missionState = "RUNNING" /\ NavAccepted(arb)
    <3>1. arb' = AcceptNav(arb, navVel) /\ cmdVel' = navVel /\ navVel \in Velocities
      BY <1>19, <2>2 DEF OnNavVelocity, TypeOK, LinkTypeOK, Velocities
    <3>2. arb.active /\ arb.mode = "AUTONOMOUS" /\ ~arb.latched
      BY <2>2 DEF NavAccepted
    <3> QED BY <1>1, <2>1, <2>2, <3>1, <3>2, AcceptedFields, OneTick DEF MotionInv, StoppedMeansZero
  <2>3. CASE ~(missionState = "RUNNING" /\ NavAccepted(arb))
    BY <1>2, <1>19, <2>1, <2>3 DEF OnNavVelocity, velocityVars
  <2> QED BY <2>2, <2>3
<1>20. CASE VelocityTick
  <2>1. arb' = TickStop(arb) /\ cmdVel' = "zero" /\ UNCHANGED << alive, lifecycle, robotMode, latched >>
    BY <1>20 DEF VelocityTick, velocityFrame, runtimeVars, processVars
  <2> QED BY <1>1, <2>1, TickStopFields DEF MotionInv, StoppedMeansZero
<1>21. CASE Elapse
  <2>1. /\ arb' = Elapsed(arb) /\ cmdVel' = cmdVel
        /\ UNCHANGED << alive, lifecycle, robotMode, latched, missionState >>
    BY <1>21 DEF Elapse, velocityFrame, runtimeVars, processVars
  <2> QED BY <1>1, <2>1, ElapsedKeeps DEF MotionInv, StoppedMeansZero
<1>22. ~(Crash \/ CrashInStart \/ RevisionConflict)
  BY OneClient DEF Crash, CrashInStart, RevisionConflict, MayDie
<1>23. ~(RestartSame \/ RestartOther)
  BY DEF RestartSame, RestartOther, Restart, MotionInv
<1> QED
  BY <1>3, <1>4, <1>5, <1>6, <1>7, <1>10, <1>11, <1>12, <1>13, <1>14, <1>15, <1>16, <1>17,
     <1>18, <1>19, <1>20, <1>21, <1>22, <1>23
     DEF Next, ManagerNext, OperatorCommand, RiskUpdate

(* MotionInv is an invariant without crashes.                              *)
LEMMA MotionAlways == MaxCrashes = 0 => (Spec => []MotionInv)
<1> SUFFICES ASSUME MaxCrashes = 0 PROVE Spec => []MotionInv
  OBVIOUS
<1>1. TypeOK /\ TypeOK' /\ MotionInv /\ [Next]_vars => MotionInv'
  BY MotionStep
<1> QED BY <1>1, MotionInit, TypeCorrect, PTL DEF Spec

(* The robot moves only in AUTONOMOUS with a running mission, or in MANUAL *)
(* with an armed deadline, never under a latch or outside an active run.   *)
THEOREM StoppedMeansZeroAlways == MaxCrashes = 0 => (Spec => []StoppedMeansZero)
<1>1. MotionInv => StoppedMeansZero
  BY DEF MotionInv
<1> QED BY <1>1, MotionAlways, PTL
(***************************************************************************)
(* The one goal: with one client, the goal of that client is the only one. *)
(***************************************************************************)
LEMMA TokenIsOwn ==
  ASSUME MaxCrashes = 0, TypeOK, OwnInv
  PROVE  TokenInv
<1>1. /\ \A g \in goalReqs : g.client = client
      /\ goal.client = client /\ goalReqs \subseteq Goals
  BY OneClient DEF TypeOK, LinkTypeOK
<1>2. goalReqs = {} \/ \E g \in Goals : goalReqs = {g}
  <2>1. \A g, h \in goalReqs : g = h
    BY <1>1 DEF OwnInv
  <2> QED BY <1>1, <2>1
<1>3. (Asking <=> goalReqs # {}) /\ (Working <=> phase # "idle")
  BY <1>1 DEF Asking, Working
<1> QED BY <1>2, <1>3 DEF OwnInv, TokenInv

(* TokenInv is an invariant without crashes.                               *)
LEMMA TokenAlways == MaxCrashes = 0 => (Spec => []TokenInv)
<1> SUFFICES ASSUME MaxCrashes = 0 PROVE Spec => []TokenInv
  OBVIOUS
<1>1. TypeOK /\ OwnInv => TokenInv
  BY TokenIsOwn
<1> QED BY <1>1, OwnAlways, TypeCorrect, PTL

(* At most one goal exists, and the task manager knows of it.              *)
THEOREM OneGoalAlways == MaxCrashes = 0 => (Spec => []OneGoal)
<1>1. TokenInv => OneGoal
  <2> SUFFICES ASSUME TokenInv PROVE OneGoal
    OBVIOUS
  <2>1. Cardinality({}) = 0 /\ \A g \in Goals : Cardinality({g}) = 1
    BY FS_EmptySet, FS_Singleton
  <2>2. Cardinality(goalReqs) \in {0, 1} /\ (goalReqs = {} => Cardinality(goalReqs) = 0)
    BY <2>1 DEF TokenInv
  <2> QED BY <2>2 DEF TokenInv, OneGoal, InFlight
<1> QED BY <1>1, TokenAlways, PTL

(* In MANUAL no goal is left in either node or between them.               *)
THEOREM ManualHasNoGoalAlways == MaxCrashes = 0 => (Spec => []ManualHasNoGoal)
<1>1. TokenInv => ManualHasNoGoal
  BY DEF TokenInv, ManualHasNoGoal, InFlight
<1> QED BY <1>1, TokenAlways, PTL
(***************************************************************************)
(* The refinement of MotionAuthority.                                      *)
(***************************************************************************)
Moving    == cmdVel = "moving"
Executing == InFlight \/ phase # "idle" \/ goalReqs # {}

(* The initial states map to initial states.                               *)
LEMMA AuthorityStart == Init => Authority!AuthorityInit
  BY DEF Init, LinkInit, ManagerInit, ExecInit, InFlight, Authority!AuthorityInit, Authority!AtRest

(* A handler that leaves the mode alone, does not start the robot and      *)
(* starts a goal in AUTONOMOUS only is an abstract step or a stutter.      *)
LEMMA AuthorityExecutes ==
  ASSUME UNCHANGED robotMode, Moving' => Moving,
         Executing' => Executing \/ robotMode = "AUTONOMOUS"
  PROVE  Authority!AuthorityNext
  BY DEF Moving, Executing, Authority!AuthorityNext, Authority!Executes

(* The authority passes on between two states of rest.                     *)
LEMMA AuthorityPasses ==
  ASSUME ~Moving, ~Executing, ~Moving',
         \/ robotMode \in {"ESTOP", "AUTONOMOUS"} /\ robotMode' = "MANUAL" /\ ~Executing'
         \/ robotMode = "MANUAL" /\ robotMode' = "AUTONOMOUS"
  PROVE  Authority!AuthorityNext
<1>1. (cmdVel = "moving")' = (cmdVel = "moving")
  BY DEF Moving
<1>2. Authority!AtRest
  BY DEF Moving, Executing, Authority!AtRest
<1>3. CASE robotMode \in {"ESTOP", "AUTONOMOUS"} /\ robotMode' = "MANUAL" /\ ~Executing'
  <2>1. (InFlight \/ phase # "idle" \/ goalReqs # {})' = (InFlight \/ phase # "idle" \/ goalReqs # {})
    BY <1>3 DEF Executing
  <2> QED BY <1>1, <1>2, <1>3, <2>1 DEF Authority!AuthorityNext, Authority!PassedOn
<1>4. CASE robotMode = "MANUAL" /\ robotMode' = "AUTONOMOUS"
  BY <1>1, <1>2, <1>4 DEF Authority!AuthorityNext, Authority!PassedOn
<1> QED BY <1>3, <1>4

(* A dispatch starts a goal in AUTONOMOUS only.                            *)
LEMMA AuthorityDispatches ==
  ASSUME NEW known, NEW held, Dispatch(known, held), UNCHANGED << robotMode, phase >>,
         handle' => handle
  PROVE  Executing' => Executing \/ robotMode = "AUTONOMOUS"
  BY DEF Dispatch, Runnable, Executing, InFlight

(* A step of the executor maps to Executes.                                *)
LEMMA AuthorityExecutor ==
  ASSUME ExecNext, UNCHANGED managerVars
  PROVE  Authority!AuthorityNext
<1>1. UNCHANGED << robotMode, cmdVel, sendFuture, handle >>
  BY DEF managerVars, runtimeVars, velocityVars, clientVars
<1>2. Executing' => Executing
  <2>1. ASSUME NEW g \in goalReqs, ReceiveGoal(g) PROVE Executing' => Executing
    BY <2>1 DEF Executing
  <2>2. CASE BeginExecution \/ NavAnswers
    BY <2>2 DEF BeginExecution, NavAnswers, Executing
  <2>3. ASSUME NEW nav, NavFinishes(nav) PROVE Executing' => Executing
    BY <2>3 DEF NavFinishes, Executing
  <2>4. ASSUME NEW v, NavDrives(v) PROVE Executing' => Executing
    BY <2>4 DEF NavDrives, Executing, execVars
  <2>5. ASSUME NEW c, ReceiveCancel(c) PROVE Executing' => Executing
    BY <1>1, <2>5 DEF ReceiveCancel, Executing, InFlight
  <2>6. CASE ReceiveStaleCancel \/ OnMissionState
    BY <1>1, <2>6 DEF ReceiveStaleCancel, OnMissionState, Executing, InFlight, execVars, linkVars
  <2> QED BY <2>1, <2>2, <2>3, <2>4, <2>5, <2>6 DEF ExecNext
<1> QED BY <1>1, <1>2, AuthorityExecutes DEF Moving

(* What a mode change and a reset do once their barrier is passed: the     *)
(* robot was at rest, and it is.                                           *)
LEMMA BarrierAtRest ==
  ASSUME TypeOK, MotionInv, TokenInv, BarrierPasses
  PROVE  ~Moving /\ ~Executing /\ cmdVel' = "zero"
<1>1. ~BarrierPending
  BY DEF BarrierPasses
<1>2. arb.zeroAge # NotZero
  BY <1>1, BarrierNeedsZero DEF BarrierPending, Halted, TypeOK
<1>3. ~Moving
  BY <1>2 DEF MotionInv, Moving
<1>4. ~InFlight /\ phase = "idle" /\ goalReqs = {}
  BY <1>1 DEF BarrierPending, TokenInv, InFlight
<1>5. cmdVel' = "zero"
  BY DEF BarrierPasses, Publish
<1> QED BY <1>3, <1>4, <1>5 DEF Executing

(* Every step maps to a step of MotionAuthority or to a stutter.           *)
LEMMA AuthorityStep ==
  ASSUME MaxCrashes = 0, TypeOK, TypeOK', MotionInv, TokenInv, ModeLatch, [Next]_vars
  PROVE  [Authority!AuthorityNext]_(Authority!authorityVars)
<1>1. ASSUME UNCHANGED << robotMode, cmdVel, sendFuture, handle, phase, goalReqs >>
      PROVE  Authority!AuthorityNext
  <2>1. (Moving' => Moving) /\ (Executing' => Executing)
    BY <1>1 DEF Moving, Executing, InFlight
  <2> QED BY <1>1, <2>1, AuthorityExecutes
<1>2. CASE UNCHANGED vars
  BY <1>1, <1>2 DEF vars, managerVars, runtimeVars, velocityVars, clientVars, linkVars, execVars
<1>3. CASE ExecNext /\ UNCHANGED managerVars
  BY <1>3, AuthorityExecutor
<1>4. CASE ManagerNext /\ UNCHANGED execVars
  <2>1. UNCHANGED phase
    BY <1>4 DEF execVars
  <2>2. ASSUME NEW a, NEW velocity \in {"zero", cmdVel}, Publish(a, velocity) PROVE Moving' => Moving
    BY <2>2 DEF Publish, Moving
  <2>3. CASE ManageStart
    <3>1. UNCHANGED << robotMode, handle >> /\ Dispatch(FALSE, handle)
      BY <2>3 DEF ManageStart, Start
    <3>2. Executing' => Executing \/ robotMode = "AUTONOMOUS"
      BY <2>1, <3>1, AuthorityDispatches
    <3>3. Moving' => Moving
      BY <2>2, <2>3 DEF ManageStart, Start
    <3> QED BY <3>1, <3>2, <3>3, AuthorityExecutes
  <2>4. CASE ManagePause \/ ManageStop
    <3>1. UNCHANGED << robotMode, handle >> /\ Dispatch(FALSE, handle)
      BY <2>4 DEF ManagePause, ManageStop, Halting
    <3>2. Executing' => Executing \/ robotMode = "AUTONOMOUS"
      BY <2>1, <3>1, AuthorityDispatches
    <3>3. Moving' => Moving
      BY <2>2, <2>4 DEF ManagePause, ManageStop, Halting
    <3> QED BY <3>1, <3>2, <3>3, AuthorityExecutes
  <2>5. CASE ManageResume
    <3>1. UNCHANGED << robotMode, handle >> /\ Dispatch(FALSE, handle)
      BY <2>5 DEF ManageResume
    <3>2. Executing' => Executing \/ robotMode = "AUTONOMOUS"
      BY <2>1, <3>1, AuthorityDispatches
    <3>3. Moving' => Moving
      BY <2>2, <2>5 DEF ManageResume
    <3> QED BY <3>1, <3>2, <3>3, AuthorityExecutes
  <2>6. ASSUME BarrierRefuses PROVE Authority!AuthorityNext
    <3>1. /\ UNCHANGED << robotMode, sendFuture, handle, goalReqs >> /\ cmdVel' = "zero"
      BY <2>6 DEF BarrierRefuses, runtimeVars
    <3> QED BY <2>1, <3>1, AuthorityExecutes DEF Moving, Executing, InFlight
  <2>7. ASSUME NEW target \in {"AUTONOMOUS", "MANUAL"}, SetRobotMode(target)
        PROVE  Authority!AuthorityNext
    <3>1. CASE robotMode' = target /\ UNCHANGED latched /\ BarrierPasses
      <4>1. ~Moving /\ ~Executing /\ ~Moving'
        BY <3>1, BarrierAtRest DEF Moving
      <4>2. target # robotMode /\ robotMode \in RobotModes /\ robotMode # "ESTOP"
        BY <2>7, ContentFields DEF SetRobotMode, TypeOK, ModeLatch
      <4>3. target = "MANUAL" => ~Executing'
        BY <2>1, <3>1, <4>1 DEF BarrierPasses, Dispatch, Runnable, Executing, InFlight
      <4>4. CASE target = "MANUAL"
        <5>1. robotMode \in {"ESTOP", "AUTONOMOUS"} /\ robotMode' = "MANUAL"
          BY <3>1, <4>2, <4>4 DEF RobotModes
        <5> QED BY ONLY <4>1, <4>3, <4>4, <5>1, AuthorityPasses
      <4>5. CASE target = "AUTONOMOUS"
        <5>1. robotMode = "MANUAL" /\ robotMode' = "AUTONOMOUS"
          BY <3>1, <4>2, <4>5 DEF RobotModes
        <5> QED BY ONLY <4>1, <5>1, AuthorityPasses
      <4> QED BY <4>4, <4>5
    <3> QED BY <2>6, <2>7, <3>1 DEF SetRobotMode
  <2>8. ASSUME NEW observed \in 1 .. MaxLatches, ResetStop(observed) PROVE Authority!AuthorityNext
    <3>1. CASE latched' = FALSE /\ robotMode' = "MANUAL" /\ BarrierPasses
      <4>1. ~Moving /\ ~Executing /\ ~Moving'
        BY <3>1, BarrierAtRest DEF Moving
      <4>2. robotMode = "ESTOP"
        BY <2>8 DEF ResetStop, ModeLatch
      <4>3. ~Executing'
        BY <2>1, <3>1, <4>1 DEF BarrierPasses, Dispatch, Runnable, Executing, InFlight
      <4>4. robotMode \in {"ESTOP", "AUTONOMOUS"} /\ robotMode' = "MANUAL"
        BY <3>1, <4>2
      <4> QED BY ONLY <4>1, <4>3, <4>4, AuthorityPasses
    <3> QED BY <2>6, <2>8, <3>1 DEF ResetStop
  <2>9. CASE EmergencyStop
    <3>1. /\ robotMode' = "ESTOP" /\ cmdVel' = "zero"
          /\ UNCHANGED << sendFuture, handle, goalReqs >>
      BY <2>9 DEF EmergencyStop, NoDispatch, Publish
    <3> QED BY <2>1, <3>1 DEF Authority!AuthorityNext, Authority!EmergencyStopped, InFlight
  <2>10. ASSUME NEW v \in Velocities, NEW d \in 1 .. ManualHold, OnManualVelocity(v, d)
         PROVE  Authority!AuthorityNext
    <3>1. /\ robotMode = "MANUAL"
          /\ UNCHANGED << robotMode, sendFuture, handle, goalReqs >> /\ cmdVel' \in Velocities
      BY <2>10 DEF OnManualVelocity, ManualAccepted, MotionInv, velocityFrame, runtimeVars, clientVars
    <3> QED BY <2>1, <3>1 DEF Authority!AuthorityNext, Authority!Moves, InFlight, Velocities
  <2>11. CASE RiskUpdate
    <3>1. PICK replace : RiskApplied(replace)
      BY <2>11 DEF RiskUpdate, EmergencyRisk, NormalRisk
    <3>2. UNCHANGED << robotMode, handle >> /\ Publish(arb, cmdVel)
      BY <3>1 DEF RiskApplied
    <3>3. \/ UNCHANGED << goalReqs, sendFuture >>
          \/ Dispatch(FALSE, handle)
      BY <3>1 DEF RiskApplied, NoDispatch
    <3>4. Executing' => Executing \/ robotMode = "AUTONOMOUS"
      BY <2>1, <3>2, <3>3, AuthorityDispatches DEF Executing, InFlight
    <3> QED BY <2>2, <3>2, <3>4, AuthorityExecutes
  <2>12. CASE PublishTimer
    <3>1. /\ UNCHANGED << robotMode, handle >> /\ Publish(arb, cmdVel)
          /\ Dispatch(dispatched, handle)
      BY <2>12 DEF PublishTimer, runtimeVars
    <3> QED BY <2>1, <2>2, <3>1, AuthorityExecutes, AuthorityDispatches
  <2>13. CASE CooldownEnds \/ ServerDiscovered \/ OnCancelled
    BY <1>1, <2>1, <2>13 DEF CooldownEnds, ServerDiscovered, OnCancelled, runtimeVars, clientVars,
                             linkVars, velocityVars
  <2>14. CASE OnGoalResponse
    <3>1. sendFuture /\ UNCHANGED << robotMode, cmdVel >>
      BY <2>14 DEF OnGoalResponse, runtimeVars, velocityVars
    <3> QED BY <3>1, AuthorityExecutes DEF Moving, Executing, InFlight
  <2>15. CASE OnResult
    <3>1. handle /\ UNCHANGED robotMode
      BY <2>15 DEF OnResult, ResultReplaced, ResultLatched, ResultApplied, ResultHandled
    <3>2. UNCHANGED cmdVel \/ Publish(arb, cmdVel)
      BY <2>15 DEF OnResult, ResultReplaced, ResultLatched, ResultApplied, velocityVars
    <3>3. Moving' => Moving
      BY <2>2, <3>2 DEF Moving
    <3> QED BY <3>1, <3>3, AuthorityExecutes DEF Executing, InFlight
  <2>16. ASSUME NEW f \in feedback, OnFeedback(f) PROVE Authority!AuthorityNext
    <3>1. UNCHANGED << robotMode, handle, sendFuture, goalReqs >>
      BY <2>16 DEF OnFeedback
    <3>2. UNCHANGED cmdVel \/ Publish(arb, cmdVel)
      BY <2>16 DEF OnFeedback, velocityVars
    <3>3. Moving' => Moving
      BY <2>2, <3>2 DEF Moving
    <3> QED BY <2>1, <3>1, <3>3, AuthorityExecutes DEF Executing, InFlight
  <2>17. CASE OnNavVelocity
    <3>1. /\ UNCHANGED << robotMode, handle, sendFuture, goalReqs >>
          /\ navVel \in Velocities
      BY <2>17 DEF OnNavVelocity, velocityFrame, runtimeVars, clientVars, TypeOK, LinkTypeOK, Velocities
    <3>2. CASE missionState = "RUNNING" /\ NavAccepted(arb)
      <4>1. cmdVel' = navVel /\ robotMode = "AUTONOMOUS"
        BY <2>17, <3>2 DEF OnNavVelocity, NavAccepted, MotionInv
      <4> QED BY <2>1, <3>1, <4>1 DEF Authority!AuthorityNext, Authority!Moves, InFlight
    <3>3. CASE ~(missionState = "RUNNING" /\ NavAccepted(arb))
      BY <1>1, <2>1, <2>17, <3>1, <3>3 DEF OnNavVelocity, velocityVars
    <3> QED BY <3>2, <3>3
  <2>18. CASE VelocityTick \/ Elapse
    <3>1. /\ UNCHANGED << robotMode, handle, sendFuture, goalReqs >>
          /\ cmdVel' \in {"zero", cmdVel}
      BY <2>18 DEF VelocityTick, Elapse, velocityFrame, runtimeVars, clientVars
    <3> QED BY <2>1, <3>1, AuthorityExecutes DEF Moving, Executing, InFlight
  <2>19. ~(Crash \/ CrashInStart \/ RevisionConflict)
    BY OneClient DEF Crash, CrashInStart, RevisionConflict, MayDie
  <2>20. ~(RestartSame \/ RestartOther)
    BY DEF RestartSame, RestartOther, Restart, MotionInv
  <2>21. CASE OperatorCommand
    BY <2>3, <2>4, <2>5, <2>7, <2>8, <2>9, <2>10, <2>21 DEF OperatorCommand
  <2> QED
    BY <1>4, <2>11, <2>12, <2>13, <2>14, <2>15, <2>16, <2>17, <2>18, <2>19, <2>20, <2>21
       DEF ManagerNext
<1> QED BY <1>2, <1>3, <1>4 DEF Next

(* The two nodes implement MotionAuthority: a stop is immediate, and the   *)
(* authority to move the robot passes on only with the robot at rest and   *)
(* no goal left.                                                           *)
THEOREM KeepsAuthorityAlways == MaxCrashes = 0 => (Spec => KeepsAuthority)
<1> SUFFICES ASSUME MaxCrashes = 0 PROVE Spec => KeepsAuthority
  OBVIOUS
<1>1. TypeOK /\ TypeOK' /\ MotionInv /\ TokenInv /\ ModeLatch /\ [Next]_vars
        => [Authority!AuthorityNext]_(Authority!authorityVars)
  BY AuthorityStep
<1> QED
  BY <1>1, AuthorityStart, TypeCorrect, MotionAlways, TokenAlways, ModeLatchAlways, PTL
     DEF Spec, KeepsAuthority, Authority!AuthoritySpec

(***************************************************************************)
(* What MotionAuthority promises, as consequences of its specification.    *)
(***************************************************************************)

(* Under an emergency stop nobody moves the robot, and in MANUAL no goal   *)
(* exists: the promises of ESTOP and MANUAL in docs/INTERFACES.md follow   *)
(* from how the authority is handed over.                                  *)
THEOREM AuthorityPromises ==
  Authority!AuthoritySpec => [](Authority!NobodyMovesStopped /\ Authority!ManualIsExclusive)
<1> DEFINE Promised == Authority!NobodyMovesStopped /\ Authority!ManualIsExclusive
<1> USE DEF Authority!NobodyMovesStopped, Authority!ManualIsExclusive, InFlight
<1>1. Authority!AuthorityInit => Promised
  BY DEF Authority!AuthorityInit, Authority!AtRest
<1>2. Promised /\ [Authority!AuthorityNext]_(Authority!authorityVars) => Promised'
  <2> SUFFICES ASSUME Promised, [Authority!AuthorityNext]_(Authority!authorityVars) PROVE Promised'
    OBVIOUS
  <2>1. CASE Authority!EmergencyStopped
    BY <2>1 DEF Authority!EmergencyStopped
  <2>2. CASE Authority!PassedOn
    BY <2>2 DEF Authority!PassedOn, Authority!AtRest
  <2>3. CASE Authority!Moves
    BY <2>3 DEF Authority!Moves
  <2>4. CASE Authority!Executes
    BY <2>4 DEF Authority!Executes
  <2>5. CASE UNCHANGED Authority!authorityVars
    BY <2>5 DEF Authority!authorityVars
  <2> QED BY <2>1, <2>2, <2>3, <2>4, <2>5 DEF Authority!AuthorityNext
<1> QED BY <1>1, <1>2, PTL DEF Authority!AuthoritySpec
=============================================================================
