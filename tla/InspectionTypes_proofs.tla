-------------------------- MODULE InspectionTypes_proofs --------------------------
(***************************************************************************)
(* Type correctness of InspectionSystem, for every set of assets, every    *)
(* bound and every choice of risk samples and operator commands.  The      *)
(* type invariant is inductive by itself; it is split into the parts that  *)
(* different handlers touch.  The lemmas about the methods of the velocity *)
(* arbiter, which handlers call before they return, come first.            *)
(***************************************************************************)
EXTENDS InspectionSystem, FiniteSetTheorems, TLAPS

(***************************************************************************)
(* What the methods of SafeVelocityArbiter return, for every hold time.    *)
(***************************************************************************)

(* The two values that stand for "none" are in the ranges of their fields. *)
LEMMA Nones == NoDeadline \in -1 .. ManualHold /\ NotZero \in -1 .. ZeroHold
  BY HoldAssumption DEF NoDeadline, NotZero

(* Recording a velocity keeps the arbiter well formed and touches nothing  *)
(* but the time since zero (record_published).                             *)
LEMMA RecordPublishedType ==
  ASSUME NEW a \in Arbiters(Missions), NEW v \in Velocities
  PROVE  /\ RecordPublished(a, v) \in Arbiters(Missions)
         /\ RecordPublished(a, v).active = a.active
         /\ RecordPublished(a, v).mode = a.mode
         /\ RecordPublished(a, v).latched = a.latched
         /\ RecordPublished(a, v).output = a.output
         /\ RecordPublished(a, v).manualLeft = a.manualLeft
  BY HoldAssumption DEF RecordPublished, Arbiters, Velocities, NotZero

(* A stop forgets the manual deadline and the output (_stop).              *)
LEMMA StopType ==
  ASSUME NEW a \in Arbiters(Missions)
  PROVE  Stop(a) \in Arbiters(Missions)
  BY Nones DEF Stop, Arbiters

(* The head of _publish leaves an arbiter that holds the context and the   *)
(* safety state it was refreshed with.                                     *)
LEMMA RefreshType ==
  ASSUME NEW a \in Arbiters(Missions), NEW m \in Missions,
         NEW on \in BOOLEAN, NEW mode \in RobotModes, NEW stopped \in BOOLEAN
  PROVE  /\ Refresh(a, m, on, mode, stopped) \in Arbiters(Missions)
         /\ Refresh(a, m, on, mode, stopped).mission = m
         /\ Refresh(a, m, on, mode, stopped).active = on
         /\ Refresh(a, m, on, mode, stopped).mode = mode
         /\ Refresh(a, m, on, mode, stopped).latched = stopped
<1> DEFINE b == UpdateContext(a, m, on)
           c == UpdateMission(b, mode, stopped)
<1>1. b \in Arbiters(Missions) /\ b.mission = m /\ b.active = on
  BY Nones DEF UpdateContext, Stop, Arbiters
<1>2. /\ c \in Arbiters(Missions) /\ c.mission = m /\ c.active = on
      /\ c.mode = mode /\ c.latched = stopped
  <2> HIDE DEF b
  <2> QED BY <1>1, Nones DEF UpdateMission, Stop, Arbiters
<1>3. /\ RecordPublished(c, "zero") \in Arbiters(Missions)
      /\ RecordPublished(c, "zero").mission = c.mission
      /\ RecordPublished(c, "zero").active = c.active
      /\ RecordPublished(c, "zero").mode = c.mode
      /\ RecordPublished(c, "zero").latched = c.latched
  <2> HIDE DEF c
  <2> QED BY <1>2, HoldAssumption DEF RecordPublished, Arbiters, NotZero
<1>4. Refresh(a, m, on, mode, stopped) \in {c, RecordPublished(c, "zero")}
  BY DEF Refresh
<1> QED
  <2> HIDE DEF c
  <2> QED BY <1>2, <1>3, <1>4

(* A refresh that orders no stop, of an arbiter that puts out a velocity,  *)
(* found neither a latch nor another mode nor a context that became        *)
(* inactive, and forgot no deadline: what was being executed goes on.      *)
LEMMA RefreshGoesOn ==
  ASSUME NEW a \in Arbiters(Missions), NEW m \in Missions,
         NEW on \in BOOLEAN, NEW mode \in RobotModes, NEW stopped \in BOOLEAN,
         a.output, ~RefreshStops(a, m, on, mode, stopped)
  PROVE  /\ ~stopped /\ mode = a.mode /\ mode # "ESTOP"
         /\ on \/ ~a.active
         /\ Refresh(a, m, on, mode, stopped).manualLeft = a.manualLeft
         /\ Refresh(a, m, on, mode, stopped).zeroAge = a.zeroAge
         /\ Refresh(a, m, on, mode, stopped).output
<1> DEFINE b == UpdateContext(a, m, on)
<1>1. ~ContextStops(a, m, on)
  BY DEF RefreshStops, StopIsDue
<1>2. b = [a EXCEPT !.mission = m, !.active = on]
  BY <1>1 DEF UpdateContext
<1>3. /\ b \in Arbiters(Missions) /\ b.output /\ b.mode = a.mode /\ b.manualLeft = a.manualLeft
      /\ b.zeroAge = a.zeroAge
  BY <1>2 DEF Arbiters
<1>4. ~MissionStops(b, mode, stopped)
  BY <1>3 DEF RefreshStops, StopIsDue
<1>5. Refresh(a, m, on, mode, stopped) = [b EXCEPT !.mode = mode, !.latched = stopped]
  BY <1>4 DEF Refresh, UpdateMission
<1>6. on \/ ~a.active
  BY <1>1 DEF ContextStops
<1> QED
  <2> HIDE DEF b
  <2> QED BY <1>3, <1>4, <1>5, <1>6 DEF MissionStops, Arbiters

(* There is a duration for a manual command.                               *)
LEMMA OneTick == 1 \in 1 .. ManualHold
  BY HoldAssumption

(* Time, deadlines and accepted velocities keep the arbiter well formed.   *)
LEMMA StepTypes ==
  ASSUME NEW a \in Arbiters(Missions), NEW v \in Velocities,
         NEW d \in 1 .. ManualHold
  PROVE  /\ AcceptNav(a, v) \in Arbiters(Missions)
         /\ AcceptManual(a, v, d) \in Arbiters(Missions)
         /\ TickStop(a) \in Arbiters(Missions)
         /\ Elapsed(a) \in Arbiters(Missions)
<1>1. AcceptNav(a, v) \in Arbiters(Missions)
  <2>1. [a EXCEPT !.output = (v # "zero")] \in Arbiters(Missions)
    BY DEF Arbiters
  <2> QED BY <2>1, RecordPublishedType DEF AcceptNav
<1>2. AcceptManual(a, v, d) \in Arbiters(Missions)
  <2>1. d \in -1 .. ManualHold
    BY HoldAssumption
  <2>2. [a EXCEPT !.manualLeft = d, !.output = (v # "zero")] \in Arbiters(Missions)
    BY <2>1 DEF Arbiters
  <2> QED BY <2>2, RecordPublishedType DEF AcceptManual
<1>3. TickStop(a) \in Arbiters(Missions)
  BY StopType, RecordPublishedType, "zero" \in Velocities DEF TickStop, Velocities
<1>4. Elapsed(a) \in Arbiters(Missions)
  <2> DEFINE age  == IF a.zeroAge = NotZero \/ a.zeroAge >= ZeroHold THEN a.zeroAge ELSE a.zeroAge + 1
             left == IF a.manualLeft > 0 THEN a.manualLeft - 1 ELSE a.manualLeft
  <2>1. a.zeroAge \in -1 .. ZeroHold /\ a.manualLeft \in -1 .. ManualHold
    BY DEF Arbiters
  <2>2. age \in -1 .. ZeroHold /\ left \in -1 .. ManualHold
    BY <2>1, HoldAssumption DEF NotZero
  <2>3. Elapsed(a) = [a EXCEPT !.zeroAge = age, !.manualLeft = left]
    BY DEF Elapsed, Arbiters
  <2> QED
    <3> HIDE DEF age, left
    <3> QED BY <2>2, <2>3 DEF Arbiters
<1> QED BY <1>1, <1>2, <1>3, <1>4

(* Time runs down the deadline and up the zero clock, and changes nothing  *)
(* else: neither a deadline nor a clock starts by itself.                  *)
LEMMA ElapsedKeeps ==
  ASSUME NEW a \in Arbiters(Missions)
  PROVE  /\ Elapsed(a).active = a.active /\ Elapsed(a).mode = a.mode
         /\ Elapsed(a).latched = a.latched /\ Elapsed(a).output = a.output
         /\ a.zeroAge = NotZero => Elapsed(a).zeroAge = NotZero
         /\ a.manualLeft # NoDeadline => Elapsed(a).manualLeft # NoDeadline
  BY HoldAssumption DEF Elapsed, Arbiters, NotZero, NoDeadline

(* The zero barrier is satisfied by zero velocity that was published       *)
(* before: one published now does not satisfy it.                          *)
LEMMA BarrierNeedsZero ==
  ASSUME NEW a \in Arbiters(Missions),
         ZeroBarrierSatisfied(RecordPublished(a, "zero"))
  PROVE  a.zeroAge # NotZero
  BY HoldAssumption DEF ZeroBarrierSatisfied, RecordPublished, Arbiters, NotZero

(* An accepted velocity is what the arbiter puts out, and a velocity that  *)
(* moves the robot stops the zero clock.                                   *)
LEMMA AcceptedFields ==
  ASSUME NEW a \in Arbiters(Missions), NEW v \in Velocities,
         NEW d \in 1 .. ManualHold
  PROVE  /\ AcceptNav(a, v).active = a.active /\ AcceptNav(a, v).mode = a.mode
         /\ AcceptNav(a, v).latched = a.latched
         /\ v = "moving" => AcceptNav(a, v).output /\ AcceptNav(a, v).zeroAge = NotZero
         /\ AcceptManual(a, v, d).active = a.active /\ AcceptManual(a, v, d).mode = a.mode
         /\ AcceptManual(a, v, d).latched = a.latched
         /\ AcceptManual(a, v, d).manualLeft # NoDeadline
         /\ v = "moving" => AcceptManual(a, v, d).output /\ AcceptManual(a, v, d).zeroAge = NotZero
<1>1. /\ AcceptNav(a, v).active = a.active /\ AcceptNav(a, v).mode = a.mode
      /\ AcceptNav(a, v).latched = a.latched
      /\ AcceptManual(a, v, d).active = a.active /\ AcceptManual(a, v, d).mode = a.mode
      /\ AcceptManual(a, v, d).latched = a.latched
  BY DEF AcceptNav, AcceptManual, RecordPublished, Arbiters
<1>2. AcceptManual(a, v, d).manualLeft = d /\ d # NoDeadline
  BY HoldAssumption DEF AcceptManual, RecordPublished, Arbiters, NoDeadline
<1>3. ASSUME v = "moving"
      PROVE  /\ AcceptNav(a, v).output /\ AcceptNav(a, v).zeroAge = NotZero
             /\ AcceptManual(a, v, d).output /\ AcceptManual(a, v, d).zeroAge = NotZero
  BY <1>3 DEF AcceptNav, AcceptManual, RecordPublished, Arbiters
<1> QED BY <1>1, <1>2, <1>3

(* The deadline stops, and the context and the mode stay.                  *)
LEMMA TickStopFields ==
  ASSUME NEW a \in Arbiters(Missions)
  PROVE  /\ TickStop(a).active = a.active /\ TickStop(a).mode = a.mode
         /\ TickStop(a).latched = a.latched
  BY DEF TickStop, Stop, RecordPublished, Arbiters

(* An arbiter of a new process is well formed.                             *)
LEMMA NewArbiterType ==
  ASSUME NEW m \in Missions
  PROVE  NewArbiter(m) \in Arbiters(Missions)
  BY HoldAssumption DEF NewArbiter, Arbiters, RobotModes, NotZero, NoDeadline

(***************************************************************************)
(* The parts of the type invariant.                                        *)
(***************************************************************************)
RuntimeTypeOK ==
  /\ Content \in Contents
  /\ cooling \in BOOLEAN
  /\ usedRevisions \in SUBSET Nat

ClientTypeOK ==
  /\ sendFuture \in BOOLEAN /\ handle \in BOOLEAN /\ cancelFuture \in BOOLEAN
  /\ dispatched \in BOOLEAN /\ replacement \in BOOLEAN /\ barrier \in BOOLEAN

OutputTypeOK == arb \in Arbiters(Missions) /\ cmdVel \in Velocities /\ saved \in Contents

ProcessTypeOK == serverReady \in BOOLEAN /\ alive \in BOOLEAN

(* TypeOK is the conjunction of its parts, before a step and after it.     *)
LEMMA TypeParts ==
  /\ TypeOK => /\ LinkTypeOK /\ ExecTypeOK /\ RuntimeTypeOK
               /\ ClientTypeOK /\ OutputTypeOK /\ ProcessTypeOK
  /\ LinkTypeOK' /\ ExecTypeOK' /\ RuntimeTypeOK' /\ ClientTypeOK' /\ OutputTypeOK' /\ ProcessTypeOK'
       => TypeOK'
  BY DEF TypeOK, RuntimeTypeOK, ClientTypeOK, OutputTypeOK, ProcessTypeOK

(* The record of persistence_record has the types of its fields.           *)
LEMMA ContentFields ==
  /\ Content \in Contents <=>
       /\ mission \in Missions /\ missionState \in MissionStates /\ lifecycle \in Lifecycles
       /\ active \in Tasks \cup {NoTask} /\ completed \in Nat /\ progress \in Fractions
       /\ robotMode \in RobotModes /\ latched \in BOOLEAN /\ latchRev \in Nat
       /\ order \in Seq(Tasks) /\ taskState \in [Tasks -> TaskStates] /\ prio \in [Tasks -> Int]
  /\ Content' \in Contents <=>
       /\ mission' \in Missions /\ missionState' \in MissionStates /\ lifecycle' \in Lifecycles
       /\ active' \in Tasks \cup {NoTask} /\ completed' \in Nat /\ progress' \in Fractions
       /\ robotMode' \in RobotModes /\ latched' \in BOOLEAN /\ latchRev' \in Nat
       /\ order' \in Seq(Tasks) /\ taskState' \in [Tasks -> TaskStates] /\ prio' \in [Tasks -> Int]
  BY DEF Content, Contents

(* The arbiter after a published zero is well formed.                      *)
LEMMA HaltedType == TypeOK => Halted \in Arbiters(Missions)
  BY RecordPublishedType, "zero" \in Velocities DEF Halted, TypeOK, Velocities

(* What _publish assigns is well typed.                                    *)
LEMMA PublishType ==
  ASSUME NEW a \in Arbiters(Missions), NEW velocity \in Velocities,
         RuntimeTypeOK', Publish(a, velocity)
  PROVE  OutputTypeOK' /\ snapshot' \in BOOLEAN
<1>1. mission' \in Missions /\ robotMode' \in RobotModes /\ latched' \in BOOLEAN /\ Content' \in Contents
  BY ContentFields DEF RuntimeTypeOK
<1>2. arb' \in Arbiters(Missions)
  BY <1>1, RefreshType DEF Publish
<1> QED BY <1>1, <1>2 DEF Publish, OutputTypeOK, Velocities

(* What _dispatch_execution_snapshot assigns is well typed.                *)
LEMMA DispatchType ==
  ASSUME LinkTypeOK, ClientTypeOK, RuntimeTypeOK', NEW known \in BOOLEAN, NEW held,
         Dispatch(known, held)
  PROVE  goalReqs' \in SUBSET Goals /\ sendFuture' \in BOOLEAN /\ dispatched' \in BOOLEAN
<1>1. mission' \in Missions /\ order' \in Seq(Tasks)
  BY ContentFields DEF RuntimeTypeOK
<1>2. ASSUME NEW t \in Tasks
      PROVE  [task |-> t, mission |-> mission', client |-> client] \in Goals
  BY <1>1 DEF Goals, LinkTypeOK
<1> QED BY <1>2 DEF Dispatch, LinkTypeOK, ClientTypeOK

(* What _cancel_execution_goal assigns is well typed.                      *)
LEMMA CancelGoalType ==
  ASSUME LinkTypeOK, ClientTypeOK, NEW wanted, CancelGoal(wanted)
  PROVE  cancels' \in SUBSET Clients /\ cancelFuture' \in BOOLEAN
  BY DEF CancelGoal, LinkTypeOK, ClientTypeOK

(* The messages left when the client dies are well typed.                  *)
LEMMA ClientDiesType ==
  ASSUME LinkTypeOK, client < MaxCrashes, ClientDies
  PROVE  LinkTypeOK'
<1>1. client' \in Clients
  BY LinkAssumption DEF LinkTypeOK, ClientDies, Clients
<1> QED BY <1>1 DEF LinkTypeOK, ClientDies

(* The queue operators. *)
LEMMA TasksFinite == IsFiniteSet(Tasks)
<1>1. IsFiniteSet({"route", "emergency"})
  <2>1. {"route", "emergency"} = {"route"} \cup {"emergency"}
    OBVIOUS
  <2>2. IsFiniteSet({"route"}) /\ IsFiniteSet({"emergency"})
    BY FS_Singleton
  <2>3. IsFiniteSet({"route"} \cup {"emergency"})
    BY ONLY <2>2, FS_Union
  <2> QED BY <2>1, <2>3
<1> QED BY <1>1, QueueAssumption, FS_Product DEF Tasks

(* The number of tasks in given states is a natural number.                *)
LEMMA InNat == ASSUME NEW S, NEW state PROVE In(S, state) \in Nat
<1>1. {t \in Tasks : state[t] \in S} \subseteq Tasks
  OBVIOUS
<1> QED BY <1>1, TasksFinite, FS_Subset, FS_CardinalityType DEF In

(* What the queue operators return is well typed.                          *)
LEMMA QueueTypes ==
  /\ InitialOrder \in Seq(Tasks)
  /\ InitialState \in [Tasks -> TaskStates]
  /\ \A a \in Assets : RouteTask(a) \in Tasks /\ EmergencyTask(a) \in Tasks
  /\ \A state \in [Tasks -> TaskStates] : Demoted(state) \in [Tasks -> TaskStates]
  /\ \A state \in [Tasks -> TaskStates], t \in Tasks :
       EmergencyQueued(t, state) \in [Tasks -> TaskStates]
  /\ \A t \in Tasks, score \in Nat : ComputedPriority(t, score) \in Int
<1>1. InitialOrder \in Seq(Tasks)
  BY QueueAssumption DEF InitialOrder, RouteTask, Tasks
<1>2. InitialState \in [Tasks -> TaskStates]
  BY DEF InitialState, TaskStates
<1>3. \A a \in Assets : RouteTask(a) \in Tasks /\ EmergencyTask(a) \in Tasks
  BY DEF RouteTask, EmergencyTask, Tasks
<1>4. \A state \in [Tasks -> TaskStates] : Demoted(state) \in [Tasks -> TaskStates]
  BY DEF Demoted, TaskStates
<1>5. \A state \in [Tasks -> TaskStates], t \in Tasks :
        EmergencyQueued(t, state) \in [Tasks -> TaskStates]
  BY DEF EmergencyQueued, TaskStates
<1>6. \A t \in Tasks, score \in Nat : ComputedPriority(t, score) \in Int
  <2> SUFFICES ASSUME NEW t \in Tasks, NEW score \in Nat
               PROVE  ComputedPriority(t, score) \in Int
    OBVIOUS
  <2>1. AssetOf(t) \in Assets
    BY DEF AssetOf, Tasks
  <2>2. Detour[AssetOf(t)] \in Nat
    BY <2>1, QueueAssumption
  <2> QED BY <2>2 DEF ComputedPriority, EmergencyPriority, RoutePriority
<1> QED BY <1>1, <1>2, <1>3, <1>4, <1>5, <1>6
(* The registry is not empty.                                              *)
LEMMA FirstAsset == Registry[1] \in Assets
<1>1. Registry \in [1 .. Cardinality(Assets) -> Assets]
  BY QueueAssumption DEF SetToSeqs
<1>2. Cardinality(Assets) \in Nat /\ Cardinality(Assets) # 0
  BY QueueAssumption, FS_CardinalityType, FS_EmptySet
<1> QED BY <1>1, <1>2

(* The goal of an idle executor is a goal.                                 *)
LEMMA IdleGoalType == IdleGoal \in Goals
<1>1. 1 \in Missions /\ 0 \in Clients
  BY LinkAssumption DEF Missions, Clients
<1>2. RouteTask(Registry[1]) \in Tasks
  BY FirstAsset, QueueTypes
<1> QED BY <1>1, <1>2 DEF IdleGoal, Goals

(* The initial state is well typed.                                        *)
LEMMA TypeInit == Init => TypeOK
<1> SUFFICES ASSUME Init PROVE TypeOK
  OBVIOUS
<1>1. 1 \in Missions /\ 0 \in Clients
  BY LinkAssumption DEF Missions, Clients
<1>2. Content \in Contents
  <2>1. mission \in Missions /\ missionState \in MissionStates /\ lifecycle \in Lifecycles
    BY <1>1 DEF Init, ManagerInit, MissionStates, Lifecycles
  <2>2. active \in Tasks \cup {NoTask} /\ completed \in Nat /\ progress \in Fractions
    BY DEF Init, ManagerInit, Fractions
  <2>3. robotMode \in RobotModes /\ latched \in BOOLEAN /\ latchRev \in Nat
    BY DEF Init, ManagerInit, RobotModes
  <2>4. order \in Seq(Tasks) /\ taskState \in [Tasks -> TaskStates] /\ prio \in [Tasks -> Int]
    BY QueueTypes DEF Init, ManagerInit
  <2> QED BY <2>1, <2>2, <2>3, <2>4, ContentFields
<1>3. arb \in Arbiters(Missions)
  <2>1. NewArbiter(1) \in Arbiters(Missions)
    BY <1>1, NewArbiterType
  <2> QED BY <1>1, <2>1, RefreshType DEF Init, ManagerInit, RobotModes
<1>4. LinkTypeOK
  BY <1>1 DEF Init, LinkInit, LinkTypeOK
<1>5. ExecTypeOK
  BY IdleGoalType DEF Init, ExecInit, ExecTypeOK, Phases
<1> QED
  BY <1>2, <1>3, <1>4, <1>5 DEF TypeOK, Init, ManagerInit, Velocities

(* The executor takes goals as they come and returns results of its goal.  *)
LEMMA TypeExecutor ==
  ASSUME TypeOK, ExecNext, UNCHANGED managerVars
  PROVE  TypeOK'
<1>1. LinkTypeOK /\ ExecTypeOK /\ RuntimeTypeOK /\ ClientTypeOK /\ OutputTypeOK /\ ProcessTypeOK
  BY TypeParts
<1>2. RuntimeTypeOK' /\ ClientTypeOK' /\ OutputTypeOK' /\ ProcessTypeOK'
  BY <1>1 DEF managerVars, runtimeVars, clientVars, flagVars, velocityVars, processVars,
              RuntimeTypeOK, ClientTypeOK, OutputTypeOK, ProcessTypeOK, Content
<1>3. ASSUME NEW nav \in {"SUCCEEDED", "FAILED", "CANCELLED"}, Return(nav)
      PROVE  /\ phase' \in Phases /\ goal' \in Goals /\ cancelRequested' \in BOOLEAN
             /\ execLatched' \in BOOLEAN /\ result' \in Results \cup {NoResult}
  <2>1. Outcome(nav) \in Outcomes
    BY <1>1 DEF Outcome, Outcomes, ExecTypeOK
  <2>2. [task |-> goal.task, mission |-> goal.mission, outcome |-> Outcome(nav)] \in Results
    BY <1>1, <2>1 DEF Results, ExecTypeOK, Goals
  <2> QED BY <1>1, <1>3, <2>2, IdleGoalType DEF Return, ExecTypeOK, LinkTypeOK, Phases
<1>4. Progress => feedback' \in SUBSET Feedbacks
  BY <1>1 DEF Progress, LinkTypeOK, ExecTypeOK, Goals, Feedbacks
<1>5. LinkTypeOK' /\ ExecTypeOK'
  <2>1. ASSUME NEW g \in goalReqs, ReceiveGoal(g) PROVE LinkTypeOK' /\ ExecTypeOK'
    <3>1. LinkTypeOK'
      BY <1>1, <2>1 DEF ReceiveGoal, LinkTypeOK
    <3>2. g \in Goals
      BY <1>1 DEF LinkTypeOK
    <3>3. ExecTypeOK'
      BY <1>1, <2>1, <3>2 DEF ReceiveGoal, ExecTypeOK, Phases
    <3> QED BY <3>1, <3>3
  <2>2. CASE BeginExecution
    BY <1>1, <1>3, <1>4, <2>2 DEF BeginExecution, LinkTypeOK, ExecTypeOK, Phases
  <2>3. CASE NavAnswers
    BY <1>1, <1>3, <2>3 DEF NavAnswers, LinkTypeOK, ExecTypeOK, Phases, Interrupted
  <2>4. ASSUME NEW nav \in {"SUCCEEDED", "FAILED", "CANCELLED"}, NavFinishes(nav)
        PROVE  LinkTypeOK' /\ ExecTypeOK'
    BY <1>1, <1>3, <2>4 DEF NavFinishes, LinkTypeOK, ExecTypeOK
  <2>5. ASSUME NEW v \in NavVelocities, NavDrives(v) PROVE LinkTypeOK' /\ ExecTypeOK'
    BY <1>1, <2>5, ExecutorAssumption DEF NavDrives, LinkTypeOK, ExecTypeOK, execVars
  <2>6. ASSUME NEW c \in cancels, ReceiveCancel(c) PROVE LinkTypeOK' /\ ExecTypeOK'
    BY <1>1, <2>6 DEF ReceiveCancel, LinkTypeOK, ExecTypeOK
  <2>7. CASE ReceiveStaleCancel
    BY <1>1, <2>7 DEF ReceiveStaleCancel, LinkTypeOK, ExecTypeOK, execVars
  <2>8. CASE OnMissionState
    BY <1>1, <2>8 DEF OnMissionState, LinkTypeOK, ExecTypeOK, linkVars
  <2> QED BY <2>1, <2>2, <2>3, <2>4, <2>5, <2>6, <2>7, <2>8 DEF ExecNext
<1> QED BY <1>2, <1>5, TypeParts
(***************************************************************************)
(* The task manager.  Every handler is a step below; those that publish    *)
(* rest on the lemmas about _publish, _dispatch_execution_snapshot and     *)
(* _cancel_execution_goal.                                                 *)
(***************************************************************************)
AllTypes ==
  LinkTypeOK /\ ExecTypeOK /\ RuntimeTypeOK /\ ClientTypeOK /\ OutputTypeOK /\ ProcessTypeOK

(* A new mission is well typed (manage("start")).                          *)
LEMMA TypeFresh ==
  ASSUME AllTypes, Start
  PROVE  /\ mission' \in Missions /\ active' \in Tasks \cup {NoTask} /\ completed' \in Nat
         /\ progress' \in Fractions /\ robotMode' \in RobotModes /\ latched' \in BOOLEAN
         /\ latchRev' \in Nat /\ order' \in Seq(Tasks) /\ taskState' \in [Tasks -> TaskStates]
         /\ prio' \in [Tasks -> Int] /\ cooling' \in BOOLEAN /\ usedRevisions' \in SUBSET Nat
<1>1. mission' \in Missions
  BY LinkAssumption, ContentFields DEF AllTypes, RuntimeTypeOK, Start, FreshQueue, Missions
<1>2. << 0, 1 >> \in Fractions /\ [t \in Tasks |-> 0] \in [Tasks -> Int]
  BY DEF Fractions
<1>3. /\ active' = NoTask /\ completed' = 0 /\ progress' = << 0, 1 >> /\ cooling' = FALSE
      /\ order' = InitialOrder /\ taskState' = InitialState /\ prio' = [t \in Tasks |-> 0]
      /\ latchRev' = 0 /\ UNCHANGED << robotMode, latched, usedRevisions >>
  BY DEF Start, FreshQueue
<1>4. robotMode \in RobotModes /\ latched \in BOOLEAN /\ usedRevisions \in SUBSET Nat
  BY ContentFields DEF AllTypes, RuntimeTypeOK
<1> QED
  BY <1>1, <1>2, <1>3, <1>4, QueueTypes

(* The services and the manual velocity topic (_manage_mission, ...).      *)
LEMMA TypeOperator ==
  ASSUME AllTypes, OperatorCommand, UNCHANGED execVars
  PROVE  AllTypes'
<1> USE DEF AllTypes
<1>1. Content \in Contents /\ cooling \in BOOLEAN /\ usedRevisions \in SUBSET Nat
  BY DEF RuntimeTypeOK
<1>2. ExecTypeOK'
  BY DEF ExecTypeOK, execVars
<1>3. Halted \in Arbiters(Missions) /\ "zero" \in Velocities
  BY RecordPublishedType DEF Halted, Velocities, OutputTypeOK
<1>4. CASE ManageStart
  <2>1. RuntimeTypeOK'
    BY <1>4, TypeFresh, ContentFields DEF ManageStart, MissionStates, Lifecycles, RuntimeTypeOK
  <2>2. OutputTypeOK' /\ snapshot' \in BOOLEAN
    <3>1. mission' \in Missions /\ robotMode' \in RobotModes /\ latched' \in BOOLEAN
      BY <2>1, ContentFields DEF RuntimeTypeOK
    <3>2. Refresh(arb, mission', FALSE, robotMode', latched') \in Arbiters(Missions)
      BY <3>1, RefreshType DEF OutputTypeOK
    <3> QED BY <1>3, <1>4, <2>1, <3>2, PublishType DEF ManageStart, OutputTypeOK
  <2>3. goalReqs' \in SUBSET Goals /\ sendFuture' \in BOOLEAN /\ dispatched' \in BOOLEAN
    BY <1>4, <2>1, DispatchType DEF ManageStart
  <2>4. cancels' \in SUBSET Clients /\ cancelFuture' \in BOOLEAN
    BY <1>4, CancelGoalType DEF ManageStart
  <2>5. LinkTypeOK' /\ ClientTypeOK' /\ ProcessTypeOK'
    BY <1>4, <2>2, <2>3, <2>4 DEF ManageStart, LinkTypeOK, ClientTypeOK, ProcessTypeOK, flagVars
  <2> QED BY <1>2, <2>1, <2>2, <2>5
<1>5. CASE ManagePause \/ ManageStop
  <2>1. Halting
    BY <1>5 DEF ManagePause, ManageStop
  <2>2. RuntimeTypeOK'
    BY <1>1, <1>5, ContentFields
       DEF ManagePause, ManageStop, Halting, MissionStates, Lifecycles, RuntimeTypeOK
  <2>3. OutputTypeOK' /\ snapshot' \in BOOLEAN
    BY <1>3, <2>1, <2>2, PublishType DEF Halting
  <2>4. goalReqs' \in SUBSET Goals /\ sendFuture' \in BOOLEAN /\ dispatched' \in BOOLEAN
    BY <2>1, <2>2, DispatchType DEF Halting
  <2>5. cancels' \in SUBSET Clients /\ cancelFuture' \in BOOLEAN
    BY <2>1, CancelGoalType DEF Halting
  <2>6. LinkTypeOK' /\ ClientTypeOK' /\ ProcessTypeOK'
    BY <2>1, <2>3, <2>4, <2>5 DEF Halting, LinkTypeOK, ClientTypeOK, ProcessTypeOK
  <2> QED BY <1>2, <2>2, <2>3, <2>6
<1>6. CASE ManageResume
  <2>1. RuntimeTypeOK'
    BY <1>1, <1>6, ContentFields DEF ManageResume, MissionStates, RuntimeTypeOK
  <2>2. OutputTypeOK' /\ snapshot' \in BOOLEAN
    BY <1>6, <2>1, PublishType DEF ManageResume, OutputTypeOK
  <2>3. goalReqs' \in SUBSET Goals /\ sendFuture' \in BOOLEAN /\ dispatched' \in BOOLEAN
    BY <1>6, <2>1, DispatchType DEF ManageResume
  <2>4. cancels' \in SUBSET Clients /\ cancelFuture' \in BOOLEAN
    BY <1>6, CancelGoalType DEF ManageResume
  <2>5. LinkTypeOK' /\ ClientTypeOK' /\ ProcessTypeOK'
    BY <1>6, <2>2, <2>3, <2>4 DEF ManageResume, LinkTypeOK, ClientTypeOK, ProcessTypeOK, flagVars
  <2> QED BY <1>2, <2>1, <2>2, <2>5
<1>7. CASE BarrierRefuses
  <2>1. RuntimeTypeOK'
    BY <1>7 DEF BarrierRefuses, runtimeVars, RuntimeTypeOK, Content
  <2>2. OutputTypeOK' /\ ProcessTypeOK'
    BY <1>3, <1>7 DEF BarrierRefuses, processVars, OutputTypeOK, ProcessTypeOK
  <2>3. cancels' \in SUBSET Clients /\ cancelFuture' \in BOOLEAN /\ InFlight \in BOOLEAN
    BY <1>7, CancelGoalType DEF BarrierRefuses, InFlight, ClientTypeOK
  <2>4. LinkTypeOK'
    BY <1>7, <2>3 DEF BarrierRefuses, LinkTypeOK
  <2>5. ClientTypeOK'
    BY <1>7, <2>3 DEF BarrierRefuses, ClientTypeOK
  <2> QED BY <1>2, <2>1, <2>2, <2>4, <2>5
<1>8. ASSUME BarrierPasses, robotMode' \in RobotModes, latched' \in BOOLEAN PROVE AllTypes'
  <2>1. RuntimeTypeOK'
    BY <1>1, <1>8, ContentFields DEF BarrierPasses, RuntimeTypeOK
  <2>2. OutputTypeOK' /\ snapshot' \in BOOLEAN
    BY <1>3, <1>8, <2>1, PublishType DEF BarrierPasses
  <2>3. LinkTypeOK' /\ ClientTypeOK' /\ ProcessTypeOK'
    BY <1>8, <2>1, <2>2, DispatchType
       DEF BarrierPasses, LinkTypeOK, ClientTypeOK, ProcessTypeOK
  <2> QED BY <1>2, <2>1, <2>2, <2>3
<1>9. ASSUME NEW target \in {"AUTONOMOUS", "MANUAL"}, SetRobotMode(target) PROVE AllTypes'
  <2>1. target \in RobotModes /\ latched \in BOOLEAN
    BY <1>1, ContentFields DEF RobotModes
  <2> QED BY <1>7, <1>8, <1>9, <2>1 DEF SetRobotMode
<1>10. ASSUME NEW observed \in 1 .. MaxLatches, ResetStop(observed) PROVE AllTypes'
  BY <1>7, <1>8, <1>10, "MANUAL" \in RobotModes DEF ResetStop, RobotModes
<1>11. CASE EmergencyStop
  <2>1. latchRev' \in Nat
    BY <1>1, <1>11, ContentFields DEF EmergencyStop
  <2>2. RuntimeTypeOK'
    BY <1>1, <1>11, <2>1, ContentFields DEF EmergencyStop, RobotModes, RuntimeTypeOK
  <2>3. OutputTypeOK' /\ snapshot' \in BOOLEAN
    BY <1>3, <1>11, <2>2, PublishType DEF EmergencyStop
  <2>4. LinkTypeOK' /\ ClientTypeOK' /\ ProcessTypeOK'
    BY <1>11, <2>3, CancelGoalType
       DEF EmergencyStop, NoDispatch, InFlight, LinkTypeOK, ClientTypeOK, ProcessTypeOK
  <2> QED BY <1>2, <2>2, <2>3, <2>4
<1>12. ASSUME NEW v \in Velocities, NEW d \in 1 .. ManualHold, OnManualVelocity(v, d)
       PROVE  AllTypes'
  <2>1. AcceptManual(arb, v, d) \in Arbiters(Missions)
    BY StepTypes DEF OutputTypeOK
  <2> QED
    BY <1>1, <1>2, <1>12, <2>1
       DEF OnManualVelocity, velocityFrame, runtimeVars, clientVars, flagVars, processVars,
           LinkTypeOK, ClientTypeOK, ProcessTypeOK, OutputTypeOK, RuntimeTypeOK, Content
<1> QED BY <1>4, <1>5, <1>6, <1>9, <1>10, <1>11, <1>12 DEF OperatorCommand
(* A risk sample (_on_risk).                                               *)
LEMMA TypeRisk ==
  ASSUME AllTypes, RiskUpdate, UNCHANGED execVars
  PROVE  AllTypes'
<1> USE DEF AllTypes
<1>1. Content \in Contents /\ cooling \in BOOLEAN /\ usedRevisions \in SUBSET Nat
  BY DEF RuntimeTypeOK
<1>2. ExecTypeOK'
  BY DEF ExecTypeOK, execVars
<1>3. PICK scores \in RiskMessages : EmergencyRisk(scores) \/ NormalRisk(scores)
  BY DEF RiskUpdate
<1>4. scores \in [Assets -> Nat]
  BY ManagerAssumption
<1>5. /\ order' \in Seq(Tasks) /\ prio' \in [Tasks -> Int] /\ taskState' \in [Tasks -> TaskStates]
      /\ active' \in Tasks \cup {NoTask} /\ cooling' \in BOOLEAN
      /\ \E replace \in BOOLEAN : RiskApplied(replace)
  <2>1. CASE EmergencyRisk(scores)
    <3>1. PICK a \in EmergencyAssets(scores) :
            /\ prio' = [prio EXCEPT ![EmergencyTask(a)] = ComputedPriority(EmergencyTask(a), scores[a])]
            /\ order' \in Orders(ToSet(order) \cup {EmergencyTask(a)})
            /\ \/ taskState' = Demoted(EmergencyQueued(EmergencyTask(a), taskState))
               \/ taskState' = EmergencyQueued(EmergencyTask(a), taskState)
            /\ active' \in {NoTask, active}
      BY <2>1 DEF EmergencyRisk
    <3>2. a \in Assets /\ EmergencyTask(a) \in Tasks /\ scores[a] \in Nat
      BY <1>4, QueueTypes DEF EmergencyAssets
    <3>3. ComputedPriority(EmergencyTask(a), scores[a]) \in Int
      BY <3>2, QueueTypes
    <3>4. prio' \in [Tasks -> Int]
      BY <1>1, <3>1, <3>3, ContentFields
    <3>5. taskState' \in [Tasks -> TaskStates]
      <4>1. taskState \in [Tasks -> TaskStates]
        BY <1>1, ContentFields
      <4>2. EmergencyQueued(EmergencyTask(a), taskState) \in [Tasks -> TaskStates]
        BY <3>2, <4>1, QueueTypes
      <4>3. Demoted(EmergencyQueued(EmergencyTask(a), taskState)) \in [Tasks -> TaskStates]
        BY <4>2, QueueTypes
      <4> QED BY <3>1, <4>2, <4>3
    <3>6. order' \in Seq(Tasks)
      BY <3>1 DEF Orders
    <3>7. active' \in Tasks \cup {NoTask} /\ cooling' \in BOOLEAN
      BY <1>1, <2>1, <3>1, ContentFields DEF EmergencyRisk
    <3>8. RiskApplied(~ActivePreserved)
      BY <2>1 DEF EmergencyRisk
    <3> QED BY <3>4, <3>5, <3>6, <3>7, <3>8
  <2>2. CASE NormalRisk(scores)
    <3>1. prio' = RiskPriorities(prio, taskState, scores)
      BY <2>2 DEF NormalRisk
    <3>2. \A t \in Tasks : ComputedPriority(t, scores[AssetOf(t)]) \in Int
      BY <1>4, QueueTypes DEF Tasks, AssetOf
    <3>3. prio' \in [Tasks -> Int]
      BY <1>1, <3>1, <3>2, ContentFields DEF RiskPriorities
    <3>4. order' \in Seq(Tasks) /\ cooling' \in BOOLEAN
      BY <2>2 DEF NormalRisk, Orders
    <3>5. taskState' \in [Tasks -> TaskStates] /\ active' \in Tasks \cup {NoTask}
      BY <1>1, <2>2, ContentFields DEF NormalRisk
    <3>6. RiskApplied(~ActivePreserved)
      BY <2>2 DEF NormalRisk
    <3> QED BY <3>3, <3>4, <3>5, <3>6
  <2> QED BY <1>3, <2>1, <2>2
<1>6. PICK replace \in BOOLEAN : RiskApplied(replace)
  BY <1>5
<1>7. RuntimeTypeOK'
  BY <1>1, <1>5, <1>6, ContentFields DEF RiskApplied, RuntimeTypeOK
<1>8. OutputTypeOK' /\ snapshot' \in BOOLEAN
  BY <1>6, <1>7, PublishType DEF RiskApplied, OutputTypeOK
<1>9. /\ goalReqs' \in SUBSET Goals /\ sendFuture' \in BOOLEAN /\ dispatched' \in BOOLEAN
      /\ cancels' \in SUBSET Clients /\ cancelFuture' \in BOOLEAN /\ replacement' \in BOOLEAN
  <2>1. CASE replace /\ InFlight
    BY <1>6, <2>1, CancelGoalType DEF RiskApplied, NoDispatch, LinkTypeOK, ClientTypeOK
  <2>2. CASE ~(replace /\ InFlight) /\ replace
    BY <1>6, <1>7, <2>2, CancelGoalType, DispatchType DEF RiskApplied, ClientTypeOK
  <2>3. CASE ~replace
    BY <1>6, <2>3 DEF RiskApplied, NoDispatch, LinkTypeOK, ClientTypeOK
  <2> QED BY <2>1, <2>2, <2>3
<1>10. LinkTypeOK'
  BY <1>6, <1>8, <1>9 DEF RiskApplied, LinkTypeOK
<1>11. ClientTypeOK' /\ ProcessTypeOK'
  BY <1>6, <1>9 DEF RiskApplied, ClientTypeOK, ProcessTypeOK
<1> QED BY <1>2, <1>7, <1>8, <1>10, <1>11

(* The publish timer, discovery, goal and cancel responses.                *)
LEMMA TypeClient ==
  ASSUME AllTypes, UNCHANGED execVars,
         PublishTimer \/ ServerDiscovered \/ OnGoalResponse \/ OnCancelled
  PROVE  AllTypes'
<1> USE DEF AllTypes
<1>1. ExecTypeOK'
  BY DEF ExecTypeOK, execVars
<1>2. CASE PublishTimer
  <2>1. RuntimeTypeOK'
    BY <1>2 DEF PublishTimer, runtimeVars, RuntimeTypeOK, Content
  <2>2. OutputTypeOK' /\ snapshot' \in BOOLEAN
    BY <1>2, <2>1, PublishType DEF PublishTimer, OutputTypeOK
  <2>3. goalReqs' \in SUBSET Goals /\ sendFuture' \in BOOLEAN /\ dispatched' \in BOOLEAN
    BY <1>2, <2>1, DispatchType DEF PublishTimer, ClientTypeOK
  <2>4. cancels' \in SUBSET Clients /\ cancelFuture' \in BOOLEAN
    BY <1>2, CancelGoalType DEF PublishTimer
  <2>5. LinkTypeOK' /\ ClientTypeOK' /\ ProcessTypeOK'
    BY <1>2, <2>2, <2>3, <2>4 DEF PublishTimer, LinkTypeOK, ClientTypeOK, ProcessTypeOK, flagVars
  <2> QED BY <1>1, <2>1, <2>2, <2>5
<1>3. CASE ServerDiscovered
  <2>1. RuntimeTypeOK' /\ OutputTypeOK'
    BY <1>3 DEF ServerDiscovered, runtimeVars, velocityVars, RuntimeTypeOK, OutputTypeOK, Content
  <2>2. LinkTypeOK' /\ ClientTypeOK' /\ ProcessTypeOK'
    BY <1>3 DEF ServerDiscovered, linkVars, clientVars, flagVars, LinkTypeOK, ClientTypeOK, ProcessTypeOK
  <2> QED BY <1>1, <2>1, <2>2
<1>4. CASE OnGoalResponse
  <2>1. RuntimeTypeOK' /\ OutputTypeOK' /\ ProcessTypeOK'
    BY <1>4 DEF OnGoalResponse, runtimeVars, velocityVars, processVars, RuntimeTypeOK,
                OutputTypeOK, ProcessTypeOK, Content
  <2>2. LinkTypeOK' /\ ClientTypeOK'
    BY <1>4 DEF OnGoalResponse, flagVars, LinkTypeOK, ClientTypeOK
  <2> QED BY <1>1, <2>1, <2>2
<1>5. CASE OnCancelled
  <2>1. RuntimeTypeOK' /\ OutputTypeOK' /\ ProcessTypeOK'
    BY <1>5 DEF OnCancelled, runtimeVars, velocityVars, processVars, RuntimeTypeOK,
                OutputTypeOK, ProcessTypeOK, Content
  <2>2. LinkTypeOK' /\ ClientTypeOK'
    BY <1>5 DEF OnCancelled, flagVars, LinkTypeOK, ClientTypeOK
  <2> QED BY <1>1, <2>1, <2>2
<1> QED BY <1>2, <1>3, <1>4, <1>5
(* A result (_on_execution_result).                                        *)
LEMMA TypeResult ==
  ASSUME AllTypes, UNCHANGED execVars, OnResult
  PROVE  AllTypes'
<1> USE DEF AllTypes
<1>1. Content \in Contents /\ cooling \in BOOLEAN /\ usedRevisions \in SUBSET Nat
  BY DEF RuntimeTypeOK
<1>2. ExecTypeOK'
  BY DEF ExecTypeOK, execVars
<1>3. ResultHandled /\ replacement' \in BOOLEAN
  BY DEF OnResult, ResultReplaced, ResultLatched, ResultApplied, ClientTypeOK
<1>4. /\ RuntimeTypeOK'
      /\ OutputTypeOK' /\ snapshot' \in BOOLEAN
  <2>1. ASSUME UNCHANGED << missionState, lifecycle, active, completed, progress, taskState,
                            velocityVars, saved, snapshot >>
        PROVE  RuntimeTypeOK' /\ OutputTypeOK' /\ snapshot' \in BOOLEAN
    BY <1>3, <2>1 DEF ResultHandled, RuntimeTypeOK, OutputTypeOK, LinkTypeOK, velocityVars, Content
  <2>2. ASSUME CanFinish, FinishExecution(result.outcome), Publish(arb, cmdVel), result # NoResult
        PROVE  RuntimeTypeOK' /\ OutputTypeOK' /\ snapshot' \in BOOLEAN
    <3>1. result.outcome \in Outcomes
      BY <2>2 DEF LinkTypeOK, Results
    <3>2. active \in Tasks
      BY <1>1, <2>2, ContentFields DEF CanFinish
    <3>3. taskState' \in [Tasks -> TaskStates]
      <4>1. TerminalState(result.outcome) \in TaskStates
        BY <3>1 DEF TerminalState, TaskStates, Outcomes
      <4>2. taskState' = [taskState EXCEPT ![active] = TerminalState(result.outcome)]
        BY <2>2 DEF FinishExecution, Finish
      <4> QED BY <1>1, <4>1, <4>2, ContentFields
    <3>4. completed' \in Nat /\ progress' \in Fractions
      BY <1>1, <2>2, InNat, ContentFields DEF FinishExecution, Finish, Fractions
    <3>5. missionState' \in MissionStates /\ lifecycle' \in Lifecycles /\ active' = NoTask
      BY <1>1, <2>2, ContentFields DEF FinishExecution, Finish, MissionStates, Lifecycles
    <3>6. RuntimeTypeOK'
      BY <1>1, <1>3, <3>3, <3>4, <3>5, ContentFields DEF ResultHandled, RuntimeTypeOK
    <3> QED BY <2>2, <3>6, PublishType DEF OutputTypeOK
  <2> QED BY <2>1, <2>2 DEF OnResult, ResultReplaced, ResultLatched, ResultApplied
<1>5. goalReqs' \in SUBSET Goals /\ sendFuture' \in BOOLEAN /\ dispatched' \in BOOLEAN
  BY <1>4, DispatchType
     DEF OnResult, ResultReplaced, ResultLatched, ResultApplied, NoDispatch, LinkTypeOK, ClientTypeOK
<1>6. LinkTypeOK'
  BY <1>3, <1>4, <1>5 DEF ResultHandled, LinkTypeOK
<1>7. ClientTypeOK' /\ ProcessTypeOK'
  BY <1>3, <1>5 DEF ResultHandled, ClientTypeOK, ProcessTypeOK
<1> QED BY <1>2, <1>4, <1>6, <1>7

(* Feedback (_on_execution_feedback).                                      *)
LEMMA TypeFeedback ==
  ASSUME AllTypes, UNCHANGED execVars, NEW f \in feedback, OnFeedback(f)
  PROVE  AllTypes'
<1> USE DEF AllTypes
<1>1. Content \in Contents /\ cooling \in BOOLEAN /\ usedRevisions \in SUBSET Nat
  BY DEF RuntimeTypeOK
<1>2. ExecTypeOK'
  BY DEF ExecTypeOK, execVars
<1>3. CASE TaskBecomesActive(f)
  <2>1. f.task \in Tasks
    BY DEF LinkTypeOK, Feedbacks
  <2>2. taskState' \in [Tasks -> TaskStates]
    <3>1. Demoted(taskState) \in [Tasks -> TaskStates]
      BY <1>1, QueueTypes, ContentFields
    <3>2. taskState' = [Demoted(taskState) EXCEPT ![f.task] = "ACTIVE"]
      BY <1>3 DEF OnFeedback
    <3> QED BY <3>1, <3>2 DEF TaskStates
  <2>3. active' \in Tasks \cup {NoTask} /\ progress' \in Fractions
    BY <1>1, <1>3, <2>1, ContentFields DEF OnFeedback, Fractions
  <2>4. RuntimeTypeOK'
    BY <1>1, <2>2, <2>3, ContentFields DEF OnFeedback, RuntimeTypeOK
  <2>5. OutputTypeOK' /\ snapshot' \in BOOLEAN
    BY <1>3, <2>4, PublishType DEF OnFeedback, OutputTypeOK
  <2>6. LinkTypeOK'
    BY <2>5 DEF OnFeedback, LinkTypeOK
  <2>7. ClientTypeOK' /\ ProcessTypeOK'
    BY <1>3 DEF OnFeedback, flagVars, ClientTypeOK, ProcessTypeOK
  <2> QED BY <1>2, <2>4, <2>5, <2>6, <2>7
<1>4. CASE ~TaskBecomesActive(f)
  <2>1. RuntimeTypeOK' /\ OutputTypeOK'
    BY <1>4 DEF OnFeedback, RuntimeTypeOK, OutputTypeOK, velocityVars, Content
  <2>2. LinkTypeOK' /\ ClientTypeOK' /\ ProcessTypeOK'
    BY <1>4 DEF OnFeedback, flagVars, LinkTypeOK, ClientTypeOK, ProcessTypeOK
  <2> QED BY <1>2, <2>1, <2>2
<1> QED BY <1>3, <1>4

(* Velocities, deadlines and time.                                         *)
LEMMA TypeVelocity ==
  ASSUME AllTypes, UNCHANGED execVars,
         OnNavVelocity \/ VelocityTick \/ Elapse \/ CooldownEnds
  PROVE  AllTypes'
<1> USE DEF AllTypes
<1>1. ExecTypeOK'
  BY DEF ExecTypeOK, execVars
<1>2. CASE CooldownEnds
  <2>1. RuntimeTypeOK' /\ OutputTypeOK' /\ ProcessTypeOK'
    BY <1>2 DEF CooldownEnds, velocityVars, processVars, RuntimeTypeOK, OutputTypeOK,
                ProcessTypeOK, Content
  <2>2. LinkTypeOK' /\ ClientTypeOK'
    BY <1>2 DEF CooldownEnds, linkVars, clientVars, flagVars, LinkTypeOK, ClientTypeOK
  <2> QED BY <1>1, <2>1, <2>2
<1>3. ASSUME UNCHANGED velocityFrame, arb' \in Arbiters(Missions), cmdVel' \in Velocities,
             navVel' \in {"none", navVel}
      PROVE  AllTypes'
  <2>1. RuntimeTypeOK' /\ OutputTypeOK' /\ ProcessTypeOK'
    BY <1>3 DEF velocityFrame, runtimeVars, processVars, RuntimeTypeOK, OutputTypeOK,
                ProcessTypeOK, Content
  <2>2. LinkTypeOK' /\ ClientTypeOK'
    BY <1>3 DEF velocityFrame, clientVars, flagVars, LinkTypeOK, ClientTypeOK
  <2> QED BY <1>1, <2>1, <2>2
<1>4. arb \in Arbiters(Missions) /\ cmdVel \in Velocities /\ "zero" \in Velocities
  BY DEF OutputTypeOK, Velocities
<1>5. CASE OnNavVelocity
  <2>1. navVel \in Velocities
    BY <1>5 DEF OnNavVelocity, LinkTypeOK, Velocities
  <2>2. AcceptNav(arb, navVel) \in Arbiters(Missions)
    BY <1>4, <2>1, StepTypes, OneTick
  <2> QED BY <1>3, <1>4, <1>5, <2>1, <2>2 DEF OnNavVelocity, velocityVars
<1>6. CASE VelocityTick
  BY <1>3, <1>4, <1>6, StepTypes, OneTick DEF VelocityTick
<1>7. CASE Elapse
  BY <1>3, <1>4, <1>7, StepTypes, OneTick DEF Elapse
<1> QED BY <1>2, <1>5, <1>6, <1>7

(* Crashes and restarts (load_or_create_runtime).                          *)
LEMMA TypeProcess ==
  ASSUME AllTypes, UNCHANGED execVars,
         Crash \/ CrashInStart \/ RevisionConflict \/ RestartSame \/ RestartOther
  PROVE  AllTypes'
<1> USE DEF AllTypes
<1>1. Content \in Contents /\ saved \in Contents /\ cooling \in BOOLEAN /\ usedRevisions \in SUBSET Nat
  BY DEF RuntimeTypeOK, OutputTypeOK
<1>2. ExecTypeOK'
  BY DEF ExecTypeOK, execVars
<1>3. mission \in Missions
  BY <1>1, ContentFields
<1>4. CASE Crash \/ RevisionConflict
  <2>1. Dies /\ UNCHANGED saved /\ client < MaxCrashes
    BY <1>4 DEF Crash, RevisionConflict, MayDie
  <2>2. LinkTypeOK'
    BY <2>1, ClientDiesType DEF Dies
  <2>3. RuntimeTypeOK' /\ ClientTypeOK' /\ ProcessTypeOK'
    BY <2>1 DEF Dies, runtimeVars, RuntimeTypeOK, ClientTypeOK, ProcessTypeOK, Content
  <2>4. OutputTypeOK'
    BY <1>3, <2>1, NewArbiterType DEF Dies, OutputTypeOK
  <2> QED BY <1>2, <2>2, <2>3, <2>4
<1>5. CASE CrashInStart
  <2>1. RuntimeTypeOK'
    BY <1>5, TypeFresh, ContentFields DEF CrashInStart, MissionStates, Lifecycles, RuntimeTypeOK
  <2>2. LinkTypeOK'
    BY <1>5, ClientDiesType DEF CrashInStart, MayDie
  <2>3. ClientTypeOK' /\ ProcessTypeOK'
    BY <1>5 DEF CrashInStart, ClientTypeOK, ProcessTypeOK
  <2>4. OutputTypeOK'
    <3>1. mission' \in Missions
      BY <2>1, ContentFields DEF RuntimeTypeOK
    <3> QED BY <1>5, <2>1, <3>1, NewArbiterType DEF CrashInStart, OutputTypeOK, RuntimeTypeOK
  <2> QED BY <1>2, <2>1, <2>2, <2>3, <2>4
<1>6. ASSUME mission' \in Missions, robotMode' \in RobotModes, latched' \in BOOLEAN,
             arb' = StartedArbiter
      PROVE  arb' \in Arbiters(Missions)
  <2>1. NewArbiter(mission') \in Arbiters(Missions)
    BY <1>6, NewArbiterType
  <2> QED BY <1>6, <2>1, RefreshType DEF StartedArbiter
<1>7. ASSUME RuntimeTypeOK', Restart, arb' = StartedArbiter,
             snapshot' \in BOOLEAN, saved' \in Contents
      PROVE  AllTypes'
  <2>1. OutputTypeOK'
    BY <1>6, <1>7, ContentFields DEF Restart, OutputTypeOK, RuntimeTypeOK
  <2>2. LinkTypeOK'
    BY <1>7 DEF Restart, LinkTypeOK
  <2>3. ClientTypeOK' /\ ProcessTypeOK'
    BY <1>7 DEF Restart, clientVars, flagVars, ClientTypeOK, ProcessTypeOK
  <2> QED BY <1>2, <1>7, <2>1, <2>2, <2>3
<1>8. CASE RestartSame
  <2>1. /\ saved.mission \in Missions /\ saved.missionState \in MissionStates
        /\ saved.lifecycle \in Lifecycles /\ saved.completed \in Nat /\ saved.progress \in Fractions
        /\ saved.robotMode \in RobotModes /\ saved.latched \in BOOLEAN /\ saved.latchRev \in Nat
        /\ saved.order \in Seq(Tasks) /\ saved.taskState \in [Tasks -> TaskStates]
        /\ saved.prio \in [Tasks -> Int]
    BY <1>1 DEF Contents
  <2>2. Demoted(saved.taskState) \in [Tasks -> TaskStates]
    BY <2>1, QueueTypes
  <2>3. missionState' \in MissionStates /\ lifecycle' \in Lifecycles
    BY <1>8, <2>1 DEF RestartSame, MissionStates, Lifecycles
  <2>4. RuntimeTypeOK'
    BY <1>1, <1>8, <2>1, <2>2, <2>3, ContentFields DEF RestartSame, RuntimeTypeOK
  <2>5. snapshot' \in BOOLEAN /\ saved' \in Contents
    BY <1>1, <1>8, <2>1, <2>4 DEF RestartSame, RuntimeTypeOK, LinkTypeOK
  <2> QED BY <1>7, <1>8, <2>4, <2>5 DEF RestartSame
<1>9. CASE RestartOther
  <2>1. /\ saved.robotMode \in RobotModes /\ saved.latched \in BOOLEAN /\ saved.latchRev \in Nat
    BY <1>1 DEF Contents
  <2>2. robotMode' \in RobotModes /\ latched' \in BOOLEAN /\ latchRev' \in Nat
    BY <1>9, <2>1 DEF RestartOther, InheritSafety, RobotModes
  <2>3. << 0, 1 >> \in Fractions /\ [t \in Tasks |-> 0] \in [Tasks -> Int]
    BY DEF Fractions
  <2>4. /\ active' = NoTask /\ completed' = 0 /\ progress' = << 0, 1 >> /\ cooling' = FALSE
        /\ order' = InitialOrder /\ taskState' = InitialState /\ prio' = [t \in Tasks |-> 0]
        /\ missionState' = "RUNNING" /\ lifecycle' = "ACTIVE" /\ UNCHANGED usedRevisions
    BY <1>9 DEF RestartOther, FreshQueue
  <2>5. mission' \in Missions
    BY <1>3, <1>9, LinkAssumption DEF RestartOther, FreshQueue, Missions
  <2>6. RuntimeTypeOK'
    BY <1>1, <2>2, <2>3, <2>4, <2>5, QueueTypes, ContentFields
       DEF RuntimeTypeOK, MissionStates, Lifecycles
  <2>7. snapshot' \in BOOLEAN /\ saved' \in Contents
    BY <1>9, <2>2, <2>6 DEF RestartOther, RuntimeTypeOK
  <2> QED BY <1>7, <1>9, <2>6, <2>7 DEF RestartOther
<1> QED BY <1>4, <1>5, <1>8, <1>9

(* Every step keeps the types.                                             *)
LEMMA TypeStep == TypeOK /\ [Next]_vars => TypeOK'
<1> SUFFICES ASSUME TypeOK, [Next]_vars PROVE TypeOK'
  OBVIOUS
<1>1. AllTypes
  BY TypeParts DEF AllTypes
<1>2. AllTypes' => TypeOK'
  BY TypeParts DEF AllTypes
<1>3. CASE UNCHANGED vars
  <2>1. RuntimeTypeOK' /\ OutputTypeOK' /\ ProcessTypeOK'
    BY <1>1, <1>3 DEF AllTypes, vars, managerVars, runtimeVars, velocityVars, processVars,
                      RuntimeTypeOK, OutputTypeOK, ProcessTypeOK, Content
  <2>2. LinkTypeOK' /\ ClientTypeOK' /\ ExecTypeOK'
    BY <1>1, <1>3 DEF AllTypes, vars, managerVars, linkVars, clientVars, flagVars, execVars,
                      LinkTypeOK, ClientTypeOK, ExecTypeOK
  <2> QED BY <1>2, <2>1, <2>2 DEF AllTypes
<1>4. CASE ExecNext /\ UNCHANGED managerVars
  BY <1>4, TypeExecutor
<1>5. CASE ManagerNext /\ UNCHANGED execVars
  <2>1. AllTypes'
    BY <1>1, <1>5, TypeOperator, TypeRisk, TypeClient, TypeResult, TypeFeedback, TypeVelocity,
       TypeProcess DEF ManagerNext
  <2> QED BY <1>2, <2>1
<1> QED BY <1>3, <1>4, <1>5 DEF Next

(* Every variable keeps its type, also past the bounds that TLC uses.      *)
THEOREM TypeCorrect == Spec => []TypeOK
  BY TypeInit, TypeStep, PTL DEF Spec
===================================================================================
